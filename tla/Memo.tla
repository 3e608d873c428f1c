-------------------------------- MODULE Memo --------------------------------
(***************************************************************************)
(* What the dedupe cache promises the pipeline: for every key at most one  *)
(* caller works, callers that find it working get exactly its result, and  *)
(* a result may be reused until it is forgotten, a failure never.  When    *)
(* results are forgotten is left open.  A result is <<"ok", value>>.       *)
(***************************************************************************)
CONSTANT Threads

VARIABLES role,  \* t -> what the caller is doing
          key,   \* t -> the key of its call
          got,   \* t -> what a waiting caller has been handed
          memo   \* key -> Running or a finished result

vars == <<role, key, got, memo>>

Running == <<"running">>
Failed  == <<"failed">>
None    == <<>>

Ok(v) == <<"ok", v>>

Init ==
  /\ role = [t \in Threads |-> "idle"]
  /\ key = [t \in Threads |-> None]
  /\ got = [t \in Threads |-> None]
  /\ memo = << >>

Finished(m) == {k \in DOMAIN m : m[k] # Running}
Without(m, F) == [k \in DOMAIN m \ F |-> m[k]]
With(m, k, r) == [j \in DOMAIN m \cup {k} |-> IF j = k THEN r ELSE m[j]]

Start(t, k, r) ==
  /\ role[t] = "idle"
  /\ role' = [role EXCEPT ![t] = r]
  /\ key' = [key EXCEPT ![t] = k]

Leave(t) ==
  /\ role' = [role EXCEPT ![t] = "idle"]
  /\ key' = [key EXCEPT ![t] = None]

\* A caller finds the key and waits for its result, or takes it.
Join(t, k) ==
  \E F \in SUBSET Finished(memo) :
    /\ k \in DOMAIN memo \ F
    /\ Start(t, k, "waiting")
    /\ got' = [got EXCEPT ![t] = memo[k]]
    /\ memo' = Without(memo, F)

\* It does not, and works for everybody who asks meanwhile.
Lead(t, k) ==
  \E F \in SUBSET Finished(memo) :
    /\ k \notin DOMAIN memo \ F
    /\ Start(t, k, "leading")
    /\ memo' = With(Without(memo, F), k, Running)
    /\ UNCHANGED got

\* It does not, and there is no room: it works for itself.
Bypass(t, k) ==
  \E F \in SUBSET Finished(memo) :
    /\ k \notin DOMAIN memo \ F
    /\ Start(t, k, "uncached")
    /\ memo' = Without(memo, F)
    /\ UNCHANGED got

\* Mutated form: those who wait are not told.
FinishSilently(t, r) ==
  /\ role[t] = "leading"
  /\ Leave(t)
  /\ memo' = Without(memo, {key[t]})
  /\ UNCHANGED got

\* The work ends with result r, which everybody waiting for it gets.
Finish(t, r) ==
  /\ role[t] = "leading"
  /\ Leave(t)
  /\ got' = [u \in Threads |->
               IF role[u] = "waiting" /\ key[u] = key[t] /\ got[u] = Running
               THEN r ELSE got[u]]
  /\ LET m == [memo EXCEPT ![key[t]] = r] IN
     \E F \in SUBSET Finished(m) :
       /\ r = Failed => key[t] \in F
       /\ memo' = Without(m, F)

Receive(t) ==
  /\ role[t] = "waiting"
  /\ got[t] # Running
  /\ Leave(t)
  /\ got' = [got EXCEPT ![t] = None]
  /\ UNCHANGED memo

Return(t) ==
  /\ role[t] = "uncached"
  /\ Leave(t)
  /\ UNCHANGED <<got, memo>>

\* Calls with keys from K whose work gives a value from V or fails.
Next(K, V) ==
  \E t \in Threads :
    \/ \E k \in K : Join(t, k) \/ Lead(t, k) \/ Bypass(t, k)
    \/ \E r \in {Failed} \cup {Ok(v) : v \in V} : Finish(t, r)
    \/ Receive(t) \/ Return(t)
=============================================================================
