----------------------------- MODULE Generations -----------------------------
(***************************************************************************)
(* The configuration generations of the token saver service.               *)
(*                                                                         *)
(* saver.Service publishes one immutable generation per successful         *)
(* Reconfigure.  A generation that enables Headroom owns a client whose    *)
(* idle connections must be closed exactly once, after the generation has  *)
(* been retired and the last call that pinned it has let go.  Callers pin  *)
(* a generation with a counter under service.mu, but everything slow (the  *)
(* factory, the work, the metrics hook and the closer itself) runs outside *)
(* that lock.  One action below is one critical section of service.mu (or  *)
(* of registry.mu) or one call made outside of it.                         *)
(***************************************************************************)
EXTENDS Integers, FiniteSets

CONSTANTS Threads,        \* goroutines that call into the service
          MaxGeneration   \* bound on the number of reconfigurations

ASSUME GenerationsAssumption == /\ IsFiniteSet(Threads)
                                /\ MaxGeneration \in Nat

Generation == 0..MaxGeneration

VARIABLES
  closed,      \* service.closed
  current,     \* service.current.generation
  next,        \* service.next
  runner,      \* g -> generationState.headroom and .close are set
  inflight,    \* g -> generationState.inflight
  retired,     \* g -> generationState.retired
  shut,        \* g -> generationState.closed
  closeCalls,  \* g -> how often the closer of g has run
  open,        \* Headroom clients constructed and not closed yet
  mCurrent,    \* registry.current
  mPrevious,   \* registry.previous
  mKeys,       \* keys of registry.inflight
  mInflight,   \* registry.inflight (0 for an absent key)
  pc,          \* t -> where the goroutine is
  ref          \* t -> the generation it pinned or must close

serviceVars == <<closed, current, next, runner, inflight, retired, shut>>
metricVars  == <<mCurrent, mPrevious, mKeys, mInflight>>
clientVars  == <<closeCalls, open>>
vars == <<serviceVars, clientVars, metricVars, pc, ref>>

\* idle         outside the service
\* building     in options.HeadroomFactory
\* ready, built before the lock section of Reconfigure, without/with a client
\* discarding   about to close a client the closed service refused
\* normalizing  in Normalize, between acquire and release
\* released     unpinned, before endMetric; lastOut also holds the closer
\* probing      in HeadroomStatus or HeadroomSnapshot
\* closing      about to run the closer of ref[t]
Labels == {"idle", "building", "ready", "built", "discarding",
           "normalizing", "released", "lastOut", "probing", "closing"}

\* A call that pins its generation: Normalize between acquire and release,
\* HeadroomStatus and HeadroomSnapshot between their lock sections.
Holding == {"normalizing", "probing"}

\* A Normalize call the metrics registry still counts.
Counted == {"normalizing", "released", "lastOut"}

Holders(g)   == {t \in Threads : pc[t] \in Holding /\ ref[t] = g}
CountedOn(g) == {t \in Threads : pc[t] \in Counted /\ ref[t] = g}
\* Goroutines that have been handed the closer of g and have not run it yet.
Closers(g)   == {t \in Threads : pc[t] \in {"closing", "lastOut"} /\ ref[t] = g}
Installing   == {t \in Threads : pc[t] \in {"building", "ready", "built"}}
-----------------------------------------------------------------------------
\* NewService: a safe-off generation 0 with no client.
Init ==
  /\ closed = FALSE
  /\ current = 0
  /\ next = 0
  /\ runner = [g \in Generation |-> FALSE]
  /\ inflight = [g \in Generation |-> 0]
  /\ retired = [g \in Generation |-> FALSE]
  /\ shut = [g \in Generation |-> FALSE]
  /\ closeCalls = [g \in Generation |-> 0]
  /\ open = 0
  /\ mCurrent = 0
  /\ mPrevious = 0
  /\ mKeys = {}
  /\ mInflight = [g \in Generation |-> 0]
  /\ pc = [t \in Threads |-> "idle"]
  /\ ref = [t \in Threads |-> 0]

\* Mutated forms of the operations below, each a slip the code could have
\* made: pins not looked at, count not lowered.
ClosableWhilePinned(isRetired, pins, isShut, hasClose) ==
  isRetired /\ ~isShut /\ hasClose
MinusForgotten(n) == n

\* closableLocked: the closer is handed out once, when the generation is
\* retired and unpinned.  Arguments are the values the lock section leaves.
Closable(isRetired, pins, isShut, hasClose) ==
  isRetired /\ pins = 0 /\ ~isShut /\ hasClose

\* state.inflight-- and registry.inflight[generation]--, never below zero.
Minus(n) == IF n > 0 THEN n - 1 ELSE 0

\* The goroutine's continuation once it has left the lock.
GoClose(t, g, due) ==
  /\ pc' = [pc EXCEPT ![t] = IF due THEN "closing" ELSE "idle"]
  /\ ref' = [ref EXCEPT ![t] = IF due THEN g ELSE @]
-----------------------------------------------------------------------------
\* Reconfigure up to the factory call; a configuration without Headroom
\* constructs no client.  MaxGeneration bounds the generations under way.
ReconfigureStart(t, h) ==
  /\ pc[t] = "idle"
  /\ next + Cardinality(Installing) < MaxGeneration
  /\ pc' = [pc EXCEPT ![t] = IF h THEN "building" ELSE "ready"]
  /\ UNCHANGED <<serviceVars, clientVars, metricVars, ref>>

\* options.HeadroomFactory returned a runner and its closer.
FactoryReturns(t) ==
  /\ pc[t] = "building"
  /\ open' = open + 1
  /\ pc' = [pc EXCEPT ![t] = "built"]
  /\ UNCHANGED <<serviceVars, closeCalls, metricVars, ref>>

\* Mutated form: the closer of a failed factory is called regardless.
FactoryFailsClosing(t) ==
  /\ pc[t] = "building"
  /\ open' = open - 1
  /\ pc' = [pc EXCEPT ![t] = "idle"]
  /\ UNCHANGED <<serviceVars, closeCalls, metricVars, ref>>

\* The factory failed, or returned no runner and had its closer called at
\* once: Reconfigure returns an error and changes nothing.
FactoryFails(t) ==
  /\ pc[t] = "building"
  /\ pc' = [pc EXCEPT ![t] = "idle"]
  /\ UNCHANGED <<serviceVars, clientVars, metricVars, ref>>

\* Mutated forms: the stale key is never dropped, or dropped in use.
PublishGenerationKeeping(g) ==
  /\ mPrevious' = mCurrent
  /\ mCurrent' = g
  /\ UNCHANGED <<mKeys, mInflight>>
PublishGenerationForgetting(g) ==
  /\ mPrevious' = mCurrent
  /\ mCurrent' = g
  /\ mKeys' = mKeys \ {mPrevious}
  /\ mInflight' = [mInflight EXCEPT ![mPrevious] = 0]

\* registry.PublishGeneration(g), called under service.mu.
PublishGeneration(g) ==
  IF mCurrent = g
  THEN UNCHANGED metricVars
  ELSE /\ mPrevious' = mCurrent
       /\ mCurrent' = g
       /\ mKeys' = IF /\ mPrevious # g
                      /\ mPrevious # mCurrent
                      /\ mInflight[mPrevious] = 0
                   THEN mKeys \ {mPrevious}
                   ELSE mKeys
       /\ UNCHANGED mInflight

\* The lock section of Reconfigure on an open service: install the next
\* generation, retire the old one, take its closer if nobody pins it.
Publish(t) ==
  /\ pc[t] \in {"ready", "built"}
  /\ ~closed
  /\ LET old == current
         due == Closable(TRUE, inflight[old], shut[old], runner[old])
     IN  /\ next' = next + 1
         /\ current' = next + 1
         /\ runner' = [runner EXCEPT ![next + 1] = (pc[t] = "built")]
         /\ retired' = [retired EXCEPT ![old] = TRUE]
         /\ shut' = [shut EXCEPT ![old] = @ \/ due]
         /\ PublishGeneration(next + 1)
         /\ GoClose(t, old, due)
  /\ UNCHANGED <<closed, inflight, clientVars>>

\* Mutated form: the client of a refused configuration is dropped unclosed.
PublishRefusedLeaking(t) ==
  /\ pc[t] \in {"ready", "built"}
  /\ closed
  /\ pc' = [pc EXCEPT ![t] = "idle"]
  /\ UNCHANGED <<serviceVars, clientVars, metricVars, ref>>

\* Reconfigure finds the service closed: the new client, if any, is to be
\* closed again outside the lock, and an error is returned.
PublishRefused(t) ==
  /\ pc[t] \in {"ready", "built"}
  /\ closed
  /\ pc' = [pc EXCEPT ![t] = IF @ = "built" THEN "discarding" ELSE "idle"]
  /\ UNCHANGED <<serviceVars, clientVars, metricVars, ref>>

Discard(t) ==
  /\ pc[t] = "discarding"
  /\ open' = open - 1
  /\ pc' = [pc EXCEPT ![t] = "idle"]
  /\ UNCHANGED <<serviceVars, closeCalls, metricVars, ref>>
-----------------------------------------------------------------------------
\* service.acquire of Normalize: pin the current generation and, still under
\* service.mu, count it in the registry (registry.Begin).
Acquire(t) ==
  /\ pc[t] = "idle"
  /\ ~closed
  /\ inflight' = [inflight EXCEPT ![current] = @ + 1]
  /\ mKeys' = mKeys \cup {current}
  /\ mInflight' = [mInflight EXCEPT ![current] = @ + 1]
  /\ pc' = [pc EXCEPT ![t] = "normalizing"]
  /\ ref' = [ref EXCEPT ![t] = current]
  /\ UNCHANGED <<closed, current, next, runner, retired, shut, clientVars,
                 mCurrent, mPrevious>>

\* First half of the release hook: unpin under service.mu and take the
\* closer if this was the last pin of a retired generation.
Release(t) ==
  /\ pc[t] = "normalizing"
  /\ LET g    == ref[t]
         left == Minus(inflight[g])
         due  == Closable(retired[g], left, shut[g], runner[g])
     IN  /\ inflight' = [inflight EXCEPT ![g] = left]
         /\ shut' = [shut EXCEPT ![g] = @ \/ due]
         /\ pc' = [pc EXCEPT ![t] = IF due THEN "lastOut" ELSE "released"]
  /\ UNCHANGED <<closed, current, next, runner, retired, clientVars,
                 metricVars, ref>>

\* Second half: the registry's completion hook, outside service.mu, which
\* also drops the key of a generation nobody can ask about any more.
EndMetric(t) ==
  /\ pc[t] \in {"released", "lastOut"}
  /\ LET g    == ref[t]
         left == Minus(mInflight[g])
     IN  /\ mInflight' = [mInflight EXCEPT ![g] = left]
         /\ mKeys' = IF left = 0 /\ g # mCurrent /\ g # mPrevious
                     THEN mKeys \ {g}
                     ELSE mKeys
         /\ GoClose(t, g, pc[t] = "lastOut")
  /\ UNCHANGED <<serviceVars, clientVars, mCurrent, mPrevious>>

\* HeadroomStatus and HeadroomSnapshot pin the current generation when it
\* wants Headroom, but are not counted as requests.
StatusAcquire(t) ==
  /\ pc[t] = "idle"
  /\ ~closed
  /\ runner[current]
  /\ inflight' = [inflight EXCEPT ![current] = @ + 1]
  /\ pc' = [pc EXCEPT ![t] = "probing"]
  /\ ref' = [ref EXCEPT ![t] = current]
  /\ UNCHANGED <<closed, current, next, runner, retired, shut, clientVars,
                 metricVars>>

\* releaseStatusState.
StatusRelease(t) ==
  /\ pc[t] = "probing"
  /\ LET g    == ref[t]
         left == Minus(inflight[g])
         due  == Closable(retired[g], left, shut[g], runner[g])
     IN  /\ inflight' = [inflight EXCEPT ![g] = left]
         /\ shut' = [shut EXCEPT ![g] = @ \/ due]
         /\ GoClose(t, g, due)
  /\ UNCHANGED <<closed, current, next, runner, retired, clientVars,
                 metricVars>>

\* Service.Close, which may be called more than once.
CloseService(t) ==
  /\ pc[t] = "idle"
  /\ closed' = TRUE
  /\ retired' = [retired EXCEPT ![current] = TRUE]
  /\ LET due == Closable(TRUE, inflight[current], shut[current],
                         runner[current])
     IN  /\ shut' = [shut EXCEPT ![current] = @ \/ due]
         /\ GoClose(t, current, due)
  /\ UNCHANGED <<current, next, runner, inflight, clientVars, metricVars>>

\* The closer runs outside every lock: client.CloseIdleConnections.
CallCloser(t) ==
  /\ pc[t] = "closing"
  /\ closeCalls' = [closeCalls EXCEPT ![ref[t]] = @ + 1]
  /\ open' = open - 1
  /\ pc' = [pc EXCEPT ![t] = "idle"]
  /\ UNCHANGED <<serviceVars, metricVars, ref>>
-----------------------------------------------------------------------------
\* A step a goroutine takes to finish the call it is in.
Progress(t) ==
  \/ FactoryReturns(t) \/ FactoryFails(t)
  \/ Publish(t) \/ PublishRefused(t) \/ Discard(t)
  \/ Release(t) \/ EndMetric(t) \/ StatusRelease(t)
  \/ CallCloser(t)

\* A new call into the service.
Call(t) ==
  \/ \E h \in BOOLEAN : ReconfigureStart(t, h)
  \/ Acquire(t) \/ StatusAcquire(t) \/ CloseService(t)

Next == \E t \in Threads : Progress(t) \/ Call(t)

Spec == Init /\ [][Next]_vars

\* Every goroutine inside a call is eventually scheduled, and the work it
\* does while it pins a generation is bounded by the Headroom timeout.
FairSpec == Spec /\ \A t \in Threads : WF_vars(Progress(t))
-----------------------------------------------------------------------------
\* The fields have the types the Go structs give them, counters are not
\* negative, and a goroutine is at one of the labels.
TypeOK ==
  /\ closed \in BOOLEAN
  /\ current \in Generation /\ next \in Generation
  /\ runner \in [Generation -> BOOLEAN]
  /\ inflight \in [Generation -> Nat]
  /\ retired \in [Generation -> BOOLEAN]
  /\ shut \in [Generation -> BOOLEAN]
  /\ closeCalls \in [Generation -> Nat]
  /\ open \in Nat
  /\ mCurrent \in Generation /\ mPrevious \in Generation
  /\ mKeys \in SUBSET Generation
  /\ mInflight \in [Generation -> Nat]
  /\ pc \in [Threads -> Labels]
  /\ ref \in [Threads -> Generation]

\* No request or status probe ever works with a client whose connections
\* have been closed under it, however many reconfigurations and closes
\* overtake the call (acquire, release and closableLocked).
NotClosedWhileHeld ==
  \A t \in Threads : pc[t] \in Holding => closeCalls[ref[t]] = 0

\* The closer of a generation runs at most once and is held by at most one
\* goroutine, although Reconfigure, release, releaseStatusState and every
\* repeated Close compete for it.
ClosedOnce ==
  \A g \in Generation :
    closeCalls[g] + Cardinality(Closers(g)) = (IF shut[g] THEN 1 ELSE 0)

\* A retired generation with a client that nobody pins has been handed to a
\* closer: whoever lets go last, no interleaving forgets it.
NoRetiredLeak ==
  \A g \in Generation :
    retired[g] /\ runner[g] /\ Holders(g) = {} => shut[g]

\* Once the service is closed and every call has returned, every client any
\* Reconfigure ever constructed has been closed, including those built
\* while Close overtook them.
NoClientLeaked ==
  closed /\ (\A t \in Threads : pc[t] = "idle") => open = 0

\* The registry counts exactly the Normalize calls between Begin and their
\* completion hook, per generation, and only for keys it holds.
RequestsCounted ==
  \A g \in Generation :
    /\ mInflight[g] = Cardinality(CountedOn(g))
    /\ mInflight[g] > 0 => g \in mKeys

\* The registry's map stays bounded by the current and the previous
\* generation and the generations still in use: reconfiguring for the life
\* of a process does not grow it.
MetricsBounded ==
  mKeys \subseteq {mCurrent, mPrevious} \cup
                  {g \in Generation : mInflight[g] > 0}

\* The phase of a generation's client, as ClientLease sees it.
LeasePhase ==
  [g \in Generation |-> IF closeCalls[g] > 0 THEN "closed"
                        ELSE IF retired[g] THEN "retired"
                        ELSE IF g <= next THEN "live"
                        ELSE "absent"]

LeaseUsers == [g \in Generation |-> Holders(g)]

Lease == INSTANCE ClientLease
           WITH Users <- Threads, Last <- MaxGeneration,
                phase <- LeasePhase, users <- LeaseUsers

\* The service keeps the promise of ClientLease: its counters, hooks and
\* deferred closers only ever install, lend, take back and close as it says.
LeaseRefined == Lease!LeaseSpec

\* docs/vps-rollout.md, section 5: after stages are disabled the operator
\* waits for the "old in-flight count to reach zero".  The count shown is
\* that of registry.previous; read as a promise it says that no request of
\* any earlier generation is running once it is zero.
DrainObservable ==
  mInflight[mPrevious] = 0 =>
    \A t \in Threads : pc[t] = "normalizing" => ref[t] = mCurrent

\* A retired client is eventually closed: requests, probes and late
\* reconfigurations can delay its closer but not starve it.
RetiredClientCloses ==
  \A g \in Generation :
    (retired[g] /\ runner[g]) ~> (closeCalls[g] = 1)
=============================================================================
