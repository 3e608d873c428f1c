------------------------------- MODULE Dedupe -------------------------------
(***************************************************************************)
(* The bounded single-flight cache in front of the RTK and Headroom stages *)
(* (saver.dedupeCache).  Equal requests in flight share one execution,     *)
(* completed results are kept for a TTL under an entry and a byte budget,  *)
(* and a table full of unfinished work makes further calls run uncached.   *)
(* A call reads the clock before it takes cache.mu; one action below is    *)
(* that read, one critical section of cache.mu, or the wait on done.       *)
(* A result is abstracted to its length and to whether the work succeeded. *)
(***************************************************************************)
EXTENDS Integers, FiniteSets, FiniteSetsExt

CONSTANTS Threads,      \* goroutines that call Do
          Keys,         \* request digests
          Lengths,      \* lengths of results
          MaxEntries,   \* dedupeMaxEntries
          MaxBytes,     \* dedupeMaxBytes
          MaxItem,      \* dedupeMaxItemBytes
          TTL,          \* dedupeTTL
          MaxSequence,  \* bound on cache.sequence
          MaxClock      \* bound on the clock

ASSUME DedupeAssumption ==
  /\ IsFiniteSet(Threads)
  /\ Lengths \subseteq Nat
  /\ MaxEntries \in Nat \ {0}
  /\ TTL \in Nat \ {0}
  /\ {MaxBytes, MaxItem, MaxSequence, MaxClock} \subseteq Nat

Sequence == 1..MaxSequence
NoEntry  == 0

VARIABLES
  entry,       \* sequence number -> the dedupeEntry created with it
  live,        \* sequence numbers of the entries in cache.entries
  sequence,    \* cache.sequence
  totalBytes,  \* cache.totalBytes
  doneAt,      \* history: sequence number -> the time its work was done
  clock,       \* what cache.now() returns
  pc,          \* t -> where the goroutine is in Do
  key,         \* t -> the key it asked for
  now,         \* t -> the time it read before taking cache.mu, kept while it
               \*      waits, then 0
  at           \* t -> the entry it leads or waits for

cacheVars == <<entry, live, sequence, totalBytes, doneAt>>
callVars  == <<key, now, at>>
vars == <<cacheVars, clock, pc, callVars>>

\* idle      outside Do
\* arrived   has read the clock, wants cache.mu
\* waiting   blocked on existing.done
\* leading   runs the work for the entry it created
\* uncached  runs the work because the table is full
Labels == {"idle", "arrived", "waiting", "leading", "uncached"}

\* A fresh dedupeEntry for key k; the other fields are set on completion.
NewEntry(k) == [key |-> k, complete |-> FALSE, ok |-> FALSE, len |-> 0,
                expiresAt |-> 0]

Init ==
  /\ \E k \in Keys : entry = [n \in Sequence |-> NewEntry(k)]
  /\ live = {}
  /\ sequence = 0
  /\ totalBytes = 0
  /\ doneAt = [n \in Sequence |-> 0]
  /\ clock = 0
  /\ pc = [t \in Threads |-> "idle"]
  /\ \E k \in Keys : key = [t \in Threads |-> k]
  /\ now = [t \in Threads |-> 0]
  /\ at = [t \in Threads |-> NoEntry]
-----------------------------------------------------------------------------
\* Bytes the entries of S hold.
Bytes(e, S) == MapThenSumSet(LAMBDA n : e[n].len, S)

\* Mutated form: removal forgets to give the bytes back.
MinusForgotten(total, e, S) == total

\* removeLocked applied to the completed entries of S; never below zero.
Minus(total, e, S) ==
  LET left == total - Bytes(e, S) IN IF left < 0 THEN 0 ELSE left

\* Mutated form: an entry outlives its TTL by one tick.
ExpiredLate(time) ==
  {n \in live : entry[n].complete /\ entry[n].expiresAt < time}

\* expireLocked(time).
Expired(time) ==
  {n \in live : entry[n].complete /\ entry[n].expiresAt <= time}

\* L without its completed entries older than m: the states the eviction
\* loops pass through, since oldestCompletedLocked picks the least sequence.
Without(e, L, m) == {n \in L : ~e[n].complete \/ n >= m}

\* makeRoomLocked: drop the oldest completed entries until one slot is free
\* or none is left to drop.
RoomMade(L) ==
  LET enough == {m \in 1..(sequence + 1) :
                   Cardinality(Without(entry, L, m)) < MaxEntries}
  IN  Without(entry, L, IF enough = {} THEN sequence + 1 ELSE Min(enough))

\* enforceByteBudgetLocked: the same until totalBytes fits.
BudgetKept(e, L, total) ==
  LET enough == {m \in 1..(sequence + 1) :
                   Minus(total, e, L \ Without(e, L, m)) <= MaxBytes}
  IN  Without(e, L, IF enough = {} THEN sequence + 1 ELSE Min(enough))
-----------------------------------------------------------------------------
\* Do is called and reads the clock.  MaxSequence bounds the entries made.
Arrive(t, k) ==
  /\ pc[t] = "idle"
  /\ sequence + Cardinality({u \in Threads : pc[u] = "arrived"}) < MaxSequence
  /\ pc' = [pc EXCEPT ![t] = "arrived"]
  /\ key' = [key EXCEPT ![t] = k]
  /\ now' = [now EXCEPT ![t] = clock]
  /\ UNCHANGED <<cacheVars, clock, at>>

\* The entries the first lock section leaves after expireLocked, and those
\* among them for the key of t.
Swept(t)    == live \ Expired(now[t])
Existing(t) == {n \in Swept(t) : entry[n].key = key[t]}

\* First lock section, the key is present: wait for its entry.
Join(t) ==
  /\ pc[t] = "arrived"
  /\ \E n \in Existing(t) : at' = [at EXCEPT ![t] = n]
  /\ live' = Swept(t)
  /\ totalBytes' = Minus(totalBytes, entry, Expired(now[t]))
  /\ pc' = [pc EXCEPT ![t] = "waiting"]
  /\ UNCHANGED <<entry, sequence, doneAt, clock, key, now>>

\* First lock section, the key is absent and there is room for it.
Lead(t) ==
  /\ pc[t] = "arrived"
  /\ Existing(t) = {}
  /\ LET kept == RoomMade(Swept(t))
         n    == sequence + 1
     IN  /\ Cardinality(kept) < MaxEntries
         /\ live' = kept \cup {n}
         /\ totalBytes' = Minus(totalBytes, entry, live \ kept)
         /\ sequence' = n
         /\ entry' = [entry EXCEPT ![n] = NewEntry(key[t])]
         /\ at' = [at EXCEPT ![t] = n]
  /\ pc' = [pc EXCEPT ![t] = "leading"]
  /\ now' = [now EXCEPT ![t] = 0]
  /\ UNCHANGED <<doneAt, clock, key>>

\* First lock section, the key is absent and every slot holds unfinished
\* work: run without the cache.
RunUncached(t) ==
  /\ pc[t] = "arrived"
  /\ Existing(t) = {}
  /\ LET kept == RoomMade(Swept(t))
     IN  /\ Cardinality(kept) >= MaxEntries
         /\ live' = kept
         /\ totalBytes' = Minus(totalBytes, entry, live \ kept)
  /\ pc' = [pc EXCEPT ![t] = "uncached"]
  /\ now' = [now EXCEPT ![t] = 0]
  /\ UNCHANGED <<entry, sequence, doneAt, clock, key, at>>

\* Mutated form: a failed or oversized result stays in the table.
CompleteKeeping(t, len, ok) ==
  /\ pc[t] = "leading"
  /\ entry' = [entry EXCEPT ![at[t]] =
                 [@ EXCEPT !.complete = TRUE, !.ok = ok, !.len = len,
                           !.expiresAt = clock + TTL]]
  /\ doneAt' = [doneAt EXCEPT ![at[t]] = clock]
  /\ live' = BudgetKept(entry', live, totalBytes + len)
  /\ totalBytes' = Minus(totalBytes + len, entry', live \ live')
  /\ pc' = [pc EXCEPT ![t] = "idle"]
  /\ at' = [at EXCEPT ![t] = NoEntry]
  /\ UNCHANGED <<sequence, clock, key, now>>

\* Mutated form: a failure leaves the table without closing done.
CompleteSilently(t, len, ok) ==
  /\ pc[t] = "leading"
  /\ entry' = [entry EXCEPT ![at[t]] =
                 [@ EXCEPT !.complete = ok, !.ok = ok, !.len = len,
                           !.expiresAt = clock + TTL]]
  /\ doneAt' = [doneAt EXCEPT ![at[t]] = clock]
  /\ live' = IF ok THEN BudgetKept(entry', live, totalBytes + len)
                   ELSE {n \in live : entry[n].key # key[t]}
  /\ totalBytes' = IF ok THEN Minus(totalBytes + len, entry', live \ live')
                         ELSE totalBytes
  /\ pc' = [pc EXCEPT ![t] = "idle"]
  /\ at' = [at EXCEPT ![t] = NoEntry]
  /\ UNCHANGED <<sequence, clock, key, now>>

\* Second lock section: the work returned (ok), or failed or panicked with
\* no value (runDedupeWork); the waiters are released by close(entry.done).
Complete(t, len, ok) ==
  /\ pc[t] = "leading"
  /\ ~ok => len = 0
  /\ entry' = [entry EXCEPT ![at[t]] =
                 [@ EXCEPT !.complete = TRUE, !.ok = ok, !.len = len,
                           !.expiresAt = clock + TTL]]
  /\ doneAt' = [doneAt EXCEPT ![at[t]] = clock]
  /\ IF ~ok \/ len > MaxItem
     THEN /\ live' = {n \in live : entry[n].key # key[t]}
          /\ UNCHANGED totalBytes
     ELSE /\ live' = BudgetKept(entry', live, totalBytes + len)
          /\ totalBytes' = Minus(totalBytes + len, entry', live \ live')
  /\ pc' = [pc EXCEPT ![t] = "idle"]
  /\ at' = [at EXCEPT ![t] = NoEntry]
  /\ UNCHANGED <<sequence, clock, key, now>>

\* <-done: the entry a waiter holds is complete, in the table or not.
Receive(t) ==
  /\ pc[t] = "waiting"
  /\ entry[at[t]].complete
  /\ pc' = [pc EXCEPT ![t] = "idle"]
  /\ at' = [at EXCEPT ![t] = NoEntry]
  /\ now' = [now EXCEPT ![t] = 0]
  /\ UNCHANGED <<cacheVars, clock, key>>

\* The uncached work returned.
ReturnUncached(t) ==
  /\ pc[t] = "uncached"
  /\ pc' = [pc EXCEPT ![t] = "idle"]
  /\ UNCHANGED <<cacheVars, clock, callVars>>

Tick ==
  /\ clock < MaxClock
  /\ clock' = clock + 1
  /\ UNCHANGED <<cacheVars, pc, callVars>>

\* Nobody is inside Do and nobody calls: the cache is at rest.
Rest ==
  /\ \A t \in Threads : pc[t] = "idle"
  /\ UNCHANGED vars

Progress(t) ==
  \/ Join(t) \/ Lead(t) \/ RunUncached(t)
  \/ \E len \in Lengths \cup {0}, ok \in BOOLEAN : Complete(t, len, ok)
  \/ Receive(t) \/ ReturnUncached(t)

Next ==
  \/ \E t \in Threads : Progress(t) \/ \E k \in Keys : Arrive(t, k)
  \/ Tick
  \/ Rest

Spec == Init /\ [][Next]_vars
-----------------------------------------------------------------------------
Entry == [key : Keys, complete : BOOLEAN, ok : BOOLEAN, len : Nat,
          expiresAt : Nat]

\* Fields have their types and counters are not negative; part of BytesExact.
TypeOK ==
  /\ entry \in [Sequence -> Entry]
  /\ live \in SUBSET (1..sequence)
  /\ sequence \in 0..MaxSequence
  /\ totalBytes \in Nat
  /\ doneAt \in [Sequence -> Nat]
  /\ clock \in 0..MaxClock
  /\ pc \in [Threads -> Labels]
  /\ key \in [Threads -> Keys]
  /\ now \in [Threads -> Nat]
  /\ at \in [Threads -> 0..sequence]

\* Every waiter waits for its own key, for a result that is there or that a
\* leader is still computing: nobody waits on an orphaned entry.
WaitersHaveLeader ==
  \A t \in Threads :
    pc[t] = "waiting" =>
      /\ entry[at[t]].key = key[t]
      /\ \/ entry[at[t]].complete
         \/ \E u \in Threads : pc[u] = "leading" /\ at[u] = at[t]

\* totalBytes is exactly what the completed entries in the table hold,
\* through every combination of completion, expiry, eviction and failure, and
\* both budgets hold whenever cache.mu is free.
BytesExact ==
  /\ TypeOK
  /\ totalBytes = Bytes(entry, {n \in live : entry[n].complete})
  /\ totalBytes <= MaxBytes /\ Cardinality(live) <= MaxEntries

\* How long ago, by the clock, the work of entry n was done, and how long the
\* call of t has taken so far.
Age(n)   == clock - doneAt[n]
Spent(t) == clock - now[t]

\* The result a call is about to be handed is younger than the TTL and the time
\* the call itself has taken, whatever it waited for: the lock after it read
\* the clock, or the work of another.  So a result of the TTL or older goes to
\* no call that came after it had expired.
FreshReuse ==
  \A t \in Threads :
    pc[t] = "waiting" /\ entry[at[t]].complete => Age(at[t]) < TTL + Spent(t)

\* What an entry stands for in Memo.
Promised(n) == CASE ~entry[n].complete               -> <<"running">>
                 [] entry[n].complete /\ entry[n].ok -> <<"ok", <<n, entry[n].len>>>>
                 [] OTHER                            -> <<"failed">>

Inside(t) == pc[t] \in {"waiting", "leading", "uncached"}

Promise == INSTANCE Memo WITH
  role <- [t \in Threads |-> IF Inside(t) THEN pc[t] ELSE "idle"],
  key  <- [t \in Threads |-> IF Inside(t) THEN key[t] ELSE <<>>],
  got  <- [t \in Threads |-> IF pc[t] = "waiting" THEN Promised(at[t]) ELSE <<>>],
  memo <- [k \in {entry[n].key : n \in live} |->
             Promised(CHOOSE n \in live : entry[n].key = k)]

\* Expiry, eviction, the budgets and the two lock sections stay behind what
\* the pipeline is promised: one goroutine works per key, those that find it
\* working get exactly its result, and only a success is reused.
ImplementsMemo ==
  /\ Promise!Init
  /\ [][Promise!Next(Keys, Sequence \X (Lengths \cup {0}))]_(Promise!vars)
=============================================================================
