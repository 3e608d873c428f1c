---------------------------- MODULE DedupeProofs ----------------------------
(***************************************************************************)
(* Proofs about Dedupe for any finite set of goroutines, any keys, budgets *)
(* and lengths: the table is exact in bytes and entries, every waiter has  *)
(* a result to come, no result is handed out past its time, and the cache  *)
(* implements Memo.                                                        *)
(***************************************************************************)
EXTENDS Dedupe, ProofLemmas

Completed == {n \in live : entry[n].complete}

\* MaxSequence leaves room for an entry for everybody who has arrived.
Arrived == {t \in Threads : pc[t] = "arrived"}
Bounded == sequence + Cardinality(Arrived) <= MaxSequence

\* cache.entries is a map: a key has one entry.
KeysUnique ==
  \A m, n \in live : entry[m].key = entry[n].key => m = n

\* A leader's entry is in the table, under its key and unfinished: no expiry, no
\* eviction and no other completion takes it away.
LeadersHold ==
  \A t \in Threads :
    pc[t] = "leading" =>
      at[t] \in live /\ entry[at[t]].key = key[t] /\ ~entry[at[t]].complete

\* An entry has one leader, and an unfinished one in the table has one still.
OneLeader ==
  \A t, u \in Threads :
    pc[t] = "leading" /\ pc[u] = "leading" /\ at[t] = at[u] => t = u
Led ==
  \A n \in live :
    entry[n].complete \/ \E u \in Threads : pc[u] = "leading" /\ at[u] = n

\* A waiter has an entry.
Seated == \A t \in Threads : pc[t] = "waiting" => at[t] \in 1..sequence

\* The flights: who works on which entry and who waits for it.
Flights ==
  /\ KeysUnique /\ LeadersHold /\ OneLeader /\ Led
  /\ Seated /\ WaitersHaveLeader

\* The account: bytes and entries in the table.
Account ==
  /\ totalBytes = Bytes(entry, Completed)
  /\ totalBytes <= MaxBytes /\ Cardinality(live) <= MaxEntries

\* The clock: what a call has read is not in the future, an entry expires one TTL
\* after its work was done, and a waiter came before that.
Times ==
  /\ \A t \in Threads : now[t] <= clock
  /\ \A n \in live : entry[n].complete => entry[n].expiresAt = doneAt[n] + TTL
  /\ \A t \in Threads :
       pc[t] = "waiting" /\ entry[at[t]].complete => now[t] < doneAt[at[t]] + TTL

\* The inductive invariant.
IInv == TypeOK /\ Bounded /\ Flights /\ Account /\ Times
-----------------------------------------------------------------------------
\* The length of the result in every entry of e.
Lens(e) == [n \in Sequence |-> e[n].len]

\* Bytes is the sum of ProofLemmas over the lengths.
LEMMA BytesIsSum ==
  ASSUME NEW e, NEW S \in SUBSET Sequence
  PROVE  Bytes(e, S) = Weigh(Lens(e), S)
<1> DEFINE w == Lens(e)
           Body(g) == [s \in SUBSET S |-> IF s = {} THEN 0
                                         ELSE e[Picked(s)].len + g[s \ {Picked(s)}]]
<1>1. Bytes(e, S) = (CHOOSE g : g = Body(g))[S]
  BY DEF Bytes, MapThenSumSet, MapThenFoldSet, Picked
<1>2. \A n \in S : w[n] = e[n].len
  BY DEF Lens
<1> HIDE DEF w
<1>3. ASSUME NEW g, NEW s \in SUBSET S
      PROVE  (IF s = {} THEN 0 ELSE e[Picked(s)].len + g[s \ {Picked(s)}])
               = (IF s = {} THEN 0 ELSE w[Picked(s)] + g[s \ {Picked(s)}])
  BY <1>2, PickedIn
<1>4. \A g : g = Body(g) <=> SumsUp(g, w, S)
  BY <1>3 DEF SumsUp
<1>5. (CHOOSE g : g = Body(g)) = (CHOOSE g : SumsUp(g, w, S))
  BY <1>4
<1>6. QED
  BY <1>1, <1>5 DEF Weigh, w

\* Sets of sequence numbers are finite and entries have lengths.
LEMMA SumTypes ==
  ASSUME NEW e \in [Sequence -> Entry], NEW S \in SUBSET Sequence
  PROVE  /\ IsFiniteSet(S)
         /\ \A n \in S : Lens(e)[n] \in Nat
         /\ Bytes(e, S) \in Nat
<1>1. IsFiniteSet(Sequence)
  BY DedupeAssumption, FS_Interval DEF Sequence
<1>2. IsFiniteSet(S)
  BY <1>1, FS_Subset
<1>3. \A n \in S : Lens(e)[n] \in Nat
  BY DEF Lens, Entry
<1>4. Weigh(Lens(e), S) \in Nat
  BY <1>2, <1>3, WeighMember
<1>5. QED
  BY <1>2, <1>3, <1>4, BytesIsSum

\* Taking entries of S out of an exact total keeps it exact.
LEMMA MinusExact ==
  ASSUME NEW e \in [Sequence -> Entry], NEW S \in SUBSET Sequence,
         NEW R \in SUBSET S
  PROVE  /\ Minus(Bytes(e, S), e, R) = Bytes(e, S \ R)
         /\ Bytes(e, S \ R) <= Bytes(e, S)
<1>1. R \in SUBSET Sequence /\ S \ R \in SUBSET Sequence
  OBVIOUS
<1>2. /\ Bytes(e, S) \in Nat /\ Bytes(e, R) \in Nat /\ Bytes(e, S \ R) \in Nat
      /\ IsFiniteSet(S) /\ \A n \in S : Lens(e)[n] \in Nat
  BY <1>1, SumTypes
<1>3. Weigh(Lens(e), S) = Weigh(Lens(e), R) + Weigh(Lens(e), S \ R)
  BY <1>2, WeighSplit
<1>4. Bytes(e, S) = Bytes(e, R) + Bytes(e, S \ R)
  BY <1>1, <1>3, BytesIsSum
<1>5. QED
  BY <1>2, <1>4 DEF Minus

\* One entry more is its length more.
LEMMA OneEntryMore ==
  ASSUME NEW e \in [Sequence -> Entry], NEW S \in SUBSET Sequence,
         NEW n \in Sequence, n \notin S
  PROVE  Bytes(e, S \cup {n}) = Bytes(e, S) + e[n].len
<1> DEFINE T == S \cup {n}
<1>1. T \in SUBSET Sequence /\ T \ {n} = S /\ n \in T
  OBVIOUS
<1> HIDE DEF T
<1>2. IsFiniteSet(T) /\ \A x \in T : Lens(e)[x] \in Nat
  BY <1>1, SumTypes
<1>3. Weigh(Lens(e), T) = Lens(e)[n] + Weigh(Lens(e), T \ {n})
  BY <1>1, <1>2, WeighMember
<1>4. Lens(e)[n] = e[n].len
  BY DEF Lens
<1>5. Bytes(e, T) = e[n].len + Bytes(e, S)
  BY <1>1, <1>3, <1>4, BytesIsSum
<1>6. Bytes(e, S) \in Nat /\ e[n].len \in Nat
  BY SumTypes DEF Entry
<1>7. QED
  BY <1>5, <1>6 DEF T

\* The bytes of S depend on its entries only.
LEMMA SameBytes ==
  ASSUME NEW e \in [Sequence -> Entry], NEW f \in [Sequence -> Entry],
         NEW S \in SUBSET Sequence, \A n \in S : f[n].len = e[n].len
  PROVE  Bytes(f, S) = Bytes(e, S)
<1>1. IsFiniteSet(S) /\ \A n \in S : Lens(e)[n] \in Nat
  BY SumTypes
<1>2. \A n \in S : Lens(f)[n] = Lens(e)[n]
  BY DEF Lens
<1>3. Weigh(Lens(f), S) = Weigh(Lens(e), S)
  BY <1>1, <1>2, WeighSame
<1>4. QED
  BY <1>3, BytesIsSum
-----------------------------------------------------------------------------
\* The limits are numbers,
LEMMA Limits ==
  /\ MaxEntries \in Nat /\ MaxBytes \in Nat /\ MaxItem \in Nat
  /\ TTL \in Nat /\ MaxSequence \in Nat /\ MaxClock \in Nat
BY DedupeAssumption

\* and sequence numbers that were given out are below theirs.
LEMMA NumbersInRange ==
  ASSUME sequence \in Nat, sequence <= MaxSequence, NEW S \in SUBSET (1..sequence)
  PROVE  S \in SUBSET Sequence
BY Limits DEF Sequence

\* Making room drops completed entries only.
LEMMA RoomDrops ==
  ASSUME NEW L
  PROVE  RoomMade(L) \subseteq L /\ \A n \in L \ RoomMade(L) : entry[n].complete
<1>1. PICK m : RoomMade(L) = Without(entry, L, m)
  BY DEF RoomMade
<1>2. QED
  BY <1>1 DEF Without

\* Keeping the byte budget drops completed entries only, and keeps it.
LEMMA BudgetDrops ==
  ASSUME sequence \in Nat, sequence <= MaxSequence,
         NEW e \in [Sequence -> Entry], NEW L \in SUBSET (1..sequence),
         NEW total, total = Bytes(e, {n \in L : e[n].complete})
  PROVE  LET K == BudgetKept(e, L, total)
         IN  /\ K \subseteq L
             /\ \A n \in L \ K : e[n].complete
             /\ Minus(total, e, L \ K) <= MaxBytes
<1> DEFINE done   == {n \in L : e[n].complete}
           enough == {m \in 1..(sequence + 1) :
                        Minus(total, e, L \ Without(e, L, m)) <= MaxBytes}
<1>1. sequence + 1 \in enough
  <2>1. L \ Without(e, L, sequence + 1) = done
    <3>1. \A n \in L : ~(n >= sequence + 1)
      OBVIOUS
    <3>2. QED
      BY <3>1 DEF Without
  <2>2. done \in SUBSET Sequence /\ MaxBytes \in Nat
    BY Limits, NumbersInRange
  <2>3. Bytes(e, done) \in Nat
    BY <2>2, SumTypes
  <2>4. Minus(total, e, done) = 0
    BY <2>3 DEF Minus
  <2>5. sequence + 1 \in 1..(sequence + 1)
    OBVIOUS
  <2>6. QED
    <3>1. Minus(total, e, L \ Without(e, L, sequence + 1)) <= MaxBytes
      BY <2>1, <2>2, <2>4
    <3>2. QED
      BY <2>5, <3>1, Zenon
<1> HIDE DEF enough
<1>2. PICK m \in enough : BudgetKept(e, L, total) = Without(e, L, m)
  <2>1. BudgetKept(e, L, total) =
          Without(e, L, IF enough = {} THEN sequence + 1 ELSE Min(enough))
    BY DEF BudgetKept, enough
  <2>2. Min(enough) \in enough
    <3>1. enough \subseteq Nat /\ enough # {}
      <4>1. enough \subseteq 1..(sequence + 1)
        BY DEF enough
      <4>2. 1..(sequence + 1) \subseteq Nat
        OBVIOUS
      <4>3. QED
        BY <1>1, <4>1, <4>2
    <3>2. \E x \in enough : \A y \in enough : x <= y
      BY <3>1, NatLeast
    <3>3. QED
      BY <3>2 DEF Min
  <2>3. QED
    BY <1>1, <2>1, <2>2
<1>3. m \in 1..(sequence + 1) /\ Minus(total, e, L \ Without(e, L, m)) <= MaxBytes
  BY <1>2 DEF enough
<1>4. QED
  BY <1>2, <1>3 DEF Without

\* The first lock section: dropping completed entries leaves the account exact.
LEMMA SweepKeepsAccount ==
  ASSUME TypeOK, Account, NEW K \in SUBSET live, \A n \in live \ K : entry[n].complete
  PROVE  LET total == Minus(totalBytes, entry, live \ K)
         IN  /\ total = Bytes(entry, {n \in K : entry[n].complete})
             /\ total \in Nat /\ total <= MaxBytes
             /\ IsFiniteSet(K) /\ Cardinality(K) <= MaxEntries
<1> DEFINE R == live \ K
<1>1. Completed \in SUBSET Sequence /\ live \in SUBSET Sequence
  <2>1. live \in SUBSET (1..sequence) /\ sequence \in Nat /\ sequence <= MaxSequence
    BY Limits DEF TypeOK
  <2>2. live \in SUBSET Sequence
    BY <2>1, NumbersInRange
  <2>3. QED
    BY <2>2 DEF Completed
<1>2. R \in SUBSET Completed /\ Completed \ R = {n \in K : entry[n].complete}
  BY DEF Completed
<1> HIDE DEF R
<1>3. entry \in [Sequence -> Entry]
  BY DEF TypeOK
<1>4. /\ Minus(totalBytes, entry, R) = Bytes(entry, Completed \ R)
      /\ Bytes(entry, Completed \ R) <= totalBytes
  BY <1>1, <1>2, <1>3, MinusExact DEF Account
<1>5. /\ Bytes(entry, Completed \ R) \in Nat
      /\ totalBytes \in Nat /\ totalBytes <= MaxBytes /\ MaxBytes \in Nat
  BY <1>1, <1>2, <1>3, SumTypes, DedupeAssumption DEF TypeOK, Account
<1>6. IsFiniteSet(K) /\ Cardinality(K) <= MaxEntries
  <2>1. IsFiniteSet(live)
    BY <1>1, <1>3, SumTypes
  <2>2. IsFiniteSet(K) /\ Cardinality(K) <= Cardinality(live)
    BY <2>1, FS_Subset
  <2>3. Cardinality(K) \in Nat /\ Cardinality(live) \in Nat
    BY <2>1, <2>2, FS_CardinalityType
  <2>4. QED
    BY <2>2, <2>3, DedupeAssumption DEF Account
<1>7. Minus(totalBytes, entry, live \ K) = Bytes(entry, {n \in K : entry[n].complete})
  BY <1>2, <1>4 DEF R
<1>8. Bytes(entry, Completed \ R) <= MaxBytes
  BY <1>4, <1>5
<1>9. QED
  BY <1>2, <1>5, <1>6, <1>7, <1>8

\* The entry that a completion writes.
Done(n, len, ok) ==
  [entry EXCEPT ![n] = [@ EXCEPT !.complete = TRUE, !.ok = ok, !.len = len,
                                 !.expiresAt = clock + TTL]]

\* What a completion writes has its type and touches one entry.
LEMMA DoneEntry ==
  ASSUME TypeOK, NEW n \in Sequence, NEW len \in Nat, NEW ok \in BOOLEAN
  PROVE  /\ Done(n, len, ok) \in [Sequence -> Entry]
         /\ Done(n, len, ok)[n].key = entry[n].key
         /\ Done(n, len, ok)[n].complete
         /\ Done(n, len, ok)[n].ok = ok
         /\ Done(n, len, ok)[n].len = len
         /\ Done(n, len, ok)[n].expiresAt = clock + TTL
         /\ \A m \in Sequence \ {n} : Done(n, len, ok)[m] = entry[m]
<1>1. clock + TTL \in Nat
  BY DedupeAssumption DEF TypeOK
<1>2. QED
  BY <1>1 DEF TypeOK, Entry, Done

\* The second lock section: the account is exact again, whether the result is
\* kept under the budget or thrown away.
LEMMA CompleteKeepsAccount ==
  ASSUME TypeOK, Flights, Account, NEW t \in Threads,
         NEW len \in Lengths \cup {0}, NEW ok \in BOOLEAN, Complete(t, len, ok)
  PROVE  /\ live' \subseteq live
         /\ \A n \in live \ live' : entry'[n].complete
         /\ totalBytes' \in Nat
         /\ Account'
<1> DEFINE n == at[t]
           e == Done(n, len, ok)
<1>1. /\ n \in live /\ entry[n].key = key[t] /\ ~entry[n].complete
      /\ n \in Sequence /\ live \in SUBSET Sequence /\ sequence \in Nat
      /\ sequence <= MaxSequence /\ live \in SUBSET (1..sequence)
      /\ entry \in [Sequence -> Entry] /\ totalBytes \in Nat
      /\ MaxBytes \in Nat /\ MaxEntries \in Nat /\ len \in Nat
  BY DedupeAssumption DEF TypeOK, Flights, LeadersHold, Complete, Sequence
<1>2. entry' = e
  BY DEF Complete, Done
<1>3. /\ e \in [Sequence -> Entry]
      /\ e[n].complete /\ e[n].len = len
      /\ \A m \in Sequence \ {n} : e[m] = entry[m]
  <2> HIDE DEF n
  <2>1. n \in Sequence /\ len \in Nat
    BY <1>1
  <2>2. QED
    BY <2>1, DoneEntry
<1> HIDE DEF e, n
<1>4. /\ Completed \in SUBSET Sequence /\ n \notin Completed
      /\ \A m \in Completed : e[m] = entry[m]
  BY <1>1, <1>3 DEF Completed
<1>5. Bytes(e, Completed) = totalBytes
  BY <1>1, <1>3, <1>4, SameBytes DEF Account
<1>6. ASSUME NEW K \in SUBSET live
      PROVE  Cardinality(K) <= MaxEntries
  <2>1. IsFiniteSet(live)
    BY <1>1, SumTypes
  <2>2. IsFiniteSet(K) /\ Cardinality(K) <= Cardinality(live)
    BY <2>1, <1>6, FS_Subset
  <2>3. Cardinality(K) \in Nat /\ Cardinality(live) \in Nat
    BY <2>1, <2>2, FS_CardinalityType
  <2>4. QED
    BY <1>1, <2>2, <2>3 DEF Account
<1>7. CASE ~ok \/ len > MaxItem
  <2>1. live' = {m \in live : entry[m].key # key[t]} /\ totalBytes' = totalBytes
    BY <1>7 DEF Complete
  <2>2. live' = live \ {n}
    BY <1>1, <2>1 DEF Flights, KeysUnique
  <2>3. Completed' = Completed
    BY <1>1, <1>2, <1>3, <2>2 DEF Completed
  <2>4. QED
    BY <1>1, <1>2, <1>3, <1>5, <1>6, <2>1, <2>2, <2>3 DEF Account
<1>8. CASE ~(~ok \/ len > MaxItem)
  <2> DEFINE total == totalBytes + len
             S == Completed \cup {n}
  <2>1. /\ live' = BudgetKept(e, live, total)
        /\ totalBytes' = Minus(total, e, live \ live')
    BY <1>2, <1>8 DEF Complete
  <2>2. S = {m \in live : e[m].complete} /\ S \in SUBSET Sequence
    BY <1>1, <1>3, <1>4 DEF Completed
  <2>3. total = Bytes(e, S)
    BY <1>1, <1>3, <1>4, <1>5, OneEntryMore
  <2> HIDE DEF total, S
  <2>4. /\ live' \subseteq live
        /\ \A m \in live \ live' : e[m].complete
        /\ totalBytes' <= MaxBytes
    BY <1>1, <1>3, <2>1, <2>2, <2>3, BudgetDrops
  <2>5. live \ live' \in SUBSET S /\ S \ (live \ live') = Completed'
    BY <1>2, <2>2, <2>4 DEF Completed
  <2>6. totalBytes' = Bytes(e, Completed')
    <3>1. Minus(Bytes(e, S), e, live \ live') = Bytes(e, S \ (live \ live'))
      BY <1>3, <2>2, <2>5, MinusExact
    <3>2. QED
      BY <2>1, <2>3, <2>5, <3>1
  <2>7. Bytes(e, Completed') \in Nat
    BY <1>3, <2>2, <2>5, SumTypes
  <2>8. QED
    BY <1>2, <1>6, <2>4, <2>6, <2>7 DEF Account
<1>9. QED
  BY <1>7, <1>8
-----------------------------------------------------------------------------
\* What the first lock section keeps of the table: everything unfinished.
LEMMA SectionKeeps ==
  ASSUME NEW t \in Threads
  PROVE  /\ Swept(t) \subseteq live
         /\ \A n \in live \ Swept(t) : entry[n].complete
         /\ RoomMade(Swept(t)) \subseteq Swept(t)
         /\ \A n \in live \ RoomMade(Swept(t)) : entry[n].complete
<1>1. Swept(t) \subseteq live /\ \A n \in live \ Swept(t) : entry[n].complete
  BY DEF Swept, Expired
<1> HIDE DEF Swept
<1>2. /\ RoomMade(Swept(t)) \subseteq Swept(t)
      /\ \A n \in Swept(t) \ RoomMade(Swept(t)) : entry[n].complete
  BY RoomDrops
<1>3. QED
  BY <1>1, <1>2

\* There is a number for the entry of everybody who has arrived.
LEMMA RoomForOne ==
  ASSUME TypeOK, Bounded, NEW t \in Threads, pc[t] = "arrived"
  PROVE  sequence + 1 <= MaxSequence /\ sequence + 1 \in Sequence
<1>1. IsFiniteSet(Arrived) /\ t \in Arrived
  BY DedupeAssumption, FS_Subset DEF Arrived
<1>2. Cardinality(Arrived) >= 1 /\ Cardinality(Arrived) \in Nat
  BY <1>1, OneMember
<1>3. QED
  BY <1>2, Limits DEF TypeOK, Bounded, Sequence

\* A step keeps the room for those who have arrived.
LEMMA BoundedStep ==
  ASSUME TypeOK, TypeOK', Bounded, [Next]_vars
  PROVE  Bounded'
<1>1. /\ IsFiniteSet(Arrived) /\ Cardinality(Arrived) \in Nat
      /\ sequence \in Nat /\ MaxSequence \in Nat
  BY DedupeAssumption, Limits, FS_Subset, FS_CardinalityType DEF Arrived, TypeOK
<1>2. ASSUME NEW t \in Threads,
             \A u \in Threads \ {t} : pc'[u] = pc[u],
             \/ sequence' = sequence /\ pc'[t] # "arrived"
             \/ sequence' = sequence + 1 /\ pc'[t] # "arrived" /\ pc[t] = "arrived"
             \/ sequence' = sequence /\ sequence + Cardinality(Arrived) < MaxSequence
      PROVE  Bounded'
  <2>1. /\ Arrived' \ {t} = Arrived \ {t}
        /\ t \in Arrived' <=> pc'[t] = "arrived"
        /\ t \in Arrived <=> pc[t] = "arrived"
    BY <1>2 DEF Arrived
  <2>2. /\ Cardinality(Arrived') \in Nat
        /\ Cardinality(Arrived') = Cardinality(Arrived)
                                   + (IF t \in Arrived' THEN 1 ELSE 0)
                                   - (IF t \in Arrived THEN 1 ELSE 0)
    BY <1>1, <2>1, OneMember
  <2>3. QED
    BY <1>1, <1>2, <2>1, <2>2 DEF Bounded
<1>3. CASE UNCHANGED vars \/ Tick \/ Rest
  <2>1. Arrived' = Arrived /\ sequence' = sequence
    BY <1>3 DEF Arrived, vars, cacheVars, Tick, Rest
  <2>2. QED
    BY <2>1 DEF Bounded
<1>4. ASSUME NEW t \in Threads, NEW k \in Keys, Arrive(t, k) PROVE Bounded'
  BY <1>2, <1>4 DEF Arrive, cacheVars, TypeOK, Arrived
<1>5. ASSUME NEW t \in Threads, Progress(t) PROVE Bounded'
  <2>1. \A u \in Threads \ {t} : pc'[u] = pc[u]
    BY <1>5 DEF Progress, Join, Lead, RunUncached, Complete, Receive, ReturnUncached,
       TypeOK
  <2>2. /\ pc'[t] # "arrived"
        /\ \/ sequence' = sequence
           \/ sequence' = sequence + 1 /\ pc[t] = "arrived"
    BY <1>5 DEF Progress, Join, Lead, RunUncached, Complete, Receive, ReturnUncached,
       TypeOK, cacheVars
  <2>3. QED
    BY <1>2, <2>1, <2>2
<1>6. QED
  BY <1>3, <1>4, <1>5 DEF Next

\* A step keeps the types.
LEMMA TypeStep ==
  ASSUME IInv, [Next]_vars
  PROVE  TypeOK'
<1> USE DEF TypeOK, Labels
<1>1. TypeOK /\ Bounded /\ Flights /\ Account /\ Times
  BY DEF IInv
<1>2. CASE UNCHANGED vars \/ Tick \/ Rest
  <2>1. CASE UNCHANGED vars \/ Rest
    BY <1>1, <2>1 DEF vars, cacheVars, callVars, Rest
  <2>2. CASE Tick
    BY <1>1, <2>2, Limits DEF cacheVars, callVars, Tick
  <2>3. QED
    BY <1>2, <2>1, <2>2
<1>3. ASSUME NEW t \in Threads, NEW k \in Keys, Arrive(t, k) PROVE TypeOK'
  BY <1>1, <1>3, Limits DEF Arrive, cacheVars
<1>4. ASSUME NEW t \in Threads, Join(t) PROVE TypeOK'
  <2>1. Swept(t) \in SUBSET live /\ live \ Swept(t) = Expired(now[t])
    BY DEF Swept, Expired
  <2>2. totalBytes' \in Nat
    BY <1>1, <1>4, <2>1, SectionKeeps, SweepKeepsAccount DEF Join
  <2>3. live' \in SUBSET live /\ at' \in [Threads -> 0..sequence]
    <3>1. PICK n \in Existing(t) : at' = [at EXCEPT ![t] = n]
      BY <1>4 DEF Join
    <3>2. live' = Swept(t) /\ n \in live
      BY <1>4, <2>1, <3>1 DEF Join, Existing
    <3>3. QED
      BY <1>1, <2>1, <3>1, <3>2
  <2>4. QED
    BY <1>1, <1>4, <2>2, <2>3 DEF Join
<1>5. ASSUME NEW t \in Threads, Lead(t) PROVE TypeOK'
  <2> DEFINE n == sequence + 1
             kept == RoomMade(Swept(t))
  <2>1. n \in Sequence /\ n <= MaxSequence
    BY <1>1, <1>5, RoomForOne DEF Lead
  <2>2. kept \in SUBSET live /\ totalBytes' \in Nat
    BY <1>1, <1>5, SectionKeeps, SweepKeepsAccount DEF Lead
  <2>3. entry' \in [Sequence -> Entry]
    BY <1>1, <1>5 DEF Lead, NewEntry, Entry
  <2>4. live' = kept \cup {n} /\ sequence' = n /\ at' = [at EXCEPT ![t] = n]
    BY <1>5 DEF Lead
  <2> HIDE DEF kept
  <2>5. live' \in SUBSET (1..sequence') /\ at' \in [Threads -> 0..sequence']
    BY <1>1, <2>2, <2>4
  <2>6. sequence' \in 0..MaxSequence
    BY <1>1, <2>1, <2>4
  <2>7. QED
    BY <1>1, <1>5, <2>2, <2>3, <2>5, <2>6 DEF Lead
<1>6. ASSUME NEW t \in Threads, RunUncached(t) PROVE TypeOK'
  <2>1. live' \in SUBSET live /\ totalBytes' \in Nat
    BY <1>1, <1>6, SectionKeeps, SweepKeepsAccount DEF RunUncached
  <2>2. QED
    BY <1>1, <1>6, <2>1 DEF RunUncached
<1>7. ASSUME NEW t \in Threads, NEW len \in Lengths \cup {0}, NEW ok \in BOOLEAN,
             Complete(t, len, ok)
      PROVE  TypeOK'
  <2>1. at[t] \in Sequence /\ len \in Nat
    BY <1>1, <1>7, DedupeAssumption, NumbersInRange
       DEF Flights, LeadersHold, Complete, Sequence
  <2>2. entry' \in [Sequence -> Entry]
    <3>1. entry' = Done(at[t], len, ok)
      BY <1>7 DEF Complete, Done
    <3>2. QED
      BY <1>1, <2>1, <3>1, DoneEntry
  <2>3. live' \subseteq live /\ totalBytes' \in Nat
    BY <1>1, <1>7, CompleteKeepsAccount
  <2>4. QED
    BY <1>1, <1>7, <2>2, <2>3 DEF Complete, NoEntry
<1>8. ASSUME NEW t \in Threads, Receive(t) PROVE TypeOK'
  BY <1>1, <1>8 DEF Receive, cacheVars, NoEntry
<1>9. ASSUME NEW t \in Threads, ReturnUncached(t) PROVE TypeOK'
  BY <1>1, <1>9 DEF ReturnUncached, cacheVars, callVars
<1>10. QED
  BY <1>2, <1>3, <1>4, <1>5, <1>6, <1>7, <1>8, <1>9 DEF Next, Progress

\* A step that drops completed entries only, if any, and moves nobody into or out
\* of a flight keeps the flights.
LEMMA FlightsUndisturbed ==
  ASSUME TypeOK, Flights, NEW t \in Threads,
         live' \subseteq live, \A n \in live \ live' : entry[n].complete,
         entry' = entry, sequence' = sequence,
         \A u \in Threads \ {t} : pc'[u] = pc[u] /\ at'[u] = at[u] /\ key'[u] = key[u],
         pc[t] # "leading", pc'[t] \notin {"leading", "waiting"}
  PROVE  Flights'
BY DEF TypeOK, Flights, KeysUnique, LeadersHold, OneLeader, Led, Seated,
   WaitersHaveLeader

\* A call that joins finds an entry with a result or with a leader.
LEMMA JoinKeepsFlights ==
  ASSUME TypeOK, Flights, NEW t \in Threads, Join(t)
  PROVE  Flights'
<1>1. PICK n \in Existing(t) : at' = [at EXCEPT ![t] = n]
  BY DEF Join
<1>2. /\ live' \subseteq live /\ \A m \in live \ live' : entry[m].complete
      /\ n \in live /\ n \in 1..sequence /\ entry[n].key = key[t]
  BY SectionKeeps DEF Join, Existing, TypeOK
<1>3. /\ pc' = [pc EXCEPT ![t] = "waiting"] /\ pc[t] = "arrived"
      /\ entry' = entry /\ sequence' = sequence /\ key' = key
  BY DEF Join
<1>4. entry[n].complete \/ \E u \in Threads : pc[u] = "leading" /\ at[u] = n
  BY <1>2 DEF Flights, Led
<1>5. QED
  BY <1>1, <1>2, <1>3, <1>4 DEF TypeOK, Flights, KeysUnique, LeadersHold, OneLeader, Led,
     Seated, WaitersHaveLeader

\* A call that leads takes a number that nobody has and a key without an entry.
LEMMA LeadKeepsFlights ==
  ASSUME TypeOK, Bounded, Flights, NEW t \in Threads, Lead(t)
  PROVE  Flights'
<1> DEFINE n == sequence + 1
           kept == RoomMade(Swept(t))
<1>1. n \in Sequence /\ n \notin 1..sequence /\ n \in 1..sequence'
      /\ sequence \in Nat /\ sequence' = n
  BY RoomForOne DEF Lead, TypeOK
<1>2. /\ kept \subseteq live /\ kept \subseteq Swept(t)
      /\ \A m \in live \ kept : entry[m].complete
  BY SectionKeeps
<1>3. /\ pc' = [pc EXCEPT ![t] = "leading"] /\ pc[t] = "arrived"
      /\ at' = [at EXCEPT ![t] = n] /\ key' = key
      /\ live' = kept \cup {n}
      /\ entry' = [entry EXCEPT ![n] = NewEntry(key[t])]
  BY DEF Lead
<1>4. \A m \in kept : entry[m].key # key[t]
  BY <1>2 DEF Lead, Existing
<1> HIDE DEF kept, n
<1>5. /\ entry'[n].key = key[t] /\ ~entry'[n].complete
      /\ \A m \in 1..sequence : m \in Sequence /\ entry'[m] = entry[m]
  BY <1>1, <1>3, Limits DEF TypeOK, NewEntry, Sequence
<1>6. live \subseteq 1..sequence /\ \A m \in 1..sequence : m \in 1..sequence'
  BY <1>1 DEF TypeOK, n
<1>7. KeysUnique'
  <2>1. /\ \A m \in kept : m \in live /\ entry'[m].key = entry[m].key
        /\ \A m \in kept : entry'[m].key # entry'[n].key
    BY <1>2, <1>4, <1>5, <1>6
  <2>2. \A m, o \in kept : entry'[m].key = entry'[o].key => m = o
    BY <2>1 DEF Flights, KeysUnique
  <2>3. QED
    BY <1>3, <2>1, <2>2 DEF KeysUnique
<1>8. LeadersHold' /\ OneLeader'
  BY <1>1, <1>2, <1>3, <1>5, <1>6 DEF TypeOK, Flights, LeadersHold, OneLeader
<1>9. Led'
  BY <1>1, <1>2, <1>3, <1>5, <1>6 DEF TypeOK, Flights, Led
<1>10. Seated' /\ WaitersHaveLeader'
  BY <1>1, <1>3, <1>5, <1>6 DEF TypeOK, Flights, Seated, WaitersHaveLeader
<1>11. QED
  BY <1>7, <1>8, <1>9, <1>10 DEF Flights

\* A completion finishes the entry of its leader and no other: those who wait for
\* it have their result, also when the entry leaves the table.
LEMMA CompleteKeepsFlights ==
  ASSUME TypeOK, Flights, Account, NEW t \in Threads,
         NEW len \in Lengths \cup {0}, NEW ok \in BOOLEAN, Complete(t, len, ok)
  PROVE  Flights'
<1> DEFINE n == at[t]
<1>1. /\ n \in live /\ n \in Sequence /\ len \in Nat
      /\ pc[t] = "leading" /\ ~entry[n].complete
      /\ live \subseteq 1..sequence
      /\ \A m \in 1..sequence : m \in Sequence
  BY DedupeAssumption, Limits DEF TypeOK, Flights, LeadersHold, Complete, Sequence
<1>2. /\ pc' = [pc EXCEPT ![t] = "idle"] /\ at' = [at EXCEPT ![t] = NoEntry]
      /\ key' = key /\ sequence' = sequence
      /\ entry' = Done(n, len, ok)
  BY DEF Complete, Done
<1>3. /\ live' \subseteq live
      /\ \A m \in live \ live' : entry'[m].complete
  BY CompleteKeepsAccount
<1> HIDE DEF n
<1>4. /\ entry'[n].complete /\ entry'[n].key = entry[n].key
      /\ \A m \in Sequence \ {n} : entry'[m] = entry[m]
  BY <1>1, <1>2, DoneEntry
<1>5. \A m \in Sequence : entry'[m].key = entry[m].key
  BY <1>4
<1>6. KeysUnique'
  <2>1. \A m \in live' : m \in live /\ entry'[m].key = entry[m].key
    BY <1>1, <1>3, <1>5
  <2>2. QED
    BY <2>1 DEF Flights, KeysUnique
<1>7. \A u \in Threads : pc'[u] = "leading" =>
        u # t /\ pc[u] = "leading" /\ at'[u] = at[u] /\ at[u] # n
  BY <1>1, <1>2 DEF TypeOK, Flights, OneLeader, n
<1>8. LeadersHold'
  <2>1. ASSUME NEW u \in Threads, pc'[u] = "leading"
        PROVE  at[u] \in live' /\ entry'[at[u]].key = key[u] /\ ~entry'[at[u]].complete
    <3>1. /\ at[u] \in live /\ at[u] \in Sequence \ {n}
          /\ entry[at[u]].key = key[u] /\ ~entry[at[u]].complete
      BY <1>1, <1>7, <2>1 DEF Flights, LeadersHold
    <3>2. entry'[at[u]] = entry[at[u]]
      BY <1>4, <3>1
    <3>3. QED
      BY <1>3, <3>1, <3>2
  <2>2. QED
    BY <1>2, <1>7, <2>1 DEF LeadersHold
<1>9. OneLeader'
  BY <1>7 DEF Flights, OneLeader
<1>10. \A u \in Threads : pc[u] = "leading" /\ at[u] # n =>
         pc'[u] = "leading" /\ at'[u] = at[u]
  BY <1>2 DEF TypeOK, n
<1>11. Led'
  BY <1>1, <1>3, <1>4, <1>10 DEF Flights, Led
<1>12. \A u \in Threads : pc'[u] = "waiting" => pc[u] = "waiting" /\ at'[u] = at[u]
  BY <1>1, <1>2 DEF TypeOK
<1>13. Seated'
  BY <1>2, <1>12 DEF Flights, Seated
<1>14. WaitersHaveLeader'
  BY <1>1, <1>2, <1>4, <1>5, <1>10, <1>12 DEF Flights, Seated, WaitersHaveLeader
<1>15. QED
  BY <1>6, <1>8, <1>9, <1>11, <1>13, <1>14 DEF Flights

\* A step keeps the flights.
LEMMA FlightsStep ==
  ASSUME IInv, [Next]_vars
  PROVE  Flights'
<1>1. TypeOK /\ Bounded /\ Flights /\ Account /\ Times
  BY DEF IInv
<1>2. CASE UNCHANGED vars \/ Tick \/ Rest
  BY <1>1, <1>2 DEF vars, cacheVars, callVars, Tick, Rest, Flights, KeysUnique,
     LeadersHold, OneLeader, Led, Seated, WaitersHaveLeader
<1>3. ASSUME NEW t \in Threads, NEW k \in Keys, Arrive(t, k) PROVE Flights'
  BY <1>1, <1>3, FlightsUndisturbed DEF Arrive, cacheVars, TypeOK
<1>4. ASSUME NEW t \in Threads, Join(t) PROVE Flights'
  BY <1>1, <1>4, JoinKeepsFlights
<1>5. ASSUME NEW t \in Threads, Lead(t) PROVE Flights'
  BY <1>1, <1>5, LeadKeepsFlights
<1>6. ASSUME NEW t \in Threads, RunUncached(t) PROVE Flights'
  <2>1. live' \subseteq live /\ \A n \in live \ live' : entry[n].complete
    BY <1>6, SectionKeeps DEF RunUncached
  <2>2. QED
    BY <1>1, <1>6, <2>1, FlightsUndisturbed DEF RunUncached, TypeOK
<1>7. ASSUME NEW t \in Threads, NEW len \in Lengths \cup {0}, NEW ok \in BOOLEAN,
             Complete(t, len, ok)
      PROVE  Flights'
  BY <1>1, <1>7, CompleteKeepsFlights
<1>8. ASSUME NEW t \in Threads, Receive(t) PROVE Flights'
  BY <1>1, <1>8, FlightsUndisturbed DEF Receive, cacheVars, TypeOK
<1>9. ASSUME NEW t \in Threads, ReturnUncached(t) PROVE Flights'
  BY <1>1, <1>9, FlightsUndisturbed DEF ReturnUncached, cacheVars, callVars, TypeOK
<1>10. QED
  BY <1>2, <1>3, <1>4, <1>5, <1>6, <1>7, <1>8, <1>9 DEF Next, Progress

\* A step keeps the account.
LEMMA AccountStep ==
  ASSUME IInv, [Next]_vars
  PROVE  Account'
<1>1. TypeOK /\ Bounded /\ Flights /\ Account /\ Times
  BY DEF IInv
<1>2. ASSUME UNCHANGED cacheVars PROVE Account'
  BY <1>1, <1>2 DEF cacheVars, Account, Completed
<1>3. CASE UNCHANGED vars \/ Tick \/ Rest
  BY <1>2, <1>3 DEF vars, Tick, Rest
<1>4. ASSUME NEW t \in Threads, NEW K \in SUBSET live,
             \A n \in live \ K : entry[n].complete,
             live' = K, entry' = entry,
             totalBytes' = Minus(totalBytes, entry, live \ K)
      PROVE  Account'
  BY <1>1, <1>4, SweepKeepsAccount DEF Account, Completed
<1>5. ASSUME NEW t \in Threads, Join(t) PROVE Account'
  <2>1. live \ Swept(t) = Expired(now[t])
    BY DEF Swept, Expired
  <2>2. QED
    BY <1>4, <1>5, <2>1, SectionKeeps DEF Join
<1>6. ASSUME NEW t \in Threads, Lead(t) PROVE Account'
  <2> DEFINE kept == RoomMade(Swept(t))
             n == sequence + 1
             done == {m \in kept : entry[m].complete}
  <2>1. kept \in SUBSET live /\ \A m \in live \ kept : entry[m].complete
    BY SectionKeeps
  <2>2. /\ live' = kept \cup {n} /\ Cardinality(kept) < MaxEntries
        /\ entry' = [entry EXCEPT ![n] = NewEntry(key[t])]
        /\ totalBytes' = Minus(totalBytes, entry, live \ kept)
    BY <1>6 DEF Lead
  <2> HIDE DEF kept
  <2>3. /\ totalBytes' = Bytes(entry, done) /\ totalBytes' <= MaxBytes
        /\ IsFiniteSet(kept)
    BY <1>1, <2>1, <2>2, SweepKeepsAccount
  <2>4. /\ n \in Sequence /\ n \notin kept
        /\ \A m \in kept : m \in Sequence
    BY <1>1, <1>6, <2>1, RoomForOne, NumbersInRange, Limits
       DEF Lead, TypeOK, Sequence
  <2>5. /\ ~entry'[n].complete
        /\ \A m \in kept : entry'[m] = entry[m]
    BY <1>1, <2>2, <2>4 DEF TypeOK, NewEntry
  <2>6. Completed' = done
    BY <2>2, <2>5 DEF Completed
  <2>7. entry' \in [Sequence -> Entry] /\ done \in SUBSET Sequence
    BY <1>1, <2>2, <2>4, TypeStep DEF TypeOK
  <2>8. totalBytes' = Bytes(entry', Completed')
    BY <1>1, <2>3, <2>5, <2>6, <2>7, SameBytes DEF TypeOK
  <2>9. Cardinality(live') <= MaxEntries
    <3>1. Cardinality(live') = Cardinality(kept) + 1 /\ Cardinality(kept) \in Nat
      BY <2>2, <2>3, <2>4, FS_AddElement, FS_CardinalityType
    <3>2. QED
      BY <2>2, <3>1, Limits
  <2>10. QED
    BY <2>3, <2>8, <2>9 DEF Account
<1>7. ASSUME NEW t \in Threads, RunUncached(t) PROVE Account'
  BY <1>4, <1>7, SectionKeeps DEF RunUncached
<1>8. ASSUME NEW t \in Threads, NEW len \in Lengths \cup {0}, NEW ok \in BOOLEAN,
             Complete(t, len, ok)
      PROVE  Account'
  BY <1>1, <1>8, CompleteKeepsAccount
<1>9. QED
  BY <1>2, <1>3, <1>5, <1>6, <1>7, <1>8
     DEF Next, Progress, Arrive, Receive, ReturnUncached

\* A waiter that joined a finished entry came before it expired, and one that joined
\* an unfinished one before its work was done.
LEMMA TimesStep ==
  ASSUME IInv, [Next]_vars
  PROVE  Times'
<1>1. TypeOK /\ Bounded /\ Flights /\ Account /\ Times
  BY DEF IInv
<1>2. TypeOK' /\ Flights'
  BY TypeStep, FlightsStep
<1>3. /\ clock \in Nat /\ TTL \in Nat \ {0}
      /\ \A t \in Threads : now[t] \in Nat
      /\ \A n \in 1..sequence : n \in Sequence /\ doneAt[n] \in Nat
                                /\ entry[n].expiresAt \in Nat
      /\ live \subseteq 1..sequence
  BY <1>1, DedupeAssumption, Limits DEF TypeOK, Sequence, Entry
<1>4. CASE UNCHANGED vars \/ Tick \/ Rest
  <2>1. /\ entry' = entry /\ live' = live /\ doneAt' = doneAt /\ pc' = pc
        /\ at' = at /\ now' = now /\ (clock' = clock \/ clock' = clock + 1)
    BY <1>4 DEF vars, cacheVars, callVars, Tick, Rest
  <2>2. \A t \in Threads : now'[t] <= clock'
    BY <1>1, <1>3, <2>1 DEF Times
  <2>3. QED
    BY <1>1, <2>1, <2>2 DEF Times
<1>5. ASSUME NEW t \in Threads, NEW k \in Keys, Arrive(t, k) PROVE Times'
  BY <1>1, <1>3, <1>5 DEF Arrive, cacheVars, Times, TypeOK
<1>6. ASSUME NEW t \in Threads, Join(t) PROVE Times'
  <2>1. PICK n \in Existing(t) : at' = [at EXCEPT ![t] = n]
    BY <1>6 DEF Join
  <2>2. n \in live /\ n \notin Expired(now[t])
    BY <2>1 DEF Existing, Swept
  <2>3. entry[n].complete => now[t] < doneAt[n] + TTL
    BY <1>1, <1>3, <2>2 DEF Expired, Times
  <2>4. live' \subseteq live /\ at'[t] = n
    BY <1>1, <1>6, <2>1, SectionKeeps DEF Join, TypeOK
  <2>5. /\ entry' = entry /\ doneAt' = doneAt /\ now' = now /\ clock' = clock
        /\ \A u \in Threads \ {t} : pc'[u] = pc[u] /\ at'[u] = at[u]
    BY <1>1, <1>6, <2>1 DEF Join, TypeOK
  <2>6. QED
    BY <1>1, <2>3, <2>4, <2>5 DEF Times
<1>7. ASSUME NEW t \in Threads, Lead(t) PROVE Times'
  <2> DEFINE n == sequence + 1
             kept == RoomMade(Swept(t))
  <2>1. kept \subseteq live /\ n \in Sequence
    BY <1>1, <1>7, SectionKeeps, RoomForOne DEF Lead
  <2>2. /\ live' = kept \cup {n} /\ entry' = [entry EXCEPT ![n] = NewEntry(key[t])]
        /\ doneAt' = doneAt /\ clock' = clock /\ now' = [now EXCEPT ![t] = 0]
        /\ pc' = [pc EXCEPT ![t] = "leading"] /\ at' = [at EXCEPT ![t] = n]
    BY <1>7 DEF Lead
  <2>3. n \notin 1..sequence
    BY <1>1 DEF TypeOK
  <2> HIDE DEF kept, n
  <2>4. ~entry'[n].complete /\ \A m \in 1..sequence : entry'[m] = entry[m]
    BY <1>1, <1>3, <2>1, <2>2, <2>3 DEF TypeOK, NewEntry
  <2>5. \A u \in Threads : now'[u] <= clock'
    BY <1>1, <1>3, <2>2 DEF Times, TypeOK
  <2>6. \A m \in live' : entry'[m].complete => entry'[m].expiresAt = doneAt'[m] + TTL
    BY <1>1, <1>3, <2>1, <2>2, <2>4 DEF Times
  <2>7. ASSUME NEW u \in Threads, pc'[u] = "waiting", entry'[at'[u]].complete
        PROVE  now'[u] < doneAt'[at'[u]] + TTL
    <3>1. u # t /\ pc[u] = "waiting" /\ at'[u] = at[u] /\ now'[u] = now[u]
      BY <1>1, <2>2, <2>7 DEF TypeOK
    <3>2. at[u] \in 1..sequence
      BY <1>1, <3>1 DEF Flights, Seated
    <3>3. QED
      BY <1>1, <2>2, <2>4, <2>7, <3>1, <3>2 DEF Times
  <2>8. QED
    BY <2>5, <2>6, <2>7 DEF Times
<1>8. ASSUME NEW t \in Threads, RunUncached(t) PROVE Times'
  <2>1. live' \subseteq live
    BY <1>8, SectionKeeps DEF RunUncached
  <2>2. QED
    BY <1>1, <1>3, <1>8, <2>1 DEF RunUncached, Times, TypeOK
<1>9. ASSUME NEW t \in Threads, NEW len \in Lengths \cup {0}, NEW ok \in BOOLEAN,
             Complete(t, len, ok)
      PROVE  Times'
  <2> DEFINE n == at[t]
  <2>1. /\ n \in Sequence /\ len \in Nat /\ live' \subseteq live
    <3>1. n \in live
      BY <1>1, <1>9 DEF Flights, LeadersHold, Complete
    <3>2. len \in Nat
      BY DedupeAssumption
    <3>3. QED
      BY <1>1, <1>3, <1>9, <3>1, <3>2, CompleteKeepsAccount
  <2>2. /\ entry' = Done(n, len, ok) /\ doneAt' = [doneAt EXCEPT ![n] = clock]
        /\ clock' = clock /\ now' = now /\ pc' = [pc EXCEPT ![t] = "idle"]
        /\ at' = [at EXCEPT ![t] = NoEntry]
    BY <1>9 DEF Complete, Done
  <2> HIDE DEF n
  <2>3. /\ entry'[n].expiresAt = clock + TTL /\ doneAt'[n] = clock
        /\ \A m \in Sequence \ {n} : entry'[m] = entry[m] /\ doneAt'[m] = doneAt[m]
    BY <1>1, <2>1, <2>2, DoneEntry DEF TypeOK
  <2>4. \A m \in live' : entry'[m].complete => entry'[m].expiresAt = doneAt'[m] + TTL
    BY <1>1, <1>3, <2>1, <2>3 DEF Times
  <2>5. ASSUME NEW u \in Threads, pc'[u] = "waiting", entry'[at'[u]].complete
        PROVE  now'[u] < doneAt'[at'[u]] + TTL
    <3>1. pc[u] = "waiting" /\ at'[u] = at[u] /\ now'[u] = now[u]
      BY <1>1, <2>2, <2>5 DEF TypeOK
    <3>2. at[u] \in Sequence
      BY <1>1, <1>3, <3>1 DEF Flights, Seated
    <3>3. CASE at[u] = n
      BY <1>1, <1>3, <2>3, <3>1, <3>3 DEF Times
    <3>4. CASE at[u] # n
      BY <1>1, <2>3, <2>5, <3>1, <3>2, <3>4 DEF Times
    <3>5. QED
      BY <3>3, <3>4
  <2>6. QED
    BY <1>1, <2>2, <2>4, <2>5 DEF Times
<1>10. ASSUME NEW t \in Threads, Receive(t) PROVE Times'
  BY <1>1, <1>3, <1>10 DEF Receive, cacheVars, Times, TypeOK
<1>11. ASSUME NEW t \in Threads, ReturnUncached(t) PROVE Times'
  BY <1>1, <1>3, <1>11 DEF ReturnUncached, cacheVars, callVars, Times, TypeOK
<1>12. QED
  BY <1>4, <1>5, <1>6, <1>7, <1>8, <1>9, <1>10, <1>11 DEF Next, Progress
-----------------------------------------------------------------------------
\* The initial state satisfies the inductive invariant.
LEMMA InitIInv == Init => IInv
<1> SUFFICES ASSUME Init PROVE IInv
  OBVIOUS
<1>1. TypeOK
  BY Limits DEF Init, TypeOK, Labels, NewEntry, Entry, NoEntry
<1>2. Completed = {} /\ Arrived = {} /\ Cardinality({}) = 0
  BY FS_EmptySet DEF Init, Completed, Arrived
<1>3. Bounded
  BY <1>2, Limits DEF Init, Bounded
<1>4. Flights
  BY DEF Init, Flights, KeysUnique, LeadersHold, OneLeader, Led, Seated,
     WaitersHaveLeader
<1>5. Bytes(entry, {}) = 0
  <2>1. {} \in SUBSET Sequence /\ entry \in [Sequence -> Entry]
    BY <1>1 DEF TypeOK
  <2>2. IsFiniteSet({}) /\ \A n \in {} : Lens(entry)[n] \in Nat
    BY <2>1, SumTypes
  <2>3. QED
    BY <2>1, <2>2, WeighMember, BytesIsSum
<1>6. Account
  BY <1>2, <1>5, Limits DEF Init, Account
<1>7. Times
  BY Limits DEF Init, Times
<1>8. QED
  BY <1>1, <1>3, <1>4, <1>6, <1>7 DEF IInv

\* Every step keeps it.
LEMMA NextIInv == IInv /\ [Next]_vars => IInv'
<1> SUFFICES ASSUME IInv, [Next]_vars PROVE IInv'
  OBVIOUS
<1>1. TypeOK'
  BY TypeStep
<1>2. Bounded'
  BY <1>1, BoundedStep DEF IInv
<1>3. QED
  BY <1>1, <1>2, FlightsStep, AccountStep, TimesStep DEF IInv

\* The invariant holds in every reachable state.
THEOREM CacheInvariant == Spec => []IInv
<1>1. QED
  BY InitIInv, NextIInv, PTL DEF Spec

\* Single flight: nobody waits for a result that nobody will deliver, whatever is
\* evicted, expired, refused or failed meanwhile.
THEOREM NobodyWaitsInVain == Spec => []WaitersHaveLeader
<1>1. IInv => WaitersHaveLeader
  BY DEF IInv, Flights
<1>2. QED
  BY <1>1, CacheInvariant, PTL

\* cache.totalBytes is the sum of what the table holds, and both budgets are kept,
\* for any number of goroutines, entries and bytes.
THEOREM BytesAreExact == Spec => []BytesExact
<1>1. IInv => BytesExact
  BY DEF IInv, Account, BytesExact, Completed
<1>2. QED
  BY <1>1, CacheInvariant, PTL

\* No result is handed out that is older than the TTL and the time the call has
\* taken, for any TTL and however long the lock or the work of another is waited for.
THEOREM ReuseIsFresh == Spec => []FreshReuse
<1>1. ASSUME IInv, NEW t \in Threads, pc[t] = "waiting", entry[at[t]].complete
      PROVE  Age(at[t]) < TTL + Spent(t)
  <2>1. now[t] < doneAt[at[t]] + TTL
    BY <1>1 DEF IInv, Times
  <2>2. at[t] \in Sequence
    BY <1>1, Limits DEF IInv, TypeOK, Flights, Seated, Sequence
  <2>3. now[t] \in Nat /\ doneAt[at[t]] \in Nat /\ clock \in Nat /\ TTL \in Nat
    BY <1>1, <2>2, Limits DEF IInv, TypeOK
  <2>4. QED
    BY <2>1, <2>3 DEF Age, Spent
<1>2. IInv => FreshReuse
  BY <1>1 DEF FreshReuse
<1>3. QED
  BY <1>2, CacheInvariant, PTL
-----------------------------------------------------------------------------
\* What an entry of e stands for in Memo, and what a table L with such entries does.
PromisedIn(e, n) == CASE ~e[n].complete         -> <<"running">>
                      [] e[n].complete /\ e[n].ok -> <<"ok", <<n, e[n].len>>>>
                      [] OTHER                    -> <<"failed">>
KeysIn(e, L) == {e[n].key : n \in L}
MemoryOf(e, L) ==
  [k \in KeysIn(e, L) |-> PromisedIn(e, CHOOSE n \in L : e[n].key = k)]
UniqueIn(e, L) == \A m, n \in L : e[m].key = e[n].key => m = n

\* The state of Memo that a state of the cache stands for.
Role   == [t \in Threads |-> IF Inside(t) THEN pc[t] ELSE "idle"]
Asked  == [t \in Threads |-> IF Inside(t) THEN key[t] ELSE <<>>]
Got    == [t \in Threads |-> IF pc[t] = "waiting" THEN PromisedIn(entry, at[t]) ELSE <<>>]
Memory == MemoryOf(entry, live)

M == INSTANCE Memo WITH role <- Role, key <- Asked, got <- Got, memo <- Memory

\* The values that the work of a call gives.
Values == Sequence \X (Lengths \cup {0})

\* It is the mapping of Dedupe.
LEMMA SameMapping ==
  /\ M!Init => Promise!Init
  /\ [M!Next(Keys, Values)]_(M!vars) =>
       [Promise!Next(Keys, Sequence \X (Lengths \cup {0}))]_(Promise!vars)
BY DEF M!Init, M!Next, M!vars, M!Join, M!Lead, M!Bypass, M!Finish, M!Receive, M!Return,
   M!Start, M!Leave, M!Finished, M!Without, M!With, M!Running, M!Failed, M!None, M!Ok,
   Promise!Init, Promise!Next, Promise!vars, Promise!Join, Promise!Lead,
   Promise!Bypass, Promise!Finish, Promise!Receive, Promise!Return, Promise!Start,
   Promise!Leave, Promise!Finished, Promise!Without, Promise!With, Promise!Running,
   Promise!Failed, Promise!None, Promise!Ok,
   Role, Asked, Got, Memory, MemoryOf, KeysIn, PromisedIn, Promised, Values

\* Running is what an unfinished entry promises, and no other.
LEMMA PromisedCases ==
  ASSUME NEW e, NEW n
  PROVE  /\ ~e[n].complete => PromisedIn(e, n) = M!Running
         /\ e[n].complete => PromisedIn(e, n) # M!Running
         /\ e[n].complete /\ e[n].ok => PromisedIn(e, n) = M!Ok(<<n, e[n].len>>)
         /\ e[n].complete /\ ~e[n].ok => PromisedIn(e, n) = M!Failed
<1>1. ~e[n].complete => PromisedIn(e, n) = <<"running">>
  BY DEF PromisedIn
<1>2. e[n].complete /\ e[n].ok => PromisedIn(e, n) = <<"ok", <<n, e[n].len>>>>
  BY DEF PromisedIn
<1>3. e[n].complete /\ ~e[n].ok => PromisedIn(e, n) = <<"failed">>
  BY DEF PromisedIn
<1>4. <<"ok", <<n, e[n].len>>>> # <<"running">> /\ <<"failed">> # <<"running">>
  OBVIOUS
<1>5. QED
  BY <1>1, <1>2, <1>3, <1>4 DEF M!Running, M!Ok, M!Failed

\* A table with unique keys remembers the promise of each entry under its key.
LEMMA MemoryAt ==
  ASSUME NEW e, NEW L, UniqueIn(e, L)
  PROVE  /\ DOMAIN MemoryOf(e, L) = KeysIn(e, L)
         /\ \A n \in L : MemoryOf(e, L)[e[n].key] = PromisedIn(e, n)
<1>1. DOMAIN MemoryOf(e, L) = KeysIn(e, L)
  BY DEF MemoryOf
<1>2. ASSUME NEW n \in L PROVE MemoryOf(e, L)[e[n].key] = PromisedIn(e, n)
  <2> DEFINE m == CHOOSE x \in L : e[x].key = e[n].key
  <2>1. m \in L /\ e[m].key = e[n].key
    OBVIOUS
  <2>2. m = n
    BY <2>1 DEF UniqueIn
  <2>3. e[n].key \in KeysIn(e, L)
    BY DEF KeysIn
  <2>4. MemoryOf(e, L)[e[n].key] = PromisedIn(e, m)
    BY <2>3 DEF MemoryOf
  <2>5. QED
    BY <2>2, <2>4
<1>3. QED
  BY <1>1, <1>2

\* A function that agrees with it on those keys is that memory.
LEMMA MemoryIs ==
  ASSUME NEW e, NEW L, UniqueIn(e, L), NEW f, f = [k \in KeysIn(e, L) |-> f[k]],
         \A n \in L : f[e[n].key] = PromisedIn(e, n)
  PROVE  MemoryOf(e, L) = f
<1>1. ASSUME NEW k \in KeysIn(e, L) PROVE MemoryOf(e, L)[k] = f[k]
  <2>1. PICK n \in L : k = e[n].key
    BY DEF KeysIn
  <2>2. QED
    BY <2>1, MemoryAt
<1>2. MemoryOf(e, L) = [k \in KeysIn(e, L) |-> MemoryOf(e, L)[k]]
  BY DEF MemoryOf
<1> HIDE DEF MemoryOf, KeysIn
<1>3. QED
  BY <1>1, <1>2

\* Dropping completed entries forgets finished results.
LEMMA Forgets ==
  ASSUME TypeOK, Flights, NEW K \in SUBSET live, \A n \in live \ K : entry[n].complete
  PROVE  LET F == KeysIn(entry, live \ K)
         IN  /\ F \in SUBSET M!Finished(Memory)
             /\ DOMAIN Memory \ F = KeysIn(entry, K)
             /\ UniqueIn(entry, K)
             /\ M!Without(Memory, F) = MemoryOf(entry, K)
<1> DEFINE F == KeysIn(entry, live \ K)
<1>1. UniqueIn(entry, live) /\ UniqueIn(entry, K)
  BY DEF Flights, KeysUnique, UniqueIn
<1>2. /\ DOMAIN Memory = KeysIn(entry, live)
      /\ \A n \in live : Memory[entry[n].key] = PromisedIn(entry, n)
  BY <1>1, MemoryAt DEF Memory
<1>3. DOMAIN Memory \ F = KeysIn(entry, K)
  BY <1>1, <1>2 DEF KeysIn, UniqueIn
<1>4. ASSUME NEW n \in live, entry[n].complete
      PROVE  Memory[entry[n].key] # M!Running
  <2>1. PromisedIn(entry, n) # M!Running
    BY <1>4, PromisedCases
  <2>2. QED
    BY <1>2, <2>1
<1>5. F \in SUBSET M!Finished(Memory)
  BY <1>2, <1>4 DEF M!Finished, KeysIn
<1>6. M!Without(Memory, F) = MemoryOf(entry, K)
  <2> DEFINE f == [k \in KeysIn(entry, K) |-> Memory[k]]
  <2>1. M!Without(Memory, F) = f
    BY <1>3 DEF M!Without
  <2>2. \A n \in K : entry[n].key \in KeysIn(entry, K)
    BY DEF KeysIn
  <2>3. \A n \in K : f[entry[n].key] = PromisedIn(entry, n)
    BY <1>2, <2>2
  <2>4. f = [k \in KeysIn(entry, K) |-> f[k]]
    OBVIOUS
  <2> HIDE DEF f
  <2>5. QED
    BY <1>1, <2>1, <2>3, <2>4, MemoryIs
<1>7. QED
  BY <1>1, <1>3, <1>5, <1>6

\* A call that is not inside has no role in Memo yet, and takes one when it goes in.
LEMMA TakesRole ==
  ASSUME TypeOK, NEW t \in Threads, NEW r \in {"waiting", "leading", "uncached"},
         pc[t] = "arrived", pc' = [pc EXCEPT ![t] = r], key' = key
  PROVE  M!Start(t, key[t], r)
<1>1. Role[t] = "idle"
  BY DEF Role, Inside
<1>2. Role' = [Role EXCEPT ![t] = r]
  BY DEF Role, Inside, TypeOK
<1>3. Asked' = [Asked EXCEPT ![t] = key[t]]
  BY DEF Asked, Inside, TypeOK
<1>4. QED
  BY <1>1, <1>2, <1>3 DEF M!Start

\* A call that leaves gives its role up.
LEMMA LeavesRole ==
  ASSUME TypeOK, NEW t \in Threads, pc' = [pc EXCEPT ![t] = "idle"], key' = key
  PROVE  M!Leave(t)
<1>1. Role' = [Role EXCEPT ![t] = "idle"]
  BY DEF Role, Inside, TypeOK
<1>2. Asked' = [Asked EXCEPT ![t] = M!None]
  BY DEF Asked, Inside, TypeOK, M!None
<1>3. QED
  BY <1>1, <1>2 DEF M!Leave

\* Join implements Join.
LEMMA JoinImplements ==
  ASSUME TypeOK, Flights, NEW t \in Threads, Join(t)
  PROVE  M!Join(t, key[t])
<1> DEFINE K == Swept(t)
           F == KeysIn(entry, live \ K)
<1>1. PICK n \in Existing(t) : at' = [at EXCEPT ![t] = n]
  BY DEF Join
<1>2. /\ pc[t] = "arrived" /\ pc' = [pc EXCEPT ![t] = "waiting"]
      /\ key' = key /\ entry' = entry /\ live' = K
  BY DEF Join
<1>3. n \in K /\ n \in live /\ entry[n].key = key[t]
  BY <1>1, SectionKeeps DEF Existing
<1>4. /\ F \in SUBSET M!Finished(Memory)
      /\ DOMAIN Memory \ F = KeysIn(entry, K)
      /\ M!Without(Memory, F) = MemoryOf(entry, K)
  BY SectionKeeps, Forgets
<1>5. key[t] \in DOMAIN Memory \ F
  BY <1>3, <1>4 DEF KeysIn
<1>6. M!Start(t, key[t], "waiting")
  BY <1>2, TakesRole
<1>7. Got' = [Got EXCEPT ![t] = Memory[key[t]]]
  <2>1. UniqueIn(entry, live)
    BY DEF Flights, KeysUnique, UniqueIn
  <2>2. Memory[key[t]] = PromisedIn(entry, n)
    BY <1>3, <2>1, MemoryAt DEF Memory
  <2>3. Got' = [u \in Threads |-> IF pc'[u] = "waiting" THEN PromisedIn(entry, at'[u])
                                  ELSE <<>>]
    BY <1>2 DEF Got, PromisedIn
  <2> DEFINE p == PromisedIn(entry, n)
  <2>4. ASSUME NEW u \in Threads PROVE Got'[u] = [Got EXCEPT ![t] = p][u]
    BY <1>1, <1>2, <2>3 DEF Got, TypeOK
  <2> HIDE DEF p
  <2>5. Got' = [Got EXCEPT ![t] = p]
    BY <2>3, <2>4 DEF Got
  <2>6. QED
    BY <2>2, <2>5 DEF p
<1>8. Memory' = M!Without(Memory, F)
  BY <1>2, <1>4 DEF Memory
<1>9. QED
  BY <1>4, <1>5, <1>6, <1>7, <1>8 DEF M!Join

\* Nobody is handed anything as long as the entries that are waited for are the same.
LEMMA GotTheSame ==
  ASSUME TypeOK, Flights, NEW t \in Threads,
         pc[t] # "waiting", pc'[t] # "waiting",
         \A u \in Threads \ {t} : pc'[u] = pc[u] /\ at'[u] = at[u],
         \A n \in 1..sequence : entry'[n] = entry[n]
  PROVE  Got' = Got
<1>1. ASSUME NEW u \in Threads, pc[u] = "waiting"
      PROVE  PromisedIn(entry', at'[u]) = PromisedIn(entry, at[u])
  <2>1. at[u] \in 1..sequence /\ at'[u] = at[u] /\ entry'[at[u]] = entry[at[u]]
    BY <1>1 DEF Flights, Seated
  <2>2. QED
    BY <2>1 DEF PromisedIn
<1>2. Got' = [u \in Threads |-> IF pc'[u] = "waiting" THEN PromisedIn(entry', at'[u])
                                ELSE <<>>]
  BY DEF Got, PromisedIn
<1>3. \A u \in Threads : pc'[u] = "waiting" <=> pc[u] = "waiting"
  OBVIOUS
<1>4. QED
  BY <1>1, <1>2, <1>3 DEF Got

\* RunUncached implements Bypass.
LEMMA BypassImplements ==
  ASSUME TypeOK, Flights, NEW t \in Threads, RunUncached(t)
  PROVE  M!Bypass(t, key[t])
<1> DEFINE K == RoomMade(Swept(t))
           F == KeysIn(entry, live \ K)
<1>1. /\ pc[t] = "arrived" /\ pc' = [pc EXCEPT ![t] = "uncached"]
      /\ key' = key /\ entry' = entry /\ live' = K /\ at' = at
  BY DEF RunUncached
<1>2. K \subseteq Swept(t) /\ K \in SUBSET live /\ \A n \in live \ K : entry[n].complete
  BY SectionKeeps
<1>3. /\ F \in SUBSET M!Finished(Memory)
      /\ DOMAIN Memory \ F = KeysIn(entry, K)
      /\ M!Without(Memory, F) = MemoryOf(entry, K)
  BY <1>2, Forgets
<1>4. key[t] \notin DOMAIN Memory \ F
  BY <1>2, <1>3 DEF KeysIn, RunUncached, Existing
<1>5. M!Start(t, key[t], "uncached")
  BY <1>1, TakesRole
<1>6. Got' = Got
  BY <1>1, GotTheSame DEF TypeOK
<1>7. Memory' = M!Without(Memory, F)
  BY <1>1, <1>3 DEF Memory
<1>8. QED
  BY <1>3, <1>4, <1>5, <1>6, <1>7 DEF M!Bypass

\* Lead implements Lead.
LEMMA LeadImplements ==
  ASSUME TypeOK, Bounded, Flights, NEW t \in Threads, Lead(t)
  PROVE  M!Lead(t, key[t])
<1> DEFINE K == RoomMade(Swept(t))
           F == KeysIn(entry, live \ K)
           n == sequence + 1
           k == key[t]
<1>1. /\ pc[t] = "arrived" /\ pc' = [pc EXCEPT ![t] = "leading"]
      /\ key' = key /\ live' = K \cup {n} /\ at' = [at EXCEPT ![t] = n]
      /\ entry' = [entry EXCEPT ![n] = NewEntry(k)]
  BY DEF Lead
<1>2. K \subseteq Swept(t) /\ K \in SUBSET live /\ \A m \in live \ K : entry[m].complete
  BY SectionKeeps
<1>3. /\ F \in SUBSET M!Finished(Memory)
      /\ DOMAIN Memory \ F = KeysIn(entry, K)
      /\ UniqueIn(entry, K)
      /\ M!Without(Memory, F) = MemoryOf(entry, K)
  BY <1>2, Forgets
<1>4. k \notin KeysIn(entry, K)
  BY <1>2 DEF KeysIn, Lead, Existing
<1>5. M!Start(t, k, "leading")
  BY <1>1, TakesRole
<1>6. /\ entry'[n].key = k /\ ~entry'[n].complete
      /\ \A m \in 1..sequence : entry'[m] = entry[m]
  <2>1. n \in Sequence /\ n \notin 1..sequence
    BY RoomForOne DEF Lead, TypeOK
  <2>2. 1..sequence \subseteq Sequence
    BY NumbersInRange, Limits DEF TypeOK, Sequence
  <2>3. QED
    BY <1>1, <2>1, <2>2 DEF TypeOK, NewEntry
<1>7. Got' = Got
  BY <1>1, <1>6, GotTheSame DEF TypeOK
<1> HIDE DEF K, n, k
<1>8. Memory' = M!With(M!Without(Memory, F), k, M!Running)
  <2> DEFINE f == [j \in KeysIn(entry, K) \cup {k} |->
                     IF j = k THEN M!Running ELSE MemoryOf(entry, K)[j]]
  <2>1. M!With(M!Without(Memory, F), k, M!Running) = f
    <3>1. DOMAIN MemoryOf(entry, K) = KeysIn(entry, K)
      BY <1>3, MemoryAt
    <3>2. QED
      BY <1>3, <3>1 DEF M!With
  <2>2. \A m \in K : m \in 1..sequence /\ entry'[m] = entry[m] /\ entry[m].key # k
    BY <1>2, <1>4, <1>6 DEF KeysIn, TypeOK
  <2>3. KeysIn(entry', live') = KeysIn(entry, K) \cup {k}
    BY <1>1, <1>6, <2>2 DEF KeysIn
  <2>4. UniqueIn(entry', live')
    BY <1>1, <1>3, <1>6, <2>2 DEF UniqueIn
  <2>5. ASSUME NEW m \in live' PROVE f[entry'[m].key] = PromisedIn(entry', m)
    <3>1. CASE m = n
      <4>1. PromisedIn(entry', n) = M!Running
        BY <1>6, PromisedCases
      <4>2. QED
        BY <1>6, <3>1, <4>1
    <3>2. CASE m \in K
      <4>1. PromisedIn(entry', m) = PromisedIn(entry, m)
        BY <2>2, <3>2 DEF PromisedIn
      <4>2. MemoryOf(entry, K)[entry[m].key] = PromisedIn(entry, m)
        BY <1>3, <3>2, MemoryAt
      <4>3. entry[m].key \in KeysIn(entry, K) /\ entry'[m].key = entry[m].key
        BY <2>2, <3>2 DEF KeysIn
      <4>4. QED
        BY <2>2, <3>2, <4>1, <4>2, <4>3
    <3>3. QED
      BY <1>1, <3>1, <3>2
  <2>6. f = [j \in KeysIn(entry', live') |-> f[j]]
    BY <2>3
  <2> HIDE DEF f
  <2>7. MemoryOf(entry', live') = f
    BY <2>4, <2>5, <2>6, MemoryIs
  <2>8. QED
    BY <2>1, <2>7 DEF Memory, MemoryOf, KeysIn, PromisedIn
<1>9. QED
  BY <1>3, <1>4, <1>5, <1>7, <1>8 DEF M!Lead, k

\* The result that a completion stands for.
Result(n, len, ok) == IF ok THEN M!Ok(<<n, len>>) ELSE M!Failed

\* Complete implements Finish: everybody who waits for the key has the entry of its
\* leader, as an entry that is still worked on is the only one for its key.
LEMMA FinishImplements ==
  ASSUME TypeOK, Flights, Account, NEW t \in Threads,
         NEW len \in Lengths \cup {0}, NEW ok \in BOOLEAN, Complete(t, len, ok)
  PROVE  M!Finish(t, Result(at[t], len, ok)) /\ <<at[t], len>> \in Values
<1> DEFINE n == at[t]
           k == key[t]
           r == Result(n, len, ok)
           m == [Memory EXCEPT ![k] = r]
           F == IF ~ok \/ len > MaxItem THEN {k} ELSE KeysIn(entry, live \ live')
<1>1. /\ n \in live /\ n \in Sequence /\ len \in Nat
      /\ pc[t] = "leading" /\ ~entry[n].complete /\ entry[n].key = k
      /\ live \subseteq 1..sequence
      /\ \A x \in 1..sequence : x \in Sequence
  BY DedupeAssumption, Limits DEF TypeOK, Flights, LeadersHold, Complete, Sequence
<1>2. /\ pc' = [pc EXCEPT ![t] = "idle"] /\ at' = [at EXCEPT ![t] = NoEntry]
      /\ key' = key /\ sequence' = sequence
      /\ entry' = Done(n, len, ok)
  BY DEF Complete, Done
<1>3. /\ live' \subseteq live
      /\ \A x \in live \ live' : entry'[x].complete
  BY CompleteKeepsAccount
<1>4. /\ entry'[n].complete /\ entry'[n].key = entry[n].key
      /\ entry'[n].ok = ok /\ entry'[n].len = len
      /\ \A x \in Sequence \ {n} : entry'[x] = entry[x]
  <2> HIDE DEF n
  <2>1. QED
    BY <1>1, <1>2, DoneEntry
<1>5. UniqueIn(entry, live)
  BY DEF Flights, KeysUnique, UniqueIn
<1>6. PromisedIn(entry', n) = r /\ r # M!Running
  <2>1. CASE ok
    BY <1>4, <2>1, PromisedCases DEF Result
  <2>2. CASE ~ok
    BY <1>4, <2>2, PromisedCases DEF Result
  <2>3. QED
    BY <2>1, <2>2
<1>7. \A x \in live : x # n => /\ PromisedIn(entry', x) = PromisedIn(entry, x)
                               /\ entry'[x] = entry[x]
                               /\ entry[x].key # k
  BY <1>1, <1>4, <1>5 DEF PromisedIn, UniqueIn
<1>8. Role[t] = "leading" /\ Asked[t] = k
  BY <1>1 DEF Role, Asked, Inside
<1>9. M!Leave(t)
  BY <1>2, LeavesRole
<1> HIDE DEF n, k, r
<1>10. Got' = [u \in Threads |->
                 IF Role[u] = "waiting" /\ Asked[u] = Asked[t] /\ Got[u] = M!Running
                 THEN r ELSE Got[u]]
  <2>1. Got' = [u \in Threads |-> IF pc'[u] = "waiting" THEN PromisedIn(entry', at'[u])
                                  ELSE <<>>]
    BY DEF Got, PromisedIn
  <2>2. ASSUME NEW u \in Threads, pc[u] = "waiting"
        PROVE  Got'[u] = IF Asked[u] = Asked[t] /\ Got[u] = M!Running
                         THEN r ELSE Got[u]
    <3>1. /\ u # t /\ at'[u] = at[u] /\ pc'[u] = "waiting"
          /\ Asked[u] = key[u] /\ Got[u] = PromisedIn(entry, at[u])
      BY <1>1, <1>2, <2>2 DEF TypeOK, Asked, Got, Inside, n
    <3>2. Got'[u] = PromisedIn(entry', at[u])
      BY <2>1, <3>1
    <3>3. at[u] \in Sequence /\ entry[at[u]].key = key[u]
      BY <1>1, <2>2 DEF Flights, Seated, WaitersHaveLeader
    <3>4. CASE at[u] = n
      <4>1. Asked[u] = Asked[t] /\ Got[u] = M!Running
        BY <1>1, <1>8, <3>1, <3>3, <3>4, PromisedCases
      <4>2. QED
        BY <1>6, <3>2, <3>4, <4>1
    <3>5. CASE at[u] # n
      <4>1. Got'[u] = Got[u]
        BY <1>4, <3>1, <3>2, <3>3, <3>5 DEF PromisedIn
      <4>2. ~(Asked[u] = Asked[t] /\ Got[u] = M!Running)
        <5>1. CASE entry[at[u]].complete
          BY <3>1, <5>1, PromisedCases
        <5>2. CASE ~entry[at[u]].complete
          <6>1. PICK v \in Threads : pc[v] = "leading" /\ at[v] = at[u]
            BY <2>2, <5>2 DEF Flights, WaitersHaveLeader
          <6>2. at[u] \in live
            BY <6>1 DEF Flights, LeadersHold
          <6>3. key[u] # k
            BY <1>7, <3>3, <3>5, <6>2
          <6>4. QED
            BY <1>8, <3>1, <6>3
        <5>3. QED
          BY <5>1, <5>2
      <4>3. QED
        BY <4>1, <4>2
    <3>6. QED
      BY <3>4, <3>5
  <2>3. ASSUME NEW u \in Threads, pc[u] # "waiting"
        PROVE  Got'[u] = Got[u] /\ Role[u] # "waiting"
    <3>1. pc'[u] # "waiting"
      BY <1>2, <2>3 DEF TypeOK
    <3>2. QED
      BY <2>1, <2>3, <3>1 DEF Got, Role, Inside
  <2>4. \A u \in Threads : pc[u] = "waiting" => Role[u] = "waiting"
    BY DEF Role, Inside
  <2>5. ASSUME NEW u \in Threads
        PROVE  Got'[u] = IF Role[u] = "waiting" /\ Asked[u] = Asked[t]
                            /\ Got[u] = M!Running THEN r ELSE Got[u]
    BY <2>2, <2>3, <2>4
  <2>6. Got' = [u \in Threads |-> Got'[u]]
    BY <2>1
  <2>7. QED
    BY <2>5, <2>6
<1>11. /\ DOMAIN m = KeysIn(entry, live) /\ k \in DOMAIN m /\ m[k] = r
       /\ \A x \in live : m[entry[x].key] = PromisedIn(entry', x)
  <2>1. /\ DOMAIN Memory = KeysIn(entry, live)
        /\ \A x \in live : Memory[entry[x].key] = PromisedIn(entry, x)
    BY <1>5, MemoryAt DEF Memory
  <2>2. k \in KeysIn(entry, live)
    BY <1>1 DEF KeysIn
  <2>3. DOMAIN m = KeysIn(entry, live) /\ m[k] = r
    BY <2>1, <2>2
  <2>4. ASSUME NEW x \in live PROVE m[entry[x].key] = PromisedIn(entry', x)
    <3>1. CASE x = n
      BY <1>1, <1>6, <2>3, <3>1
    <3>2. CASE x # n
      <4>1. entry[x].key \in DOMAIN Memory
        BY <2>1 DEF KeysIn
      <4>2. QED
        BY <1>7, <2>1, <3>2, <4>1
    <3>3. QED
      BY <3>1, <3>2
  <2>5. QED
    BY <2>2, <2>3, <2>4
<1> HIDE DEF m
<1>12. /\ \A x \in live \ live' : entry[x].key \in F
       /\ \A x \in live' : entry[x].key \notin F
       /\ F \subseteq KeysIn(entry, live)
       /\ \A j \in F : \E x \in live : j = entry[x].key /\ entry'[x].complete
  <2>1. CASE ~ok \/ len > MaxItem
    <3>1. live' = {x \in live : entry[x].key # k}
      BY <2>1 DEF Complete, k
    <3>2. QED
      BY <1>1, <1>4, <2>1, <3>1 DEF KeysIn
  <2>2. CASE ~(~ok \/ len > MaxItem)
    BY <1>3, <1>5, <2>2 DEF KeysIn, UniqueIn
  <2>3. QED
    BY <2>1, <2>2
<1>13. F \in SUBSET M!Finished(m)
  <2>1. ASSUME NEW j \in F PROVE j \in DOMAIN m /\ m[j] # M!Running
    <3>1. PICK x \in live : j = entry[x].key /\ entry'[x].complete
      BY <1>12
    <3>2. PromisedIn(entry', x) # M!Running
      BY <3>1, PromisedCases
    <3>3. QED
      BY <1>11, <1>12, <3>1, <3>2
  <2> HIDE DEF F
  <2>2. QED
    BY <2>1 DEF M!Finished
<1>14. Memory' = M!Without(m, F)
  <2> HIDE DEF F
  <2> DEFINE f == [j \in KeysIn(entry, live) \ F |-> m[j]]
  <2>1. M!Without(m, F) = f
    BY <1>11 DEF M!Without
  <2>2. \A x \in live : entry'[x].key = entry[x].key
    BY <1>1, <1>4, <1>7
  <2>3. KeysIn(entry', live') = KeysIn(entry, live) \ F
    BY <1>3, <1>12, <2>2 DEF KeysIn
  <2>4. UniqueIn(entry', live')
    BY <1>3, <1>5, <2>2 DEF UniqueIn
  <2>5. ASSUME NEW x \in live' PROVE f[entry'[x].key] = PromisedIn(entry', x)
    <3>1. x \in live /\ entry'[x].key = entry[x].key
      BY <1>3, <2>2
    <3>2. entry[x].key \in KeysIn(entry, live) \ F
      BY <1>12, <3>1 DEF KeysIn
    <3>3. QED
      BY <1>11, <3>1, <3>2
  <2>6. f = [j \in KeysIn(entry', live') |-> f[j]]
    BY <2>3
  <2> HIDE DEF f
  <2>7. MemoryOf(entry', live') = f
    BY <2>4, <2>5, <2>6, MemoryIs
  <2>8. QED
    BY <2>1, <2>7 DEF Memory, MemoryOf, KeysIn, PromisedIn
<1>15. r = M!Failed => k \in F
  <2>1. ok => r # M!Failed
    BY DEF r, Result, M!Ok, M!Failed
  <2>2. QED
    BY <2>1
<1> HIDE DEF F
<1>16. M!Finish(t, r)
  BY <1>8, <1>9, <1>10, <1>13, <1>14, <1>15 DEF M!Finish, m
<1>17. <<n, len>> \in Values
  BY <1>1 DEF Values
<1>18. QED
  BY <1>16, <1>17 DEF r, n

\* Receive implements Receive.
LEMMA ReceiveImplements ==
  ASSUME TypeOK, Flights, NEW t \in Threads, Receive(t)
  PROVE  M!Receive(t)
<1>1. /\ pc[t] = "waiting" /\ pc' = [pc EXCEPT ![t] = "idle"]
      /\ at' = [at EXCEPT ![t] = NoEntry] /\ entry[at[t]].complete
      /\ key' = key /\ entry' = entry /\ live' = live
  BY DEF Receive, cacheVars
<1>2. Role[t] = "waiting" /\ Got[t] # M!Running
  BY <1>1, PromisedCases DEF Role, Inside, Got
<1>3. M!Leave(t)
  BY <1>1, LeavesRole
<1>4. Got' = [Got EXCEPT ![t] = M!None]
  <2>1. Got' = [u \in Threads |-> IF pc'[u] = "waiting" THEN PromisedIn(entry, at'[u])
                                  ELSE <<>>]
    BY <1>1 DEF Got, PromisedIn
  <2>2. ASSUME NEW u \in Threads PROVE Got'[u] = [Got EXCEPT ![t] = M!None][u]
    BY <1>1, <2>1 DEF Got, TypeOK, M!None
  <2>3. QED
    BY <2>1, <2>2 DEF Got
<1>5. Memory' = Memory
  BY <1>1 DEF Memory
<1>6. QED
  BY <1>2, <1>3, <1>4, <1>5 DEF M!Receive

\* ReturnUncached implements Return.
LEMMA ReturnImplements ==
  ASSUME TypeOK, Flights, NEW t \in Threads, ReturnUncached(t)
  PROVE  M!Return(t)
<1>1. /\ pc[t] = "uncached" /\ pc' = [pc EXCEPT ![t] = "idle"]
      /\ at' = at /\ key' = key /\ entry' = entry /\ live' = live
  BY DEF ReturnUncached, cacheVars, callVars
<1>2. Role[t] = "uncached"
  BY <1>1 DEF Role, Inside
<1>3. M!Leave(t)
  BY <1>1, LeavesRole
<1>4. Got' = Got
  BY <1>1, GotTheSame DEF TypeOK
<1>5. Memory' = Memory
  BY <1>1 DEF Memory
<1>6. QED
  BY <1>2, <1>3, <1>4, <1>5 DEF M!Return

\* Arriving, the clock and rest are steps that Memo does not see.
LEMMA OutsideImplements ==
  ASSUME TypeOK, UNCHANGED vars \/ Tick \/ Rest
                 \/ \E t \in Threads, k \in Keys : Arrive(t, k)
  PROVE  UNCHANGED M!vars
<1>1. entry' = entry /\ live' = live /\ at' = at
  BY DEF vars, Tick, Rest, Arrive, cacheVars, callVars
<1>2. \A u \in Threads : /\ Inside(u) <=> Inside(u)'
                         /\ Inside(u) => pc'[u] = pc[u] /\ key'[u] = key[u]
  BY DEF vars, Tick, Rest, Arrive, cacheVars, callVars, Inside, TypeOK
<1>3. Role' = Role
  BY <1>2 DEF Role
<1>4. Asked' = Asked
  BY <1>2 DEF Asked
<1>5. Got' = Got
  BY <1>1, <1>2 DEF Got, Inside
<1>6. Memory' = Memory
  BY <1>1 DEF Memory
<1>7. QED
  BY <1>3, <1>4, <1>5, <1>6 DEF M!vars

\* The initial state is Memo's,
LEMMA InitImplements == Init => M!Init
<1> SUFFICES ASSUME Init PROVE M!Init
  OBVIOUS
<1>1. Role = [t \in Threads |-> "idle"]
  BY DEF Init, Role, Inside
<1>2. Asked = [t \in Threads |-> M!None]
  BY DEF Init, Asked, Inside, M!None
<1>3. Got = [t \in Threads |-> M!None]
  BY DEF Init, Got, M!None
<1>4. Memory = << >>
  BY DEF Init, Memory, MemoryOf, KeysIn
<1>5. QED
  BY <1>1, <1>2, <1>3, <1>4 DEF M!Init

\* and every step is a step of Memo or changes nothing in it.
LEMMA NextImplements ==
  ASSUME IInv, [Next]_vars
  PROVE  [M!Next(Keys, Values)]_(M!vars)
<1>1. TypeOK /\ Bounded /\ Flights /\ Account /\ Times
  BY DEF IInv
<1>2. CASE UNCHANGED vars \/ Tick \/ Rest
           \/ \E t \in Threads, k \in Keys : Arrive(t, k)
  BY <1>1, <1>2, OutsideImplements
<1>3. ASSUME NEW t \in Threads, Join(t) \/ Lead(t) \/ RunUncached(t)
      PROVE  M!Next(Keys, Values)
  <2>1. key[t] \in Keys
    BY <1>1 DEF TypeOK
  <2>2. M!Join(t, key[t]) \/ M!Lead(t, key[t]) \/ M!Bypass(t, key[t])
    BY <1>1, <1>3, JoinImplements, LeadImplements, BypassImplements
  <2>3. QED
    BY <2>1, <2>2 DEF M!Next
<1>4. ASSUME NEW t \in Threads, NEW len \in Lengths \cup {0}, NEW ok \in BOOLEAN,
             Complete(t, len, ok)
      PROVE  M!Next(Keys, Values)
  <2>1. M!Finish(t, Result(at[t], len, ok)) /\ <<at[t], len>> \in Values
    BY <1>1, <1>4, FinishImplements
  <2>2. Result(at[t], len, ok) \in {M!Failed} \cup {M!Ok(v) : v \in Values}
    BY <2>1 DEF Result
  <2>3. QED
    BY <2>1, <2>2 DEF M!Next
<1>5. ASSUME NEW t \in Threads, Receive(t) \/ ReturnUncached(t)
      PROVE  M!Next(Keys, Values)
  BY <1>1, <1>5, ReceiveImplements, ReturnImplements DEF M!Next
<1>6. QED
  BY <1>2, <1>3, <1>4, <1>5 DEF Next, Progress

\* The cache implements Memo: expiry, eviction, the budgets and the two lock sections
\* stay behind single flight and the reuse of successes.
THEOREM CacheImplementsMemo == Spec => ImplementsMemo
<1>1. Init => Promise!Init
  BY InitImplements, SameMapping
<1>2. IInv /\ [Next]_vars =>
        [Promise!Next(Keys, Sequence \X (Lengths \cup {0}))]_(Promise!vars)
  BY NextImplements, SameMapping
<1>3. QED
  BY <1>1, <1>2, CacheInvariant, PTL DEF Spec, ImplementsMemo
=============================================================================
