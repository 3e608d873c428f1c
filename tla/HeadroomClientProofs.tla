------------------------ MODULE HeadroomClientProofs ------------------------
(***************************************************************************)
(* Proofs about HeadroomClient for any set of goroutines, thresholds and   *)
(* durations: types, the single slot, the owner of the half-open mark, and *)
(* the record of a closed circuit.                                         *)
(***************************************************************************)
EXTENDS HeadroomClient, ProofLemmas

\* A call that is about to tell the breaker its result has read the clock.
Timed ==
  \A t \in Threads : pc[t] \in {"entering", "answered"} => now[t] \in Time

\* The inductive invariant.
IInv == SlotExact /\ ProbeOwned /\ ClosedBelowThresholds /\ Timed

\* The loop over the failures builds a sequence of times at every turn.
LEMMA LoopType ==
  ASSUME NEW S, S \subseteq Int, NEW N \in Nat, NEW fs, NEW cutoff \in Int,
         \A n \in 1..N : fs[n] \in S,
         NEW f, f = [n \in 0..N |-> IF n = 0 THEN <<>>
                                    ELSE IF fs[n] < cutoff THEN f[n - 1]
                                    ELSE Append(f[n - 1], fs[n])]
  PROVE  \A n \in 0..N : f[n] \in Seq(S)
<1>1. ASSUME NEW n \in 0..N
      PROVE  f[n] = IF n = 0 THEN <<>>
                    ELSE IF fs[n] < cutoff THEN f[n - 1]
                    ELSE Append(f[n - 1], fs[n])
  OBVIOUS
<1>2. f[0] \in Seq(S)
  BY <1>1
<1>3. ASSUME NEW n \in 1..N, f[n - 1] \in Seq(S) PROVE f[n] \in Seq(S)
  <2>1. n \in 0..N /\ n # 0 /\ fs[n] \in S
    OBVIOUS
  <2>2. f[n] \in {f[n - 1], Append(f[n - 1], fs[n])}
    BY <1>1, <2>1
  <2>3. \A s \in Seq(S), x \in S : Append(s, x) \in Seq(S)
    BY ONLY TRUE
  <2>4. QED
    BY ONLY f[n - 1] \in Seq(S), <2>1, <2>2, <2>3
<1> DEFINE V == Seq(S)
<1>4. f[0] \in V /\ \A n \in 1..N : f[n - 1] \in V => f[n] \in V
  BY <1>2, <1>3
<1> HIDE DEF V
<1>5. \A n \in 0..N : f[n] \in V
  BY ONLY N \in Nat, <1>4, StaysIn
<1>6. QED
  BY <1>5 DEF V

\* The loop is a function: there is one that satisfies its equation.
LEMMA LoopExists ==
  ASSUME NEW N \in Nat, NEW fs, NEW cutoff \in Int,
         \A n \in 1..N : fs[n] \in Int
  PROVE  \E f : f = [n \in 0..N |-> IF n = 0 THEN <<>>
                                    ELSE IF fs[n] < cutoff THEN f[n - 1]
                                    ELSE Append(f[n - 1], fs[n])]
<1> DEFINE V == Seq(Int)
           base == <<>>
           step == [n \in 1..N |->
                      [v \in V |-> IF fs[n] < cutoff THEN v ELSE Append(v, fs[n])]]
<1>1. base \in V
  OBVIOUS
<1>2. step \in [1..N -> [V -> V]]
  <2>1. ASSUME NEW n \in 1..N, NEW v \in V
        PROVE  (IF fs[n] < cutoff THEN v ELSE Append(v, fs[n])) \in V
    OBVIOUS
  <2> HIDE DEF V
  <2>2. QED
    BY <2>1
<1>3. ASSUME NEW n \in 1..N, NEW v \in V
      PROVE  step[n][v] = IF fs[n] < cutoff THEN v ELSE Append(v, fs[n])
  <2> HIDE DEF V
  <2>1. QED
    OBVIOUS
<1> HIDE DEF V, base, step
<1>4. PICK f \in [0..N -> V] :
        /\ f[0] = base
        /\ \A n \in 1..N : f[n] = step[n][f[n - 1]]
  BY ONLY N \in Nat, <1>1, <1>2, Recursion
<1>5. ASSUME NEW n \in 0..N
      PROVE  f[n] = IF n = 0 THEN <<>>
                    ELSE IF fs[n] < cutoff THEN f[n - 1]
                    ELSE Append(f[n - 1], fs[n])
  <2>1. CASE n = 0
    BY <1>4, <2>1 DEF base
  <2>2. CASE n \in 1..N
    <3>1. n # 0 /\ n - 1 \in 0..N
      BY <2>2
    <3>2. f[n - 1] \in V
      BY <1>4, <3>1
    <3>3. f[n] = step[n][f[n - 1]]
      BY <1>4, <2>2
    <3>4. QED
      BY <1>3, <2>2, <3>1, <3>2, <3>3
  <2>3. QED
    BY <2>1, <2>2
<1>6. f = [n \in 0..N |-> IF n = 0 THEN <<>>
                          ELSE IF fs[n] < cutoff THEN f[n - 1]
                          ELSE Append(f[n - 1], fs[n])]
  BY <1>5
<1>7. QED
  BY <1>6

\* Dropping old failures leaves a sequence of times.
LEMMA RecentType ==
  ASSUME NEW S, S \subseteq Int, NEW fs \in Seq(S), NEW cutoff \in Int
  PROVE  Recent(fs, cutoff) \in Seq(S)
<1>1. PICK N \in Nat : N = Len(fs)
  OBVIOUS
<1>2. \A n \in 1..N : fs[n] \in S /\ fs[n] \in Int
  <2>1. \A n \in 1..N : fs[n] \in S
    BY <1>1
  <2>2. QED
    BY <2>1
<1> DEFINE Loop(f) == f = [n \in 0..N |-> IF n = 0 THEN <<>>
                                         ELSE IF fs[n] < cutoff THEN f[n - 1]
                                         ELSE Append(f[n - 1], fs[n])]
           kept == CHOOSE f : Loop(f)
<1>3. Recent(fs, cutoff) = kept[N]
  BY <1>1 DEF Recent
<1>4. \E f : Loop(f)
  BY <1>1, <1>2, LoopExists
<1>5. Loop(kept)
  <2> HIDE DEF Loop
  <2>1. QED
    BY <1>4
<1> HIDE DEF kept
<1>6. \A n \in 0..N : kept[n] \in Seq(S)
  BY <1>1, <1>2, <1>5, LoopType
<1>7. QED
  BY <1>3, <1>6

-----------------------------------------------------------------------------
\* The types of the variables and of the times that calls carry.
Typed == TypeOK /\ Timed
\* The conjuncts of SlotExact that are not types.
OneSender ==
  \A t, u \in Threads : pc[t] \in Sending /\ pc[u] \in Sending => t = u
SlotHeld == slot <=> \E t \in Threads : pc[t] \in Sending

\* breaker.finish leaves the breaker's fields with their types.
LEMMA FinishTypes ==
  ASSUME Typed, NEW t \in Threads, Finish(t)
  PROVE  /\ consecutive' \in Nat /\ failures' \in Seq(Time)
         /\ openUntil' \in Int /\ halfOpen' \in BOOLEAN
<1>1. /\ now[t] \in Time /\ now[t] \in Int /\ OpenDuration \in Int
      /\ FailureWindow \in Int /\ consecutive \in Nat /\ failures \in Seq(Time)
      /\ openUntil \in Int /\ halfOpen \in BOOLEAN /\ NoTime \in Int
  <2>1. now[t] \in Time
    BY DEF Typed, Timed, Finish
  <2>2. now[t] \in Int
    BY <2>1 DEF Time
  <2>3. OpenDuration \in Int /\ FailureWindow \in Int /\ NoTime \in Int
    BY ClientAssumption DEF NoTime
  <2>4. /\ consecutive \in Nat /\ failures \in Seq(Time)
        /\ openUntil \in Int /\ halfOpen \in BOOLEAN
    BY DEF Typed, TypeOK
  <2>5. QED
    BY <2>1, <2>2, <2>3, <2>4
<1>2. CASE probe[t]
  <2>1. FinishProbe(now[t], outcome[t] = "applied")
    BY <1>2 DEF Finish
  <2>2. /\ halfOpen' = FALSE
        /\ openUntil' \in {NoTime, now[t] + OpenDuration}
        /\ consecutive' \in {0, consecutive}
        /\ failures' \in {<<>>, failures}
    BY <2>1, Zenon DEF FinishProbe
  <2>3. openUntil' \in Int /\ consecutive' \in Nat
    BY <1>1, <2>2
  <2>4. failures' \in Seq(Time)
    <3>1. <<>> \in Seq(Time)
      OBVIOUS
    <3>2. QED
      BY ONLY <1>1, <2>2, <3>1
  <2>5. QED
    BY <2>2, <2>3, <2>4
<1>3. CASE ~probe[t]
  <2>1. FinishCall(now[t], outcome[t] = "applied")
    BY <1>3 DEF Finish
  <2>2. CASE outcome[t] = "applied"
    BY <1>1, <2>1, <2>2 DEF FinishCall
  <2>3. CASE outcome[t] # "applied"
    <3> DEFINE recent == Recent(failures, now[t] - FailureWindow)
               kept   == Append(recent, now[t])
    <3>1. recent \in Seq(Time)
      <4>1. Time \subseteq Int /\ now[t] - FailureWindow \in Int
        BY <1>1 DEF Time
      <4>2. QED
        BY ONLY <1>1, <4>1, RecentType
    <3>2. kept \in Seq(Time)
      <4> HIDE DEF recent
      <4>1. QED
        BY <1>1, <3>1
    <3> HIDE DEF kept
    <3>3. \E trip \in BOOLEAN :
            /\ failures' = kept
            /\ consecutive' = consecutive + 1
            /\ openUntil' = IF trip THEN now[t] + OpenDuration ELSE openUntil
            /\ halfOpen' = (halfOpen /\ ~trip)
      BY <2>1, <2>3, Zenon DEF FinishCall, kept
    <3>4. QED
      BY <1>1, <3>2, <3>3
  <2>4. QED
    BY <2>2, <2>3
<1>4. QED
  BY <1>2, <1>3

\* A step keeps the types, and the time a call carries stays a time.
LEMMA TypedStep ==
  ASSUME Typed, [Next]_vars
  PROVE  Typed'
<1> USE ClientAssumption DEF Typed, TypeOK, Timed, Labels, Instant, Time, Outcomes,
        Results
<1>1. CASE UNCHANGED vars
  BY <1>1 DEF vars, breakerVars, probeVars
<1>2. CASE Tick
  BY <1>2 DEF Tick, breakerVars, probeVars
<1>3. ASSUME NEW t \in Threads, ProbeCall(t)
      PROVE  Typed'
  BY <1>3 DEF ProbeCall, Goto, breakerVars, probeVars
<1>4. ASSUME NEW t \in Threads, TooLarge(t)
      PROVE  Typed'
  BY <1>4 DEF TooLarge, Return, Goto, breakerVars, probeVars
<1>5. ASSUME NEW t \in Threads, Enter(t)
      PROVE  Typed'
  BY <1>5 DEF Enter, Goto, breakerVars, probeVars
<1>6. ASSUME NEW t \in Threads, ProbeCached(t)
      PROVE  Typed'
  BY <1>6 DEF ProbeCached, Goto, breakerVars, probeVars
<1>7. ASSUME NEW t \in Threads, ProbeLock(t)
      PROVE  Typed'
  BY <1>7 DEF ProbeLock, Goto, breakerVars, probeVars
<1>8. ASSUME NEW t \in Threads, BeginClosed(t)
      PROVE  Typed'
  BY <1>8 DEF BeginClosed, Goto, breakerVars, probeVars
<1>9. ASSUME NEW t \in Threads, BeginRefused(t)
      PROVE  Typed'
  BY <1>9 DEF BeginRefused, Return, Goto, breakerVars, probeVars
<1>10. ASSUME NEW t \in Threads, BeginProbe(t)
      PROVE  Typed'
  BY <1>10 DEF BeginProbe, Goto, breakerVars, probeVars
<1>11. ASSUME NEW t \in Threads, TakeSlot(t)
      PROVE  Typed'
  BY <1>11 DEF TakeSlot, Goto, breakerVars, probeVars
<1>12. ASSUME NEW t \in Threads, \E o \in {"saturated", "failed"} : NoSlot(t, o)
      PROVE  Typed'
  BY <1>12 DEF NoSlot, Goto, breakerVars, probeVars
<1>13. ASSUME NEW t \in Threads, Cancel(t)
      PROVE  Typed'
  BY <1>13 DEF Cancel, Goto, breakerVars, probeVars
<1>14. ASSUME NEW t \in Threads, \E o \in Results : Answer(t, o)
      PROVE  Typed'
  BY <1>14 DEF Answer, Results, Goto, breakerVars, probeVars
<1>15. ASSUME NEW t \in Threads, Finish(t)
      PROVE  Typed'
  <2>1. /\ consecutive' \in Nat /\ failures' \in Seq(Time)
        /\ openUntil' \in Int /\ halfOpen' \in BOOLEAN
    BY <1>15, FinishTypes
  <2>2. QED
    BY <1>15, <2>1 DEF Finish, Goto, breakerVars, probeVars
<1>16. ASSUME NEW t \in Threads, ReleaseSlot(t)
      PROVE  Typed'
  BY <1>16 DEF ReleaseSlot, Goto, breakerVars, probeVars
<1>17. ASSUME NEW t \in Threads, Record(t)
      PROVE  Typed'
  BY <1>17 DEF Record, Forget, Goto, breakerVars, probeVars
<1>18. ASSUME NEW t \in Threads, ProbeEnd(t)
      PROVE  Typed'
  BY <1>18 DEF ProbeEnd, Forget, Goto, breakerVars, probeVars
<1>19. QED
  BY <1>1, <1>2, <1>3, <1>4, <1>5, <1>6, <1>7, <1>8, <1>9, <1>10,
     <1>11, <1>12, <1>13, <1>14, <1>15, <1>16, <1>17, <1>18
     DEF Next, Call, Progress

\* A step keeps the slot exact: it is taken by a call that goes to Headroom and
\* given back by the same call.
LEMMA SlotStep ==
  ASSUME Typed, OneSender, SlotHeld, [Next]_vars
  PROVE  OneSender' /\ SlotHeld'
<1>1. CASE UNCHANGED vars
  BY <1>1 DEF Typed, TypeOK, OneSender, SlotHeld, Sending,
     vars, breakerVars, probeVars
<1>2. CASE Tick
  BY <1>2 DEF Typed, TypeOK, OneSender, SlotHeld, Sending,
     Tick, breakerVars, probeVars
<1>3. ASSUME NEW t \in Threads, ProbeCall(t)
      PROVE  OneSender' /\ SlotHeld'
  BY <1>3 DEF Typed, TypeOK, OneSender, SlotHeld, Sending,
     ProbeCall, Goto, breakerVars, probeVars
<1>4. ASSUME NEW t \in Threads, TooLarge(t)
      PROVE  OneSender' /\ SlotHeld'
  BY <1>4 DEF Typed, TypeOK, OneSender, SlotHeld, Sending,
     TooLarge, Return, Goto, breakerVars, probeVars
<1>5. ASSUME NEW t \in Threads, Enter(t)
      PROVE  OneSender' /\ SlotHeld'
  BY <1>5 DEF Typed, TypeOK, OneSender, SlotHeld, Sending,
     Enter, Goto, breakerVars, probeVars
<1>6. ASSUME NEW t \in Threads, ProbeCached(t)
      PROVE  OneSender' /\ SlotHeld'
  BY <1>6 DEF Typed, TypeOK, OneSender, SlotHeld, Sending,
     ProbeCached, Goto, breakerVars, probeVars
<1>7. ASSUME NEW t \in Threads, ProbeLock(t)
      PROVE  OneSender' /\ SlotHeld'
  BY <1>7 DEF Typed, TypeOK, OneSender, SlotHeld, Sending,
     ProbeLock, Goto, breakerVars, probeVars
<1>8. ASSUME NEW t \in Threads, BeginClosed(t)
      PROVE  OneSender' /\ SlotHeld'
  BY <1>8 DEF Typed, TypeOK, OneSender, SlotHeld, Sending,
     BeginClosed, Goto, breakerVars, probeVars
<1>9. ASSUME NEW t \in Threads, BeginRefused(t)
      PROVE  OneSender' /\ SlotHeld'
  BY <1>9 DEF Typed, TypeOK, OneSender, SlotHeld, Sending,
     BeginRefused, Return, Goto, breakerVars, probeVars
<1>10. ASSUME NEW t \in Threads, BeginProbe(t)
      PROVE  OneSender' /\ SlotHeld'
  BY <1>10 DEF Typed, TypeOK, OneSender, SlotHeld, Sending,
     BeginProbe, Goto, breakerVars, probeVars
<1>11. ASSUME NEW t \in Threads, TakeSlot(t)
      PROVE  OneSender' /\ SlotHeld'
  BY <1>11 DEF Typed, TypeOK, OneSender, SlotHeld, Sending,
     TakeSlot, Goto, breakerVars, probeVars
<1>12. ASSUME NEW t \in Threads, \E o \in {"saturated", "failed"} : NoSlot(t, o)
      PROVE  OneSender' /\ SlotHeld'
  BY <1>12 DEF Typed, TypeOK, OneSender, SlotHeld, Sending,
     NoSlot, Goto, breakerVars, probeVars
<1>13. ASSUME NEW t \in Threads, Cancel(t)
      PROVE  OneSender' /\ SlotHeld'
  BY <1>13 DEF Typed, TypeOK, OneSender, SlotHeld, Sending,
     Cancel, Goto, breakerVars, probeVars
<1>14. ASSUME NEW t \in Threads, \E o \in Results : Answer(t, o)
      PROVE  OneSender' /\ SlotHeld'
  BY <1>14 DEF Typed, TypeOK, OneSender, SlotHeld, Sending,
     Answer, Results, Goto, breakerVars, probeVars
<1>15. ASSUME NEW t \in Threads, Finish(t)
      PROVE  OneSender' /\ SlotHeld'
  BY <1>15 DEF Typed, TypeOK, OneSender, SlotHeld, Sending,
     Finish, Goto, breakerVars, probeVars
<1>16. ASSUME NEW t \in Threads, ReleaseSlot(t)
      PROVE  OneSender' /\ SlotHeld'
  BY <1>16 DEF Typed, TypeOK, OneSender, SlotHeld, Sending,
     ReleaseSlot, Goto, breakerVars, probeVars
<1>17. ASSUME NEW t \in Threads, Record(t)
      PROVE  OneSender' /\ SlotHeld'
  BY <1>17 DEF Typed, TypeOK, OneSender, SlotHeld, Sending,
     Record, Forget, Goto, breakerVars, probeVars
<1>18. ASSUME NEW t \in Threads, ProbeEnd(t)
      PROVE  OneSender' /\ SlotHeld'
  BY <1>18 DEF Typed, TypeOK, OneSender, SlotHeld, Sending,
     ProbeEnd, Forget, Goto, breakerVars, probeVars
<1>19. QED
  BY <1>1, <1>2, <1>3, <1>4, <1>5, <1>6, <1>7, <1>8, <1>9, <1>10,
     <1>11, <1>12, <1>13, <1>14, <1>15, <1>16, <1>17, <1>18
     DEF Next, Call, Progress

\* A step keeps the owner of the half-open mark.
LEMMA OwnerStep ==
  ASSUME Typed, ProbeOwned, [Next]_vars
  PROVE  ProbeOwned'
<1>1. CASE UNCHANGED vars
  BY <1>1 DEF Typed, TypeOK, ProbeOwned, Pending,
     vars, breakerVars, probeVars
<1>2. CASE Tick
  BY <1>2 DEF Typed, TypeOK, ProbeOwned, Pending,
     Tick, breakerVars, probeVars
<1>3. ASSUME NEW t \in Threads, ProbeCall(t)
      PROVE  ProbeOwned'
  BY <1>3 DEF Typed, TypeOK, ProbeOwned, Pending,
     ProbeCall, Goto, breakerVars, probeVars
<1>4. ASSUME NEW t \in Threads, TooLarge(t)
      PROVE  ProbeOwned'
  BY <1>4 DEF Typed, TypeOK, ProbeOwned, Pending,
     TooLarge, Return, Goto, breakerVars, probeVars
<1>5. ASSUME NEW t \in Threads, Enter(t)
      PROVE  ProbeOwned'
  BY <1>5 DEF Typed, TypeOK, ProbeOwned, Pending,
     Enter, Goto, breakerVars, probeVars
<1>6. ASSUME NEW t \in Threads, ProbeCached(t)
      PROVE  ProbeOwned'
  BY <1>6 DEF Typed, TypeOK, ProbeOwned, Pending,
     ProbeCached, Goto, breakerVars, probeVars
<1>7. ASSUME NEW t \in Threads, ProbeLock(t)
      PROVE  ProbeOwned'
  BY <1>7 DEF Typed, TypeOK, ProbeOwned, Pending,
     ProbeLock, Goto, breakerVars, probeVars
<1>8. ASSUME NEW t \in Threads, BeginClosed(t)
      PROVE  ProbeOwned'
  BY <1>8 DEF Typed, TypeOK, ProbeOwned, Pending,
     BeginClosed, Goto, breakerVars, probeVars
<1>9. ASSUME NEW t \in Threads, BeginRefused(t)
      PROVE  ProbeOwned'
  BY <1>9 DEF Typed, TypeOK, ProbeOwned, Pending,
     BeginRefused, Return, Goto, breakerVars, probeVars
<1>10. ASSUME NEW t \in Threads, BeginProbe(t)
      PROVE  ProbeOwned'
  BY <1>10 DEF Typed, TypeOK, ProbeOwned, Pending,
     BeginProbe, Goto, breakerVars, probeVars
<1>11. ASSUME NEW t \in Threads, TakeSlot(t)
      PROVE  ProbeOwned'
  BY <1>11 DEF Typed, TypeOK, ProbeOwned, Pending,
     TakeSlot, Goto, breakerVars, probeVars
<1>12. ASSUME NEW t \in Threads, \E o \in {"saturated", "failed"} : NoSlot(t, o)
      PROVE  ProbeOwned'
  BY <1>12 DEF Typed, TypeOK, ProbeOwned, Pending,
     NoSlot, Goto, breakerVars, probeVars
<1>13. ASSUME NEW t \in Threads, Cancel(t)
      PROVE  ProbeOwned'
  BY <1>13 DEF Typed, TypeOK, ProbeOwned, Pending,
     Cancel, Goto, breakerVars, probeVars
<1>14. ASSUME NEW t \in Threads, \E o \in Results : Answer(t, o)
      PROVE  ProbeOwned'
  BY <1>14 DEF Typed, TypeOK, ProbeOwned, Pending,
     Answer, Results, Goto, breakerVars, probeVars
<1>15. ASSUME NEW t \in Threads, Finish(t)
      PROVE  ProbeOwned'
  <2>1. /\ pc' = [pc EXCEPT ![t] = "finished"]
        /\ probe' = [probe EXCEPT ![t] = FALSE]
    BY <1>15 DEF Finish, Goto
  <2>2. CASE probe[t]
    <3>1. halfOpen' = FALSE
      BY <1>15, <2>2, Zenon DEF Finish, FinishProbe
    <3>2. QED
      BY <3>1 DEF ProbeOwned
  <2>3. CASE ~probe[t]
    <3>1. halfOpen' => halfOpen
      BY <1>15, <2>3, Zenon DEF Finish, FinishCall
    <3>2. ASSUME halfOpen PROVE ProbeOwned'
      <4>1. PICK u \in Threads : probe[u] /\ pc[u] \in Pending
        BY <3>2 DEF ProbeOwned
      <4>2. probe'[u] /\ pc'[u] \in Pending
        BY <2>1, <2>3, <4>1 DEF Typed, TypeOK
      <4>3. QED
        BY <4>2 DEF ProbeOwned
    <3>3. QED
      BY <3>1, <3>2 DEF ProbeOwned
  <2>4. QED
    BY <2>2, <2>3
<1>16. ASSUME NEW t \in Threads, ReleaseSlot(t)
      PROVE  ProbeOwned'
  BY <1>16 DEF Typed, TypeOK, ProbeOwned, Pending,
     ReleaseSlot, Goto, breakerVars, probeVars
<1>17. ASSUME NEW t \in Threads, Record(t)
      PROVE  ProbeOwned'
  BY <1>17 DEF Typed, TypeOK, ProbeOwned, Pending,
     Record, Forget, Goto, breakerVars, probeVars
<1>18. ASSUME NEW t \in Threads, ProbeEnd(t)
      PROVE  ProbeOwned'
  BY <1>18 DEF Typed, TypeOK, ProbeOwned, Pending,
     ProbeEnd, Forget, Goto, breakerVars, probeVars
<1>19. QED
  BY <1>1, <1>2, <1>3, <1>4, <1>5, <1>6, <1>7, <1>8, <1>9, <1>10,
     <1>11, <1>12, <1>13, <1>14, <1>15, <1>16, <1>17, <1>18
     DEF Next, Call, Progress

\* A step keeps the record of a closed circuit below both thresholds.
LEMMA ThresholdStep ==
  ASSUME Typed, ClosedBelowThresholds, [Next]_vars
  PROVE  ClosedBelowThresholds'
<1>1. CASE UNCHANGED vars
  BY <1>1 DEF Typed, TypeOK, ClosedBelowThresholds,
     vars, breakerVars, probeVars
<1>2. CASE Tick
  BY <1>2 DEF Typed, TypeOK, ClosedBelowThresholds,
     Tick, breakerVars, probeVars
<1>3. ASSUME NEW t \in Threads, ProbeCall(t)
      PROVE  ClosedBelowThresholds'
  BY <1>3 DEF Typed, TypeOK, ClosedBelowThresholds,
     ProbeCall, Goto, breakerVars, probeVars
<1>4. ASSUME NEW t \in Threads, TooLarge(t)
      PROVE  ClosedBelowThresholds'
  BY <1>4 DEF Typed, TypeOK, ClosedBelowThresholds,
     TooLarge, Return, Goto, breakerVars, probeVars
<1>5. ASSUME NEW t \in Threads, Enter(t)
      PROVE  ClosedBelowThresholds'
  BY <1>5 DEF Typed, TypeOK, ClosedBelowThresholds,
     Enter, Goto, breakerVars, probeVars
<1>6. ASSUME NEW t \in Threads, ProbeCached(t)
      PROVE  ClosedBelowThresholds'
  BY <1>6 DEF Typed, TypeOK, ClosedBelowThresholds,
     ProbeCached, Goto, breakerVars, probeVars
<1>7. ASSUME NEW t \in Threads, ProbeLock(t)
      PROVE  ClosedBelowThresholds'
  BY <1>7 DEF Typed, TypeOK, ClosedBelowThresholds,
     ProbeLock, Goto, breakerVars, probeVars
<1>8. ASSUME NEW t \in Threads, BeginClosed(t)
      PROVE  ClosedBelowThresholds'
  BY <1>8 DEF Typed, TypeOK, ClosedBelowThresholds,
     BeginClosed, Goto, breakerVars, probeVars
<1>9. ASSUME NEW t \in Threads, BeginRefused(t)
      PROVE  ClosedBelowThresholds'
  BY <1>9 DEF Typed, TypeOK, ClosedBelowThresholds,
     BeginRefused, Return, Goto, breakerVars, probeVars
<1>10. ASSUME NEW t \in Threads, BeginProbe(t)
      PROVE  ClosedBelowThresholds'
  BY <1>10 DEF Typed, TypeOK, ClosedBelowThresholds,
     BeginProbe, Goto, breakerVars, probeVars
<1>11. ASSUME NEW t \in Threads, TakeSlot(t)
      PROVE  ClosedBelowThresholds'
  BY <1>11 DEF Typed, TypeOK, ClosedBelowThresholds,
     TakeSlot, Goto, breakerVars, probeVars
<1>12. ASSUME NEW t \in Threads, \E o \in {"saturated", "failed"} : NoSlot(t, o)
      PROVE  ClosedBelowThresholds'
  BY <1>12 DEF Typed, TypeOK, ClosedBelowThresholds,
     NoSlot, Goto, breakerVars, probeVars
<1>13. ASSUME NEW t \in Threads, Cancel(t)
      PROVE  ClosedBelowThresholds'
  BY <1>13 DEF Typed, TypeOK, ClosedBelowThresholds,
     Cancel, Goto, breakerVars, probeVars
<1>14. ASSUME NEW t \in Threads, \E o \in Results : Answer(t, o)
      PROVE  ClosedBelowThresholds'
  BY <1>14 DEF Typed, TypeOK, ClosedBelowThresholds,
     Answer, Results, Goto, breakerVars, probeVars
<1>15. ASSUME NEW t \in Threads, Finish(t)
      PROVE  ClosedBelowThresholds'
  <2>1. /\ now[t] \in Nat /\ OpenDuration \in Nat /\ consecutive \in Nat
        /\ {MaxConsecutive, MaxInWindow} \subseteq Nat \ {0}
    <3>1. now[t] \in Time
      BY <1>15 DEF Typed, Timed, Finish
    <3>2. QED
      BY <3>1, ClientAssumption DEF Typed, TypeOK, Time
  <2>2. now[t] + OpenDuration # NoTime
    BY <2>1 DEF NoTime
  <2>3. CASE probe[t]
    <3>1. \/ openUntil' = now[t] + OpenDuration
          \/ consecutive' = 0 /\ failures' = <<>>
      BY <1>15, <2>3, Zenon DEF Finish, FinishProbe
    <3>2. Len(<<>>) = 0
      OBVIOUS
    <3>3. QED
      BY <2>1, <2>2, <3>1, <3>2 DEF ClosedBelowThresholds
  <2>4. CASE ~probe[t] /\ outcome[t] = "applied"
    <3>1. consecutive' = 0 /\ failures' = failures /\ openUntil' = openUntil
      BY <1>15, <2>4 DEF Finish, FinishCall
    <3>2. QED
      BY <2>1, <3>1 DEF ClosedBelowThresholds
  <2>5. CASE ~probe[t] /\ outcome[t] # "applied"
    <3>1. \/ openUntil' = now[t] + OpenDuration
          \/ ~(consecutive' >= MaxConsecutive \/ Len(failures') >= MaxInWindow)
      BY <1>15, <2>5, Zenon DEF Finish, FinishCall
    <3>2. consecutive' \in Nat /\ Len(failures') \in Nat
      BY <1>15, FinishTypes
    <3>3. QED
      BY <2>1, <2>2, <3>1, <3>2 DEF ClosedBelowThresholds
  <2>6. QED
    BY <2>3, <2>4, <2>5
<1>16. ASSUME NEW t \in Threads, ReleaseSlot(t)
      PROVE  ClosedBelowThresholds'
  BY <1>16 DEF Typed, TypeOK, ClosedBelowThresholds,
     ReleaseSlot, Goto, breakerVars, probeVars
<1>17. ASSUME NEW t \in Threads, Record(t)
      PROVE  ClosedBelowThresholds'
  BY <1>17 DEF Typed, TypeOK, ClosedBelowThresholds,
     Record, Forget, Goto, breakerVars, probeVars
<1>18. ASSUME NEW t \in Threads, ProbeEnd(t)
      PROVE  ClosedBelowThresholds'
  BY <1>18 DEF Typed, TypeOK, ClosedBelowThresholds,
     ProbeEnd, Forget, Goto, breakerVars, probeVars
<1>19. QED
  BY <1>1, <1>2, <1>3, <1>4, <1>5, <1>6, <1>7, <1>8, <1>9, <1>10,
     <1>11, <1>12, <1>13, <1>14, <1>15, <1>16, <1>17, <1>18
     DEF Next, Call, Progress

-----------------------------------------------------------------------------
\* The initial state satisfies the inductive invariant.
LEMMA InitIInv == Init => IInv
<1> SUFFICES ASSUME Init PROVE IInv
  OBVIOUS
<1>1. TypeOK
  <2>1. clock \in Time /\ NoTime \in Int /\ NoTime \in Instant
    BY ClientAssumption DEF Init, Time, Instant, NoTime
  <2>2. failures \in Seq(Time)
    BY DEF Init
  <2>3. /\ consecutive \in Nat
        /\ halfOpen \in BOOLEAN /\ slot \in BOOLEAN
        /\ last \in Outcomes /\ probeValue \in Outcomes
    BY DEF Init, Outcomes
  <2>4. /\ pc \in [Threads -> Labels]
        /\ now \in [Threads -> Instant]
        /\ probe \in [Threads -> BOOLEAN]
        /\ outcome \in [Threads -> Outcomes]
    BY <2>1 DEF Init, Labels, Outcomes
  <2>5. QED
    BY <2>1, <2>2, <2>3, <2>4 DEF Init, TypeOK
<1>2. SlotExact
  BY <1>1 DEF Init, SlotExact, Sending
<1>3. ProbeOwned
  BY DEF Init, ProbeOwned
<1>4. ClosedBelowThresholds
  <2>1. Len(<<>>) = 0
    OBVIOUS
  <2>2. QED
    BY <2>1, ClientAssumption DEF Init, ClosedBelowThresholds
<1>5. Timed
  BY DEF Init, Timed
<1>6. QED
  BY <1>2, <1>3, <1>4, <1>5 DEF IInv

\* Every step keeps it.
LEMMA NextIInv == IInv /\ [Next]_vars => IInv'
<1> SUFFICES ASSUME IInv, [Next]_vars PROVE IInv'
  OBVIOUS
<1>1. Typed /\ OneSender /\ SlotHeld /\ ProbeOwned /\ ClosedBelowThresholds
  BY DEF IInv, SlotExact, Typed, OneSender, SlotHeld
<1>2. Typed'
  BY <1>1, TypedStep
<1>3. OneSender' /\ SlotHeld'
  BY <1>1, SlotStep
<1>4. ProbeOwned'
  BY <1>1, OwnerStep
<1>5. ClosedBelowThresholds'
  BY <1>1, ThresholdStep
<1>6. QED
  BY <1>2, <1>3, <1>4, <1>5 DEF IInv, SlotExact, Typed, OneSender, SlotHeld

\* The invariant holds in every reachable state.
THEOREM ClientInvariant == Spec => []IInv
<1>1. QED
  BY InitIInv, NextIInv, PTL DEF Spec

\* The semaphore: whatever the number of goroutines, at most one call is at
\* Headroom and the slot is taken exactly while one is.
THEOREM SlotIsExact == Spec => []SlotExact
<1>1. IInv => SlotExact
  BY DEF IInv
<1>2. QED
  BY <1>1, ClientInvariant, PTL

\* The breaker's half-open mark always has a probe under way that will clear it.
THEOREM ProbeIsOwned == Spec => []ProbeOwned
<1>1. IInv => ProbeOwned
  BY DEF IInv
<1>2. QED
  BY <1>1, ClientInvariant, PTL

\* A closed circuit has recorded fewer failures than either threshold, for any
\* thresholds, window and open duration.
THEOREM ClosedIsBelowThresholds == Spec => []ClosedBelowThresholds
<1>1. IInv => ClosedBelowThresholds
  BY DEF IInv
<1>2. QED
  BY <1>1, ClientInvariant, PTL
=============================================================================
