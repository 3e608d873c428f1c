-------------------------- MODULE GenerationsProofs --------------------------
(***************************************************************************)
(* Proofs about Generations for any finite set of goroutines and any bound *)
(* on reconfigurations: the inductive invariant Inv, the safety properties *)
(* that follow from it, and the refinement of ClientLease.                 *)
(***************************************************************************)
EXTENDS Generations, ProofLemmas

\* Goroutines that own a client no generation owns yet.
Loose == {t \in Threads : pc[t] \in {"built", "discarding"}}
\* Generations whose client has not been closed.
OpenGens == {g \in Generation : runner[g] /\ closeCalls[g] = 0}

\* Sizes of the sets the counters stand for.
NHold(g)  == Cardinality(Holders(g))
NCount(g) == Cardinality(CountedOn(g))
NClose(g) == Cardinality(Closers(g))
NInst     == Cardinality(Installing)
NLoose    == Cardinality(Loose)
NOpen     == Cardinality(OpenGens)

\* Generations are published in order; all before the current one are
\* retired, the current one only by Close, and later ones are untouched.
Chain ==
  /\ current = next
  /\ mCurrent = next
  /\ \A g \in Generation :
       /\ g < next => retired[g]
       /\ g = next => (retired[g] <=> closed)
       /\ g > next => ~runner[g] /\ ~retired[g] /\ closeCalls[g] = 0

\* The pin counter is the number of calls that hold the generation.
Pinned == \A g \in Generation : inflight[g] = NHold(g)

\* A closer has been handed out exactly when it was due.
ShutExact ==
  \A g \in Generation :
    shut[g] <=> (retired[g] /\ runner[g] /\ inflight[g] = 0)

\* A goroutine refers to a published generation while it is inside a call.
RefPublished ==
  \A t \in Threads :
    pc[t] \in Holding \cup Counted \cup {"closing"} => ref[t] <= next

\* Every open client belongs to a generation or to a Reconfigure under way.
Accounted == open = NOpen + NLoose

\* ClosedOnce and RequestsCounted, with the sizes named.
Once == \A g \in Generation :
          closeCalls[g] + NClose(g) = (IF shut[g] THEN 1 ELSE 0)
Requests == \A g \in Generation :
              /\ mInflight[g] = NCount(g)
              /\ mInflight[g] > 0 => g \in mKeys

\* Reconfigurations under way fit in the bound.
Room == next + NInst <= MaxGeneration

Inv ==
  /\ TypeOK
  /\ Chain
  /\ Pinned
  /\ ShutExact
  /\ Once
  /\ RefPublished
  /\ Accounted
  /\ Room
  /\ Requests
  /\ MetricsBounded
-----------------------------------------------------------------------------
\* What the step of one goroutine t does to each of the counted sets.
HoldStep(t) ==
  \A g \in Generation :
       /\ pc[t] \in Holding /\ ref[t] = g => NHold(g) >= 1
       /\ NHold(g) \in Nat /\ NHold(g)' \in Nat
       /\ NHold(g)' = NHold(g)
            + (IF pc'[t] \in Holding /\ ref'[t] = g THEN 1 ELSE 0)
            - (IF pc[t] \in Holding /\ ref[t] = g THEN 1 ELSE 0)

CountStep(t) ==
  \A g \in Generation :
       /\ pc[t] \in Counted /\ ref[t] = g => NCount(g) >= 1
       /\ NCount(g) \in Nat /\ NCount(g)' \in Nat
       /\ NCount(g)' = NCount(g)
            + (IF pc'[t] \in Counted /\ ref'[t] = g THEN 1 ELSE 0)
            - (IF pc[t] \in Counted /\ ref[t] = g THEN 1 ELSE 0)

CloseStep(t) ==
  \A g \in Generation :
       /\ pc[t] \in {"closing", "lastOut"} /\ ref[t] = g => NClose(g) >= 1
       /\ NClose(g) \in Nat /\ NClose(g)' \in Nat
       /\ NClose(g)' = NClose(g)
            + (IF pc'[t] \in {"closing", "lastOut"} /\ ref'[t] = g THEN 1 ELSE 0)
            - (IF pc[t] \in {"closing", "lastOut"} /\ ref[t] = g THEN 1 ELSE 0)

InstStep(t) ==
  /\ NInst \in Nat /\ NInst' \in Nat
  /\ NInst' = NInst
       + (IF pc'[t] \in {"building", "ready", "built"} THEN 1 ELSE 0)
       - (IF pc[t] \in {"building", "ready", "built"} THEN 1 ELSE 0)
  /\ pc[t] \in {"building", "ready", "built"} => NInst >= 1

LooseStep(t) ==
  /\ NLoose \in Nat /\ NLoose' \in Nat
  /\ NLoose' = NLoose
       + (IF pc'[t] \in {"built", "discarding"} THEN 1 ELSE 0)
       - (IF pc[t] \in {"built", "discarding"} THEN 1 ELSE 0)
  /\ pc[t] \in {"built", "discarding"} => NLoose >= 1

\* Every action moves one goroutine, so every counted set changes by it.
LEMMA Counting ==
  ASSUME TypeOK, NEW t \in Threads, NEW l, NEW h \in Generation,
         pc' = [pc EXCEPT ![t] = l], ref' = [ref EXCEPT ![t] = h]
  PROVE  HoldStep(t) /\ CountStep(t) /\ CloseStep(t) /\ InstStep(t) /\ LooseStep(t)
<1>1. /\ pc \in [Threads -> Labels]
      /\ ref \in [Threads -> Generation]
  BY DEF TypeOK
<1>2. IsFiniteSet(Threads)
  BY GenerationsAssumption
<1>3. \A g \in Generation :
        /\ IsFiniteSet(Holders(g)) /\ Holders(g)' \ {t} = Holders(g) \ {t}
        /\ IsFiniteSet(CountedOn(g)) /\ CountedOn(g)' \ {t} = CountedOn(g) \ {t}
        /\ IsFiniteSet(Closers(g)) /\ Closers(g)' \ {t} = Closers(g) \ {t}
  <2> TAKE g \in Generation
  <2>1. /\ Holders(g) \subseteq Threads
        /\ CountedOn(g) \subseteq Threads
        /\ Closers(g) \subseteq Threads
    BY DEF Holders, CountedOn, Closers
  <2>2. Holders(g)' \ {t} = Holders(g) \ {t}
    BY <1>1 DEF Holders
  <2>3. CountedOn(g)' \ {t} = CountedOn(g) \ {t}
    BY <1>1 DEF CountedOn
  <2>4. Closers(g)' \ {t} = Closers(g) \ {t}
    BY <1>1 DEF Closers
  <2>5. QED
    BY <1>2, <2>1, <2>2, <2>3, <2>4, FS_Subset
<1>4. /\ IsFiniteSet(Installing) /\ Installing' \ {t} = Installing \ {t}
      /\ IsFiniteSet(Loose) /\ Loose' \ {t} = Loose \ {t}
  <2>1. Installing \subseteq Threads /\ Loose \subseteq Threads
    BY DEF Installing, Loose
  <2>2. Installing' \ {t} = Installing \ {t}
    BY <1>1 DEF Installing
  <2>3. Loose' \ {t} = Loose \ {t}
    BY <1>1 DEF Loose
  <2>4. QED
    BY <1>2, <2>1, <2>2, <2>3, FS_Subset
<1>5. \A g \in Generation :
        /\ t \in Holders(g) <=> pc[t] \in Holding /\ ref[t] = g
        /\ t \in Holders(g)' <=> pc'[t] \in Holding /\ ref'[t] = g
        /\ t \in CountedOn(g) <=> pc[t] \in Counted /\ ref[t] = g
        /\ t \in CountedOn(g)' <=> pc'[t] \in Counted /\ ref'[t] = g
        /\ t \in Closers(g) <=> pc[t] \in {"closing", "lastOut"} /\ ref[t] = g
        /\ t \in Closers(g)' <=> pc'[t] \in {"closing", "lastOut"} /\ ref'[t] = g
  BY DEF Holders, CountedOn, Closers
<1>6. /\ t \in Installing <=> pc[t] \in {"building", "ready", "built"}
      /\ t \in Installing' <=> pc'[t] \in {"building", "ready", "built"}
      /\ t \in Loose <=> pc[t] \in {"built", "discarding"}
      /\ t \in Loose' <=> pc'[t] \in {"built", "discarding"}
  BY DEF Installing, Loose
<1>7. HoldStep(t)
  <2>1. ASSUME NEW g \in Generation
        PROVE  /\ Cardinality(Holders(g)) \in Nat
               /\ Cardinality(Holders(g)') \in Nat
               /\ t \in Holders(g) => Cardinality(Holders(g)) >= 1
               /\ Cardinality(Holders(g)') = Cardinality(Holders(g))
                    + (IF t \in Holders(g)' THEN 1 ELSE 0)
                    - (IF t \in Holders(g) THEN 1 ELSE 0)
    BY <1>3, OneMember
  <2>2. QED
    BY <1>5, <2>1 DEF HoldStep, NHold
<1>8. CountStep(t)
  <2>1. ASSUME NEW g \in Generation
        PROVE  /\ Cardinality(CountedOn(g)) \in Nat
               /\ Cardinality(CountedOn(g)') \in Nat
               /\ t \in CountedOn(g) => Cardinality(CountedOn(g)) >= 1
               /\ Cardinality(CountedOn(g)') = Cardinality(CountedOn(g))
                    + (IF t \in CountedOn(g)' THEN 1 ELSE 0)
                    - (IF t \in CountedOn(g) THEN 1 ELSE 0)
    BY <1>3, OneMember
  <2>2. QED
    BY <1>5, <2>1 DEF CountStep, NCount
<1>9. CloseStep(t)
  <2>1. ASSUME NEW g \in Generation
        PROVE  /\ Cardinality(Closers(g)) \in Nat
               /\ Cardinality(Closers(g)') \in Nat
               /\ t \in Closers(g) => Cardinality(Closers(g)) >= 1
               /\ Cardinality(Closers(g)') = Cardinality(Closers(g))
                    + (IF t \in Closers(g)' THEN 1 ELSE 0)
                    - (IF t \in Closers(g) THEN 1 ELSE 0)
    BY <1>3, OneMember
  <2>2. QED
    BY <1>5, <2>1 DEF CloseStep, NClose
<1>10. InstStep(t)
  <2>1. /\ Cardinality(Installing) \in Nat
        /\ Cardinality(Installing') \in Nat
        /\ t \in Installing => Cardinality(Installing) >= 1
        /\ Cardinality(Installing') = Cardinality(Installing)
                                      + (IF t \in Installing' THEN 1 ELSE 0)
                                      - (IF t \in Installing THEN 1 ELSE 0)
    BY <1>4, OneMember
  <2>2. QED
    BY <1>6, <2>1 DEF InstStep, NInst
<1>11. LooseStep(t)
  <2>1. /\ Cardinality(Loose) \in Nat
        /\ Cardinality(Loose') \in Nat
        /\ t \in Loose => Cardinality(Loose) >= 1
        /\ Cardinality(Loose') = Cardinality(Loose)
                                 + (IF t \in Loose' THEN 1 ELSE 0)
                                 - (IF t \in Loose THEN 1 ELSE 0)
    BY <1>4, OneMember
  <2>2. QED
    BY <1>6, <2>1 DEF LooseStep, NLoose
<1>12. QED
  BY <1>7, <1>8, <1>9, <1>10, <1>11
\* OpenGens is a set of generations, hence finite.
LEMMA OpenFinite == IsFiniteSet(OpenGens) /\ NOpen \in Nat
<1>1. IsFiniteSet(Generation)
  BY GenerationsAssumption, FS_Interval DEF Generation
<1>2. OpenGens \subseteq Generation
  BY DEF OpenGens
<1>3. QED
  BY <1>1, <1>2, FS_Subset, FS_CardinalityType DEF NOpen

\* ReconfigureStart preserves the invariant.
LEMMA ReconfigureStartInv ==
  ASSUME Inv, NEW t \in Threads, NEW h \in BOOLEAN, ReconfigureStart(t, h)
  PROVE  Inv'
<1> USE GenerationsAssumption DEF serviceVars, clientVars, metricVars
<1>1. /\ TypeOK /\ Chain /\ Pinned /\ ShutExact /\ Once /\ RefPublished
      /\ Accounted /\ Room /\ Requests /\ MetricsBounded
  BY DEF Inv
<1>2. /\ pc \in [Threads -> Labels] /\ ref \in [Threads -> Generation]
      /\ ref[t] \in Generation /\ current \in Generation
  BY <1>1 DEF TypeOK
<1>3. HoldStep(t) /\ CountStep(t) /\ CloseStep(t) /\ InstStep(t) /\ LooseStep(t)
  <2>1. pc' = [pc EXCEPT ![t] = IF h THEN "building" ELSE "ready"]
    BY DEF ReconfigureStart
  <2>2. ref' = [ref EXCEPT ![t] = ref[t]]
    BY <1>2 DEF ReconfigureStart
  <2>3. QED
    BY <1>1, <1>2, <2>1, <2>2, Counting
<1>4. \A g \in Generation : NHold(g) \in Nat /\ NHold(g)' = NHold(g)
  BY <1>2, <1>3 DEF ReconfigureStart, HoldStep, Holding
<1>5. \A g \in Generation : NCount(g) \in Nat /\ NCount(g)' = NCount(g)
  BY <1>2, <1>3 DEF ReconfigureStart, CountStep, Counted
<1>6. \A g \in Generation : NClose(g) \in Nat /\ NClose(g)' = NClose(g)
  BY <1>2, <1>3 DEF ReconfigureStart, CloseStep
<1>7. NInst \in Nat /\ NInst' \in Nat /\ NInst' = NInst + 1
  BY <1>2, <1>3 DEF ReconfigureStart, InstStep
<1>8. NLoose \in Nat /\ NLoose' \in Nat /\ NLoose' = NLoose
  BY <1>2, <1>3 DEF ReconfigureStart, LooseStep
<1>9. NOpen \in Nat /\ NOpen' \in Nat /\ NOpen' = NOpen
  BY <1>1, <1>2, OpenFinite DEF ReconfigureStart, NOpen, OpenGens
<1>10. TypeOK'
  BY <1>1, <1>2, <1>7, <1>8, <1>9 DEF ReconfigureStart, TypeOK, Labels, Generation, Room, Accounted
<1>11. Chain'
  BY <1>1, <1>2 DEF ReconfigureStart, TypeOK, Chain, Generation
<1>12. Pinned'
  BY <1>1, <1>2, <1>4 DEF ReconfigureStart, TypeOK, Pinned
<1>13. ShutExact'
  BY <1>1, <1>2 DEF ReconfigureStart, TypeOK, Chain, ShutExact, Generation
<1>14. Once'
  BY <1>1, <1>2, <1>6 DEF ReconfigureStart, TypeOK, Once
<1>15. RefPublished'
  BY <1>1, <1>2 DEF ReconfigureStart, TypeOK, Chain, RefPublished, Holding, Counted, Generation
<1>16. Accounted'
  BY <1>1, <1>8, <1>9 DEF ReconfigureStart, TypeOK, Accounted
<1>17. Room'
  BY <1>1, <1>7, SMTT(30) DEF ReconfigureStart, TypeOK, Room, Generation, NInst
<1>18. Requests'
  BY <1>1, <1>2, <1>5 DEF ReconfigureStart, TypeOK, Requests
<1>19. MetricsBounded'
  BY <1>1, <1>2 DEF ReconfigureStart, TypeOK, Chain, Requests, MetricsBounded, Generation
<1>20. QED
  BY <1>10, <1>11, <1>12, <1>13, <1>14, <1>15, <1>16, <1>17, <1>18, <1>19 DEF Inv

\* FactoryReturns preserves the invariant.
LEMMA FactoryReturnsInv ==
  ASSUME Inv, NEW t \in Threads, FactoryReturns(t)
  PROVE  Inv'
<1> USE GenerationsAssumption DEF serviceVars, clientVars, metricVars
<1>1. /\ TypeOK /\ Chain /\ Pinned /\ ShutExact /\ Once /\ RefPublished
      /\ Accounted /\ Room /\ Requests /\ MetricsBounded
  BY DEF Inv
<1>2. /\ pc \in [Threads -> Labels] /\ ref \in [Threads -> Generation]
      /\ ref[t] \in Generation /\ current \in Generation
  BY <1>1 DEF TypeOK
<1>3. HoldStep(t) /\ CountStep(t) /\ CloseStep(t) /\ InstStep(t) /\ LooseStep(t)
  <2>1. pc' = [pc EXCEPT ![t] = "built"]
    BY DEF FactoryReturns
  <2>2. ref' = [ref EXCEPT ![t] = ref[t]]
    BY <1>2 DEF FactoryReturns
  <2>3. QED
    BY <1>1, <1>2, <2>1, <2>2, Counting
<1>4. \A g \in Generation : NHold(g) \in Nat /\ NHold(g)' = NHold(g)
  BY <1>2, <1>3 DEF FactoryReturns, HoldStep, Holding
<1>5. \A g \in Generation : NCount(g) \in Nat /\ NCount(g)' = NCount(g)
  BY <1>2, <1>3 DEF FactoryReturns, CountStep, Counted
<1>6. \A g \in Generation : NClose(g) \in Nat /\ NClose(g)' = NClose(g)
  BY <1>2, <1>3 DEF FactoryReturns, CloseStep
<1>7. NInst \in Nat /\ NInst' \in Nat /\ NInst' = NInst
  BY <1>2, <1>3 DEF FactoryReturns, InstStep
<1>8. NLoose \in Nat /\ NLoose' \in Nat /\ NLoose' = NLoose + 1
  BY <1>2, <1>3 DEF FactoryReturns, LooseStep
<1>9. NOpen \in Nat /\ NOpen' \in Nat /\ NOpen' = NOpen
  BY <1>1, <1>2, OpenFinite DEF FactoryReturns, NOpen, OpenGens
<1>10. TypeOK'
  BY <1>1, <1>2, <1>7, <1>8, <1>9, SMTT(30) DEF FactoryReturns, TypeOK, Labels, Generation, Room, Accounted
<1>11. Chain'
  BY <1>1, <1>2 DEF FactoryReturns, TypeOK, Chain, Generation
<1>12. Pinned'
  BY <1>1, <1>2, <1>4 DEF FactoryReturns, TypeOK, Pinned
<1>13. ShutExact'
  BY <1>1, <1>2 DEF FactoryReturns, TypeOK, Chain, ShutExact, Generation
<1>14. Once'
  BY <1>1, <1>2, <1>6 DEF FactoryReturns, TypeOK, Once
<1>15. RefPublished'
  BY <1>1, <1>2 DEF FactoryReturns, TypeOK, Chain, RefPublished, Holding, Counted, Generation
<1>16. Accounted'
  BY <1>1, <1>8, <1>9 DEF FactoryReturns, TypeOK, Accounted
<1>17. Room'
  BY <1>1, <1>7 DEF FactoryReturns, TypeOK, Room, Generation, NInst
<1>18. Requests'
  BY <1>1, <1>2, <1>5 DEF FactoryReturns, TypeOK, Requests
<1>19. MetricsBounded'
  BY <1>1, <1>2 DEF FactoryReturns, TypeOK, Chain, Requests, MetricsBounded, Generation
<1>20. QED
  BY <1>10, <1>11, <1>12, <1>13, <1>14, <1>15, <1>16, <1>17, <1>18, <1>19 DEF Inv

\* FactoryFails preserves the invariant.
LEMMA FactoryFailsInv ==
  ASSUME Inv, NEW t \in Threads, FactoryFails(t)
  PROVE  Inv'
<1> USE GenerationsAssumption DEF serviceVars, clientVars, metricVars
<1>1. /\ TypeOK /\ Chain /\ Pinned /\ ShutExact /\ Once /\ RefPublished
      /\ Accounted /\ Room /\ Requests /\ MetricsBounded
  BY DEF Inv
<1>2. /\ pc \in [Threads -> Labels] /\ ref \in [Threads -> Generation]
      /\ ref[t] \in Generation /\ current \in Generation
  BY <1>1 DEF TypeOK
<1>3. HoldStep(t) /\ CountStep(t) /\ CloseStep(t) /\ InstStep(t) /\ LooseStep(t)
  <2>1. pc' = [pc EXCEPT ![t] = "idle"]
    BY DEF FactoryFails
  <2>2. ref' = [ref EXCEPT ![t] = ref[t]]
    BY <1>2 DEF FactoryFails
  <2>3. QED
    BY <1>1, <1>2, <2>1, <2>2, Counting
<1>4. \A g \in Generation : NHold(g) \in Nat /\ NHold(g)' = NHold(g)
  BY <1>2, <1>3 DEF FactoryFails, HoldStep, Holding
<1>5. \A g \in Generation : NCount(g) \in Nat /\ NCount(g)' = NCount(g)
  BY <1>2, <1>3 DEF FactoryFails, CountStep, Counted
<1>6. \A g \in Generation : NClose(g) \in Nat /\ NClose(g)' = NClose(g)
  BY <1>2, <1>3 DEF FactoryFails, CloseStep
<1>7. NInst \in Nat /\ NInst' \in Nat /\ NInst' = NInst - 1
  BY <1>2, <1>3 DEF FactoryFails, InstStep
<1>8. NLoose \in Nat /\ NLoose' \in Nat /\ NLoose' = NLoose
  BY <1>2, <1>3 DEF FactoryFails, LooseStep
<1>9. NOpen \in Nat /\ NOpen' \in Nat /\ NOpen' = NOpen
  BY <1>1, <1>2, OpenFinite DEF FactoryFails, NOpen, OpenGens
<1>10. TypeOK'
  BY <1>1, <1>2, <1>7, <1>8, <1>9 DEF FactoryFails, TypeOK, Labels, Generation, Room, Accounted
<1>11. Chain'
  BY <1>1, <1>2 DEF FactoryFails, TypeOK, Chain, Generation
<1>12. Pinned'
  BY <1>1, <1>2, <1>4 DEF FactoryFails, TypeOK, Pinned
<1>13. ShutExact'
  BY <1>1, <1>2 DEF FactoryFails, TypeOK, Chain, ShutExact, Generation
<1>14. Once'
  BY <1>1, <1>2, <1>6 DEF FactoryFails, TypeOK, Once
<1>15. RefPublished'
  BY <1>1, <1>2 DEF FactoryFails, TypeOK, Chain, RefPublished, Holding, Counted, Generation
<1>16. Accounted'
  BY <1>1, <1>8, <1>9 DEF FactoryFails, TypeOK, Accounted
<1>17. Room'
  BY <1>1, <1>7, SMTT(30) DEF FactoryFails, TypeOK, Room, Generation, NInst
<1>18. Requests'
  BY <1>1, <1>2, <1>5 DEF FactoryFails, TypeOK, Requests
<1>19. MetricsBounded'
  BY <1>1, <1>2 DEF FactoryFails, TypeOK, Chain, Requests, MetricsBounded, Generation
<1>20. QED
  BY <1>10, <1>11, <1>12, <1>13, <1>14, <1>15, <1>16, <1>17, <1>18, <1>19 DEF Inv

\* Publish preserves the invariant.
LEMMA PublishInv ==
  ASSUME Inv, NEW t \in Threads, Publish(t)
  PROVE  Inv'
<1> USE GenerationsAssumption DEF serviceVars, clientVars, metricVars
<1>1. /\ TypeOK /\ Chain /\ Pinned /\ ShutExact /\ Once /\ RefPublished
      /\ Accounted /\ Room /\ Requests /\ MetricsBounded
  BY DEF Inv
<1>2. /\ pc \in [Threads -> Labels] /\ ref \in [Threads -> Generation]
      /\ ref[t] \in Generation /\ current \in Generation
  BY <1>1 DEF TypeOK
<1>3. HoldStep(t) /\ CountStep(t) /\ CloseStep(t) /\ InstStep(t) /\ LooseStep(t)
  <2>1. pc' = [pc EXCEPT ![t] = IF Closable(TRUE, inflight[current], shut[current], runner[current]) THEN "closing" ELSE "idle"]
    BY DEF Publish, PublishGeneration, GoClose
  <2>2. ref' = [ref EXCEPT ![t] = IF Closable(TRUE, inflight[current], shut[current], runner[current]) THEN current ELSE ref[t]]
    BY <1>2 DEF Publish, PublishGeneration, GoClose
  <2>3. QED
    BY <1>1, <1>2, <2>1, <2>2, Counting
<1>4. \A g \in Generation : NHold(g) \in Nat /\ NHold(g)' = NHold(g)
  BY <1>2, <1>3 DEF Publish, PublishGeneration, GoClose, HoldStep, Holding
<1>5. \A g \in Generation : NCount(g) \in Nat /\ NCount(g)' = NCount(g)
  BY <1>2, <1>3 DEF Publish, PublishGeneration, GoClose, CountStep, Counted
<1>6. \A g \in Generation :
        /\ NClose(g) \in Nat
        /\ NClose(g)' = NClose(g) + (IF g = current /\ Closable(TRUE, inflight[current], shut[current], runner[current])
                                     THEN 1 ELSE 0)
  <2>1. CASE Closable(TRUE, inflight[current], shut[current], runner[current])
    BY <1>2, <1>3, <2>1 DEF Publish, PublishGeneration, GoClose, CloseStep
  <2>2. CASE ~Closable(TRUE, inflight[current], shut[current], runner[current])
    BY <1>2, <1>3, <2>2 DEF Publish, PublishGeneration, GoClose, CloseStep
  <2>3. QED
    BY <2>1, <2>2
<1>7. NInst \in Nat /\ NInst' \in Nat /\ NInst' = NInst - 1
  BY <1>2, <1>3 DEF Publish, PublishGeneration, GoClose, InstStep
<1>8. NLoose \in Nat /\ NLoose' \in Nat /\ NLoose' = NLoose - (IF pc[t] = "built" THEN 1 ELSE 0)
  BY <1>2, <1>3 DEF Publish, PublishGeneration, GoClose, LooseStep
<1>9. /\ NOpen \in Nat /\ NOpen' \in Nat
      /\ NOpen' = NOpen + (IF pc[t] = "built" THEN 1 ELSE 0)
  <2>1. /\ next + 1 \in Generation
        /\ ~runner[next + 1]
        /\ closeCalls[next + 1] = 0
    BY <1>1, <1>3, <1>7 DEF Publish, TypeOK, Chain, InstStep, Room, Generation
  <2>2. /\ runner' = [runner EXCEPT ![next + 1] = (pc[t] = "built")]
        /\ closeCalls' = closeCalls
    BY DEF Publish
  <2>3. next + 1 \in OpenGens' <=> pc[t] = "built"
    BY <1>1, <2>1, <2>2 DEF OpenGens, TypeOK
  <2>4. next + 1 \notin OpenGens
    BY <2>1 DEF OpenGens
  <2>5. OpenGens' \ {next + 1} = OpenGens \ {next + 1}
    BY <1>1, <2>2 DEF OpenGens, TypeOK
  <2>6. QED
    BY <2>3, <2>4, <2>5, OpenFinite, OneMember DEF NOpen
<1>10. TypeOK'
  <2>1. next + 1 \in Generation
    BY <1>1, <1>3, <1>7 DEF Publish, PublishGeneration, GoClose, TypeOK, InstStep, Room, Generation
  <2>2. runner' \in [Generation -> BOOLEAN]
    BY <1>1, <2>1 DEF Publish, PublishGeneration, GoClose, TypeOK
  <2>3. retired' \in [Generation -> BOOLEAN]
    BY <1>1, <1>2 DEF Publish, PublishGeneration, GoClose, TypeOK
  <2>4. mKeys' \in SUBSET Generation /\ mInflight' \in [Generation -> Nat]
    BY <1>1 DEF Publish, PublishGeneration, GoClose, TypeOK
  <2>5. mCurrent' \in Generation /\ mPrevious' \in Generation
    BY <1>1, <2>1 DEF Publish, PublishGeneration, GoClose, TypeOK
  <2>6. shut' \in [Generation -> BOOLEAN]
    BY <1>1, <1>2 DEF Publish, PublishGeneration, GoClose, TypeOK, Closable
  <2>7. pc' \in [Threads -> Labels]
    BY <1>2 DEF Publish, PublishGeneration, GoClose, Labels
  <2>8. ref' \in [Threads -> Generation]
    BY <1>2 DEF Publish, PublishGeneration, GoClose
  <2>9. QED
    BY <1>1, <2>1, <2>2, <2>3, <2>4, <2>5, <2>6, <2>7, <2>8 DEF Publish, PublishGeneration, GoClose, TypeOK
<1>11. Chain'
  <2>1. /\ next \in Int /\ next' = next + 1 /\ current = next
        /\ current' = next + 1 /\ closed' = closed /\ ~closed
    BY <1>1 DEF Publish, TypeOK, Chain, Generation
  <2>2. mCurrent' = next + 1
    BY <1>1 DEF Publish, PublishGeneration, TypeOK
  <2>3. ASSUME NEW g \in Generation
        PROVE  /\ g \in Int
               /\ g = next => retired'[g]
               /\ g # next => retired'[g] = retired[g]
               /\ g # next + 1 => runner'[g] = runner[g]
               /\ closeCalls'[g] = closeCalls[g]
    <3>1. g \in Int
      BY DEF Generation
    <3>2. /\ retired' = [retired EXCEPT ![next] = TRUE]
          /\ runner' = [runner EXCEPT ![next + 1] = (pc[t] = "built")]
          /\ closeCalls' = closeCalls
      BY <2>1 DEF Publish
    <3>3. retired \in [Generation -> BOOLEAN] /\ runner \in [Generation -> BOOLEAN]
      BY <1>1 DEF TypeOK
    <3>4. QED
      BY <3>1, <3>2, <3>3
  <2>4. ASSUME NEW g \in Generation
        PROVE  /\ g < next' => retired'[g]
               /\ g = next' => (retired'[g] <=> closed')
               /\ g > next' => ~runner'[g] /\ ~retired'[g] /\ closeCalls'[g] = 0
    <3>1. /\ g < next => retired[g]
          /\ g > next => ~runner[g] /\ ~retired[g] /\ closeCalls[g] = 0
      BY <1>1 DEF Chain
    <3>2. CASE g < next
      BY <2>1, <2>3, <3>1, <3>2
    <3>3. CASE g = next
      BY <2>1, <2>3, <3>3
    <3>4. CASE g > next
      BY <2>1, <2>3, <3>1, <3>4
    <3>5. QED
      BY <2>1, <2>3, <3>2, <3>3, <3>4
  <2>5. QED
    BY <2>1, <2>2, <2>4 DEF Chain
<1>12. Pinned'
  BY <1>1, <1>2, <1>4 DEF Publish, PublishGeneration, GoClose, TypeOK, Pinned
<1>13. ShutExact'
  <2>1. SUFFICES ASSUME NEW g \in Generation
                 PROVE  shut'[g] <=> (retired'[g] /\ runner'[g] /\ inflight'[g] = 0)
    BY DEF ShutExact
  <2>2. next \in Int /\ current = next /\ next + 1 # current
    BY <1>1 DEF TypeOK, Chain, Generation
  <2>3. CASE g = current
    BY <1>1, <1>2, <2>2, <2>3 DEF Publish, GoClose, Closable, TypeOK, ShutExact
  <2>4. CASE g = next + 1
    <3>1. ~retired[g] /\ ~shut[g]
      BY <1>1, <2>2, <2>4 DEF TypeOK, Chain, ShutExact, Generation
    <3>2. QED
      BY <1>1, <1>2, <2>2, <2>4, <3>1 DEF Publish, TypeOK
  <2>5. CASE g # current /\ g # next + 1
    BY <1>1, <1>2, <2>5 DEF Publish, TypeOK, ShutExact
  <2>6. QED
    BY <2>3, <2>4, <2>5
<1>14. Once'
  <2>1. SUFFICES ASSUME NEW g \in Generation
                 PROVE  closeCalls'[g] + NClose(g)' = (IF shut'[g] THEN 1 ELSE 0)
    BY DEF Once
  <2>2. CASE g = current
    <3>1. shut'[g] = (shut[g] \/ Closable(TRUE, inflight[g], shut[g], runner[g]))
      BY <1>1, <1>2, <2>2 DEF Publish, TypeOK
    <3>2. QED
      BY <1>1, <1>6, <2>2, <3>1 DEF Publish, TypeOK, Once, Closable
  <2>3. CASE g # current
    <3>1. shut'[g] = shut[g] /\ closeCalls' = closeCalls
      BY <1>1, <1>2, <2>3 DEF Publish, TypeOK
    <3>2. NClose(g) \in Nat /\ NClose(g)' = NClose(g) + 0
      BY <1>6, <2>1, <2>3
    <3>3. QED
      BY <1>1, <3>1, <3>2 DEF Once
  <2>4. QED
    BY <2>2, <2>3
<1>15. RefPublished'
  <2>1. SUFFICES ASSUME NEW u \in Threads,
                        pc'[u] \in Holding \cup Counted \cup {"closing"}
                 PROVE  ref'[u] <= next'
    BY DEF RefPublished
  <2>2. next' = next + 1 /\ next \in Int /\ current = next
    BY <1>1 DEF Publish, PublishGeneration, GoClose, TypeOK, Chain, Generation
  <2>3. CASE u = t
    <3>1. pc'[t] = "idle" \/ ref'[t] = current
      BY <1>2 DEF Publish, PublishGeneration, GoClose
    <3>2. QED
      BY <2>1, <2>2, <2>3, <3>1 DEF Holding, Counted
  <2>4. CASE u # t
    <3>1. pc'[u] = pc[u] /\ ref'[u] = ref[u] /\ ref[u] \in Int
      BY <1>2, <2>4 DEF Publish, PublishGeneration, GoClose, Generation
    <3>2. QED
      BY <1>1, <2>1, <2>2, <3>1 DEF RefPublished
  <2>5. QED
    BY <2>3, <2>4
<1>16. Accounted'
  BY <1>1, <1>8, <1>9 DEF Publish, PublishGeneration, GoClose, TypeOK, Accounted
<1>17. Room'
  BY <1>1, <1>7 DEF Publish, PublishGeneration, GoClose, TypeOK, Room, Generation, NInst
<1>18. Requests'
  BY <1>1, <1>2, <1>5 DEF Publish, PublishGeneration, GoClose, TypeOK, Requests
<1>19. MetricsBounded'
  <2>1. mCurrent # next + 1
    BY <1>1 DEF TypeOK, Chain, Generation
  <2>2. /\ mPrevious' = mCurrent /\ mCurrent' = next + 1 /\ mInflight' = mInflight
        /\ mKeys' = IF /\ mPrevious # next + 1
                       /\ mPrevious # mCurrent
                       /\ mInflight[mPrevious] = 0
                    THEN mKeys \ {mPrevious}
                    ELSE mKeys
    BY <2>1 DEF Publish, PublishGeneration
  <2>3. QED
    BY <1>1, <2>2 DEF TypeOK, MetricsBounded
<1>20. QED
  BY <1>10, <1>11, <1>12, <1>13, <1>14, <1>15, <1>16, <1>17, <1>18, <1>19 DEF Inv

\* PublishRefused preserves the invariant.
LEMMA PublishRefusedInv ==
  ASSUME Inv, NEW t \in Threads, PublishRefused(t)
  PROVE  Inv'
<1> USE GenerationsAssumption DEF serviceVars, clientVars, metricVars
<1>1. /\ TypeOK /\ Chain /\ Pinned /\ ShutExact /\ Once /\ RefPublished
      /\ Accounted /\ Room /\ Requests /\ MetricsBounded
  BY DEF Inv
<1>2. /\ pc \in [Threads -> Labels] /\ ref \in [Threads -> Generation]
      /\ ref[t] \in Generation /\ current \in Generation
  BY <1>1 DEF TypeOK
<1>3. HoldStep(t) /\ CountStep(t) /\ CloseStep(t) /\ InstStep(t) /\ LooseStep(t)
  <2>1. pc' = [pc EXCEPT ![t] = IF pc[t] = "built" THEN "discarding" ELSE "idle"]
    BY DEF PublishRefused
  <2>2. ref' = [ref EXCEPT ![t] = ref[t]]
    BY <1>2 DEF PublishRefused
  <2>3. QED
    BY <1>1, <1>2, <2>1, <2>2, Counting
<1>4. \A g \in Generation : NHold(g) \in Nat /\ NHold(g)' = NHold(g)
  BY <1>2, <1>3 DEF PublishRefused, HoldStep, Holding
<1>5. \A g \in Generation : NCount(g) \in Nat /\ NCount(g)' = NCount(g)
  BY <1>2, <1>3 DEF PublishRefused, CountStep, Counted
<1>6. \A g \in Generation : NClose(g) \in Nat /\ NClose(g)' = NClose(g)
  BY <1>2, <1>3 DEF PublishRefused, CloseStep
<1>7. NInst \in Nat /\ NInst' \in Nat /\ NInst' = NInst - 1
  BY <1>2, <1>3 DEF PublishRefused, InstStep
<1>8. NLoose \in Nat /\ NLoose' \in Nat /\ NLoose' = NLoose
  BY <1>2, <1>3 DEF PublishRefused, LooseStep
<1>9. NOpen \in Nat /\ NOpen' \in Nat /\ NOpen' = NOpen
  BY <1>1, <1>2, OpenFinite DEF PublishRefused, NOpen, OpenGens
<1>10. TypeOK'
  BY <1>1, <1>2, <1>7, <1>8, <1>9 DEF PublishRefused, TypeOK, Labels, Generation, Room, Accounted
<1>11. Chain'
  BY <1>1, <1>2 DEF PublishRefused, TypeOK, Chain, Generation
<1>12. Pinned'
  BY <1>1, <1>2, <1>4 DEF PublishRefused, TypeOK, Pinned
<1>13. ShutExact'
  BY <1>1, <1>2 DEF PublishRefused, TypeOK, Chain, ShutExact, Generation
<1>14. Once'
  BY <1>1, <1>2, <1>6 DEF PublishRefused, TypeOK, Once
<1>15. RefPublished'
  BY <1>1, <1>2 DEF PublishRefused, TypeOK, Chain, RefPublished, Holding, Counted, Generation
<1>16. Accounted'
  BY <1>1, <1>8, <1>9 DEF PublishRefused, TypeOK, Accounted
<1>17. Room'
  BY <1>1, <1>7, SMTT(30) DEF PublishRefused, TypeOK, Room, Generation, NInst
<1>18. Requests'
  BY <1>1, <1>2, <1>5 DEF PublishRefused, TypeOK, Requests
<1>19. MetricsBounded'
  BY <1>1, <1>2 DEF PublishRefused, TypeOK, Chain, Requests, MetricsBounded, Generation
<1>20. QED
  BY <1>10, <1>11, <1>12, <1>13, <1>14, <1>15, <1>16, <1>17, <1>18, <1>19 DEF Inv

\* Discard preserves the invariant.
LEMMA DiscardInv ==
  ASSUME Inv, NEW t \in Threads, Discard(t)
  PROVE  Inv'
<1> USE GenerationsAssumption DEF serviceVars, clientVars, metricVars
<1>1. /\ TypeOK /\ Chain /\ Pinned /\ ShutExact /\ Once /\ RefPublished
      /\ Accounted /\ Room /\ Requests /\ MetricsBounded
  BY DEF Inv
<1>2. /\ pc \in [Threads -> Labels] /\ ref \in [Threads -> Generation]
      /\ ref[t] \in Generation /\ current \in Generation
  BY <1>1 DEF TypeOK
<1>3. HoldStep(t) /\ CountStep(t) /\ CloseStep(t) /\ InstStep(t) /\ LooseStep(t)
  <2>1. pc' = [pc EXCEPT ![t] = "idle"]
    BY DEF Discard
  <2>2. ref' = [ref EXCEPT ![t] = ref[t]]
    BY <1>2 DEF Discard
  <2>3. QED
    BY <1>1, <1>2, <2>1, <2>2, Counting
<1>4. \A g \in Generation : NHold(g) \in Nat /\ NHold(g)' = NHold(g)
  BY <1>2, <1>3 DEF Discard, HoldStep, Holding
<1>5. \A g \in Generation : NCount(g) \in Nat /\ NCount(g)' = NCount(g)
  BY <1>2, <1>3 DEF Discard, CountStep, Counted
<1>6. \A g \in Generation : NClose(g) \in Nat /\ NClose(g)' = NClose(g)
  BY <1>2, <1>3 DEF Discard, CloseStep
<1>7. NInst \in Nat /\ NInst' \in Nat /\ NInst' = NInst
  BY <1>2, <1>3 DEF Discard, InstStep
<1>8. NLoose \in Nat /\ NLoose' \in Nat /\ NLoose' = NLoose - 1
  BY <1>2, <1>3 DEF Discard, LooseStep
<1>9. NOpen \in Nat /\ NOpen' \in Nat /\ NOpen' = NOpen
  BY <1>1, <1>2, OpenFinite DEF Discard, NOpen, OpenGens
<1>10. TypeOK'
  <2>1. open' \in Nat
    BY <1>1, <1>3, <1>8, <1>9 DEF Discard, TypeOK, Accounted, LooseStep
  <2>2. pc' \in [Threads -> Labels]
    BY <1>2 DEF Discard, Labels
  <2>3. ref' \in [Threads -> Generation]
    BY <1>2 DEF Discard
  <2>4. QED
    BY <1>1, <2>1, <2>2, <2>3 DEF Discard, TypeOK
<1>11. Chain'
  BY <1>1, <1>2 DEF Discard, TypeOK, Chain, Generation
<1>12. Pinned'
  BY <1>1, <1>2, <1>4 DEF Discard, TypeOK, Pinned
<1>13. ShutExact'
  BY <1>1, <1>2 DEF Discard, TypeOK, Chain, ShutExact, Generation
<1>14. Once'
  BY <1>1, <1>2, <1>6 DEF Discard, TypeOK, Once
<1>15. RefPublished'
  BY <1>1, <1>2 DEF Discard, TypeOK, Chain, RefPublished, Holding, Counted, Generation
<1>16. Accounted'
  BY <1>1, <1>8, <1>9 DEF Discard, TypeOK, Accounted
<1>17. Room'
  BY <1>1, <1>7 DEF Discard, TypeOK, Room, Generation, NInst
<1>18. Requests'
  BY <1>1, <1>2, <1>5 DEF Discard, TypeOK, Requests
<1>19. MetricsBounded'
  BY <1>1, <1>2 DEF Discard, TypeOK, Chain, Requests, MetricsBounded, Generation
<1>20. QED
  BY <1>10, <1>11, <1>12, <1>13, <1>14, <1>15, <1>16, <1>17, <1>18, <1>19 DEF Inv

\* Acquire preserves the invariant.
LEMMA AcquireInv ==
  ASSUME Inv, NEW t \in Threads, Acquire(t)
  PROVE  Inv'
<1> USE GenerationsAssumption DEF serviceVars, clientVars, metricVars
<1>1. /\ TypeOK /\ Chain /\ Pinned /\ ShutExact /\ Once /\ RefPublished
      /\ Accounted /\ Room /\ Requests /\ MetricsBounded
  BY DEF Inv
<1>2. /\ pc \in [Threads -> Labels] /\ ref \in [Threads -> Generation]
      /\ ref[t] \in Generation /\ current \in Generation
  BY <1>1 DEF TypeOK
<1>3. HoldStep(t) /\ CountStep(t) /\ CloseStep(t) /\ InstStep(t) /\ LooseStep(t)
  <2>1. pc' = [pc EXCEPT ![t] = "normalizing"]
    BY DEF Acquire
  <2>2. ref' = [ref EXCEPT ![t] = current]
    BY <1>2 DEF Acquire
  <2>3. QED
    BY <1>1, <1>2, <2>1, <2>2, Counting
<1>4. \A g \in Generation : NHold(g) \in Nat /\ NHold(g)' = NHold(g) + (IF g = current THEN 1 ELSE 0)
  BY <1>2, <1>3 DEF Acquire, HoldStep, Holding
<1>5. \A g \in Generation : NCount(g) \in Nat /\ NCount(g)' = NCount(g) + (IF g = current THEN 1 ELSE 0)
  BY <1>2, <1>3 DEF Acquire, CountStep, Counted
<1>6. \A g \in Generation : NClose(g) \in Nat /\ NClose(g)' = NClose(g)
  BY <1>2, <1>3 DEF Acquire, CloseStep
<1>7. NInst \in Nat /\ NInst' \in Nat /\ NInst' = NInst
  BY <1>2, <1>3 DEF Acquire, InstStep
<1>8. NLoose \in Nat /\ NLoose' \in Nat /\ NLoose' = NLoose
  BY <1>2, <1>3 DEF Acquire, LooseStep
<1>9. NOpen \in Nat /\ NOpen' \in Nat /\ NOpen' = NOpen
  BY <1>1, <1>2, OpenFinite DEF Acquire, NOpen, OpenGens
<1>10. TypeOK'
  <2>1. inflight' \in [Generation -> Nat]
    BY <1>1, <1>2 DEF Acquire, TypeOK
  <2>2. mInflight' \in [Generation -> Nat]
    BY <1>1, <1>2 DEF Acquire, TypeOK
  <2>3. mKeys' \in SUBSET Generation
    BY <1>1, <1>2 DEF Acquire, TypeOK
  <2>4. pc' \in [Threads -> Labels]
    BY <1>2 DEF Acquire, Labels
  <2>5. ref' \in [Threads -> Generation]
    BY <1>2 DEF Acquire
  <2>6. QED
    BY <1>1, <2>1, <2>2, <2>3, <2>4, <2>5 DEF Acquire, TypeOK
<1>11. Chain'
  BY <1>1, <1>2 DEF Acquire, TypeOK, Chain, Generation
<1>12. Pinned'
  BY <1>1, <1>2, <1>4 DEF Acquire, TypeOK, Pinned
<1>13. ShutExact'
  BY <1>1, <1>2 DEF Acquire, TypeOK, Chain, ShutExact, Generation
<1>14. Once'
  BY <1>1, <1>2, <1>6 DEF Acquire, TypeOK, Once
<1>15. RefPublished'
  <2>1. SUFFICES ASSUME NEW u \in Threads,
                        pc'[u] \in Holding \cup Counted \cup {"closing"}
                 PROVE  ref'[u] <= next'
    BY DEF RefPublished
  <2>2. next' = next /\ next \in Int /\ current = next
    BY <1>1 DEF Acquire, TypeOK, Chain, Generation
  <2>3. CASE u = t
    BY <1>2, <2>1, <2>2, <2>3 DEF Acquire, Holding, Counted
  <2>4. CASE u # t
    <3>1. pc'[u] = pc[u] /\ ref'[u] = ref[u] /\ ref[u] \in Int
      BY <1>2, <2>4 DEF Acquire, Generation
    <3>2. QED
      BY <1>1, <2>1, <2>2, <3>1 DEF RefPublished
  <2>5. QED
    BY <2>3, <2>4
<1>16. Accounted'
  BY <1>1, <1>8, <1>9 DEF Acquire, TypeOK, Accounted
<1>17. Room'
  BY <1>1, <1>7 DEF Acquire, TypeOK, Room, Generation, NInst
<1>18. Requests'
  BY <1>1, <1>2, <1>5 DEF Acquire, TypeOK, Requests
<1>19. MetricsBounded'
  BY <1>1, <1>2 DEF Acquire, TypeOK, Chain, Requests, MetricsBounded, Generation
<1>20. QED
  BY <1>10, <1>11, <1>12, <1>13, <1>14, <1>15, <1>16, <1>17, <1>18, <1>19 DEF Inv

\* Release preserves the invariant.
LEMMA ReleaseInv ==
  ASSUME Inv, NEW t \in Threads, Release(t)
  PROVE  Inv'
<1> USE GenerationsAssumption DEF serviceVars, clientVars, metricVars
<1>1. /\ TypeOK /\ Chain /\ Pinned /\ ShutExact /\ Once /\ RefPublished
      /\ Accounted /\ Room /\ Requests /\ MetricsBounded
  BY DEF Inv
<1>2. /\ pc \in [Threads -> Labels] /\ ref \in [Threads -> Generation]
      /\ ref[t] \in Generation /\ current \in Generation
  BY <1>1 DEF TypeOK
<1>3. HoldStep(t) /\ CountStep(t) /\ CloseStep(t) /\ InstStep(t) /\ LooseStep(t)
  <2>1. pc' = [pc EXCEPT ![t] = IF Closable(retired[ref[t]], Minus(inflight[ref[t]]), shut[ref[t]], runner[ref[t]]) THEN "lastOut" ELSE "released"]
    BY DEF Release, Minus
  <2>2. ref' = [ref EXCEPT ![t] = ref[t]]
    BY <1>2 DEF Release, Minus
  <2>3. QED
    BY <1>1, <1>2, <2>1, <2>2, Counting
<1>4. /\ NHold(ref[t]) >= 1
      /\ \A g \in Generation :
           NHold(g) \in Nat /\ NHold(g)' = NHold(g) - (IF g = ref[t] THEN 1 ELSE 0)
  BY <1>2, <1>3 DEF Release, Minus, HoldStep, Holding
<1>5. \A g \in Generation : NCount(g) \in Nat /\ NCount(g)' = NCount(g)
  BY <1>2, <1>3 DEF Release, Minus, CountStep, Counted
<1>6. \A g \in Generation : NClose(g) \in Nat /\ NClose(g)' = NClose(g) + (IF g = ref[t] /\ Closable(retired[ref[t]], Minus(inflight[ref[t]]), shut[ref[t]], runner[ref[t]]) THEN 1 ELSE 0)
  BY <1>2, <1>3 DEF Release, Minus, CloseStep
<1>7. NInst \in Nat /\ NInst' \in Nat /\ NInst' = NInst
  BY <1>2, <1>3 DEF Release, Minus, InstStep
<1>8. NLoose \in Nat /\ NLoose' \in Nat /\ NLoose' = NLoose
  BY <1>2, <1>3 DEF Release, Minus, LooseStep
<1>9. NOpen \in Nat /\ NOpen' \in Nat /\ NOpen' = NOpen
  BY <1>1, <1>2, OpenFinite DEF Release, Minus, NOpen, OpenGens
<1>10. TypeOK'
  BY <1>1, <1>2, <1>7, <1>8, <1>9, SMTT(30) DEF Release, Minus, Closable, TypeOK, Labels, Generation, Room, Accounted
<1>11. Chain'
  BY <1>1, <1>2 DEF Release, Minus, TypeOK, Chain, Generation
<1>12. Pinned'
  BY <1>1, <1>2, <1>4 DEF Release, Minus, TypeOK, Pinned
<1>13. ShutExact'
  BY <1>1, <1>2, SMTT(30) DEF Release, Minus, Closable, TypeOK, Chain, ShutExact, Generation
<1>14. Once'
  BY <1>1, <1>2, <1>6 DEF Release, Minus, Closable, TypeOK, Once
<1>15. RefPublished'
  BY <1>1, <1>2 DEF Release, Minus, TypeOK, Chain, RefPublished, Holding, Counted, Generation
<1>16. Accounted'
  BY <1>1, <1>8, <1>9 DEF Release, Minus, TypeOK, Accounted
<1>17. Room'
  BY <1>1, <1>7 DEF Release, Minus, TypeOK, Room, Generation, NInst
<1>18. Requests'
  BY <1>1, <1>2, <1>5 DEF Release, Minus, TypeOK, Requests
<1>19. MetricsBounded'
  BY <1>1, <1>2 DEF Release, Minus, TypeOK, Chain, Requests, MetricsBounded, Generation
<1>20. QED
  BY <1>10, <1>11, <1>12, <1>13, <1>14, <1>15, <1>16, <1>17, <1>18, <1>19 DEF Inv

\* EndMetric preserves the invariant.
LEMMA EndMetricInv ==
  ASSUME Inv, NEW t \in Threads, EndMetric(t)
  PROVE  Inv'
<1> USE GenerationsAssumption DEF serviceVars, clientVars, metricVars
<1>1. /\ TypeOK /\ Chain /\ Pinned /\ ShutExact /\ Once /\ RefPublished
      /\ Accounted /\ Room /\ Requests /\ MetricsBounded
  BY DEF Inv
<1>2. /\ pc \in [Threads -> Labels] /\ ref \in [Threads -> Generation]
      /\ ref[t] \in Generation /\ current \in Generation
  BY <1>1 DEF TypeOK
<1>3. HoldStep(t) /\ CountStep(t) /\ CloseStep(t) /\ InstStep(t) /\ LooseStep(t)
  <2>1. pc' = [pc EXCEPT ![t] = IF pc[t] = "lastOut" THEN "closing" ELSE "idle"]
    BY DEF EndMetric, GoClose, Minus
  <2>2. ref' = [ref EXCEPT ![t] = ref[t]]
    BY <1>2 DEF EndMetric, GoClose, Minus
  <2>3. QED
    BY <1>1, <1>2, <2>1, <2>2, Counting
<1>4. \A g \in Generation : NHold(g) \in Nat /\ NHold(g)' = NHold(g)
  BY <1>2, <1>3 DEF EndMetric, GoClose, Minus, HoldStep, Holding
<1>5. /\ NCount(ref[t]) >= 1
      /\ \A g \in Generation :
           NCount(g) \in Nat /\ NCount(g)' = NCount(g) - (IF g = ref[t] THEN 1 ELSE 0)
  BY <1>2, <1>3 DEF EndMetric, GoClose, Minus, CountStep, Counted
<1>6. \A g \in Generation : NClose(g) \in Nat /\ NClose(g)' = NClose(g)
  BY <1>2, <1>3 DEF EndMetric, GoClose, Minus, CloseStep
<1>7. NInst \in Nat /\ NInst' \in Nat /\ NInst' = NInst
  BY <1>2, <1>3 DEF EndMetric, GoClose, Minus, InstStep
<1>8. NLoose \in Nat /\ NLoose' \in Nat /\ NLoose' = NLoose
  BY <1>2, <1>3 DEF EndMetric, GoClose, Minus, LooseStep
<1>9. NOpen \in Nat /\ NOpen' \in Nat /\ NOpen' = NOpen
  BY <1>1, <1>2, OpenFinite DEF EndMetric, GoClose, Minus, NOpen, OpenGens
<1>10. TypeOK'
  <2>1. mInflight' \in [Generation -> Nat]
    BY <1>1, <1>2 DEF EndMetric, GoClose, Minus, TypeOK
  <2>2. mKeys' \in SUBSET Generation
    BY <1>1, <1>2 DEF EndMetric, GoClose, Minus, TypeOK
  <2>3. pc' \in [Threads -> Labels]
    BY <1>2 DEF EndMetric, GoClose, Minus, Labels
  <2>4. ref' \in [Threads -> Generation]
    BY <1>2 DEF EndMetric, GoClose, Minus
  <2>5. QED
    BY <1>1, <2>1, <2>2, <2>3, <2>4 DEF EndMetric, GoClose, Minus, TypeOK
<1>11. Chain'
  BY <1>1, <1>2 DEF EndMetric, GoClose, Minus, TypeOK, Chain, Generation
<1>12. Pinned'
  BY <1>1, <1>2, <1>4 DEF EndMetric, GoClose, Minus, TypeOK, Pinned
<1>13. ShutExact'
  BY <1>1, <1>2 DEF EndMetric, GoClose, Minus, TypeOK, Chain, ShutExact, Generation
<1>14. Once'
  BY <1>1, <1>2, <1>6 DEF EndMetric, GoClose, Minus, TypeOK, Once
<1>15. RefPublished'
  BY <1>1, <1>2 DEF EndMetric, GoClose, Minus, TypeOK, Chain, RefPublished, Holding, Counted, Generation
<1>16. Accounted'
  BY <1>1, <1>8, <1>9 DEF EndMetric, GoClose, Minus, TypeOK, Accounted
<1>17. Room'
  BY <1>1, <1>7 DEF EndMetric, GoClose, Minus, TypeOK, Room, Generation, NInst
<1>18. Requests'
  BY <1>1, <1>2, <1>5 DEF EndMetric, GoClose, Minus, TypeOK, Requests
<1>19. MetricsBounded'
  <2>1. SUFFICES ASSUME NEW g \in mKeys', g # mCurrent, g # mPrevious
                 PROVE  g \in Generation /\ mInflight'[g] > 0
    BY <1>1 DEF EndMetric, MetricsBounded
  <2>2. g \in mKeys /\ g \in Generation /\ mInflight[g] > 0
    BY <1>1, <2>1 DEF EndMetric, TypeOK, MetricsBounded
  <2>3. CASE g = ref[t]
    <3>1. mInflight'[g] = Minus(mInflight[g])
      BY <1>1, <1>2, <2>2, <2>3 DEF EndMetric, TypeOK
    <3>2. Minus(mInflight[g]) # 0
      BY <2>1, <2>3 DEF EndMetric
    <3>3. QED
      BY <1>1, <2>2, <3>1, <3>2 DEF Minus, TypeOK
  <2>4. CASE g # ref[t]
    BY <1>1, <2>2, <2>4 DEF EndMetric, TypeOK
  <2>5. QED
    BY <2>3, <2>4
<1>20. QED
  BY <1>10, <1>11, <1>12, <1>13, <1>14, <1>15, <1>16, <1>17, <1>18, <1>19 DEF Inv

\* StatusAcquire preserves the invariant.
LEMMA StatusAcquireInv ==
  ASSUME Inv, NEW t \in Threads, StatusAcquire(t)
  PROVE  Inv'
<1> USE GenerationsAssumption DEF serviceVars, clientVars, metricVars
<1>1. /\ TypeOK /\ Chain /\ Pinned /\ ShutExact /\ Once /\ RefPublished
      /\ Accounted /\ Room /\ Requests /\ MetricsBounded
  BY DEF Inv
<1>2. /\ pc \in [Threads -> Labels] /\ ref \in [Threads -> Generation]
      /\ ref[t] \in Generation /\ current \in Generation
  BY <1>1 DEF TypeOK
<1>3. HoldStep(t) /\ CountStep(t) /\ CloseStep(t) /\ InstStep(t) /\ LooseStep(t)
  <2>1. pc' = [pc EXCEPT ![t] = "probing"]
    BY DEF StatusAcquire
  <2>2. ref' = [ref EXCEPT ![t] = current]
    BY <1>2 DEF StatusAcquire
  <2>3. QED
    BY <1>1, <1>2, <2>1, <2>2, Counting
<1>4. \A g \in Generation : NHold(g) \in Nat /\ NHold(g)' = NHold(g) + (IF g = current THEN 1 ELSE 0)
  BY <1>2, <1>3 DEF StatusAcquire, HoldStep, Holding
<1>5. \A g \in Generation : NCount(g) \in Nat /\ NCount(g)' = NCount(g)
  BY <1>2, <1>3 DEF StatusAcquire, CountStep, Counted
<1>6. \A g \in Generation : NClose(g) \in Nat /\ NClose(g)' = NClose(g)
  BY <1>2, <1>3 DEF StatusAcquire, CloseStep
<1>7. NInst \in Nat /\ NInst' \in Nat /\ NInst' = NInst
  BY <1>2, <1>3 DEF StatusAcquire, InstStep
<1>8. NLoose \in Nat /\ NLoose' \in Nat /\ NLoose' = NLoose
  BY <1>2, <1>3 DEF StatusAcquire, LooseStep
<1>9. NOpen \in Nat /\ NOpen' \in Nat /\ NOpen' = NOpen
  BY <1>1, <1>2, OpenFinite DEF StatusAcquire, NOpen, OpenGens
<1>10. TypeOK'
  <2>1. inflight' \in [Generation -> Nat]
    BY <1>1, <1>2 DEF StatusAcquire, TypeOK
  <2>2. pc' \in [Threads -> Labels]
    BY <1>2 DEF StatusAcquire, Labels
  <2>3. ref' \in [Threads -> Generation]
    BY <1>2 DEF StatusAcquire
  <2>4. QED
    BY <1>1, <2>1, <2>2, <2>3 DEF StatusAcquire, TypeOK
<1>11. Chain'
  BY <1>1, <1>2 DEF StatusAcquire, TypeOK, Chain, Generation
<1>12. Pinned'
  BY <1>1, <1>2, <1>4 DEF StatusAcquire, TypeOK, Pinned
<1>13. ShutExact'
  BY <1>1, <1>2 DEF StatusAcquire, TypeOK, Chain, ShutExact, Generation
<1>14. Once'
  BY <1>1, <1>2, <1>6 DEF StatusAcquire, TypeOK, Once
<1>15. RefPublished'
  <2>1. SUFFICES ASSUME NEW u \in Threads,
                        pc'[u] \in Holding \cup Counted \cup {"closing"}
                 PROVE  ref'[u] <= next'
    BY DEF RefPublished
  <2>2. next' = next /\ next \in Int /\ current = next
    BY <1>1 DEF StatusAcquire, TypeOK, Chain, Generation
  <2>3. CASE u = t
    BY <1>2, <2>1, <2>2, <2>3 DEF StatusAcquire, Holding, Counted
  <2>4. CASE u # t
    <3>1. pc'[u] = pc[u] /\ ref'[u] = ref[u] /\ ref[u] \in Int
      BY <1>2, <2>4 DEF StatusAcquire, Generation
    <3>2. QED
      BY <1>1, <2>1, <2>2, <3>1 DEF RefPublished
  <2>5. QED
    BY <2>3, <2>4
<1>16. Accounted'
  BY <1>1, <1>8, <1>9 DEF StatusAcquire, TypeOK, Accounted
<1>17. Room'
  BY <1>1, <1>7 DEF StatusAcquire, TypeOK, Room, Generation, NInst
<1>18. Requests'
  BY <1>1, <1>2, <1>5 DEF StatusAcquire, TypeOK, Requests
<1>19. MetricsBounded'
  BY <1>1, <1>2 DEF StatusAcquire, TypeOK, Chain, Requests, MetricsBounded, Generation
<1>20. QED
  BY <1>10, <1>11, <1>12, <1>13, <1>14, <1>15, <1>16, <1>17, <1>18, <1>19 DEF Inv

\* StatusRelease preserves the invariant.
LEMMA StatusReleaseInv ==
  ASSUME Inv, NEW t \in Threads, StatusRelease(t)
  PROVE  Inv'
<1> USE GenerationsAssumption DEF serviceVars, clientVars, metricVars
<1>1. /\ TypeOK /\ Chain /\ Pinned /\ ShutExact /\ Once /\ RefPublished
      /\ Accounted /\ Room /\ Requests /\ MetricsBounded
  BY DEF Inv
<1>2. /\ pc \in [Threads -> Labels] /\ ref \in [Threads -> Generation]
      /\ ref[t] \in Generation /\ current \in Generation
  BY <1>1 DEF TypeOK
<1>3. HoldStep(t) /\ CountStep(t) /\ CloseStep(t) /\ InstStep(t) /\ LooseStep(t)
  <2>1. pc' = [pc EXCEPT ![t] = IF Closable(retired[ref[t]], Minus(inflight[ref[t]]), shut[ref[t]], runner[ref[t]]) THEN "closing" ELSE "idle"]
    BY DEF StatusRelease, Minus, GoClose
  <2>2. ref' = [ref EXCEPT ![t] = ref[t]]
    BY <1>2 DEF StatusRelease, Minus, GoClose
  <2>3. QED
    BY <1>1, <1>2, <2>1, <2>2, Counting
<1>4. /\ NHold(ref[t]) >= 1
      /\ \A g \in Generation :
           NHold(g) \in Nat /\ NHold(g)' = NHold(g) - (IF g = ref[t] THEN 1 ELSE 0)
  BY <1>2, <1>3 DEF StatusRelease, Minus, GoClose, HoldStep, Holding
<1>5. \A g \in Generation : NCount(g) \in Nat /\ NCount(g)' = NCount(g)
  BY <1>2, <1>3 DEF StatusRelease, Minus, GoClose, CountStep, Counted
<1>6. \A g \in Generation : NClose(g) \in Nat /\ NClose(g)' = NClose(g) + (IF g = ref[t] /\ Closable(retired[ref[t]], Minus(inflight[ref[t]]), shut[ref[t]], runner[ref[t]]) THEN 1 ELSE 0)
  BY <1>2, <1>3 DEF StatusRelease, Minus, GoClose, CloseStep
<1>7. NInst \in Nat /\ NInst' \in Nat /\ NInst' = NInst
  BY <1>2, <1>3 DEF StatusRelease, Minus, GoClose, InstStep
<1>8. NLoose \in Nat /\ NLoose' \in Nat /\ NLoose' = NLoose
  BY <1>2, <1>3 DEF StatusRelease, Minus, GoClose, LooseStep
<1>9. NOpen \in Nat /\ NOpen' \in Nat /\ NOpen' = NOpen
  BY <1>1, <1>2, OpenFinite DEF StatusRelease, Minus, GoClose, NOpen, OpenGens
<1>10. TypeOK'
  <2>1. inflight' \in [Generation -> Nat]
    BY <1>1, <1>2 DEF StatusRelease, Minus, GoClose, TypeOK
  <2>2. shut' \in [Generation -> BOOLEAN]
    BY <1>1, <1>2 DEF StatusRelease, Minus, GoClose, TypeOK, Closable
  <2>3. pc' \in [Threads -> Labels]
    BY <1>2 DEF StatusRelease, Minus, GoClose, Labels
  <2>4. ref' \in [Threads -> Generation]
    BY <1>2 DEF StatusRelease, Minus, GoClose
  <2>5. QED
    BY <1>1, <2>1, <2>2, <2>3, <2>4 DEF StatusRelease, Minus, GoClose, TypeOK
<1>11. Chain'
  BY <1>1, <1>2 DEF StatusRelease, Minus, GoClose, TypeOK, Chain, Generation
<1>12. Pinned'
  BY <1>1, <1>2, <1>4 DEF StatusRelease, Minus, GoClose, TypeOK, Pinned
<1>13. ShutExact'
  BY <1>1, <1>2, SMTT(30) DEF StatusRelease, Minus, GoClose, Closable, TypeOK, Chain, ShutExact, Generation
<1>14. Once'
  <2>1. SUFFICES ASSUME NEW g \in Generation
                 PROVE  closeCalls'[g] + NClose(g)' = (IF shut'[g] THEN 1 ELSE 0)
    BY DEF Once
  <2>2. closeCalls' = closeCalls
    BY DEF StatusRelease
  <2>3. closeCalls[g] + NClose(g) = (IF shut[g] THEN 1 ELSE 0)
    BY <1>1 DEF Once
  <2>4. closeCalls[g] \in Nat /\ shut[g] \in BOOLEAN
    BY <1>1 DEF TypeOK
  <2>5. CASE g = ref[t]
    <3>1. shut'[g] = (shut[g] \/ Closable(retired[g], Minus(inflight[g]), shut[g], runner[g]))
      BY <1>1, <1>2, <2>5 DEF StatusRelease, TypeOK
    <3>2. Closable(retired[g], Minus(inflight[g]), shut[g], runner[g]) => ~shut[g]
      BY DEF Closable
    <3>3. CASE Closable(retired[g], Minus(inflight[g]), shut[g], runner[g])
      <4>1. NClose(g) \in Nat /\ NClose(g)' = NClose(g) + 1
        BY <1>6, <2>5, <3>3
      <4>2. shut'[g] /\ ~shut[g]
        BY <3>1, <3>2, <3>3
      <4>3. QED
        BY <2>2, <2>3, <2>4, <4>1, <4>2
    <3>4. CASE ~Closable(retired[g], Minus(inflight[g]), shut[g], runner[g])
      <4>1. NClose(g) \in Nat /\ NClose(g)' = NClose(g)
        BY <1>6, <2>5, <3>4
      <4>2. shut'[g] <=> shut[g]
        BY <2>4, <3>1, <3>4
      <4>3. QED
        BY <2>2, <2>3, <2>4, <4>1, <4>2
    <3>5. QED
      BY <3>3, <3>4
  <2>6. CASE g # ref[t]
    <3>1. shut'[g] = shut[g]
      BY <1>1, <1>2, <2>6 DEF StatusRelease, TypeOK
    <3>2. QED
      BY <1>6, <2>2, <2>3, <2>4, <2>6, <3>1
  <2>7. QED
    BY <2>5, <2>6
<1>15. RefPublished'
  BY <1>1, <1>2 DEF StatusRelease, Minus, GoClose, TypeOK, Chain, RefPublished, Holding, Counted, Generation
<1>16. Accounted'
  BY <1>1, <1>8, <1>9 DEF StatusRelease, Minus, GoClose, TypeOK, Accounted
<1>17. Room'
  BY <1>1, <1>7 DEF StatusRelease, Minus, GoClose, TypeOK, Room, Generation, NInst
<1>18. Requests'
  BY <1>1, <1>2, <1>5 DEF StatusRelease, Minus, GoClose, TypeOK, Requests
<1>19. MetricsBounded'
  BY <1>1, <1>2 DEF StatusRelease, Minus, GoClose, TypeOK, Chain, Requests, MetricsBounded, Generation
<1>20. QED
  BY <1>10, <1>11, <1>12, <1>13, <1>14, <1>15, <1>16, <1>17, <1>18, <1>19 DEF Inv

\* CloseService preserves the invariant.
LEMMA CloseServiceInv ==
  ASSUME Inv, NEW t \in Threads, CloseService(t)
  PROVE  Inv'
<1> USE GenerationsAssumption DEF serviceVars, clientVars, metricVars
<1>1. /\ TypeOK /\ Chain /\ Pinned /\ ShutExact /\ Once /\ RefPublished
      /\ Accounted /\ Room /\ Requests /\ MetricsBounded
  BY DEF Inv
<1>2. /\ pc \in [Threads -> Labels] /\ ref \in [Threads -> Generation]
      /\ ref[t] \in Generation /\ current \in Generation
  BY <1>1 DEF TypeOK
<1>3. HoldStep(t) /\ CountStep(t) /\ CloseStep(t) /\ InstStep(t) /\ LooseStep(t)
  <2>1. pc' = [pc EXCEPT ![t] = IF Closable(TRUE, inflight[current], shut[current], runner[current]) THEN "closing" ELSE "idle"]
    BY DEF CloseService, GoClose
  <2>2. ref' = [ref EXCEPT ![t] = IF Closable(TRUE, inflight[current], shut[current], runner[current]) THEN current ELSE ref[t]]
    BY <1>2 DEF CloseService, GoClose
  <2>3. QED
    BY <1>1, <1>2, <2>1, <2>2, Counting
<1>4. \A g \in Generation : NHold(g) \in Nat /\ NHold(g)' = NHold(g)
  BY <1>2, <1>3 DEF CloseService, GoClose, HoldStep, Holding
<1>5. \A g \in Generation : NCount(g) \in Nat /\ NCount(g)' = NCount(g)
  BY <1>2, <1>3 DEF CloseService, GoClose, CountStep, Counted
<1>6. \A g \in Generation :
        /\ NClose(g) \in Nat
        /\ NClose(g)' = NClose(g) + (IF g = current /\ Closable(TRUE, inflight[current], shut[current], runner[current])
                                     THEN 1 ELSE 0)
  <2>1. CASE Closable(TRUE, inflight[current], shut[current], runner[current])
    BY <1>2, <1>3, <2>1 DEF CloseService, GoClose, CloseStep
  <2>2. CASE ~Closable(TRUE, inflight[current], shut[current], runner[current])
    BY <1>2, <1>3, <2>2 DEF CloseService, GoClose, CloseStep
  <2>3. QED
    BY <2>1, <2>2
<1>7. NInst \in Nat /\ NInst' \in Nat /\ NInst' = NInst
  BY <1>2, <1>3 DEF CloseService, GoClose, InstStep
<1>8. NLoose \in Nat /\ NLoose' \in Nat /\ NLoose' = NLoose
  BY <1>2, <1>3 DEF CloseService, GoClose, LooseStep
<1>9. NOpen \in Nat /\ NOpen' \in Nat /\ NOpen' = NOpen
  BY <1>1, <1>2, OpenFinite DEF CloseService, GoClose, NOpen, OpenGens
<1>10. TypeOK'
  BY <1>1, <1>2, <1>7, <1>8, <1>9 DEF CloseService, GoClose, Closable, TypeOK, Labels, Generation, Room, Accounted
<1>11. Chain'
  BY <1>1, <1>2 DEF CloseService, GoClose, TypeOK, Chain, Generation
<1>12. Pinned'
  BY <1>1, <1>2, <1>4 DEF CloseService, GoClose, TypeOK, Pinned
<1>13. ShutExact'
  BY <1>1, <1>2 DEF CloseService, GoClose, Closable, TypeOK, Chain, ShutExact, Generation
<1>14. Once'
  BY <1>1, <1>2, <1>6, SMTT(30) DEF CloseService, GoClose, Closable, TypeOK, Once
<1>15. RefPublished'
  <2>1. SUFFICES ASSUME NEW u \in Threads,
                        pc'[u] \in Holding \cup Counted \cup {"closing"}
                 PROVE  ref'[u] <= next'
    BY DEF RefPublished
  <2>2. next' = next /\ next \in Int /\ current = next
    BY <1>1 DEF CloseService, GoClose, TypeOK, Chain, Generation
  <2>3. CASE u = t
    <3>1. pc'[t] = "idle" \/ ref'[t] = current
      BY <1>2 DEF CloseService, GoClose
    <3>2. QED
      BY <2>1, <2>2, <2>3, <3>1 DEF Holding, Counted
  <2>4. CASE u # t
    <3>1. pc'[u] = pc[u] /\ ref'[u] = ref[u] /\ ref[u] \in Int
      BY <1>2, <2>4 DEF CloseService, GoClose, Generation
    <3>2. QED
      BY <1>1, <2>1, <2>2, <3>1 DEF RefPublished
  <2>5. QED
    BY <2>3, <2>4
<1>16. Accounted'
  BY <1>1, <1>8, <1>9 DEF CloseService, GoClose, TypeOK, Accounted
<1>17. Room'
  BY <1>1, <1>7 DEF CloseService, GoClose, TypeOK, Room, Generation, NInst
<1>18. Requests'
  BY <1>1, <1>2, <1>5 DEF CloseService, GoClose, TypeOK, Requests
<1>19. MetricsBounded'
  BY <1>1, <1>2 DEF CloseService, GoClose, TypeOK, Chain, Requests, MetricsBounded, Generation
<1>20. QED
  BY <1>10, <1>11, <1>12, <1>13, <1>14, <1>15, <1>16, <1>17, <1>18, <1>19 DEF Inv

\* CallCloser preserves the invariant.
LEMMA CallCloserInv ==
  ASSUME Inv, NEW t \in Threads, CallCloser(t)
  PROVE  Inv'
<1> USE GenerationsAssumption DEF serviceVars, clientVars, metricVars
<1>1. /\ TypeOK /\ Chain /\ Pinned /\ ShutExact /\ Once /\ RefPublished
      /\ Accounted /\ Room /\ Requests /\ MetricsBounded
  BY DEF Inv
<1>2. /\ pc \in [Threads -> Labels] /\ ref \in [Threads -> Generation]
      /\ ref[t] \in Generation /\ current \in Generation
  BY <1>1 DEF TypeOK
<1>3. HoldStep(t) /\ CountStep(t) /\ CloseStep(t) /\ InstStep(t) /\ LooseStep(t)
  <2>1. pc' = [pc EXCEPT ![t] = "idle"]
    BY DEF CallCloser
  <2>2. ref' = [ref EXCEPT ![t] = ref[t]]
    BY <1>2 DEF CallCloser
  <2>3. QED
    BY <1>1, <1>2, <2>1, <2>2, Counting
<1>4. \A g \in Generation : NHold(g) \in Nat /\ NHold(g)' = NHold(g)
  BY <1>2, <1>3 DEF CallCloser, HoldStep, Holding
<1>5. \A g \in Generation : NCount(g) \in Nat /\ NCount(g)' = NCount(g)
  BY <1>2, <1>3 DEF CallCloser, CountStep, Counted
<1>6. /\ NClose(ref[t]) >= 1
      /\ \A g \in Generation :
           NClose(g) \in Nat /\ NClose(g)' = NClose(g) - (IF g = ref[t] THEN 1 ELSE 0)
  BY <1>2, <1>3 DEF CallCloser, CloseStep
<1>7. NInst \in Nat /\ NInst' \in Nat /\ NInst' = NInst
  BY <1>2, <1>3 DEF CallCloser, InstStep
<1>8. NLoose \in Nat /\ NLoose' \in Nat /\ NLoose' = NLoose
  BY <1>2, <1>3 DEF CallCloser, LooseStep
<1>9. NOpen \in Nat /\ NOpen' \in Nat /\ NOpen' = NOpen - 1
  <2>1. closeCalls[ref[t]] = 0 /\ runner[ref[t]]
    BY <1>1, <1>2, <1>6 DEF TypeOK, Once, ShutExact
  <2>2. /\ closeCalls' = [closeCalls EXCEPT ![ref[t]] = @ + 1]
        /\ runner' = runner
    BY DEF CallCloser
  <2>3. ref[t] \in OpenGens
    BY <1>2, <2>1 DEF OpenGens
  <2>4. ref[t] \notin OpenGens'
    BY <1>1, <1>2, <2>1, <2>2 DEF OpenGens, TypeOK
  <2>5. OpenGens' \ {ref[t]} = OpenGens \ {ref[t]}
    BY <1>1, <2>2 DEF OpenGens, TypeOK
  <2>6. QED
    BY <2>3, <2>4, <2>5, OpenFinite, OneMember DEF NOpen
<1>10. TypeOK'
  <2>1. open' \in Nat
    BY <1>1, <1>8, <1>9 DEF CallCloser, TypeOK, Accounted
  <2>2. closeCalls' \in [Generation -> Nat]
    BY <1>1, <1>2 DEF CallCloser, TypeOK
  <2>3. pc' \in [Threads -> Labels]
    BY <1>2 DEF CallCloser, Labels
  <2>4. ref' \in [Threads -> Generation]
    BY <1>2 DEF CallCloser
  <2>5. QED
    BY <1>1, <2>1, <2>2, <2>3, <2>4 DEF CallCloser, TypeOK
<1>11. Chain'
  <2>1. ref[t] <= next /\ ref[t] \in Int /\ next \in Int
    BY <1>1, <1>2 DEF CallCloser, TypeOK, RefPublished, Generation
  <2>2. \A g \in Generation : g > next => closeCalls'[g] = closeCalls[g]
    BY <1>1, <1>2, <2>1 DEF CallCloser, TypeOK, Generation
  <2>3. QED
    BY <1>1, <2>2 DEF CallCloser, Chain
<1>12. Pinned'
  BY <1>1, <1>2, <1>4 DEF CallCloser, TypeOK, Pinned
<1>13. ShutExact'
  BY <1>1, <1>2 DEF CallCloser, TypeOK, Chain, ShutExact, Generation
<1>14. Once'
  BY <1>1, <1>2, <1>6 DEF CallCloser, TypeOK, Once
<1>15. RefPublished'
  BY <1>1, <1>2 DEF CallCloser, TypeOK, Chain, RefPublished, Holding, Counted, Generation
<1>16. Accounted'
  BY <1>1, <1>8, <1>9 DEF CallCloser, TypeOK, Accounted
<1>17. Room'
  BY <1>1, <1>7 DEF CallCloser, TypeOK, Room, Generation, NInst
<1>18. Requests'
  BY <1>1, <1>2, <1>5 DEF CallCloser, TypeOK, Requests
<1>19. MetricsBounded'
  BY <1>1, <1>2 DEF CallCloser, TypeOK, Chain, Requests, MetricsBounded, Generation
<1>20. QED
  BY <1>10, <1>11, <1>12, <1>13, <1>14, <1>15, <1>16, <1>17, <1>18, <1>19 DEF Inv
-----------------------------------------------------------------------------
\* NewService establishes the inductive invariant.
LEMMA InitInv == Init => Inv
<1> USE GenerationsAssumption
<1>1. SUFFICES ASSUME Init PROVE Inv
  OBVIOUS
<1>2. 0 \in Generation
  BY DEF Generation
<1>3. TypeOK
  BY <1>1, <1>2 DEF Init, TypeOK, Labels
<1>4. /\ \A g \in Generation : Holders(g) = {} /\ CountedOn(g) = {} /\ Closers(g) = {}
      /\ Installing = {} /\ Loose = {} /\ OpenGens = {}
  BY <1>1 DEF Init, Holders, CountedOn, Closers, Installing, Loose, OpenGens,
              Holding, Counted
<1>5. /\ \A g \in Generation : NHold(g) = 0 /\ NCount(g) = 0 /\ NClose(g) = 0
      /\ NInst = 0 /\ NLoose = 0 /\ NOpen = 0
  BY <1>4, FS_EmptySet DEF NHold, NCount, NClose, NInst, NLoose, NOpen
<1>6. Chain
  BY <1>1 DEF Init, Chain, Generation
<1>7. Pinned /\ ShutExact /\ Once /\ Accounted /\ Requests /\ MetricsBounded
  BY <1>1, <1>5 DEF Init, Pinned, ShutExact, Once, Accounted, Requests, MetricsBounded
<1>8. RefPublished
  BY <1>1 DEF Init, RefPublished, Holding, Counted
<1>9. Room
  BY <1>1, <1>5 DEF Init, Room
<1>10. QED
  BY <1>3, <1>6, <1>7, <1>8, <1>9 DEF Inv

\* A step that changes nothing keeps it.
LEMMA StutterInv ==
  ASSUME Inv, UNCHANGED vars
  PROVE  Inv'
<1>1. /\ UNCHANGED <<closed, current, next, runner, inflight, retired, shut>>
      /\ UNCHANGED <<closeCalls, open, mCurrent, mPrevious, mKeys, mInflight, pc, ref>>
  BY DEF vars, serviceVars, clientVars, metricVars
<1>2. /\ NInst' = NInst /\ NLoose' = NLoose /\ NOpen' = NOpen
      /\ \A g \in Generation : /\ NHold(g)' = NHold(g)
                               /\ NCount(g)' = NCount(g)
                               /\ NClose(g)' = NClose(g)
  BY <1>1 DEF NHold, NCount, NClose, NInst, NLoose, NOpen, Holders, CountedOn,
              Closers, Installing, Loose, OpenGens
<1>3. QED
  BY <1>1, <1>2 DEF Inv, TypeOK, Chain, Pinned, ShutExact, Once, RefPublished,
                    Accounted, Room, Requests, MetricsBounded

\* Every step of the service preserves the invariant.
LEMMA Inductive == Inv /\ [Next]_vars => Inv'
<1>1. SUFFICES ASSUME Inv, [Next]_vars PROVE Inv'
  OBVIOUS
<1>2. CASE UNCHANGED vars
  BY <1>1, <1>2, StutterInv
<1>3. ASSUME NEW t \in Threads, Progress(t) PROVE Inv'
  BY <1>1, <1>3, FactoryReturnsInv, FactoryFailsInv, PublishInv,
     PublishRefusedInv, DiscardInv, ReleaseInv, EndMetricInv,
     StatusReleaseInv, CallCloserInv DEF Progress
<1>4. ASSUME NEW t \in Threads, Call(t) PROVE Inv'
  BY <1>1, <1>4, ReconfigureStartInv, AcquireInv, StatusAcquireInv,
     CloseServiceInv DEF Call
<1>5. QED
  BY <1>1, <1>2, <1>3, <1>4 DEF Next

\* Inv holds in every reachable state.
THEOREM Invariance == Spec => []Inv
<1>1. QED
  BY InitInv, Inductive, PTL DEF Spec

\* The state of the service, the registry and the goroutines keeps its types.
THEOREM TypeCorrect == Spec => []TypeOK
<1>1. Inv => TypeOK
  BY DEF Inv
<1>2. QED
  BY <1>1, Invariance, PTL

\* A set of goroutines is empty exactly when its size is zero.
LEMMA Empty ==
  ASSUME NEW g \in Generation
  PROVE  /\ Holders(g) = {} <=> NHold(g) = 0
         /\ Closers(g) = {} <=> NClose(g) = 0
         /\ NHold(g) \in Nat /\ NClose(g) \in Nat
<1>1. Holders(g) \subseteq Threads /\ Closers(g) \subseteq Threads
  BY DEF Holders, Closers
<1>2. IsFiniteSet(Holders(g)) /\ IsFiniteSet(Closers(g))
  BY <1>1, GenerationsAssumption, FS_Subset
<1>3. QED
  BY <1>2, FS_EmptySet, FS_CardinalityType DEF NHold, NClose

\* A generation that a call holds has not been closed.
LEMMA HeldIsOpen == Inv => NotClosedWhileHeld
<1>1. SUFFICES ASSUME Inv, NEW t \in Threads, pc[t] \in Holding
               PROVE  closeCalls[ref[t]] = 0
  BY DEF NotClosedWhileHeld
<1>2. /\ ref[t] \in Generation
      /\ closeCalls[ref[t]] \in Nat
      /\ shut[ref[t]] \in BOOLEAN
  BY <1>1 DEF Inv, TypeOK
<1>3. Holders(ref[t]) # {}
  BY <1>1 DEF Holders
<1>4. ~shut[ref[t]]
  BY <1>1, <1>2, <1>3, Empty DEF Inv, Pinned, ShutExact
<1>5. QED
  BY <1>1, <1>2, <1>4, Empty DEF Inv, Once

\* For every number of goroutines and reconfigurations, no call works with a
\* client whose closer has run.
THEOREM ClosedAfterUse == Spec => []NotClosedWhileHeld
<1>1. QED
  BY Invariance, HeldIsOpen, PTL

\* The closer of a generation is handed out and run at most once.
THEOREM SingleClose == Spec => []ClosedOnce
<1>1. Inv => ClosedOnce
  BY DEF Inv, Once, ClosedOnce, NClose
<1>2. QED
  BY <1>1, Invariance, PTL

\* A retired client nobody uses has been handed to a closer.
THEOREM NoLeak == Spec => []NoRetiredLeak
<1>1. Inv => NoRetiredLeak
  BY Empty DEF Inv, Pinned, ShutExact, NoRetiredLeak
<1>2. QED
  BY <1>1, Invariance, PTL

\* A closed service at rest has closed every client it ever constructed.
THEOREM NothingLeftOpen == Spec => []NoClientLeaked
<1>1. Inv => NoClientLeaked
  <2>1. SUFFICES ASSUME Inv, closed, \A t \in Threads : pc[t] = "idle"
                 PROVE  open = 0
    BY DEF NoClientLeaked
  <2>2. Loose = {}
    BY <2>1 DEF Loose
  <2>3. \A g \in Generation : Holders(g) = {} /\ Closers(g) = {}
    BY <2>1 DEF Holders, Closers, Holding
  <2>4. ASSUME NEW g \in Generation, runner[g] PROVE closeCalls[g] # 0
    <3>1. retired[g]
      BY <2>1, <2>4, GenerationsAssumption DEF Inv, TypeOK, Chain, Generation
    <3>2. shut[g]
      BY <2>1, <2>3, <2>4, <3>1, Empty DEF Inv, Pinned, ShutExact
    <3>3. QED
      BY <2>1, <2>3, <3>2, Empty DEF Inv, Once
  <2>5. OpenGens = {}
    BY <2>4 DEF OpenGens
  <2>6. NLoose = 0 /\ NOpen = 0
    BY <2>2, <2>5, FS_EmptySet DEF NLoose, NOpen
  <2>7. QED
    BY <2>1, <2>6 DEF Inv, Accounted
<1>2. QED
  BY <1>1, Invariance, PTL

\* The registry counts the requests in flight exactly.
THEOREM CountsExact == Spec => []RequestsCounted
<1>1. Inv => RequestsCounted
  BY DEF Inv, Requests, RequestsCounted, NCount
<1>2. QED
  BY <1>1, Invariance, PTL

\* The registry's map does not grow with the number of reconfigurations.
THEOREM RegistryBounded == Spec => []MetricsBounded
<1>1. Inv => MetricsBounded
  BY DEF Inv
<1>2. QED
  BY <1>1, Invariance, PTL
-----------------------------------------------------------------------------
\* How the mapped state changes when one goroutine moves.
LEMMA UsersStep ==
  ASSUME TypeOK, NEW t \in Threads, NEW l, NEW h \in Generation,
         pc' = [pc EXCEPT ![t] = l], ref' = [ref EXCEPT ![t] = h]
  PROVE  \A g \in Generation :
           Holders(g)' = IF l \in Holding /\ h = g THEN Holders(g) \cup {t}
                                                  ELSE Holders(g) \ {t}
<1>1. /\ pc \in [Threads -> Labels] /\ ref \in [Threads -> Generation]
  BY DEF TypeOK
<1>2. QED
  BY <1>1 DEF Holders

\* Steps that change neither what is lent nor the phase of a client.
LEMMA LeaseStutter ==
  ASSUME TypeOK, NEW t \in Threads, NEW l,
         pc[t] \notin Holding, l \notin Holding, pc' = [pc EXCEPT ![t] = l],
         UNCHANGED <<ref, closeCalls, retired, next>>
  PROVE  UNCHANGED Lease!leaseVars
<1>1. /\ pc \in [Threads -> Labels] /\ ref \in [Threads -> Generation]
  BY DEF TypeOK
<1>2. \A g \in Generation : Holders(g)' = Holders(g)
  BY <1>1 DEF Holders
<1>3. LeaseUsers' = LeaseUsers
  BY <1>2 DEF LeaseUsers
<1>4. LeasePhase' = LeasePhase
  BY DEF LeasePhase
<1>5. QED
  BY <1>3, <1>4 DEF Lease!leaseVars

\* Pinning the current generation is a Use of the live client.
LEMMA LeaseUse ==
  ASSUME Inv, NEW t \in Threads, NEW l \in Holding, pc[t] = "idle", ~closed,
         pc' = [pc EXCEPT ![t] = l], ref' = [ref EXCEPT ![t] = current],
         UNCHANGED <<closeCalls, retired, next>>
  PROVE  Lease!Use(t, current)
<1>1. TypeOK /\ Chain /\ Once /\ ShutExact /\ current \in Generation
  BY DEF Inv, TypeOK
<1>2. LeasePhase' = LeasePhase
  BY DEF LeasePhase
<1>3. LeasePhase[current] = "live"
  <2>1. ~retired[current] /\ ~shut[current] /\ current = next
    BY <1>1 DEF Chain, ShutExact
  <2>2. closeCalls[current] = 0
    BY <1>1, <2>1, Empty DEF Once, TypeOK
  <2>3. QED
    BY <1>1, <2>1, <2>2, GenerationsAssumption DEF LeasePhase, Generation
<1>4. \A g \in Generation : t \notin Holders(g)
  BY DEF Holders, Holding
<1>5. \A g \in Generation :
        Holders(g)' = IF g = current THEN Holders(g) \cup {t} ELSE Holders(g)
  <2>1. \A g \in Generation :
          Holders(g)' = IF l \in Holding /\ current = g THEN Holders(g) \cup {t}
                                                      ELSE Holders(g) \ {t}
    BY <1>1, UsersStep
  <2>2. QED
    BY <1>4, <2>1
<1>6. LeaseUsers' = [LeaseUsers EXCEPT ![current] = @ \cup {t}]
  BY <1>1, <1>5 DEF LeaseUsers
<1>7. \A d \in 0..MaxGeneration : t \notin LeaseUsers[d]
  BY <1>4 DEF LeaseUsers, Generation
<1>8. QED
  BY <1>2, <1>3, <1>6, <1>7 DEF Lease!Use, Lease!Client

\* Unpinning is Done, whichever closer it leads to.
LEMMA LeaseDone ==
  ASSUME Inv, NEW t \in Threads, NEW l, pc[t] \in Holding, l \notin Holding,
         pc' = [pc EXCEPT ![t] = l], UNCHANGED ref,
         UNCHANGED <<closeCalls, retired, next>>
  PROVE  ref[t] \in Generation /\ Lease!Done(t, ref[t])
<1>1. TypeOK /\ ref[t] \in Generation
  BY DEF Inv, TypeOK
<1>2. LeasePhase' = LeasePhase
  BY DEF LeasePhase
<1>3. t \in Holders(ref[t])
  BY DEF Holders
<1>4. \A g \in Generation :
        Holders(g)' = IF g = ref[t] THEN Holders(g) \ {t} ELSE Holders(g)
  <2>1. pc \in [Threads -> Labels] /\ ref \in [Threads -> Generation]
    BY <1>1 DEF TypeOK
  <2>2. QED
    BY <2>1 DEF Holders
<1>5. LeaseUsers' = [LeaseUsers EXCEPT ![ref[t]] = @ \ {t}]
  BY <1>1, <1>4 DEF LeaseUsers
<1>6. t \in LeaseUsers[ref[t]]
  BY <1>1, <1>3 DEF LeaseUsers
<1>7. QED
  BY <1>1, <1>2, <1>5, <1>6 DEF Lease!Done

\* Publish on an open service installs the next client of the lease.
LEMMA LeaseInstall ==
  ASSUME Inv, Inv', NEW t \in Threads, Publish(t)
  PROVE  current \in Generation /\ Lease!Install(current)
<1> USE GenerationsAssumption DEF clientVars
<1>1. /\ TypeOK /\ Chain /\ Once /\ ShutExact
      /\ current = next /\ next \in Int /\ current \in Generation
  <2>1. TypeOK /\ Chain /\ Once /\ ShutExact
    BY DEF Inv
  <2>2. QED
    BY <2>1, SMTT(30) DEF TypeOK, Chain, Generation
<1>2. next + 1 \in Generation
  BY DEF Inv, TypeOK, Publish
<1>3. LeaseUsers' = LeaseUsers
  <2>1. pc \in [Threads -> Labels] /\ ref \in [Threads -> Generation]
    BY <1>1 DEF TypeOK
  <2>2. pc[t] \notin Holding /\ pc'[t] \notin Holding
    BY <2>1 DEF Publish, GoClose, Holding
  <2>3. \A u \in Threads : u # t => pc'[u] = pc[u] /\ ref'[u] = ref[u]
    BY <2>1 DEF Publish, GoClose
  <2>4. \A g \in Generation : Holders(g)' = Holders(g)
    BY <2>2, <2>3 DEF Holders
  <2>5. QED
    BY <2>4 DEF LeaseUsers
<1>4. ~retired[current] /\ closeCalls[current] = 0
  <2>1. ~retired[current] /\ ~shut[current]
    BY <1>1 DEF Chain, ShutExact, Publish
  <2>2. QED
    BY <1>1, <2>1, Empty DEF Once, TypeOK
<1>5. ~retired[next + 1] /\ closeCalls[next + 1] = 0
  BY <1>1, <1>2 DEF Chain
<1>6. /\ closeCalls' = closeCalls /\ next' = next + 1
      /\ retired' = [retired EXCEPT ![next] = TRUE]
  BY <1>1 DEF Publish
<1>7. LeasePhase[current] = "live" /\ LeasePhase[next + 1] = "absent"
  BY <1>1, <1>2, <1>4, <1>5 DEF LeasePhase
<1>8. LeasePhase' = [LeasePhase EXCEPT ![next] = "retired", ![next + 1] = "live"]
  <2>1. ASSUME NEW g \in Generation
        PROVE  LeasePhase'[g] = IF g = next THEN "retired"
                                ELSE IF g = next + 1 THEN "live"
                                ELSE LeasePhase[g]
    <3>1. g \in Int /\ retired \in [Generation -> BOOLEAN]
      BY <1>1 DEF Generation, TypeOK
    <3>2. CASE g = next
      BY <1>1, <1>4, <1>6, <3>1, <3>2 DEF LeasePhase
    <3>3. CASE g = next + 1
      BY <1>1, <1>5, <1>6, <3>1, <3>3 DEF LeasePhase
    <3>4. CASE g # next /\ g # next + 1
      BY <1>1, <1>6, <3>1, <3>4 DEF LeasePhase
    <3>5. QED
      BY <3>2, <3>3, <3>4
  <2>2. /\ DOMAIN LeasePhase = Generation
        /\ LeasePhase' = [g \in Generation |-> LeasePhase'[g]]
    BY DEF LeasePhase
  <2>3. LeasePhase' = [g \in Generation |-> IF g = next THEN "retired"
                                           ELSE IF g = next + 1 THEN "live"
                                           ELSE LeasePhase[g]]
    BY <2>1, <2>2
  <2>4. next # next + 1 /\ next \in Generation
    BY <1>1
  <2>5. [LeasePhase EXCEPT ![next] = "retired", ![next + 1] = "live"]
          = [g \in Generation |-> IF g = next + 1 THEN "live"
                                 ELSE IF g = next THEN "retired"
                                 ELSE LeasePhase[g]]
    BY <1>2, <2>2, <2>4
  <2>6. QED
    BY <2>3, <2>4, <2>5
<1>9. QED
  BY <1>1, <1>2, <1>3, <1>7, <1>8 DEF Lease!Install, Lease!Client, Generation

\* Close retires the live client of the lease.
LEMMA LeaseStop ==
  ASSUME Inv, NEW t \in Threads, CloseService(t)
  PROVE  /\ current \in Generation
         /\ Lease!Stop(current) \/ UNCHANGED Lease!leaseVars
<1> USE GenerationsAssumption DEF clientVars, metricVars
<1>1. /\ TypeOK /\ Chain /\ Once /\ ShutExact
      /\ current = next /\ next \in Int /\ current \in Generation
      /\ retired \in [Generation -> BOOLEAN]
  BY SMTT(30) DEF Inv, TypeOK, Chain, Generation
<1>2. LeaseUsers' = LeaseUsers
  <2>1. pc \in [Threads -> Labels] /\ ref \in [Threads -> Generation]
    BY <1>1 DEF TypeOK
  <2>2. pc[t] \notin Holding /\ pc'[t] \notin Holding
    BY <2>1 DEF CloseService, GoClose, Holding
  <2>3. \A u \in Threads : u # t => pc'[u] = pc[u] /\ ref'[u] = ref[u]
    BY <2>1 DEF CloseService, GoClose
  <2>4. \A g \in Generation : Holders(g)' = Holders(g)
    BY <2>2, <2>3 DEF Holders
  <2>5. QED
    BY <2>4 DEF LeaseUsers
<1>3. /\ retired' = [retired EXCEPT ![current] = TRUE]
      /\ UNCHANGED <<closeCalls, next>>
  BY DEF CloseService
<1>4. CASE closed
  <2>1. retired[current]
    BY <1>1, <1>4 DEF Chain
  <2>2. retired' = retired
    BY <1>1, <1>3, <2>1
  <2>3. LeasePhase' = LeasePhase
    BY <1>3, <2>2 DEF LeasePhase
  <2>4. QED
    BY <1>1, <1>2, <2>3 DEF Lease!leaseVars
<1>5. CASE ~closed
  <2>1. ~retired[current] /\ ~shut[current]
    BY <1>1, <1>5 DEF Chain, ShutExact
  <2>2. closeCalls[current] = 0
    BY <1>1, <2>1, Empty DEF Once, TypeOK
  <2>3. LeasePhase[current] = "live"
    BY <1>1, <2>1, <2>2 DEF LeasePhase
  <2>4. LeasePhase' = [LeasePhase EXCEPT ![current] = "retired"]
    <3>1. ASSUME NEW g \in Generation
          PROVE  LeasePhase'[g] = IF g = current THEN "retired" ELSE LeasePhase[g]
      BY <1>1, <1>3, <2>2 DEF LeasePhase
    <3>2. /\ DOMAIN LeasePhase = Generation
          /\ LeasePhase' = [g \in Generation |-> LeasePhase'[g]]
      BY DEF LeasePhase
    <3>3. LeasePhase' = [g \in Generation |-> IF g = current THEN "retired"
                                             ELSE LeasePhase[g]]
      BY <3>1, <3>2
    <3>4. QED
      BY <1>1, <3>2, <3>3
  <2>5. QED
    BY <1>1, <1>2, <2>3, <2>4 DEF Lease!Stop
<1>6. QED
  BY <1>4, <1>5

\* The step that takes the closer of a generation closes its client in the lease.
LEMMA LeaseClose ==
  ASSUME Inv, NEW t \in Threads, CallCloser(t)
  PROVE  ref[t] \in Generation /\ Lease!Close(ref[t])
<1> USE DEF serviceVars, metricVars
<1>1. /\ TypeOK /\ Chain /\ Once /\ ShutExact /\ Pinned /\ ref[t] \in Generation
      /\ closeCalls \in [Generation -> Nat] /\ shut[ref[t]] \in BOOLEAN
  BY DEF Inv, TypeOK
<1>2. t \in Closers(ref[t])
  BY DEF Closers, CallCloser
<1>3. NClose(ref[t]) # 0 /\ NClose(ref[t]) \in Nat
  BY <1>1, <1>2, Empty
<1>4. shut[ref[t]] /\ closeCalls[ref[t]] = 0
  BY <1>1, <1>3 DEF Once
<1>5. retired[ref[t]] /\ Holders(ref[t]) = {}
  BY <1>1, <1>4, Empty DEF ShutExact, Pinned
<1>6. LeaseUsers' = LeaseUsers
  <2>1. pc \in [Threads -> Labels] /\ ref \in [Threads -> Generation]
    BY <1>1 DEF TypeOK
  <2>2. \A g \in Generation : Holders(g)' = Holders(g)
    BY <2>1 DEF Holders, Holding, CallCloser
  <2>3. QED
    BY <2>2 DEF LeaseUsers
<1>7. LeasePhase[ref[t]] = "retired"
  BY <1>1, <1>4, <1>5 DEF LeasePhase
<1>8. LeasePhase' = [LeasePhase EXCEPT ![ref[t]] = "closed"]
  <2>1. ASSUME NEW g \in Generation
        PROVE  LeasePhase'[g] = IF g = ref[t] THEN "closed" ELSE LeasePhase[g]
    BY <1>1, <1>4 DEF LeasePhase, CallCloser
  <2>2. /\ DOMAIN LeasePhase = Generation
        /\ LeasePhase' = [g \in Generation |-> LeasePhase'[g]]
    BY DEF LeasePhase
  <2>3. LeasePhase' = [g \in Generation |-> IF g = ref[t] THEN "closed"
                                           ELSE LeasePhase[g]]
    BY <2>1, <2>2
  <2>4. QED
    BY <1>1, <2>2, <2>3
<1>9. LeaseUsers[ref[t]] = {}
  BY <1>1, <1>5 DEF LeaseUsers
<1>10. QED
  BY <1>1, <1>6, <1>7, <1>8, <1>9 DEF Lease!Close
\* Every step of the service is a step of ClientLease or leaves it alone.
LEMMA LeaseStep ==
  Inv /\ Inv' /\ [Next]_vars => [Lease!LeaseNext]_Lease!leaseVars
<1> USE DEF serviceVars, clientVars, metricVars
<1>1. SUFFICES ASSUME Inv, Inv', [Next]_vars
               PROVE  Lease!LeaseNext \/ UNCHANGED Lease!leaseVars
  BY DEF Lease!leaseVars
<1>2. TypeOK /\ Lease!Client = Generation /\ current \in Generation
      /\ pc \in [Threads -> Labels] /\ ref \in [Threads -> Generation]
  BY <1>1 DEF Inv, TypeOK, Lease!Client, Generation
<1>3. CASE UNCHANGED vars
  <2>1. UNCHANGED <<pc, ref, closeCalls, retired, next>>
    BY <1>3 DEF vars
  <2>2. QED
    BY <2>1 DEF Lease!leaseVars, LeasePhase, LeaseUsers, Holders
<1>4. ASSUME NEW t \in Threads, NEW h \in BOOLEAN, ReconfigureStart(t, h)
      PROVE  UNCHANGED Lease!leaseVars
  BY <1>2, <1>4, LeaseStutter DEF ReconfigureStart, Holding
<1>5. ASSUME NEW t \in Threads,
             \/ FactoryReturns(t) \/ FactoryFails(t)
             \/ PublishRefused(t) \/ Discard(t)
      PROVE  UNCHANGED Lease!leaseVars
  BY <1>2, <1>5, LeaseStutter
     DEF FactoryReturns, FactoryFails, PublishRefused, Discard, Holding
<1>6. ASSUME NEW t \in Threads, EndMetric(t)
      PROVE  UNCHANGED Lease!leaseVars
  <2>1. /\ pc' = [pc EXCEPT ![t] = IF pc[t] = "lastOut" THEN "closing" ELSE "idle"]
        /\ UNCHANGED <<ref, closeCalls, retired, next>>
    BY <1>2, <1>6 DEF EndMetric, GoClose
  <2>2. pc[t] \notin Holding
    BY <1>6 DEF EndMetric, Holding
  <2>3. QED
    BY <1>2, <2>1, <2>2, LeaseStutter DEF Holding
<1>7. ASSUME NEW t \in Threads, Acquire(t) \/ StatusAcquire(t)
      PROVE  Lease!Use(t, current)
  BY <1>1, <1>7, LeaseUse DEF Acquire, StatusAcquire, Holding
<1>8. ASSUME NEW t \in Threads, Release(t) \/ StatusRelease(t)
      PROVE  ref[t] \in Generation /\ Lease!Done(t, ref[t])
  <2>1. /\ pc[t] \in Holding
        /\ UNCHANGED <<ref, closeCalls, retired, next>>
        /\ \E l \in {"released", "lastOut", "closing", "idle"} :
             pc' = [pc EXCEPT ![t] = l]
    BY <1>2, <1>8 DEF Release, StatusRelease, GoClose, Holding
  <2>2. PICK l \in {"released", "lastOut", "closing", "idle"} :
          pc' = [pc EXCEPT ![t] = l]
    BY <2>1
  <2>3. l \notin Holding
    BY DEF Holding
  <2>4. QED
    BY <1>1, <2>1, <2>2, <2>3, LeaseDone
<1>9. ASSUME NEW t \in Threads, Progress(t)
      PROVE  Lease!LeaseNext \/ UNCHANGED Lease!leaseVars
  BY <1>1, <1>2, <1>5, <1>6, <1>8, <1>9, LeaseInstall, LeaseClose
     DEF Progress, Lease!LeaseNext
<1>10. ASSUME NEW t \in Threads, Call(t)
       PROVE  Lease!LeaseNext \/ UNCHANGED Lease!leaseVars
  BY <1>1, <1>2, <1>4, <1>7, <1>10, LeaseStop DEF Call, Lease!LeaseNext
<1>11. QED
  BY <1>1, <1>3, <1>9, <1>10 DEF Next

\* The service implements ClientLease.
THEOREM Refinement == Spec => LeaseRefined
<1>1. Init => Lease!LeaseInit
  <2>1. SUFFICES ASSUME Init PROVE Lease!LeaseInit
    OBVIOUS
  <2>2. LeasePhase = [c \in Generation |-> IF c = 0 THEN "live" ELSE "absent"]
    BY <2>1, GenerationsAssumption DEF Init, LeasePhase, Generation
  <2>3. LeaseUsers = [c \in Generation |-> {}]
    BY <2>1 DEF Init, LeaseUsers, Holders, Holding
  <2>4. QED
    BY <2>2, <2>3 DEF Lease!LeaseInit, Lease!Client, Generation
<1>2. QED
  BY <1>1, Invariance, LeaseStep, PTL DEF Spec, LeaseRefined, Lease!LeaseSpec
=============================================================================
