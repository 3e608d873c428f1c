-------------------------- MODULE ReconcilerProofs --------------------------
(***************************************************************************)
(* Proofs about Reconciler for any processes, manifests and bundles, and   *)
(* any number of crashes and failed restarts, while the operators run      *)
(* their scripts only when no updater does (OperatorsWait).                *)
(***************************************************************************)
EXTENDS Reconciler, FiniteSetTheorems, TLAPS

\* The labels of a run that holds its lock: before the switch, after it, and
\* on the way back.
Before  == {"staging", "clearing", "placing", "linking", "switching"}
After   == {"restarting", "smoking", "reverting", "cleaning"}
Running == Before \cup After \cup {"restoring"}

\* A manifest lies in its own directory, and a bundle in a bundle's.
Named ==
  \A d \in Directories :
    /\ holds[d] \in Manifests => Dir[holds[d]] = d
    /\ holds[d] = "bundle" => d \in Bundles

\* Every process looks for its lock where the active link leads now.
AtHome ==
  \A p \in Processes :
    pc[p] # "idle" => target[p] \in Manifests /\ home[p] = stateOf[active]

\* A run has its lock.
Locked == \A p \in Processes : pc[p] \in Running => lock[home[p]] = p

\* What a run goes back to is complete, older than its target, in another
\* directory, and shares its state.
Fallback(p) ==
  /\ Complete(initial[p])
  /\ initial[p] # Dir[target[p]]
  /\ stateOf[initial[p]] = home[p]
  /\ holds[initial[p]] \in Manifests => Gen[target[p]] > Gen[holds[initial[p]]]

\* Where the links of a run are, and from when its target is in its place.
OnCourse(p) ==
  /\ pc[p] \in Before \cup {"restoring"} => active = initial[p]
  /\ pc[p] \in After => active = Dir[target[p]]
  /\ pc[p] \in {"switching", "restoring"} \cup After => prev = initial[p]
  /\ pc[p] \in {"linking", "switching"} \cup After =>
       holds[Dir[target[p]]] = target[p] /\ stateOf[Dir[target[p]]] = home[p]

Courses == \A p \in Processes : pc[p] \in Running => Fallback(p) /\ OnCourse(p)

\* A deployment that may stay active.
Good(d) == holds[d] = "bundle" \/ d \in smoked

\* Without kills and failed restarts: what is active while nobody runs, what a
\* run started from, and which service it probes.
Smoked ==
  crashes = 0 /\ badRestarts = 0 =>
    /\ (\A p \in Processes : pc[p] \notin Running) => Good(active)
    /\ \A p \in Processes :
         /\ pc[p] \in Running => Good(initial[p])
         /\ pc[p] = "smoking" => running = active
         /\ pc[p] = "cleaning" => active \in smoked

IInv == ActiveComplete /\ Named /\ AtHome /\ Locked /\ Courses /\ Smoked
-----------------------------------------------------------------------------
\* Only one process runs: its lock lies where every process looks for its own.
LEMMA Alone ==
  ASSUME AtHome, Locked,
         NEW p \in Processes, NEW q \in Processes, pc[p] \in Running, pc[q] \in Running
  PROVE  p = q
<1>1. pc[p] # "idle" /\ pc[q] # "idle"
  BY DEF Running, Before, After
<1>2. home[p] = home[q]
  BY <1>1 DEF AtHome
<1>3. QED
  BY <1>2 DEF Locked

\* Who finds the lock free finds nobody running.
LEMMA Free ==
  ASSUME AtHome, Locked, ReconcilerAssumption,
         NEW p \in Processes, pc[p] = "given", lock[home[p]] = Nothing
  PROVE  \A q \in Processes : pc[q] \notin Running
<1>1. ASSUME NEW q \in Processes, pc[q] \in Running PROVE FALSE
  <2>1. pc[p] # "idle" /\ pc[q] # "idle"
    BY <1>1 DEF Running, Before, After
  <2>2. lock[home[p]] = q
    BY <1>1, <2>1 DEF AtHome, Locked
  <2>3. QED
    BY <2>2
<1>2. QED
  BY <1>1

\* What IInv says of a process that runs: it is the only one.
LEMMA Runner ==
  ASSUME IInv, NEW p \in Processes, pc[p] \in Running
  PROVE  /\ \A q \in Processes : q # p => pc[q] \notin Running
         /\ Fallback(p) /\ OnCourse(p)
         /\ target[p] \in Manifests /\ home[p] = stateOf[active] /\ lock[home[p]] = p
<1>1. pc[p] # "idle"
  BY DEF Running, Before, After
<1>2. \A q \in Processes : q # p => pc[q] \notin Running
  BY Alone DEF IInv
<1>3. QED
  BY <1>1, <1>2 DEF IInv, Courses, AtHome, Locked

\* The first state.
LEMMA InitIInv ==
  ASSUME Init, ReconcilerAssumption
  PROVE  IInv
<1>1. First \in Directories /\ First # Nothing
  BY DEF Directories
<1>2. TypeOK /\ Complete(active)
  BY <1>1 DEF Init, TypeOK, Complete, Content, Target, Labels
<1>3. Named
  BY <1>1 DEF Init, Named
<1>4. \A p \in Processes : pc[p] = "idle"
  BY DEF Init
<1>5. AtHome /\ Locked /\ Courses
  BY <1>4 DEF AtHome, Locked, Courses, Running, Before, After
<1>6. Smoked
  BY <1>1 DEF Init, Smoked, Good, Running, Before, After
<1>7. QED
  BY <1>2, <1>3, <1>5, <1>6 DEF IInv, ActiveComplete

\* A release is approved.
LEMMA PublishKeeps ==
  ASSUME IInv, ReconcilerAssumption, NEW m \in Manifests, Publish(m)
  PROVE  IInv'
<1>1. /\ ActiveComplete /\ TypeOK /\ Complete(active) /\ Named
      /\ AtHome /\ Locked /\ Courses /\ Smoked
  BY DEF IInv, ActiveComplete
<1>2. TypeOK'
  BY <1>1 DEF Publish, files, links, locals, faults, TypeOK
<1>3. Complete(active)'
  BY <1>1 DEF Publish, files, links, Complete
<1>4. Named'
  BY <1>1 DEF Publish, files, Named
<1>5. AtHome'
  BY <1>1 DEF Publish, files, links, locals, AtHome
<1>6. Locked'
  BY <1>1 DEF Publish, locals, Locked
<1>7. Courses'
  BY <1>1 DEF Publish, files, links, locals, Courses, Fallback, OnCourse, Complete
<1>8. Smoked'
  BY <1>1 DEF Publish, files, links, locals, faults, Smoked, Good
<1>9. QED
  BY <1>2, <1>3, <1>4, <1>5, <1>6, <1>7, <1>8 DEF IInv, ActiveComplete

\* A process looks for its lock where the active link leads.
LEMMA BeginKeeps ==
  ASSUME IInv, ReconcilerAssumption, NEW p \in Processes, NEW m \in approved, Begin(p, m)
  PROVE  IInv'
<1>1. /\ ActiveComplete /\ TypeOK /\ Complete(active) /\ Named
      /\ AtHome /\ Locked /\ Courses /\ Smoked
  BY DEF IInv, ActiveComplete
<1>2. active \in Directories /\ m \in Manifests
  BY <1>1 DEF Complete, TypeOK, Target
<1>3. TypeOK'
  BY <1>1, <1>2 DEF Begin, files, links, faults, Goto, TypeOK, Labels
<1>4. Complete(active)'
  BY <1>1 DEF Begin, files, links, Complete
<1>5. Named'
  BY <1>1 DEF Begin, files, Named
<1>6. AtHome'
  BY <1>1 DEF Begin, files, links, Goto, AtHome, TypeOK
<1>7. Locked'
  BY <1>1 DEF Begin, Goto, Locked, Running, Before, After
<1>8. Courses'
  BY <1>1 DEF Begin, files, links, Goto, Courses, Fallback, OnCourse, Running, Before,
       After, Complete
<1>9. Smoked'
  BY <1>1 DEF Begin, files, links, faults, Goto, Smoked, Good, Running, Before, After
<1>10. QED
  BY <1>3, <1>4, <1>5, <1>6, <1>7, <1>8, <1>9 DEF IInv, ActiveComplete

\* Somebody runs: the process ends.
LEMMA LockBusyKeeps ==
  ASSUME IInv, ReconcilerAssumption, NEW p \in Processes, LockBusy(p)
  PROVE  IInv'
<1>1. /\ ActiveComplete /\ TypeOK /\ Complete(active) /\ Named
      /\ AtHome /\ Locked /\ Courses /\ Smoked
  BY DEF IInv, ActiveComplete
<1>2. TypeOK'
  BY <1>1 DEF LockBusy, files, links, faults, Exit, Goto, TypeOK, Target, Labels
<1>3. Complete(active)'
  BY <1>1 DEF LockBusy, files, links, Complete
<1>4. Named'
  BY <1>1 DEF LockBusy, files, Named
<1>5. AtHome'
  BY <1>1 DEF LockBusy, files, links, Exit, Goto, AtHome, TypeOK
<1>6. Locked'
  BY <1>1 DEF LockBusy, Exit, Goto, Locked, TypeOK, Running, Before, After
<1>7. Courses'
  BY <1>1 DEF LockBusy, files, links, Exit, Goto, Courses, Fallback, OnCourse, Running,
       Before, After, Complete
<1>8. Smoked'
  BY <1>1 DEF LockBusy, files, links, faults, Exit, Goto, Smoked, Good, Running, Before,
       After
<1>9. QED
  BY <1>2, <1>3, <1>4, <1>5, <1>6, <1>7, <1>8 DEF IInv, ActiveComplete

\* A malformed manifest; for the reconciler's state, up to date and refused are
\* the same.
LEMMA InvalidKeeps ==
  ASSUME IInv, ReconcilerAssumption, NEW p \in Processes, Invalid(p)
  PROVE  IInv'
<1>1. /\ ActiveComplete /\ TypeOK /\ Complete(active) /\ Named
      /\ AtHome /\ Locked /\ Courses /\ Smoked
  BY DEF IInv, ActiveComplete
<1>2. \A q \in Processes : pc[q] \notin Running
  BY <1>1, Free DEF Invalid
<1>3. TypeOK'
  BY <1>1, <1>2 DEF Invalid, links, faults, Exit, Goto, LockOpened, Touch, TypeOK, Content,
       Target, Directories, Labels
<1>4. Complete(active)'
  BY <1>1 DEF Invalid, links, LockOpened, Complete
<1>5. Named'
  BY <1>1 DEF Invalid, LockOpened, Named
<1>6. AtHome'
  BY <1>1 DEF Invalid, links, Exit, Goto, AtHome, TypeOK
<1>7. Locked'
  BY <1>1 DEF Invalid, Exit, Goto, Locked, Running, Before, After, AtHome
<1>8. Courses'
  BY <1>1, <1>2 DEF Invalid, Exit, Goto, Courses, Running, Before, After
<1>9. Smoked'
  BY <1>1 DEF Invalid, links, faults, Exit, Goto, LockOpened, Smoked, Good, Running, Before,
       After
<1>10. QED
  BY <1>3, <1>4, <1>5, <1>6, <1>7, <1>8, <1>9 DEF IInv, ActiveComplete

\* The run starts from what is active: that is another directory, since the
\* generation is higher.
LEMMA ProceedKeeps ==
  ASSUME IInv, ReconcilerAssumption, NEW p \in Processes, Proceed(p)
  PROVE  IInv'
<1>1. /\ ActiveComplete /\ TypeOK /\ Complete(active) /\ Named
      /\ AtHome /\ Locked /\ Courses /\ Smoked
  BY DEF IInv, ActiveComplete
<1>2. \A q \in Processes : pc[q] \notin Running
  BY <1>1, Free DEF Proceed
<1>3. /\ active # Dir[target[p]] /\ target[p] \in Manifests
      /\ holds[active] \in Manifests => Gen[target[p]] > Gen[holds[active]]
  BY <1>1 DEF Proceed, Refused, Current, AtHome, Named, Complete, Directories
<1>4. TypeOK'
  BY <1>1 DEF Proceed, links, faults, Goto, LockOpened, Touch, TypeOK, Content, Directories,
       Labels
<1>5. Complete(active)'
  BY <1>1 DEF Proceed, links, LockOpened, Complete
<1>6. Named'
  BY <1>1 DEF Proceed, LockOpened, Named
<1>7. AtHome'
  BY <1>1 DEF Proceed, links, Goto, AtHome
<1>8. Locked'
  BY <1>1 DEF Proceed, Goto, Locked, TypeOK
<1>9. Courses'
  BY <1>1, <1>2, <1>3 DEF Proceed, links, Goto, LockOpened, Courses, Fallback, OnCourse,
       Running, Before, After, TypeOK, Complete, AtHome
<1>10. Smoked'
  BY <1>1, <1>2 DEF Proceed, faults, Goto, LockOpened, Smoked, Good, Running, Before, After,
       TypeOK
<1>11. QED
  BY <1>4, <1>5, <1>6, <1>7, <1>8, <1>9, <1>10 DEF IInv, ActiveComplete

\* The downloads.
LEMMA StageKeeps ==
  ASSUME IInv, ReconcilerAssumption, NEW p \in Processes, Stage(p)
  PROVE  IInv'
<1>1. /\ ActiveComplete /\ TypeOK /\ Complete(active) /\ Named
      /\ AtHome /\ Locked /\ Courses /\ Smoked
  BY DEF IInv, ActiveComplete
<1>2. pc[p] \in Running
  BY DEF Stage, Running, Before
<1>3. /\ \A q \in Processes : q # p => pc[q] \notin Running
      /\ Fallback(p) /\ OnCourse(p)
      /\ target[p] \in Manifests /\ home[p] = stateOf[active] /\ lock[home[p]] = p
  BY <1>2, Runner
<1>4. TypeOK'
  BY <1>1 DEF Stage, files, links, locals, faults, Goto, TypeOK, Labels
<1>5. Complete(active)'
  BY <1>1 DEF Stage, files, links, Complete
<1>6. Named'
  BY <1>1 DEF Stage, files, Named
<1>7. AtHome'
  BY <1>1 DEF Stage, files, links, locals, Goto, AtHome
<1>8. Locked'
  BY <1>1, <1>3 DEF Stage, locals, Goto, Locked
<1>9. Courses'
  BY <1>1, <1>3 DEF Stage, files, links, locals, Goto, Courses, Fallback, OnCourse, Before,
       After, Complete
<1>10. Smoked'
  BY <1>1, <1>3 DEF Stage, files, locals, faults, Goto, Smoked, Good, Running, Before, After
<1>11. QED
  BY <1>4, <1>5, <1>6, <1>7, <1>8, <1>9, <1>10 DEF IInv, ActiveComplete

\* A failed download: the run ends where it began.
LEMMA StageFailsKeeps ==
  ASSUME IInv, ReconcilerAssumption, NEW p \in Processes, StageFails(p)
  PROVE  IInv'
<1>1. /\ ActiveComplete /\ TypeOK /\ Complete(active) /\ Named
      /\ AtHome /\ Locked /\ Courses /\ Smoked
  BY DEF IInv, ActiveComplete
<1>2. pc[p] \in Running
  BY DEF StageFails, Running, Before
<1>3. /\ \A q \in Processes : q # p => pc[q] \notin Running
      /\ Fallback(p) /\ OnCourse(p)
      /\ target[p] \in Manifests /\ home[p] = stateOf[active] /\ lock[home[p]] = p
  BY <1>2, Runner
<1>4. TypeOK'
  BY <1>1 DEF StageFails, files, links, faults, Exit, Goto, TypeOK, Target, Labels
<1>5. Complete(active)'
  BY <1>1 DEF StageFails, files, links, Complete
<1>6. Named'
  BY <1>1 DEF StageFails, files, Named
<1>7. AtHome'
  BY <1>1 DEF StageFails, files, links, Exit, Goto, AtHome, TypeOK
<1>8. Locked'
  BY <1>1 DEF StageFails, Exit, Goto, Locked, TypeOK, Running, Before, After
<1>9. Courses'
  BY <1>1, <1>3 DEF StageFails, Exit, Goto, Courses, Running, Before, After, TypeOK
<1>10. Smoked'
  BY <1>1, <1>3 DEF StageFails, files, links, faults, Exit, Goto, Smoked, Good, Running,
       Before, After, TypeOK, OnCourse
<1>11. QED
  BY <1>4, <1>5, <1>6, <1>7, <1>8, <1>9, <1>10 DEF IInv, ActiveComplete

\* The old directory of the target goes; what is active lies in another.
LEMMA ClearKeeps ==
  ASSUME IInv, ReconcilerAssumption, NEW p \in Processes, Clear(p)
  PROVE  IInv'
<1>1. /\ ActiveComplete /\ TypeOK /\ Complete(active) /\ Named
      /\ AtHome /\ Locked /\ Courses /\ Smoked
  BY DEF IInv, ActiveComplete
<1>2. pc[p] \in Running
  BY DEF Clear, Running, Before
<1>3. /\ \A q \in Processes : q # p => pc[q] \notin Running
      /\ Fallback(p) /\ OnCourse(p)
      /\ target[p] \in Manifests /\ home[p] = stateOf[active] /\ lock[home[p]] = p
  BY <1>2, Runner
<1>4. TypeOK'
  BY <1>1 DEF Clear, links, locals, faults, Goto, TypeOK, Content, Labels
<1>5. Complete(active)'
  BY <1>1, <1>3 DEF Clear, links, Complete, Fallback, OnCourse, Before
<1>6. Named'
  BY <1>1 DEF Clear, Named
<1>7. AtHome'
  BY <1>1 DEF Clear, links, locals, Goto, AtHome
<1>8. Locked'
  BY <1>1, <1>3 DEF Clear, locals, Goto, Locked
<1>9. Courses'
  BY <1>1, <1>3 DEF Clear, links, locals, Goto, Courses, Fallback, OnCourse, Before, After,
       Complete
<1>10. Smoked'
  BY <1>1, <1>3 DEF Clear, locals, faults, Goto, Smoked, Good, Running, Before, After,
       Fallback
<1>11. QED
  BY <1>4, <1>5, <1>6, <1>7, <1>8, <1>9, <1>10 DEF IInv, ActiveComplete

\* The target is in its place.
LEMMA PlaceKeeps ==
  ASSUME IInv, ReconcilerAssumption, NEW p \in Processes, Place(p)
  PROVE  IInv'
<1>1. /\ ActiveComplete /\ TypeOK /\ Complete(active) /\ Named
      /\ AtHome /\ Locked /\ Courses /\ Smoked
  BY DEF IInv, ActiveComplete
<1>2. pc[p] \in Running
  BY DEF Place, Running, Before
<1>3. /\ \A q \in Processes : q # p => pc[q] \notin Running
      /\ Fallback(p) /\ OnCourse(p)
      /\ target[p] \in Manifests /\ home[p] = stateOf[active] /\ lock[home[p]] = p
  BY <1>2, Runner
<1>4. TypeOK'
  BY <1>1, <1>3 DEF Place, links, locals, faults, Goto, Touch, TypeOK, Content, Directories,
       Labels
<1>5. Complete(active)'
  BY <1>1, <1>3 DEF Place, links, Complete
<1>6. Named'
  BY <1>1, <1>3 DEF Place, Named
<1>7. AtHome'
  BY <1>1 DEF Place, links, locals, Goto, AtHome
<1>8. Locked'
  BY <1>1, <1>3 DEF Place, locals, Goto, Locked
<1>9. Courses'
  BY <1>1, <1>3 DEF Place, links, locals, Goto, Courses, Fallback, OnCourse, Before, After,
       TypeOK, Complete, Directories
<1>10. Smoked'
  BY <1>1, <1>3 DEF Place, locals, faults, Goto, Smoked, Good, Running, Before, After,
       Fallback
<1>11. QED
  BY <1>4, <1>5, <1>6, <1>7, <1>8, <1>9, <1>10 DEF IInv, ActiveComplete

\* The previous link.
LEMMA LinkPrevKeeps ==
  ASSUME IInv, ReconcilerAssumption, NEW p \in Processes, LinkPrev(p)
  PROVE  IInv'
<1>1. /\ ActiveComplete /\ TypeOK /\ Complete(active) /\ Named
      /\ AtHome /\ Locked /\ Courses /\ Smoked
  BY DEF IInv, ActiveComplete
<1>2. pc[p] \in Running
  BY DEF LinkPrev, Running, Before
<1>3. /\ \A q \in Processes : q # p => pc[q] \notin Running
      /\ Fallback(p) /\ OnCourse(p)
      /\ target[p] \in Manifests /\ home[p] = stateOf[active] /\ lock[home[p]] = p
  BY <1>2, Runner
<1>4. TypeOK'
  BY <1>1 DEF LinkPrev, files, locals, faults, Goto, TypeOK, Labels
<1>5. Complete(active)'
  BY <1>1 DEF LinkPrev, files, Complete
<1>6. Named'
  BY <1>1 DEF LinkPrev, files, Named
<1>7. AtHome'
  BY <1>1 DEF LinkPrev, files, locals, Goto, AtHome
<1>8. Locked'
  BY <1>1, <1>3 DEF LinkPrev, locals, Goto, Locked
<1>9. Courses'
  BY <1>1, <1>3 DEF LinkPrev, files, locals, Goto, Exists, Courses, Fallback, OnCourse,
       Before, After, Complete
<1>10. Smoked'
  BY <1>1, <1>3 DEF LinkPrev, files, locals, faults, Goto, Smoked, Good, Before, OnCourse
<1>11. QED
  BY <1>4, <1>5, <1>6, <1>7, <1>8, <1>9, <1>10 DEF IInv, ActiveComplete

\* The switch, to what was placed.
LEMMA SwitchActiveKeeps ==
  ASSUME IInv, ReconcilerAssumption, NEW p \in Processes, SwitchActive(p)
  PROVE  IInv'
<1>1. /\ ActiveComplete /\ TypeOK /\ Complete(active) /\ Named
      /\ AtHome /\ Locked /\ Courses /\ Smoked
  BY DEF IInv, ActiveComplete
<1>2. pc[p] \in Running
  BY DEF SwitchActive, Running, Before
<1>3. /\ \A q \in Processes : q # p => pc[q] \notin Running
      /\ Fallback(p) /\ OnCourse(p)
      /\ target[p] \in Manifests /\ home[p] = stateOf[active] /\ lock[home[p]] = p
  BY <1>2, Runner
<1>4. TypeOK'
  BY <1>1, <1>3 DEF SwitchActive, files, locals, faults, Goto, TypeOK, Target, Directories,
       Labels
<1>5. Complete(active)'
  BY <1>1, <1>3 DEF SwitchActive, files, Complete, Directories, OnCourse
<1>6. Named'
  BY <1>1 DEF SwitchActive, files, Named
<1>7. AtHome'
  BY <1>1, <1>3 DEF SwitchActive, files, locals, Goto, AtHome, OnCourse
<1>8. Locked'
  BY <1>1, <1>3 DEF SwitchActive, locals, Goto, Locked
<1>9. Courses'
  BY <1>1, <1>3 DEF SwitchActive, files, locals, Goto, Courses, Fallback, OnCourse, Before,
       TypeOK, Complete
<1>10. Smoked'
  BY <1>1, <1>3 DEF SwitchActive, files, locals, faults, Goto, Smoked, Good, Running,
       Before, After
<1>11. QED
  BY <1>4, <1>5, <1>6, <1>7, <1>8, <1>9, <1>10 DEF IInv, ActiveComplete

\* The restart.
LEMMA RestartKeeps ==
  ASSUME IInv, ReconcilerAssumption, NEW p \in Processes, Restart(p)
  PROVE  IInv'
<1>1. /\ ActiveComplete /\ TypeOK /\ Complete(active) /\ Named
      /\ AtHome /\ Locked /\ Courses /\ Smoked
  BY DEF IInv, ActiveComplete
<1>2. pc[p] \in Running
  BY DEF Restart, Running, After
<1>3. /\ \A q \in Processes : q # p => pc[q] \notin Running
      /\ Fallback(p) /\ OnCourse(p)
      /\ target[p] \in Manifests /\ home[p] = stateOf[active] /\ lock[home[p]] = p
  BY <1>2, Runner
<1>4. TypeOK'
  BY <1>1 DEF Restart, files, links, locals, Goto, Restarted, TypeOK, Target, Labels
<1>5. Complete(active)'
  BY <1>1 DEF Restart, files, links, Complete
<1>6. Named'
  BY <1>1 DEF Restart, files, Named
<1>7. AtHome'
  BY <1>1 DEF Restart, files, links, locals, Goto, AtHome
<1>8. Locked'
  BY <1>1, <1>3 DEF Restart, locals, Goto, Locked
<1>9. Courses'
  BY <1>1, <1>3 DEF Restart, files, links, locals, Goto, Courses, Fallback, OnCourse,
       Before, After, Complete
<1>10. Smoked'
  BY <1>1 DEF Restart, files, links, locals, Goto, Restarted, Smoked, Good, Running, After,
       TypeOK
<1>11. QED
  BY <1>4, <1>5, <1>6, <1>7, <1>8, <1>9, <1>10 DEF IInv, ActiveComplete

\* The probe answers: without failed restarts, the service it asked is the
\* active one.
LEMMA SmokePassesKeeps ==
  ASSUME IInv, ReconcilerAssumption, NEW p \in Processes, SmokePasses(p)
  PROVE  IInv'
<1>1. /\ ActiveComplete /\ TypeOK /\ Complete(active) /\ Named
      /\ AtHome /\ Locked /\ Courses /\ Smoked
  BY DEF IInv, ActiveComplete
<1>2. pc[p] \in Running
  BY DEF SmokePasses, Running, After
<1>3. /\ \A q \in Processes : q # p => pc[q] \notin Running
      /\ Fallback(p) /\ OnCourse(p)
      /\ target[p] \in Manifests /\ home[p] = stateOf[active] /\ lock[home[p]] = p
  BY <1>2, Runner
<1>4. TypeOK'
  BY <1>1 DEF SmokePasses, files, links, locals, faults, Goto, TypeOK, Target, Labels
<1>5. Complete(active)'
  BY <1>1 DEF SmokePasses, files, links, Complete
<1>6. Named'
  BY <1>1 DEF SmokePasses, files, Named
<1>7. AtHome'
  BY <1>1 DEF SmokePasses, files, links, locals, Goto, AtHome
<1>8. Locked'
  BY <1>1, <1>3 DEF SmokePasses, locals, Goto, Locked
<1>9. Courses'
  BY <1>1, <1>3 DEF SmokePasses, files, links, locals, Goto, Courses, Fallback, OnCourse,
       Before, After, Complete
<1>10. Smoked'
  BY <1>1, <1>2 DEF SmokePasses, files, links, locals, faults, Goto, Smoked, Good
<1>11. QED
  BY <1>4, <1>5, <1>6, <1>7, <1>8, <1>9, <1>10 DEF IInv, ActiveComplete

\* The probe fails.
LEMMA SmokeFailsKeeps ==
  ASSUME IInv, ReconcilerAssumption, NEW p \in Processes, SmokeFails(p)
  PROVE  IInv'
<1>1. /\ ActiveComplete /\ TypeOK /\ Complete(active) /\ Named
      /\ AtHome /\ Locked /\ Courses /\ Smoked
  BY DEF IInv, ActiveComplete
<1>2. pc[p] \in Running
  BY DEF SmokeFails, Running, After
<1>3. /\ \A q \in Processes : q # p => pc[q] \notin Running
      /\ Fallback(p) /\ OnCourse(p)
      /\ target[p] \in Manifests /\ home[p] = stateOf[active] /\ lock[home[p]] = p
  BY <1>2, Runner
<1>4. TypeOK'
  BY <1>1 DEF SmokeFails, files, links, locals, faults, Goto, TypeOK, Labels
<1>5. Complete(active)'
  BY <1>1 DEF SmokeFails, files, links, Complete
<1>6. Named'
  BY <1>1 DEF SmokeFails, files, Named
<1>7. AtHome'
  BY <1>1 DEF SmokeFails, files, links, locals, Goto, AtHome
<1>8. Locked'
  BY <1>1, <1>3 DEF SmokeFails, locals, Goto, Locked
<1>9. Courses'
  BY <1>1, <1>3 DEF SmokeFails, files, links, locals, Goto, Courses, Fallback, OnCourse,
       Before, After, Complete
<1>10. Smoked'
  BY <1>1 DEF SmokeFails, files, links, locals, faults, Goto, Smoked, Good, Running, After
<1>11. QED
  BY <1>4, <1>5, <1>6, <1>7, <1>8, <1>9, <1>10 DEF IInv, ActiveComplete

\* The way back.
LEMMA RevertKeeps ==
  ASSUME IInv, ReconcilerAssumption, NEW p \in Processes, Revert(p)
  PROVE  IInv'
<1>1. /\ ActiveComplete /\ TypeOK /\ Complete(active) /\ Named
      /\ AtHome /\ Locked /\ Courses /\ Smoked
  BY DEF IInv, ActiveComplete
<1>2. pc[p] \in Running
  BY DEF Revert, Running, After
<1>3. /\ \A q \in Processes : q # p => pc[q] \notin Running
      /\ Fallback(p) /\ OnCourse(p)
      /\ target[p] \in Manifests /\ home[p] = stateOf[active] /\ lock[home[p]] = p
  BY <1>2, Runner
<1>4. TypeOK'
  BY <1>1, <1>2, <1>3 DEF Revert, files, locals, faults, Exit, Goto, TypeOK, Content,
       Target, Labels, Running
<1>5. Complete(active)'
  BY <1>1, <1>3 DEF Revert, files, Complete, Fallback
<1>6. Named'
  BY <1>1 DEF Revert, files, Named
<1>7. AtHome'
  BY <1>1, <1>3 DEF Revert, files, locals, Exit, Goto, AtHome, TypeOK, Fallback
<1>8. Locked'
  BY <1>1 DEF Revert, locals, Exit, Goto, Locked, TypeOK, Running, Before, After
<1>9. Courses'
  BY <1>1, <1>3 DEF Revert, files, locals, Goto, Exists, Courses, Fallback, OnCourse, After,
       TypeOK, Complete
<1>10. Smoked'
  BY <1>1, <1>3 DEF Revert, files, locals, faults, Goto, Exists, Smoked, Good, Running,
       After, TypeOK, Fallback, Complete
<1>11. QED
  BY <1>4, <1>5, <1>6, <1>7, <1>8, <1>9, <1>10 DEF IInv, ActiveComplete

\* The second restart ends the run.
LEMMA RestoreKeeps ==
  ASSUME IInv, ReconcilerAssumption, NEW p \in Processes, Restore(p)
  PROVE  IInv'
<1>1. /\ ActiveComplete /\ TypeOK /\ Complete(active) /\ Named
      /\ AtHome /\ Locked /\ Courses /\ Smoked
  BY DEF IInv, ActiveComplete
<1>2. pc[p] \in Running
  BY DEF Restore, Running
<1>3. /\ \A q \in Processes : q # p => pc[q] \notin Running
      /\ Fallback(p) /\ OnCourse(p)
      /\ target[p] \in Manifests /\ home[p] = stateOf[active] /\ lock[home[p]] = p
  BY <1>2, Runner
<1>4. TypeOK'
  BY <1>1 DEF Restore, files, links, Exit, Goto, Restarted, TypeOK, Target, Labels
<1>5. Complete(active)'
  BY <1>1 DEF Restore, files, links, Complete
<1>6. Named'
  BY <1>1 DEF Restore, files, Named
<1>7. AtHome'
  BY <1>1 DEF Restore, files, links, Exit, Goto, AtHome, TypeOK
<1>8. Locked'
  BY <1>1 DEF Restore, Exit, Goto, Locked, TypeOK, Running, Before, After
<1>9. Courses'
  BY <1>1, <1>3 DEF Restore, Exit, Goto, Courses, Running, Before, After, TypeOK
<1>10. Smoked'
  BY <1>1, <1>3 DEF Restore, files, links, Exit, Goto, Restarted, Smoked, Good, Running,
       Before, After, TypeOK, OnCourse
<1>11. QED
  BY <1>4, <1>5, <1>6, <1>7, <1>8, <1>9, <1>10 DEF IInv, ActiveComplete

\* Cleanup takes neither the active deployment nor the one before it.
LEMMA CleanupKeeps ==
  ASSUME IInv, ReconcilerAssumption, NEW p \in Processes, Cleanup(p)
  PROVE  IInv'
<1>1. /\ ActiveComplete /\ TypeOK /\ Complete(active) /\ Named
      /\ AtHome /\ Locked /\ Courses /\ Smoked
  BY DEF IInv, ActiveComplete
<1>2. pc[p] \in Running
  BY DEF Cleanup, Running, After
<1>3. /\ \A q \in Processes : q # p => pc[q] \notin Running
      /\ Fallback(p) /\ OnCourse(p)
      /\ target[p] \in Manifests /\ home[p] = stateOf[active] /\ lock[home[p]] = p
  BY <1>2, Runner
<1>4. PICK gone \in SUBSET Removable(p) :
        /\ holds' = [d \in Directories |-> IF d \in gone THEN Nothing ELSE holds[d]]
        /\ newer' = [d \in Directories |-> IF d \in gone THEN {} ELSE newer[d] \ gone]
  BY DEF Cleanup
<1>5. gone \subseteq Directories \ {Dir[target[p]], initial[p]}
  BY DEF Removable
<1>6. TypeOK'
  BY <1>1 DEF Cleanup, links, faults, Exit, Goto, TypeOK, Content, Target, Labels
<1>7. Complete(active)'
  BY <1>1, <1>3, <1>4, <1>5 DEF Cleanup, links, Complete, Directories, OnCourse, After
<1>8. Named'
  BY <1>1 DEF Cleanup, Named
<1>9. AtHome'
  BY <1>1 DEF Cleanup, links, Exit, Goto, AtHome, TypeOK
<1>10. Locked'
  BY <1>1 DEF Cleanup, Exit, Goto, Locked, TypeOK, Running, Before, After
<1>11. Courses'
  BY <1>1, <1>3 DEF Cleanup, Exit, Goto, Courses, Running, Before, After, TypeOK
<1>12. Smoked'
  BY <1>1, <1>3 DEF Cleanup, links, faults, Exit, Goto, Smoked, Good, Running, Before,
       After, TypeOK
<1>13. QED
  BY <1>6, <1>7, <1>8, <1>9, <1>10, <1>11, <1>12 DEF IInv, ActiveComplete

\* A killed process leaves everything where it is.
LEMMA CrashKeeps ==
  ASSUME IInv, ReconcilerAssumption, NEW p \in Processes, Crash(p)
  PROVE  IInv'
<1>1. /\ ActiveComplete /\ TypeOK /\ Complete(active) /\ Named
      /\ AtHome /\ Locked /\ Courses /\ Smoked
  BY DEF IInv, ActiveComplete
<1>2. TypeOK'
  BY <1>1 DEF Crash, files, links, Exit, Goto, TypeOK, Target, Labels
<1>3. Complete(active)'
  BY <1>1 DEF Crash, files, links, Complete
<1>4. Named'
  BY <1>1 DEF Crash, files, Named
<1>5. AtHome'
  BY <1>1 DEF Crash, files, links, Exit, Goto, AtHome, TypeOK
<1>6. Locked'
  BY <1>1 DEF Crash, Exit, Goto, Locked, TypeOK, Running, Before, After
<1>7. Courses'
  BY <1>1 DEF Crash, files, links, Exit, Goto, Courses, Fallback, OnCourse, Running, Before,
       After, TypeOK, Complete
<1>8. Smoked'
  BY <1>1 DEF Crash, Smoked, TypeOK
<1>9. QED
  BY <1>2, <1>3, <1>4, <1>5, <1>6, <1>7, <1>8 DEF IInv, ActiveComplete

\* A bundle is staged in a directory that does not exist.
LEMMA StageBundleKeeps ==
  ASSUME IInv, ReconcilerAssumption, OperatorsWait, NEW b \in Bundles, StageBundle(b)
  PROVE  IInv'
<1>1. /\ ActiveComplete /\ TypeOK /\ Complete(active) /\ Named
      /\ AtHome /\ Locked /\ Courses /\ Smoked
  BY DEF IInv, ActiveComplete
<1>2. \A q \in Processes : pc[q] = "idle" /\ pc[q] \notin Running
  BY DEF StageBundle, OperatorTurn, Running, Before, After
<1>3. TypeOK'
  BY <1>1 DEF StageBundle, locals, faults, Touch, TypeOK, Content, Target, Directories
<1>4. Complete(active)'
  BY <1>1 DEF StageBundle, Complete
<1>5. Named'
  BY <1>1 DEF StageBundle, Named
<1>6. AtHome'
  BY <1>1 DEF StageBundle, OperatorTurn, AtHome
<1>7. Locked'
  BY <1>1, <1>2 DEF StageBundle, Locked
<1>8. Courses'
  BY <1>1, <1>2 DEF StageBundle, Courses
<1>9. Smoked'
  BY <1>1, <1>2 DEF StageBundle, faults, Smoked, Good
<1>10. QED
  BY <1>3, <1>4, <1>5, <1>6, <1>7, <1>8, <1>9 DEF IInv, ActiveComplete

\* Nobody runs: the bundle becomes active.
LEMMA ActivateBundleKeeps ==
  ASSUME IInv, ReconcilerAssumption, OperatorsWait, ActivateBundle
  PROVE  IInv'
<1>1. /\ ActiveComplete /\ TypeOK /\ Complete(active) /\ Named
      /\ AtHome /\ Locked /\ Courses /\ Smoked
  BY DEF IInv, ActiveComplete
<1>2. \A q \in Processes : pc[q] = "idle" /\ pc[q] \notin Running
  BY DEF ActivateBundle, OperatorTurn, Running, Before, After
<1>3. TypeOK'
  BY <1>1 DEF ActivateBundle, files, locals, faults, TypeOK, Target
<1>4. Complete(active)'
  BY <1>1 DEF ActivateBundle, files, Complete
<1>5. Named'
  BY <1>1 DEF ActivateBundle, files, Named
<1>6. AtHome'
  BY <1>1 DEF ActivateBundle, OperatorTurn, AtHome
<1>7. Locked'
  BY <1>1, <1>2 DEF ActivateBundle, Locked
<1>8. Courses'
  BY <1>1, <1>2 DEF ActivateBundle, Courses
<1>9. Smoked'
  BY <1>1, <1>2 DEF ActivateBundle, files, Smoked, Good
<1>10. QED
  BY <1>3, <1>4, <1>5, <1>6, <1>7, <1>8, <1>9 DEF IInv, ActiveComplete

\* Nobody runs: the previous bundle becomes active.
LEMMA RollbackBundleKeeps ==
  ASSUME IInv, ReconcilerAssumption, OperatorsWait, RollbackBundle
  PROVE  IInv'
<1>1. /\ ActiveComplete /\ TypeOK /\ Complete(active) /\ Named
      /\ AtHome /\ Locked /\ Courses /\ Smoked
  BY DEF IInv, ActiveComplete
<1>2. \A q \in Processes : pc[q] = "idle" /\ pc[q] \notin Running
  BY DEF RollbackBundle, OperatorTurn, Running, Before, After
<1>3. TypeOK'
  BY <1>1 DEF RollbackBundle, files, locals, faults, TypeOK
<1>4. Complete(active)'
  BY <1>1 DEF RollbackBundle, files, Complete
<1>5. Named'
  BY <1>1 DEF RollbackBundle, files, Named
<1>6. AtHome'
  BY <1>1 DEF RollbackBundle, OperatorTurn, AtHome
<1>7. Locked'
  BY <1>1, <1>2 DEF RollbackBundle, Locked
<1>8. Courses'
  BY <1>1, <1>2 DEF RollbackBundle, Courses
<1>9. Smoked'
  BY <1>1, <1>2 DEF RollbackBundle, files, Smoked, Good
<1>10. QED
  BY <1>3, <1>4, <1>5, <1>6, <1>7, <1>8, <1>9 DEF IInv, ActiveComplete

\* systemd starts what is active.
LEMMA ServiceStartsKeeps ==
  ASSUME IInv, ReconcilerAssumption, ServiceStarts
  PROVE  IInv'
<1>1. /\ ActiveComplete /\ TypeOK /\ Complete(active) /\ Named
      /\ AtHome /\ Locked /\ Courses /\ Smoked
  BY DEF IInv, ActiveComplete
<1>2. TypeOK'
  BY <1>1 DEF ServiceStarts, files, links, locals, faults, TypeOK
<1>3. Complete(active)'
  BY <1>1 DEF ServiceStarts, files, links, Complete
<1>4. Named'
  BY <1>1 DEF ServiceStarts, files, Named
<1>5. AtHome'
  BY <1>1 DEF ServiceStarts, files, links, locals, AtHome
<1>6. Locked'
  BY <1>1 DEF ServiceStarts, locals, Locked
<1>7. Courses'
  BY <1>1 DEF ServiceStarts, files, links, locals, Courses, Fallback, OnCourse, Complete
<1>8. Smoked'
  BY <1>1 DEF ServiceStarts, files, links, locals, faults, Smoked, Good
<1>9. QED
  BY <1>2, <1>3, <1>4, <1>5, <1>6, <1>7, <1>8 DEF IInv, ActiveComplete

\* Every step keeps the invariant while the operators wait.
LEMMA NextIInv ==
  ASSUME IInv, OperatorsWait, Next
  PROVE  IInv'
<1> USE ReconcilerAssumption
<1>1. CASE \E m \in Manifests : Publish(m)
  BY <1>1, PublishKeeps
<1>2. ASSUME NEW p \in Processes, Discover(p) \/ Given(p) PROVE IInv'
  <2>1. \E m \in approved : Begin(p, m)
    BY <1>2 DEF Discover, Given, Latest
  <2>2. QED
    BY <2>1, BeginKeeps
<1>3. ASSUME NEW p \in Processes, Step(p) PROVE IInv'
  <2>1. CASE LockBusy(p) \/ Noop(p) \/ Invalid(p) \/ Refuse(p) \/ Proceed(p)
    <3>1. Noop(p) \/ Refuse(p) => Invalid(p)
      BY DEF Noop, Refuse, Invalid
    <3>2. QED
      BY <2>1, <3>1, LockBusyKeeps, InvalidKeeps, ProceedKeeps
  <2>2. CASE Stage(p) \/ StageFails(p) \/ Clear(p) \/ Place(p) \/ LinkPrev(p) \/ SwitchActive(p)
    BY <2>2, StageKeeps, StageFailsKeeps, ClearKeeps, PlaceKeeps, LinkPrevKeeps, SwitchActiveKeeps
  <2>3. CASE Restart(p) \/ SmokePasses(p) \/ SmokeFails(p) \/ Revert(p) \/ Restore(p) \/ Cleanup(p)
    BY <2>3, RestartKeeps, SmokePassesKeeps, SmokeFailsKeeps, RevertKeeps, RestoreKeeps, CleanupKeeps
  <2>4. QED
    BY <1>3, <2>1, <2>2, <2>3 DEF Step
<1>4. CASE \E p \in Processes : Crash(p)
  BY <1>4, CrashKeeps
<1>5. CASE \/ \E b \in Bundles : StageBundle(b)
           \/ ActivateBundle \/ RollbackBundle \/ ServiceStarts
  BY <1>5, StageBundleKeeps, ActivateBundleKeeps, RollbackBundleKeeps, ServiceStartsKeeps
<1>6. QED
  BY <1>1, <1>2, <1>3, <1>4, <1>5 DEF Next

\* The active link moves by a switch, on the way back, or to a bundle.
LEMMA ActiveMoves ==
  ASSUME Next, active' # active
  PROVE  \/ \E p \in Processes : SwitchActive(p)
         \/ \E p \in Processes : pc[p] = "reverting" /\ active' = initial[p]
         \/ holds' = holds /\ holds[active'] = "bundle"
<1>1. ASSUME NEW m \in Manifests, Publish(m) PROVE FALSE
  BY <1>1 DEF Publish, links
<1>2. ASSUME NEW p \in Processes, Discover(p) \/ Given(p) \/ Crash(p) PROVE FALSE
  BY <1>2 DEF Discover, Given, Begin, Crash, links
<1>3. ASSUME NEW p \in Processes, Step(p)
      PROVE  SwitchActive(p) \/ (pc[p] = "reverting" /\ active' = initial[p])
  BY <1>3 DEF Step, LockBusy, Noop, Invalid, Refuse, Proceed, Stage, StageFails, Clear,
       Place, LinkPrev, Restart, SmokePasses, SmokeFails, Revert, Restore, Cleanup, links
<1>4. CASE \E b \in Bundles : StageBundle(b)
  BY <1>4 DEF StageBundle
<1>5. CASE ServiceStarts
  BY <1>5 DEF ServiceStarts, links
<1>6. CASE ActivateBundle \/ RollbackBundle
  BY <1>6 DEF ActivateBundle, RollbackBundle, files
<1>7. QED
  BY <1>1, <1>2, <1>3, <1>4, <1>5, <1>6 DEF Next

\* A run that cleans up ends by its cleanup, or killed.
LEMMA CleaningEnds ==
  ASSUME IInv, Next, NEW p \in Processes, pc[p] = "cleaning", pc'[p] = "idle"
  PROVE  Cleanup(p) \/ holds' = holds
<1>1. pc \in [Processes -> Labels]
  BY DEF IInv, ActiveComplete, TypeOK
<1>2. ASSUME NEW m \in Manifests, Publish(m) PROVE holds' = holds
  BY <1>2 DEF Publish
<1>3. ASSUME NEW q \in Processes, Discover(q) \/ Given(q) \/ Crash(q) PROVE holds' = holds
  BY <1>3 DEF Discover, Given, Begin, Crash, files
<1>4. ASSUME NEW q \in Processes, Step(q) PROVE Cleanup(p) \/ holds' = holds
  <2>1. CASE q = p
    BY <1>4, <2>1 DEF Step, LockBusy, Noop, Invalid, Refuse, Proceed, Stage, StageFails,
         Clear,
         Place, LinkPrev, SwitchActive, Restart, SmokePasses, SmokeFails, Revert, Restore
  <2>2. CASE q # p
    <3>1. pc'[p] = pc[p]
      BY <1>1, <1>4, <2>2 DEF Step, LockBusy, Noop, Invalid, Refuse, Proceed, Stage,
           StageFails,
           Clear, Place, LinkPrev, SwitchActive, Restart, SmokePasses, SmokeFails, Revert,
           Restore, Cleanup, Exit, Goto
    <3>2. QED
      BY <3>1
  <2>3. QED
    BY <2>1, <2>2
<1>5. CASE (\E b \in Bundles : StageBundle(b)) \/ ActivateBundle \/ RollbackBundle \/ ServiceStarts
  BY <1>5 DEF StageBundle, ActivateBundle, RollbackBundle, ServiceStarts
<1>6. QED
  BY <1>2, <1>3, <1>4, <1>5 DEF Next
-----------------------------------------------------------------------------
\* The inductive invariant: while the operators keep their scripts away from
\* running updaters, the lock that lies below the active link is one lock.
THEOREM ReconcilerInvariant ==
  ASSUME OperatorsWait
  PROVE  Spec => []IInv
<1>1. Init => IInv
  BY InitIInv, ReconcilerAssumption
<1>2. IInv /\ [Next]_vars => IInv'
  <2>1. ASSUME IInv, UNCHANGED vars PROVE IInv'
    BY <2>1 DEF vars, files, links, locals, faults, IInv, ActiveComplete, TypeOK, Complete,
         Named, AtHome, Locked, Courses,
         Fallback, OnCourse, Smoked, Good
  <2>2. QED
    BY <2>1, NextIInv
<1>3. QED
  BY <1>1, <1>2, PTL DEF Spec

\* Reconciler._reconcile_locked, atomic_symlink and FileLock: whichever step a
\* run is killed at, the active link resolves to a complete deployment.
THEOREM ActiveStaysComplete ==
  ASSUME OperatorsWait
  PROVE  Spec => []ActiveComplete
<1>1. IInv => ActiveComplete
  BY DEF IInv
<1>2. QED
  BY <1>1, ReconcilerInvariant, PTL

\* initial_active_target: from the switch to the verdict of the probe, the
\* deployment a run would go back to is intact and not its own target.
THEOREM FallbackStaysIntact ==
  ASSUME OperatorsWait
  PROVE  Spec => []FallbackIntact
<1>1. IInv => FallbackIntact
  BY DEF IInv, Courses, Fallback, FallbackIntact, Running, Before, After
<1>2. QED
  BY <1>1, ReconcilerInvariant, PTL

\* Reconciler._reconcile_locked: without kills and failed restarts, what
\* is active between runs is a bundle or answered the probe itself.
THEOREM SmokedWhileIdle ==
  ASSUME OperatorsWait
  PROVE  Spec => []SmokedBetweenRuns
<1>1. IInv => SmokedBetweenRuns
  BY DEF IInv, Smoked, Good, SmokedBetweenRuns, Running, Before, After
<1>2. QED
  BY <1>1, ReconcilerInvariant, PTL

\* The generation check is made under the lock, so no run moves the host to a
\* lower or equal generation, except back to where it started.
THEOREM GenerationsGoForward ==
  ASSUME OperatorsWait
  PROVE  Spec => GenerationsForward
<1> DEFINE Forward ==
      holds[active] \in Manifests /\ active' # active /\ holds'[active'] \in Manifests =>
        \/ Gen[holds'[active']] > Gen[holds[active]]
        \/ \E p \in Processes : pc[p] = "reverting" /\ active' = initial[p]
<1>1. IInv /\ [Next]_vars => [Forward]_vars
  <2> SUFFICES ASSUME IInv, Next, active' # active,
                      holds[active] \in Manifests, holds'[active'] \in Manifests
               PROVE  \/ Gen[holds'[active']] > Gen[holds[active]]
                      \/ \E p \in Processes : pc[p] = "reverting" /\ active' = initial[p]
    OBVIOUS
  <2>1. ASSUME NEW p \in Processes, SwitchActive(p)
        PROVE  Gen[holds'[active']] > Gen[holds[active]]
    <3>1. Fallback(p) /\ OnCourse(p)
      BY <2>1, Runner DEF SwitchActive, Running, Before
    <3>2. QED
      BY <2>1, <3>1 DEF SwitchActive, files, Fallback, OnCourse, Before
  <2>2. ~ (holds' = holds /\ holds[active'] = "bundle")
    BY ReconcilerAssumption DEF ReconcilerAssumption
  <2>3. QED
    BY <2>1, <2>2, ActiveMoves
<1>2. QED
  BY <1>1, ReconcilerInvariant, PTL DEF Spec, GenerationsForward

\* cleanup_old_deployments: neither the active nor the previous deployment is
\* deleted, whatever the mtimes and keep_deployments.
THEOREM CleanupProtectsLinks ==
  ASSUME OperatorsWait
  PROVE  Spec => CleanupKeepsLinks
<1> DEFINE Kept ==
      \A p \in Processes : pc[p] = "cleaning" /\ pc'[p] = "idle" =>
        /\ Complete(active)'
        /\ prev # Nothing => holds'[prev] = holds[prev]
<1>1. IInv /\ [Next]_vars => [Kept]_vars
  <2> SUFFICES ASSUME IInv, Next,
                      NEW p \in Processes, pc[p] = "cleaning", pc'[p] = "idle"
               PROVE  Complete(active)' /\ holds'[prev] = holds[prev]
    OBVIOUS
  <2>1. Complete(active)'
    BY NextIInv DEF IInv, ActiveComplete
  <2>2. CASE Cleanup(p)
    <3>1. Fallback(p) /\ OnCourse(p)
      BY Runner DEF Running, After
    <3>2. initial[p] \in Directories
      BY <3>1 DEF IInv, ActiveComplete, TypeOK, Target, Fallback, Complete
    <3>3. prev = initial[p]
      BY <3>1 DEF OnCourse, After
    <3>4. PICK gone \in SUBSET Removable(p) :
            holds' = [d \in Directories |-> IF d \in gone THEN Nothing ELSE holds[d]]
      BY <2>2 DEF Cleanup
    <3>5. initial[p] \notin gone
      BY DEF Removable
    <3>6. QED
      BY <2>1, <3>2, <3>3, <3>4, <3>5
  <2>3. QED
    BY <2>1, <2>2, CleaningEnds
<1>2. QED
  BY <1>1, ReconcilerInvariant, PTL DEF Spec, CleanupKeepsLinks
=============================================================================
