----------------------------- MODULE Reconciler -----------------------------
(***************************************************************************)
(* deploy/vps-reconciler.py: updater processes that move the host from one *)
(* approved release to the next, next to the operator's staging scripts    *)
(* (deploy/rebuild/*-release.sh), which take no lock, and systemd, which   *)
(* starts the service from the active link.  A process may be killed       *)
(* between any two steps; flock then releases its lock.                    *)
(* A deployment directory is abstracted to what it holds, a manifest to    *)
(* its generation and to the directory name derived from it.               *)
(***************************************************************************)
EXTENDS Integers, FiniteSets

CONSTANTS Processes,      \* updater processes: the timer and manual runs
          Manifests,      \* approved manifests, told apart by fingerprint
          Gen,            \* manifest -> channel_generation
          Dir,            \* manifest -> deployment_id, which embeds the generation
          Bundles,        \* deployments staged by stage-release.sh
          First,          \* the bundle the host was set up with
          Nothing,        \* no directory, link, process or content
          Keep,           \* keep_deployments
          OperatorsWait,  \* operators run scripts only while no updater runs
          MaxCrashes,     \* bound on killed processes
          MaxBadRestarts  \* bound on failing systemctl restarts

Directories == Bundles \cup {Dir[m] : m \in Manifests}

ASSUME ReconcilerAssumption ==
  /\ First \in Bundles
  /\ Gen \in [Manifests -> Nat \ {0}]
  /\ \A m, n \in Manifests : Dir[m] = Dir[n] => Gen[m] = Gen[n]
  /\ \A m \in Manifests : Dir[m] \notin Bundles
  /\ Nothing \notin Directories \cup Manifests \cup Processes \cup {"bundle", "broken"}
  /\ {"bundle", "broken"} \cap Manifests = {}
  /\ OperatorsWait \in BOOLEAN
  /\ {Keep, MaxCrashes, MaxBadRestarts} \subseteq Nat

VARIABLES
  approved,     \* manifests published so far
  holds,        \* directory -> its content, Nothing when it does not exist
  stateOf,      \* directory -> the bundle its state/ resolves into
  newer,        \* directory -> those with a later mtime
  active, prev, \* targets of the active and the previous link
  staged,       \* target of the next link
  running,      \* directory the service was started from
  lock,         \* bundle -> process that holds state/reconciler.lock in it
  pc,           \* p -> where the process is
  target,       \* p -> the manifest it was given
  initial,      \* p -> initial_active_target
  home,         \* p -> the bundle self.state_dir resolved into
  smoked,       \* history: directories whose own service answered the smoke probe
  crashes, badRestarts

links   == <<active, prev, staged>>
files   == <<holds, stateOf, newer>>
locals  == <<target, initial, home>>
faults  == <<crashes, badRestarts>>
vars == <<approved, files, links, running, lock, pc, locals, smoked, faults>>

\* idle         no process            given      before the lock
\* staging      downloads             clearing   before the old directory goes
\* placing      before the rename     linking    before the previous link
\* switching    before the active link
\* restarting   before the restart    smoking    before the probe
\* reverting    smoke failed          restoring  before the second restart
\* cleaning     before cleanup_old_deployments
Labels == {"idle", "given", "staging", "clearing", "placing", "linking",
           "switching", "restarting", "smoking", "reverting", "restoring",
           "cleaning"}

Exists(d) == d # Nothing /\ holds[d] # Nothing

Init ==
  /\ approved = {}
  /\ holds = [d \in Directories |-> IF d = First THEN "bundle" ELSE Nothing]
  /\ stateOf = [d \in Directories |-> First]
  /\ newer = [d \in Directories |-> {}]
  /\ active = First /\ prev = Nothing /\ staged = Nothing
  /\ running = First
  /\ lock = [b \in Bundles |-> Nothing]
  /\ pc = [p \in Processes |-> "idle"]
  /\ target = [p \in Processes |-> Nothing]
  /\ initial = [p \in Processes |-> Nothing]
  /\ home = [p \in Processes |-> First]
  /\ smoked = {}
  /\ crashes = 0 /\ badRestarts = 0

\* The directory is made, or its entries change.
Touch(d) ==
  newer' = [e \in Directories |-> IF Exists(e) /\ e # d THEN newer[e] \cup {d} ELSE {}]

Goto(p, l) == pc' = [pc EXCEPT ![p] = l]

\* The process ends and gives its lock back, on success and on an exception.
Exit(p) ==
  /\ Goto(p, "idle")
  /\ lock' = [b \in Bundles |-> IF lock[b] = p THEN Nothing ELSE lock[b]]
  /\ target' = [target EXCEPT ![p] = Nothing]
  /\ initial' = [initial EXCEPT ![p] = Nothing]
  /\ home' = [home EXCEPT ![p] = First]
-----------------------------------------------------------------------------
\* A release is approved.
Publish(m) ==
  /\ approved' = approved \cup {m}
  /\ UNCHANGED <<files, links, running, lock, pc, locals, smoked, faults>>

\* discover_latest_approved_manifest: the highest generation, provided only
\* one manifest claims it.
Latest == {m \in approved : \A n \in approved \ {m} : Gen[n] < Gen[m]}

\* A process starts, with --manifest or by discovery, and resolves state_dir
\* through the active link.
Begin(p, m) ==
  /\ pc[p] = "idle"
  /\ m \in approved
  /\ Goto(p, "given")
  /\ target' = [target EXCEPT ![p] = m]
  /\ home' = [home EXCEPT ![p] = stateOf[active]]
  /\ UNCHANGED <<approved, files, links, running, lock, initial, smoked,
                 faults>>

Discover(p) == \E m \in Latest : Begin(p, m)
Given(p)    == \E m \in approved : Begin(p, m)

\* FileLock creates the directories above the lock file when they are gone,
\* which leaves an empty state directory in a directory that holds nothing else.
LockOpened(p) ==
  /\ holds' = [holds EXCEPT ![home[p]] = IF @ = Nothing THEN "broken" ELSE @]
  /\ IF Exists(home[p]) THEN UNCHANGED newer ELSE Touch(home[p])

\* FileLock is taken: the process exits.
LockBusy(p) ==
  /\ pc[p] = "given"
  /\ lock[home[p]] # Nothing
  /\ Exit(p)
  /\ UNCHANGED <<approved, files, links, running, smoked, faults>>

\* inspect_current_deployment: a bundle carries no approved manifest.
Current == holds[active]

UpToDate(m) == Current = m

\* Mutated form: equal generations do not conflict.
RefusedLower(m) == Current \in Manifests /\ Gen[m] < Gen[Current]
\* Mutated form: a downgrade is not refused.
RefusedEqual(m) ==
  Current \in Manifests /\ ~UpToDate(m) /\ Gen[m] = Gen[Current]

\* The generation check.
Refused(m) == Current \in Manifests /\ ~UpToDate(m) /\ Gen[m] <= Gen[Current]

\* Locked, and there is nothing to do ...
Noop(p) ==
  /\ pc[p] = "given"
  /\ lock[home[p]] = Nothing
  /\ UpToDate(target[p])
  /\ LockOpened(p)
  /\ Exit(p)
  /\ UNCHANGED <<approved, stateOf, links, running, smoked, faults>>

\* ... or the manifest is malformed ...
Invalid(p) ==
  /\ pc[p] = "given"
  /\ lock[home[p]] = Nothing
  /\ LockOpened(p)
  /\ Exit(p)
  /\ UNCHANGED <<approved, stateOf, links, running, smoked, faults>>

\* ... or its generation is refused ...
Refuse(p) ==
  /\ pc[p] = "given"
  /\ lock[home[p]] = Nothing
  /\ Refused(target[p])
  /\ LockOpened(p)
  /\ Exit(p)
  /\ UNCHANGED <<approved, stateOf, links, running, smoked, faults>>

\* ... or the update begins.
Proceed(p) ==
  /\ pc[p] = "given"
  /\ lock[home[p]] = Nothing
  /\ ~UpToDate(target[p]) /\ ~Refused(target[p])
  /\ LockOpened(p)
  /\ lock' = [lock EXCEPT ![home[p]] = p]
  /\ initial' = [initial EXCEPT ![p] = active]
  /\ Goto(p, "staging")
  /\ UNCHANGED <<approved, stateOf, links, running, target, home, smoked,
                 faults>>

\* Every download is verified, or one fails and the staging area is dropped.
Stage(p) ==
  /\ pc[p] = "staging"
  /\ Goto(p, "clearing")
  /\ UNCHANGED <<approved, files, links, running, lock, locals, smoked,
                 faults>>
StageFails(p) ==
  /\ pc[p] = "staging"
  /\ Exit(p)
  /\ UNCHANGED <<approved, files, links, running, smoked, faults>>

\* rmtree(staged_dir), which a crash leaves half done ...
Clear(p) ==
  /\ pc[p] = "clearing"
  /\ LET d == Dir[target[p]]
     IN  /\ holds' = IF Exists(d) THEN [holds EXCEPT ![d] = "broken"] ELSE holds
         /\ smoked' = smoked \ {d}
  /\ Goto(p, "placing")
  /\ UNCHANGED <<approved, stateOf, newer, links, running, lock, locals,
                 faults>>

\* ... and the rename of the staging area into its place.
Place(p) ==
  /\ pc[p] = "placing"
  /\ LET d == Dir[target[p]]
     IN  /\ holds' = [holds EXCEPT ![d] = target[p]]
         /\ stateOf' = [stateOf EXCEPT ![d] = home[p]]
         /\ Touch(d)
  /\ Goto(p, "linking")
  /\ UNCHANGED <<approved, links, running, lock, locals, smoked, faults>>

\* The previous link keeps what was active.
LinkPrev(p) ==
  /\ pc[p] = "linking"
  /\ prev' = IF Exists(initial[p]) THEN initial[p] ELSE prev
  /\ Goto(p, "switching")
  /\ UNCHANGED <<approved, files, active, staged, running, lock, locals,
                 smoked, faults>>

\* Mutated form: initial_active_target is read after the switch.
SwitchReadingLate(p) ==
  /\ pc[p] = "switching"
  /\ active' = Dir[target[p]]
  /\ initial' = [initial EXCEPT ![p] = Dir[target[p]]]
  /\ Goto(p, "restarting")
  /\ UNCHANGED <<approved, files, prev, staged, running, lock, target, home,
                 smoked, faults>>

\* The active link is switched to the new deployment.
SwitchActive(p) ==
  /\ pc[p] = "switching"
  /\ active' = Dir[target[p]]
  /\ Goto(p, "restarting")
  /\ UNCHANGED <<approved, files, prev, staged, running, lock, locals,
                 smoked, faults>>

\* systemctl restart; its result is not looked at.  When it fails the old
\* service goes on or none is left.
Restarted ==
  \/ running' = active /\ UNCHANGED badRestarts
  \/ /\ badRestarts < MaxBadRestarts
     /\ badRestarts' = badRestarts + 1
     /\ running' \in {running, Nothing}

Restart(p) ==
  /\ pc[p] = "restarting"
  /\ Restarted
  /\ Goto(p, "smoking")
  /\ UNCHANGED <<approved, files, links, lock, locals, smoked, crashes>>

\* The probe asks whatever service listens.
SmokePasses(p) ==
  /\ pc[p] = "smoking"
  /\ running # Nothing
  /\ smoked' = smoked \cup {running}
  /\ Goto(p, "cleaning")
  /\ UNCHANGED <<approved, files, links, running, lock, locals, faults>>
SmokeFails(p) ==
  /\ pc[p] = "smoking"
  /\ Goto(p, "reverting")
  /\ UNCHANGED <<approved, files, links, running, lock, locals, smoked,
                 faults>>

\* Mutated form: the failure is reported and nothing is restored.
RevertNothing(p) ==
  /\ pc[p] = "reverting"
  /\ Exit(p)
  /\ UNCHANGED <<approved, files, links, running, smoked, faults>>
\* Mutated form: the run tries again until the probe passes.
RevertRetrying(p) ==
  /\ pc[p] = "reverting"
  /\ active' = initial[p]
  /\ Goto(p, "switching")
  /\ UNCHANGED <<approved, files, prev, staged, running, lock, locals, smoked,
                 faults>>

\* The active link goes back, if what it pointed to is still there ...
Revert(p) ==
  /\ pc[p] = "reverting"
  /\ IF Exists(initial[p])
     THEN /\ active' = initial[p]
          /\ Goto(p, "restoring")
          /\ UNCHANGED <<lock, locals>>
     ELSE Exit(p) /\ UNCHANGED active
  /\ UNCHANGED <<approved, files, prev, staged, running, smoked, faults>>

\* ... and the service is restarted from it before the run fails.
Restore(p) ==
  /\ pc[p] = "restoring"
  /\ Restarted
  /\ Exit(p)
  /\ UNCHANGED <<approved, files, links, smoked, crashes>>

\* Mutated form: only the new deployment is protected.
RemovableCareless(p) ==
  LET spare == {d \in Directories \ {Dir[target[p]]} : Exists(d)}
  IN  {d \in spare : Cardinality(newer[d] \cap spare) >= Keep}

\* Directories beyond the newest Keep that cleanup does not protect.
Removable(p) ==
  LET spare == {d \in Directories \ {Dir[target[p]], initial[p]} : Exists(d)}
  IN  {d \in spare : Cardinality(newer[d] \cap spare) >= Keep}

\* cleanup_old_deployments; an rmtree that fails is passed over.
Cleanup(p) ==
  /\ pc[p] = "cleaning"
  /\ \E gone \in SUBSET Removable(p) :
       /\ holds' = [d \in Directories |-> IF d \in gone THEN Nothing ELSE holds[d]]
       /\ newer' = [d \in Directories |-> IF d \in gone THEN {} ELSE newer[d] \ gone]
  /\ Exit(p)
  /\ UNCHANGED <<approved, stateOf, links, running, smoked, faults>>

\* The process is killed.
Crash(p) ==
  /\ pc[p] # "idle"
  /\ crashes < MaxCrashes
  /\ crashes' = crashes + 1
  /\ Exit(p)
  /\ UNCHANGED <<approved, files, links, running, smoked, badRestarts>>
-----------------------------------------------------------------------------
OperatorTurn == OperatorsWait => \A p \in Processes : pc[p] = "idle"

\* stage-release.sh: a bundle brings a state directory of its own.
StageBundle(b) ==
  /\ OperatorTurn
  /\ ~Exists(b)
  /\ holds' = [holds EXCEPT ![b] = "bundle"]
  /\ stateOf' = [stateOf EXCEPT ![b] = b]
  /\ Touch(b)
  /\ staged' = b
  /\ UNCHANGED <<approved, active, prev, running, lock, pc, locals, smoked,
                 faults>>

\* activate-release.sh.
ActivateBundle ==
  /\ OperatorTurn
  /\ staged # Nothing /\ holds[staged] = "bundle"
  /\ active # staged
  /\ prev' = active
  /\ active' = staged
  /\ staged' = Nothing
  /\ UNCHANGED <<approved, files, running, lock, pc, locals, smoked, faults>>

\* rollback-release.sh: only a bundle has the artifact identity it demands.
RollbackBundle ==
  /\ OperatorTurn
  /\ prev # Nothing /\ prev # active
  /\ holds[prev] = "bundle"
  /\ active' = prev
  /\ prev' = active
  /\ UNCHANGED <<approved, files, staged, running, lock, pc, locals, smoked,
                 faults>>

\* systemd starts the service again: on failure, at boot, by hand.
ServiceStarts ==
  /\ running' = active
  /\ UNCHANGED <<approved, files, links, lock, pc, locals, smoked, faults>>

Step(p) ==
  \/ LockBusy(p) \/ Noop(p) \/ Invalid(p) \/ Refuse(p) \/ Proceed(p)
  \/ Stage(p) \/ StageFails(p) \/ Clear(p) \/ Place(p)
  \/ LinkPrev(p) \/ SwitchActive(p) \/ Restart(p)
  \/ SmokePasses(p) \/ SmokeFails(p) \/ Revert(p) \/ Restore(p) \/ Cleanup(p)

Next ==
  \/ \E m \in Manifests : Publish(m)
  \/ \E p \in Processes : Discover(p) \/ Given(p) \/ Step(p) \/ Crash(p)
  \/ \E b \in Bundles : StageBundle(b)
  \/ ActivateBundle \/ RollbackBundle \/ ServiceStarts

Spec == Init /\ [][Next]_vars

\* Downloads, systemctl and the probe all have time limits.
FairSpec == Spec /\ \A p \in Processes : WF_vars(Step(p))
-----------------------------------------------------------------------------
Content == {Nothing, "bundle", "broken"} \cup Manifests
Target == Directories \cup {Nothing}

\* Fields have their types; part of ActiveComplete.
TypeOK ==
  /\ approved \subseteq Manifests
  /\ holds \in [Directories -> Content]
  /\ stateOf \in [Directories -> Bundles]
  /\ newer \in [Directories -> SUBSET Directories]
  /\ {active, prev, staged, running} \subseteq Target
  /\ lock \in [Bundles -> Processes \cup {Nothing}]
  /\ pc \in [Processes -> Labels]
  /\ target \in [Processes -> Manifests \cup {Nothing}]
  /\ initial \in [Processes -> Target]
  /\ home \in [Processes -> Bundles]
  /\ smoked \subseteq Directories
  /\ crashes \in 0..MaxCrashes /\ badRestarts \in 0..MaxBadRestarts

Complete(d) == d # Nothing /\ holds[d] \in {"bundle"} \cup Manifests

\* The active link resolves to a complete deployment at every instant,
\* whichever step a run is killed at and whatever was staged there before.
ActiveComplete == TypeOK /\ Complete(active)

\* From the switch to the verdict of the smoke probe, the deployment a run
\* would go back to is intact.
FallbackIntact ==
  \A p \in Processes :
    pc[p] \in {"switching", "restarting", "smoking", "reverting"} =>
      Complete(initial[p]) /\ initial[p] # Dir[target[p]]

\* Runs never move the host to a lower or equal generation, also when their
\* manifest was read before another run finished; only a failed smoke probe
\* goes back, to where that very run started.
GenerationsForward ==
  [][holds[active] \in Manifests /\ active' # active /\ holds'[active'] \in Manifests =>
       \/ Gen[holds'[active']] > Gen[holds[active]]
       \/ \E p \in Processes : pc[p] = "reverting" /\ active' = initial[p]]_vars

\* Cleanup deletes neither the active nor the previous deployment.
CleanupKeepsLinks ==
  [][\A p \in Processes : pc[p] = "cleaning" /\ pc'[p] = "idle" =>
       /\ Complete(active)'
       /\ prev # Nothing => holds'[prev] = holds[prev]]_vars

\* As long as no run was killed and no restart failed, what is active between
\* runs is a bundle or has answered the smoke probe itself.
SmokedBetweenRuns ==
  (\A p \in Processes : pc[p] = "idle") /\ crashes = 0 /\ badRestarts = 0 =>
    holds[active] = "bundle" \/ active \in smoked

\* Every run ends.
RunsEnd == \A p \in Processes : pc[p] # "idle" ~> pc[p] = "idle"

\* docs/vps-rollout.md, rule 4: what a run reports as deployed or as up to
\* date has passed the smoke gate.
ReportedIsSmoked ==
  [][\A p \in Processes : Noop(p) \/ Cleanup(p) => Dir[target[p]] \in smoked]_vars

\* docs/vps-rollout.md, rule 5: persistent state is never removed.
StateKept == Complete(stateOf[active])
=============================================================================
