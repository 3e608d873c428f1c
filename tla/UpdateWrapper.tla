---------------------------- MODULE UpdateWrapper ---------------------------
(***************************************************************************)
(* deploy/update-wrapper.sh, the gate around the host's own updater: it    *)
(* skips a candidate that failed before, fetches and checks the approved   *)
(* one, lets the updater install it, asks the verifier (UpdateVerifier)    *)
(* and accepts, rolls back to the updater's backup, or keeps a security    *)
(* release and puts the plugin into quarantine.  What it cannot repair it  *)
(* leaves to an operator, whom it calls, and tries to turn its timer off.  *)
(* A command that fails where set -e holds ends the run through the trap;  *)
(* under || or in a condition set -e is off and the function goes on.      *)
(* A release stands for its binary, version text and unit file; one plugin *)
(* build is used throughout, so a release is also a fingerprint.           *)
(***************************************************************************)
EXTENDS Integers, FiniteSets, UpdateVerifier

CONSTANTS
  Runs,          \* wrapper processes: the timer's and the ones started by hand
  TimerRun,      \* the one the timer starts
  Old,           \* the release installed at first
  Candidates,    \* releases that may be approved
  Overrides,     \* those with a security override
  Defects,       \* sets of checks a candidate may fail whenever it runs
  Disturbances,  \* sets of checks that may fail for other reasons
  None,
  Garbled,       \* the content of a record that was not written completely
  MaxEvents      \* bound on what the operator does and on killed and
                 \* interrupted runs, see Budget

ASSUME WrapperAssumption ==
  /\ TimerRun \in Runs /\ Old \notin Candidates /\ None \notin Candidates \cup {Old}
  /\ Garbled \notin Candidates \cup {Old, None}
  /\ Overrides \subseteq Candidates
  /\ \A d \in Defects \cup Disturbances : d \subseteq Names
  /\ MaxEvents \in Nat

Releases == Candidates \cup {Old}
Files    == {"service", "cli", "version"}

VARIABLES
  defects,     \* release -> the checks it fails; fixed
  reads,       \* the approval schema the installed verifier reads; fixed
  approval,    \* approved-artifacts.json: the approved release
  files,       \* file -> the release it is from
  running,     \* the release the service runs
  plugin,      \* token-saver.so is in place
  quarantine,  \* fingerprints of quarantined plugins
  failed,      \* failed-candidate.json: a fingerprint, None or Garbled
  timer,       \* the timer is enabled
  alerted,     \* the journal has an alert that asks for somebody to act
  lock,        \* lock_dir exists
  pc, run,     \* p -> its step and its variables
  evidence,    \* history: releases that were seen to fail
  operator, kills,
  interruptions \* runs that went on without their lock or temporary directory

disk == <<approval, files, running, plugin, quarantine, failed, timer, alerted>>
history == <<defects, reads, operator, kills, interruptions>>
vars == <<disk, lock, pc, run, evidence, history>>

\* What a process holds: the release it read, whether it took the lock and
\* still has its temporary directory, the backup directories its updater has
\* made, whether that failed, and whether a rollback blames the candidate.
NoRun == [release |-> None, held |-> FALSE, tmp |-> FALSE, saved |-> <<>>,
          broken |-> FALSE, blame |-> FALSE]

Init ==
  /\ defects \in {d \in [Releases -> Defects \cup {{}}] : d[Old] = {}}
  /\ reads \in {1, 2}
  /\ approval \in Candidates
  /\ files = [f \in Files |-> Old] /\ running = Old
  /\ plugin = TRUE /\ quarantine = {}
  /\ failed = None /\ timer = TRUE /\ alerted = FALSE /\ lock = FALSE
  /\ pc = [p \in Runs |-> "out"] /\ run = [p \in Runs |-> NoRun]
  /\ evidence = {} /\ operator = 0 /\ kills = 0 /\ interruptions = 0

Goto(p, l) == pc' = [pc EXCEPT ![p] = l]

\* Mutated form: cleanup does not ask whose lock it is.
ExitUnlocking(p) == Goto(p, "out") /\ run' = [run EXCEPT ![p] = NoRun] /\ lock' = FALSE

\* exit, with the trap: cleanup takes the lock directory away if this process
\* made one, whoever made the one that is there.
Exit(p) ==
  /\ Goto(p, "out")
  /\ run' = [run EXCEPT ![p] = NoRun]
  /\ lock' = IF run[p].held THEN FALSE ELSE lock

\* die, and nothing else.
Die(p) == Exit(p) /\ UNCHANGED <<disk, evidence>>

\* record_failed_fingerprint and die: the candidate is to blame.  When it
\* cannot be recorded, set -e ends the run before.
Reject(p) ==
  /\ failed' \in {run[p].release, failed}
  /\ evidence' = evidence \cup {run[p].release}
  /\ Exit(p)
  /\ UNCHANGED <<approval, files, running, plugin, quarantine, timer, alerted>>

\* disable_timer, whose failure is swallowed, and alert.
CallOperator == timer' \in {FALSE, timer} /\ alerted' = TRUE

\* CallOperator and exit 4.
GiveUp(p) ==
  /\ CallOperator
  /\ Exit(p)
  /\ UNCHANGED <<approval, files, running, plugin, quarantine, failed, evidence>>

\* What record_failed_fingerprint may leave where set -e is off: a record
\* written in part is put in place like a complete one.
Recordings(p) == {run[p].release, failed, Garbled}

\* rollback_failure: whatever the verdict was, the candidate is recorded.
RollbackFailure(p) ==
  /\ failed' \in Recordings(p)
  /\ CallOperator
  /\ Exit(p)
  /\ UNCHANGED <<approval, files, running, plugin, quarantine, evidence>>

Step(p, l) ==
  Goto(p, l) /\ UNCHANGED <<disk, lock, run, evidence>>
-----------------------------------------------------------------------------
\* The start, up to the lock: the approval is read and the files it needs
\* are looked at.  Without the plugin's file the run ends at once.
Start(p) ==
  /\ pc[p] = "out"
  /\ p = TimerRun => timer
  /\ IF plugin THEN /\ Goto(p, "locking")
                    /\ run' = [run EXCEPT ![p].release = approval]
                    /\ UNCHANGED <<disk, lock, evidence>>
     ELSE Die(p)

\* The state directory, which may fail, and mkdir lock_dir.
Lock(p) ==
  /\ pc[p] = "locking"
  /\ \/ Die(p)
     \/ /\ ~lock /\ lock' = TRUE
        /\ run' = [run EXCEPT ![p].held = TRUE]
        /\ Goto(p, "checking")
        /\ UNCHANGED <<disk, evidence>>

\* A candidate that failed before is skipped, and no run goes on with a record
\* that it cannot read; for another candidate there is a temporary directory
\* from here on, unless it cannot be made.
Skip(p) ==
  /\ pc[p] = "checking"
  /\ \/ Die(p)
     \/ /\ failed \notin {run[p].release, Garbled}
        /\ run' = [run EXCEPT ![p].tmp = TRUE]
        /\ Goto(p, "fetching")
        /\ UNCHANGED <<disk, lock, evidence>>

\* The release is not there, or is not the approved one; or its archive is
\* broken; or the candidate has been extracted.
Fetch(p) ==
  /\ pc[p] = "fetching"
  /\ \/ Die(p)
     \/ Reject(p)
     \/ run[p].tmp /\ Step(p, "preflight")

\* What the verifier may find, for a binary of release r under an approval
\* of release a, while the service runs.
Findings(r, a) ==
  {defects[running] \cup e
   \cup (IF r = a THEN {} ELSE {<<"cli_hash_mismatch">>})
   \cup (IF plugin THEN {} ELSE {<<"artifact_read_failed">>})
   \cup (IF reads = 1 THEN {} ELSE {<<"approval_invalid">>}) : e \in Disturbances \cup {{}}}

\* verifier_result and report_code; without a temporary directory there is no
\* report, whether the verifier could not start or had its verdict.
Results(p, phase, r, a) ==
  IF ~run[p].tmp THEN {[rc |-> c, code |-> "invalid_verifier_report"] : c \in {2, 3}}
  ELSE {Verify(phase, f) : f \in Findings(r, a)}

\* Mutated form: only a verdict about the candidate stops the run.
PreflightLenient(p) ==
  /\ pc[p] = "preflight"
  /\ \E v \in Results(p, "preflight", run[p].release, approval) :
       IF v.rc = 3 THEN Die(p) ELSE Step(p, "probing")

\* The candidate's binary and the service as it is.
Preflight(p) ==
  /\ pc[p] = "preflight"
  /\ \E v \in Results(p, "preflight", run[p].release, approval) :
       IF v.rc # 0 THEN Die(p) ELSE Step(p, "probing")

\* compat-probe and snapshot_backup_directories, whose list may fail to be
\* written, as it does without the directory.
Probe(p) ==
  /\ pc[p] = "probing"
  /\ \/ Reject(p) \/ Die(p)
     \/ run[p].tmp /\ Step(p, "backup")
-----------------------------------------------------------------------------
(* The host's own updater: a backup, the binary, then version text, unit    *)
(* file and restart.  It may fail at each step and leave things as they are.*)

UpdaterFails(p) ==
  /\ pc[p] \in {"backup", "replacing", "restarting"}
  /\ Goto(p, "resolving")
  /\ run' = [run EXCEPT ![p].broken = TRUE]
  /\ evidence' = evidence \cup {run[p].release}
  /\ UNCHANGED <<disk, lock>>

UpdaterBackup(p, n) ==
  /\ pc[p] = "backup"
  /\ run' = [run EXCEPT ![p].saved = [i \in 1..n |-> files]]
  /\ Goto(p, "replacing")
  /\ UNCHANGED <<disk, lock, evidence>>

UpdaterReplace(p) ==
  /\ pc[p] = "replacing"
  /\ files' = [files EXCEPT !["cli"] = run[p].release]
  /\ Goto(p, "restarting")
  /\ UNCHANGED <<approval, running, plugin, quarantine, failed, timer, alerted,
                 lock, run, evidence>>

UpdaterDone(p) ==
  /\ pc[p] = "restarting"
  /\ files' = [f \in Files |-> run[p].release]
  /\ running' = run[p].release
  /\ Goto(p, "resolving")
  /\ UNCHANGED <<approval, plugin, quarantine, failed, timer, alerted, lock, run,
                 evidence>>
-----------------------------------------------------------------------------
\* rollback_candidate begins.
RollBack(p, blame) ==
  /\ run' = [run EXCEPT ![p].blame = blame]
  /\ Goto(p, "restore_service")
  /\ UNCHANGED <<disk, lock>>

\* resolve_new_backup_directory.  Without the temporary directory the shell
\* ends here, because it cannot write its list.
Resolve(p) ==
  /\ pc[p] = "resolving"
  /\ IF ~run[p].tmp THEN Die(p)
     ELSE IF Len(run[p].saved) # 1 THEN GiveUp(p)
     ELSE IF run[p].broken THEN RollBack(p, TRUE) /\ UNCHANGED evidence
     ELSE Step(p, "postinstall")

PluginCodes == {"plugin_missing", "plugin_not_registered", "plugin_not_effective",
                "plugin_version_mismatch", "abi_mismatch", "rpc_mismatch",
                "fixture_mismatch", "config_invalid", "runtime_unhealthy",
                "self_test_failed"}

\* The verdict on what is installed, and what follows from it.
Postinstall(p) ==
  /\ pc[p] = "postinstall"
  /\ \E v \in Results(p, "postinstall", files["cli"], approval) :
       /\ evidence' = IF v.rc = 3 THEN evidence \cup {run[p].release} ELSE evidence
       /\ CASE v.rc = 0 -> Exit(p) /\ UNCHANGED disk
            [] v.rc = 3 /\ v.code \in PluginCodes /\ run[p].release \in Overrides ->
                 Goto(p, "isolating") /\ UNCHANGED <<disk, lock, run>>
            [] OTHER -> RollBack(p, v.rc = 3)

\* apply_security_override up to the restart.  A binary that is not the
\* candidate's, or cannot be read, leads to a rollback; without a directory
\* for the quarantine set -e ends the run as it stands; with one that is not
\* trusted or has the plugin already, or when mv fails, it is a failure.
Isolate(p) ==
  /\ pc[p] = "isolating"
  /\ \/ RollBack(p, TRUE) /\ UNCHANGED evidence
     \/ files["cli"] = run[p].release /\ (Die(p) \/ RollbackFailure(p))
     \/ /\ files["cli"] = run[p].release
        /\ plugin /\ run[p].release \notin quarantine
        /\ plugin' = FALSE
        /\ quarantine' = quarantine \cup {run[p].release}
        /\ Goto(p, "isolated")
        /\ UNCHANGED <<approval, files, running, failed, timer, alerted, lock, run,
                       evidence>>

\* Mutated form: a failing probe rolls the release back.
IsolatedRollingBack(p) ==
  /\ pc[p] = "isolated"
  /\ \/ RollBack(p, TRUE)
     \/ run[p].tmp /\ Exit(p) /\ UNCHANGED disk
  /\ UNCHANGED evidence

\* Its restart and the core-only probe; somebody is called when one of them
\* fails, and the release stays.
Isolated(p) ==
  /\ pc[p] = "isolated"
  /\ running' = files["cli"]
  /\ \/ CallOperator
     \/ run[p].tmp /\ UNCHANGED <<timer, alerted>>
  /\ Exit(p)
  /\ UNCHANGED <<approval, files, plugin, quarantine, failed, evidence>>
-----------------------------------------------------------------------------
\* The files in the order in which rollback_candidate restores them.
NextFile == [restore_service |-> "restore_cli", restore_cli |-> "restore_version",
             restore_version |-> "restart"]
FileOf   == [restore_service |-> "service", restore_cli |-> "cli",
             restore_version |-> "version"]

\* Mutated form: the version text is left as it is.
RestoreBinaryOnly(p) ==
  /\ pc[p] \in DOMAIN NextFile
  /\ \/ RollbackFailure(p)
     \/ /\ IF pc[p] = "restore_version" THEN UNCHANGED files
           ELSE files' = [files EXCEPT ![FileOf[pc[p]]] = run[p].saved[1][FileOf[pc[p]]]]
        /\ Goto(p, NextFile[pc[p]])
        /\ UNCHANGED <<approval, running, plugin, quarantine, failed,
                       timer, alerted, lock, run, evidence>>

\* mv of one file of the backup, which may fail.
Restore(p) ==
  /\ pc[p] \in DOMAIN NextFile
  /\ \/ RollbackFailure(p)
     \/ /\ files' = [files EXCEPT ![FileOf[pc[p]]] = run[p].saved[1][FileOf[pc[p]]]]
        /\ Goto(p, NextFile[pc[p]])
        /\ UNCHANGED <<approval, running, plugin, quarantine, failed,
                       timer, alerted, lock, run, evidence>>

\* daemon-reload and restart, which may fail.
RestoreRestart(p) ==
  /\ pc[p] = "restart"
  /\ \/ RollbackFailure(p)
     \/ /\ running' = files["cli"]
        /\ Goto(p, "verifying")
        /\ UNCHANGED <<approval, files, plugin, quarantine, failed, timer, alerted,
                       lock, run, evidence>>

\* Mutated form: a rollback always blames the candidate.
RestoreVerifyBlaming(p) ==
  /\ pc[p] = "verifying"
  /\ \/ Die(p) \/ RollbackFailure(p)
     \/ \E v \in Results(p, "preflight", files["cli"], files["cli"]) :
          /\ v.rc = 0
          /\ failed' \in {run[p].release, Garbled}
          /\ Exit(p)
          /\ UNCHANGED <<approval, files, running, plugin, quarantine, timer,
                         alerted, evidence>>

\* The verifier on the restored release, under an approval made for it, and
\* the record.  Around it are commands that end the run when they fail, and
\* others whose failure is one of the rollback, as is a record that cannot
\* be put in place.
RestoreVerify(p) ==
  /\ pc[p] = "verifying"
  /\ \/ Die(p) \/ RollbackFailure(p)
     \/ \E v \in Results(p, "preflight", files["cli"], files["cli"]) :
          /\ v.rc = 0
          /\ failed' \in IF run[p].blame THEN {run[p].release, Garbled} ELSE {failed}
          /\ Exit(p)
          /\ UNCHANGED <<approval, files, running, plugin, quarantine, timer,
                         alerted, evidence>>
-----------------------------------------------------------------------------
\* The bound: an interrupted run takes up as much as two other events.
Budget(cost) == operator + kills + 2 * interruptions + cost <= MaxEvents

\* The process is killed, or the machine stops: no trap runs.  The service
\* may come up again with the binary that is installed.
Kill(p) ==
  /\ Budget(1) /\ pc[p] # "out"
  /\ kills' = kills + 1
  /\ \E r \in {running, files["cli"]} : running' = r
  /\ Goto(p, "out")
  /\ run' = [run EXCEPT ![p] = NoRun]
  /\ UNCHANGED <<approval, files, plugin, quarantine, failed, timer, alerted, lock,
                 evidence, defects, reads, operator, interruptions>>

\* TERM, INT or HUP: the trap cleans up and the script goes on, without its
\* lock and its temporary directory.
Signal(p) ==
  /\ Budget(2) /\ run[p].held
  /\ interruptions' = interruptions + 1
  /\ lock' = FALSE
  /\ run' = [run EXCEPT ![p].tmp = FALSE]
  /\ UNCHANGED <<disk, pc, evidence, defects, reads, operator, kills>>

\* The temporary directory cannot be written any more: it is gone, or full.
LoseDirectory(p) ==
  /\ Budget(2) /\ run[p].held /\ run[p].tmp
  /\ interruptions' = interruptions + 1
  /\ run' = [run EXCEPT ![p].tmp = FALSE]
  /\ UNCHANGED <<disk, lock, pc, evidence, defects, reads, operator, kills>>

Operates == Budget(1) /\ operator' = operator + 1

\* The operator approves another release, at any time.
Approve(r) ==
  /\ Operates
  /\ approval' = r
  /\ UNCHANGED <<files, running, plugin, quarantine, failed, timer, alerted, lock, pc,
                 run, evidence, defects, reads, kills, interruptions>>

\* The operator puts the plugin back, when no run is under way.
Reinstall ==
  /\ Operates
  /\ ~plugin /\ \A p \in Runs : pc[p] = "out"
  /\ plugin' = TRUE
  /\ UNCHANGED <<approval, files, running, quarantine, failed, timer, alerted, lock, pc,
                 run, evidence, defects, reads, kills, interruptions>>

Progress(p) ==
  /\ \/ Lock(p) \/ Skip(p) \/ Fetch(p) \/ Preflight(p) \/ Probe(p)
     \/ UpdaterFails(p) \/ \E n \in 0..2 : UpdaterBackup(p, n)
     \/ UpdaterReplace(p) \/ UpdaterDone(p)
     \/ Resolve(p) \/ Postinstall(p) \/ Isolate(p) \/ Isolated(p)
     \/ Restore(p) \/ RestoreRestart(p) \/ RestoreVerify(p)
  /\ UNCHANGED history

Next ==
  \/ \E p \in Runs : \/ Start(p) /\ UNCHANGED history
                     \/ Progress(p) \/ Kill(p) \/ Signal(p) \/ LoseDirectory(p)
  \/ \E r \in Candidates : Approve(r)
  \/ Reinstall

Spec == Init /\ [][Next]_vars
-----------------------------------------------------------------------------
Quiet == \A p \in Runs : pc[p] = "out"

\* Between runs the host is whole: binary, version text and unit file are of
\* one release, the service runs it, and it is one that passes the verifier
\* or has a security override.  Otherwise somebody has been called, or
\* nothing will start (a killed run left its lock).  This is so whatever
\* else disturbs the checks and whichever command fails; runs that a signal
\* interrupts, or that lose their temporary directory, are excepted.
Settled ==
  Quiet /\ ~alerted /\ ~lock /\ interruptions = 0 =>
    LET r == files["cli"] IN
    /\ \A f \in Files : files[f] = r
    /\ running = r
    /\ defects[r] = {} \/ r \in Overrides

\* As long as nobody has been called, a candidate is recorded as failed only
\* if something was seen to be wrong with it: after a verdict that blocks a
\* rollback that succeeds blames nobody, and one that fails does not do so
\* in silence.
BlameJustified ==
  ~alerted /\ failed \in Candidates => failed \in evidence

Holders == {p \in Runs : run[p].held}

\* One run at a time works on the host, and the lock directory is there
\* exactly while it does; a killed run leaves the directory behind, so that
\* no run works on what that one left half done.
LockExact ==
  interruptions = 0 =>
    /\ Cardinality(Holders) <= 1
    /\ Holders # {} => lock
    /\ lock /\ kills = 0 => Holders # {}

\* A security release that is kept without the plugin is not rolled back to
\* what was there before, by the run that kept it or by a later one, unless
\* a run was interrupted and went on beside the next.
SecurityKept ==
  [][interruptions = 0 /\ files["cli"] \in quarantine => files'["cli"] # Old]_vars

\* With the verifier of this repository, which reads approvals of schema 2
\* while the wrapper demands schema 1, nothing is ever installed: the
\* mismatch stops a run before the updater.
SkewInstallsNothing == reads = 2 => \A f \in Files : files[f] = Old
=============================================================================
