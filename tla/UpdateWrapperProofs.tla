------------------------- MODULE UpdateWrapperProofs ------------------------
(***************************************************************************)
(* Proofs about UpdateWrapper for any set of processes, any candidates,    *)
(* defects and disturbances, and any number of events: the lock, whom a    *)
(* failure is blamed on, what the schema mismatch stops, that a security   *)
(* release stays, and that the host is whole between runs, whichever       *)
(* command fails.                                                          *)
(***************************************************************************)
EXTENDS UpdateWrapper, ProofLemmas

Labels == {"out", "locking", "checking", "fetching", "preflight", "probing", "backup",
           "replacing", "restarting", "resolving", "postinstall", "isolating",
           "isolated", "restore_service", "restore_cli", "restore_version", "restart",
           "verifying"}

\* Where a run has not touched the host, where its updater is done and not judged,
\* where it puts the backup back, and where it may still come to that.
Untouched == {"checking", "fetching", "preflight", "probing", "backup"}
Installed == {"resolving", "postinstall", "isolating"}
Restoring == {"restore_service", "restore_cli", "restore_version", "restart", "verifying"}
MayRestore == {"replacing", "restarting"} \cup Installed \cup Restoring

Backup == [Files -> Releases]

Run == [release : Candidates \cup {None}, held : BOOLEAN, tmp : BOOLEAN,
        saved : Seq(Backup), broken : BOOLEAN, blame : BOOLEAN]

TypeOK ==
  /\ defects \in [Releases -> Defects \cup {{}}] /\ reads \in {1, 2}
  /\ approval \in Candidates
  /\ files \in Backup /\ running \in Releases
  /\ plugin \in BOOLEAN /\ quarantine \subseteq Candidates
  /\ failed \in Candidates \cup {None, Garbled}
  /\ timer \in BOOLEAN /\ alerted \in BOOLEAN
  /\ lock \in BOOLEAN
  /\ pc \in [Runs -> Labels] /\ run \in [Runs -> Run]
  /\ evidence \subseteq Candidates
  /\ operator \in Nat /\ kills \in Nat /\ interruptions \in Nat

\* What a process at its label holds.
Holding ==
  \A p \in Runs :
    /\ pc[p] # "out" => run[p].release \in Candidates
    /\ pc[p] \in {"out", "locking"} \cup Untouched =>
         run[p].saved = << >> /\ ~run[p].broken /\ ~run[p].blame
    /\ pc[p] \in {"isolating", "isolated"} => run[p].release \in Overrides
    /\ pc[p] \in Restoring \cup {"postinstall", "isolating"} => Len(run[p].saved) = 1
    /\ run[p].held <=> pc[p] \notin {"out", "locking"}
    /\ interruptions = 0 =>
         (run[p].tmp <=> pc[p] \notin {"out", "locking", "checking"})

\* The lock without interrupted runs.
Locked ==
  interruptions = 0 =>
    /\ \A p, q \in Runs : run[p].held /\ run[q].held => p = q
    /\ \A p \in Runs : run[p].held => lock
    /\ lock /\ kills = 0 => \E p \in Runs : run[p].held

\* A candidate that a run is going to blame has been seen to fail, and so has the
\* one that is recorded, unless somebody was called.
Blamed ==
  /\ \A p \in Runs :
       \/ run[p].broken \/ run[p].blame \/ pc[p] \in {"isolating", "isolated"}
       => run[p].release \in evidence
  /\ ~alerted /\ failed \in Candidates => failed \in evidence

\* With the verifier that reads schema 2, no run gets past the preflight.
Stopped ==
  reads = 2 =>
    /\ \A p \in Runs : pc[p] \in {"out", "locking", "checking", "fetching", "preflight"}
    /\ \A f \in Files : files[f] = Old

\* Once a release is kept for security nothing brings the old one back.
OldIsGone ==
  interruptions = 0 /\ quarantine # {} =>
    /\ files["cli"] # Old
    /\ \A p \in Runs : pc[p] \in MayRestore =>
         \A i \in 1..Len(run[p].saved) : run[p].saved[i]["cli"] # Old

\* A release that may stay: it passes the verifier, or it is a security release.
Vouched(r) == defects[r] = {} \/ r \in Overrides
Uniform(b) == \A f \in Files : b[f] = b["cli"]
Whole == Uniform(files) /\ running = files["cli"] /\ Vouched(files["cli"])

\* Between runs, and until a run touches it, the host is whole,
WholeBefore ==
  interruptions = 0 /\ ~alerted =>
    /\ ~lock => Whole
    /\ \A p \in Runs : pc[p] \in Untouched \cup {"replacing"} => Whole

\* while a run works on the host there is a backup that is whole, if there is one,
\* and after its updater the host has the candidate or the updater has failed,
SavedWhole(p) ==
  ~alerted /\ pc[p] \in MayRestore =>
    \A i \in 1..Len(run[p].saved) :
      Uniform(run[p].saved[i]) /\ Vouched(run[p].saved[i]["cli"])

HasCandidate(p) ==
  /\ pc[p] \in Installed \cup {"isolated"} /\ ~run[p].broken =>
       Uniform(files) /\ files["cli"] = run[p].release /\ running = files["cli"]
  /\ pc[p] \in {"postinstall", "isolating", "isolated"} => ~run[p].broken

WholeBackup == interruptions = 0 => \A p \in Runs : SavedWhole(p) /\ HasCandidate(p)

\* and a rollback restores file after file.
Restored ==
  interruptions = 0 =>
    \A p \in Runs :
      LET b == run[p].saved[1] IN
      /\ pc[p] \in {"restore_cli", "restore_version", "restart", "verifying"} =>
           files["service"] = b["service"]
      /\ pc[p] \in {"restore_version", "restart", "verifying"} => files["cli"] = b["cli"]
      /\ pc[p] \in {"restart", "verifying"} => files["version"] = b["version"]
      /\ pc[p] = "verifying" => running = files["cli"]

\* The inductive invariant.
IInv == /\ TypeOK /\ Holding /\ Locked /\ Blamed /\ Stopped
        /\ OldIsGone /\ WholeBefore /\ WholeBackup /\ Restored
-----------------------------------------------------------------------------
(* What the actions do to a process and to the host, in few kinds of step.  *)

Becomes(p, l) ==
  /\ pc' \in [Runs -> Labels] /\ run' \in [Runs -> Run]
  /\ pc'[p] = l
  /\ \A q \in Runs : q # p => pc'[q] = pc[q] /\ run'[q] = run[q]

Holds(p, release, held, tmp, saved, broken, blame) ==
  /\ run'[p].release = release /\ run'[p].held = held /\ run'[p].tmp = tmp
  /\ run'[p].saved = saved /\ run'[p].broken = broken /\ run'[p].blame = blame

Keeps(p) ==
  Holds(p, run[p].release, run[p].held, run[p].tmp, run[p].saved, run[p].broken, run[p].blame)

\* The run is over, whatever it found.
Ends(p) ==
  /\ Becomes(p, "out") /\ Holds(p, None, FALSE, FALSE, << >>, FALSE, FALSE)
  /\ run[p].held => lock' = FALSE
  /\ ~run[p].held => lock' = lock
  /\ UNCHANGED <<approval, files, plugin, quarantine, defects, reads, operator, kills,
                 interruptions>>
  /\ evidence \subseteq evidence' /\ evidence' \subseteq Candidates
  /\ timer' \in BOOLEAN /\ alerted' \in BOOLEAN /\ (alerted => alerted')
  /\ \/ failed' \in {failed, Garbled}
     \/ failed' = run[p].release /\ (~alerted' => run[p].release \in evidence')
  /\ \/ pc[p] # "isolated" /\ running' = running
     \/ pc[p] = "isolated" /\ running' = files["cli"]
  /\ ~alerted' /\ interruptions = 0 =>
       \/ pc[p] \in {"out", "locking", "isolating", "isolated", "verifying"} \cup Untouched
       \/ pc[p] = "postinstall" /\ defects[running] = {}

\* It starts with the approved release.
Begins(p) ==
  /\ pc[p] = "out" /\ Becomes(p, "locking")
  /\ Holds(p, approval, run[p].held, run[p].tmp, run[p].saved, run[p].broken, run[p].blame)
  /\ UNCHANGED <<disk, lock, evidence, history>>

\* It takes the lock.
Locks(p) ==
  /\ pc[p] = "locking" /\ lock = FALSE /\ lock' = TRUE /\ Becomes(p, "checking")
  /\ Holds(p, run[p].release, TRUE, run[p].tmp, run[p].saved, run[p].broken, run[p].blame)
  /\ UNCHANGED <<disk, evidence, history>>

\* It makes its directory.
Enters(p) ==
  /\ pc[p] = "checking" /\ Becomes(p, "fetching")
  /\ Holds(p, run[p].release, run[p].held, TRUE, run[p].saved, run[p].broken, run[p].blame)
  /\ UNCHANGED <<disk, lock, evidence, history>>

\* It goes on, before the updater or after it.
Advances(p) ==
  /\ \/ pc[p] = "fetching" /\ Becomes(p, "preflight")
     \/ pc[p] = "preflight" /\ Becomes(p, "probing") /\ reads # 2
     \/ pc[p] = "probing" /\ Becomes(p, "backup")
     \/ /\ pc[p] = "resolving" /\ Becomes(p, "postinstall")
        /\ Len(run[p].saved) = 1 /\ ~run[p].broken
     \/ /\ pc[p] = "postinstall" /\ Becomes(p, "isolating")
        /\ run[p].release \in evidence' /\ run[p].release \in Overrides
  /\ Keeps(p)
  /\ evidence \subseteq evidence' /\ evidence' \subseteq Candidates
  /\ UNCHANGED <<disk, lock, history>>

\* The updater fails, makes its backups, replaces the binary, and the rest.
Fails(p) ==
  /\ pc[p] \in {"backup", "replacing", "restarting"} /\ Becomes(p, "resolving")
  /\ Holds(p, run[p].release, run[p].held, run[p].tmp, run[p].saved, TRUE, run[p].blame)
  /\ evidence \subseteq evidence' /\ evidence' \subseteq Candidates
  /\ run[p].release \in evidence'
  /\ UNCHANGED <<disk, lock, history>>

BacksUp(p) ==
  /\ pc[p] = "backup" /\ Becomes(p, "replacing")
  /\ \E n \in 0..2 :
       Holds(p, run[p].release, run[p].held, run[p].tmp, [i \in 1..n |-> files],
             run[p].broken, run[p].blame)
  /\ UNCHANGED <<disk, lock, evidence, history>>

Replaces(p) ==
  /\ pc[p] = "replacing" /\ Becomes(p, "restarting") /\ Keeps(p)
  /\ files' \in Backup /\ files'["cli"] = run[p].release
  /\ UNCHANGED <<approval, running, plugin, quarantine, failed, timer, alerted,
                 lock, evidence, history>>

Completes(p) ==
  /\ pc[p] = "restarting" /\ Becomes(p, "resolving") /\ Keeps(p)
  /\ files' \in Backup /\ \A f \in Files : files'[f] = run[p].release
  /\ running' = run[p].release
  /\ UNCHANGED <<approval, plugin, quarantine, failed, timer, alerted,
                 lock, evidence, history>>

\* It begins to put the backup back.
RollsBack(p) ==
  /\ pc[p] \in Installed /\ Becomes(p, "restore_service")
  /\ Len(run[p].saved) = 1
  /\ \E blame \in BOOLEAN :
       /\ Holds(p, run[p].release, run[p].held, run[p].tmp, run[p].saved, run[p].broken, blame)
       /\ blame => run[p].release \in evidence'
  /\ evidence \subseteq evidence' /\ evidence' \subseteq Candidates
  /\ UNCHANGED <<disk, lock, history>>

\* It keeps the release and takes the plugin away.
Isolates(p) ==
  /\ pc[p] = "isolating" /\ Becomes(p, "isolated") /\ Keeps(p)
  /\ files["cli"] = run[p].release
  /\ quarantine' = quarantine \cup {run[p].release} /\ plugin' = FALSE
  /\ UNCHANGED <<approval, files, running, failed, timer, alerted,
                 lock, evidence, history>>

\* It restores one file, or restarts the service.
PutsBack(p, l, f, next) ==
  /\ pc[p] = l /\ Becomes(p, next) /\ Keeps(p)
  /\ files' \in Backup /\ files'[f] = run[p].saved[1][f]
  /\ \A g \in Files : g # f => files'[g] = files[g]
  /\ UNCHANGED <<approval, running, plugin, quarantine, failed, timer, alerted,
                 lock, evidence, history>>

Restarts(p) ==
  /\ pc[p] = "restart" /\ Becomes(p, "verifying") /\ Keeps(p)
  /\ running' = files["cli"]
  /\ UNCHANGED <<approval, files, plugin, quarantine, failed, timer, alerted,
                 lock, evidence, history>>

\* It is killed, and perhaps the machine stops.
Dies(p) ==
  /\ pc[p] # "out" /\ Becomes(p, "out") /\ Holds(p, None, FALSE, FALSE, << >>, FALSE, FALSE)
  /\ running' = running \/ running' = files["cli"]
  /\ kills' = kills + 1
  /\ UNCHANGED <<approval, files, plugin, quarantine, failed, timer, alerted, lock, evidence,
                 defects, reads, operator, interruptions>>

\* It is interrupted.
Loses(p) ==
  /\ run[p].held /\ Becomes(p, pc[p])
  /\ Holds(p, run[p].release, run[p].held, FALSE, run[p].saved, run[p].broken, run[p].blame)
  /\ lock' \in {FALSE, lock} /\ interruptions' = interruptions + 1
  /\ UNCHANGED <<disk, evidence, defects, reads, operator, kills>>

\* The operator acts.
Operated ==
  /\ approval' \in Candidates /\ plugin' \in BOOLEAN /\ operator' = operator + 1
  /\ UNCHANGED <<files, running, quarantine, failed, timer, alerted, lock, pc, run, evidence,
                 defects, reads, kills, interruptions>>

Kind(p) ==
  \/ Ends(p) \/ Begins(p) \/ Locks(p) \/ Enters(p) \/ Advances(p) \/ Fails(p) \/ BacksUp(p)
  \/ Replaces(p) \/ Completes(p) \/ RollsBack(p) \/ Isolates(p)
  \/ PutsBack(p, "restore_service", "service", "restore_cli")
  \/ PutsBack(p, "restore_cli", "cli", "restore_version")
  \/ PutsBack(p, "restore_version", "version", "restart")
  \/ Restarts(p) \/ Dies(p) \/ Loses(p)
-----------------------------------------------------------------------------
\* The record of a process: its fields, and what replacing one gives.
LEMMA NoRunFields ==
  /\ NoRun \in Run
  /\ NoRun.release = None /\ NoRun.held = FALSE /\ NoRun.tmp = FALSE
  /\ NoRun.broken = FALSE /\ NoRun.blame = FALSE /\ NoRun.saved = << >>
BY SMT DEF NoRun, Run

\* The fields of a record are of their types.
LEMMA RunFields ==
  ASSUME NEW x \in Run
  PROVE  /\ x.release \in Candidates \cup {None} /\ x.held \in BOOLEAN /\ x.tmp \in BOOLEAN
         /\ x.saved \in Seq(Backup) /\ x.broken \in BOOLEAN /\ x.blame \in BOOLEAN
BY DEF Run

\* A process becomes what it is made to be, and no other one does.
LEMMA Made ==
  ASSUME TypeOK, NEW p \in Runs, NEW l \in Labels, NEW x \in Run,
         Goto(p, l), run' = [run EXCEPT ![p] = x]
  PROVE  /\ Becomes(p, l)
         /\ Holds(p, x.release, x.held, x.tmp, x.saved, x.broken, x.blame)
BY DEF TypeOK, Goto, Becomes, Holds

\* A process that only goes on keeps what it holds.
LEMMA Moved ==
  ASSUME TypeOK, NEW p \in Runs, NEW l \in Labels, Goto(p, l), UNCHANGED run
  PROVE  Becomes(p, l) /\ Keeps(p)
BY DEF TypeOK, Goto, Becomes, Keeps, Holds

\* One field is replaced: the release,
LEMMA NewRelease ==
  ASSUME TypeOK, NEW p \in Runs, NEW l \in Labels, NEW v \in Candidates,
         Goto(p, l), run' = [run EXCEPT ![p].release = v]
  PROVE  /\ Becomes(p, l)
         /\ Holds(p, v, run[p].held, run[p].tmp, run[p].saved, run[p].broken, run[p].blame)
<1> DEFINE x == [run[p] EXCEPT !.release = v]
<1>1. /\ x \in Run /\ x.release = v /\ x.held = run[p].held /\ x.tmp = run[p].tmp
      /\ x.saved = run[p].saved /\ x.broken = run[p].broken /\ x.blame = run[p].blame
  BY DEF TypeOK, Run
<1>2. run' = [run EXCEPT ![p] = x]
  OBVIOUS
<1>3. QED
  <2> HIDE DEF x
  <2> QED BY <1>1, <1>2, Made

\* the lock it holds,
LEMMA NewHeld ==
  ASSUME TypeOK, NEW p \in Runs, NEW l \in Labels, NEW v \in BOOLEAN,
         Goto(p, l), run' = [run EXCEPT ![p].held = v]
  PROVE  /\ Becomes(p, l)
         /\ Holds(p, run[p].release, v, run[p].tmp, run[p].saved, run[p].broken, run[p].blame)
<1> DEFINE x == [run[p] EXCEPT !.held = v]
<1>1. /\ x \in Run /\ x.held = v
      /\ x.release = run[p].release
      /\ x.tmp = run[p].tmp
      /\ x.saved = run[p].saved
      /\ x.broken = run[p].broken
      /\ x.blame = run[p].blame
  BY DEF TypeOK, Run
<1>2. run' = [run EXCEPT ![p] = x]
  OBVIOUS
<1>3. QED
  <2> HIDE DEF x
  <2> QED BY <1>1, <1>2, Made

\* its temporary directory,
LEMMA NewTmp ==
  ASSUME TypeOK, NEW p \in Runs, NEW l \in Labels, NEW v \in BOOLEAN,
         Goto(p, l), run' = [run EXCEPT ![p].tmp = v]
  PROVE  /\ Becomes(p, l)
         /\ Holds(p, run[p].release, run[p].held, v, run[p].saved, run[p].broken, run[p].blame)
<1> DEFINE x == [run[p] EXCEPT !.tmp = v]
<1>1. /\ x \in Run /\ x.tmp = v
      /\ x.release = run[p].release
      /\ x.held = run[p].held
      /\ x.saved = run[p].saved
      /\ x.broken = run[p].broken
      /\ x.blame = run[p].blame
  BY DEF TypeOK, Run
<1>2. run' = [run EXCEPT ![p] = x]
  OBVIOUS
<1>3. QED
  <2> HIDE DEF x
  <2> QED BY <1>1, <1>2, Made

\* its backups,
LEMMA NewSaved ==
  ASSUME TypeOK, NEW p \in Runs, NEW l \in Labels, NEW v \in Seq(Backup),
         Goto(p, l), run' = [run EXCEPT ![p].saved = v]
  PROVE  /\ Becomes(p, l)
         /\ Holds(p, run[p].release, run[p].held, run[p].tmp, v, run[p].broken, run[p].blame)
<1> DEFINE x == [run[p] EXCEPT !.saved = v]
<1>1. /\ x \in Run /\ x.saved = v
      /\ x.release = run[p].release
      /\ x.held = run[p].held
      /\ x.tmp = run[p].tmp
      /\ x.broken = run[p].broken
      /\ x.blame = run[p].blame
  BY DEF TypeOK, Run
<1>2. run' = [run EXCEPT ![p] = x]
  OBVIOUS
<1>3. QED
  <2> HIDE DEF x
  <2> QED BY <1>1, <1>2, Made

\* whether its updater failed,
LEMMA NewBroken ==
  ASSUME TypeOK, NEW p \in Runs, NEW l \in Labels, NEW v \in BOOLEAN,
         Goto(p, l), run' = [run EXCEPT ![p].broken = v]
  PROVE  /\ Becomes(p, l)
         /\ Holds(p, run[p].release, run[p].held, run[p].tmp, run[p].saved, v, run[p].blame)
<1> DEFINE x == [run[p] EXCEPT !.broken = v]
<1>1. /\ x \in Run /\ x.broken = v
      /\ x.release = run[p].release
      /\ x.held = run[p].held
      /\ x.tmp = run[p].tmp
      /\ x.saved = run[p].saved
      /\ x.blame = run[p].blame
  BY DEF TypeOK, Run
<1>2. run' = [run EXCEPT ![p] = x]
  OBVIOUS
<1>3. QED
  <2> HIDE DEF x
  <2> QED BY <1>1, <1>2, Made

\* whom a rollback blames.
LEMMA NewBlame ==
  ASSUME TypeOK, NEW p \in Runs, NEW l \in Labels, NEW v \in BOOLEAN,
         Goto(p, l), run' = [run EXCEPT ![p].blame = v]
  PROVE  /\ Becomes(p, l)
         /\ Holds(p, run[p].release, run[p].held, run[p].tmp, run[p].saved, run[p].broken, v)
<1> DEFINE x == [run[p] EXCEPT !.blame = v]
<1>1. /\ x \in Run /\ x.blame = v
      /\ x.release = run[p].release
      /\ x.held = run[p].held
      /\ x.tmp = run[p].tmp
      /\ x.saved = run[p].saved
      /\ x.broken = run[p].broken
  BY DEF TypeOK, Run
<1>2. run' = [run EXCEPT ![p] = x]
  OBVIOUS
<1>3. QED
  <2> HIDE DEF x
  <2> QED BY <1>1, <1>2, Made

\* A run that exits has no record any more and gives back the lock it holds.
LEMMA Exited ==
  ASSUME TypeOK, NEW p \in Runs, Exit(p)
  PROVE  /\ Becomes(p, "out") /\ Holds(p, None, FALSE, FALSE, << >>, FALSE, FALSE)
         /\ run[p].held => lock' = FALSE
         /\ ~run[p].held => lock' = lock
<1>1. "out" \in Labels
  BY DEF Labels
<1>2. Becomes(p, "out") /\ Holds(p, None, FALSE, FALSE, << >>, FALSE, FALSE)
  BY <1>1, NoRunFields, Made DEF Exit
<1>3. /\ run[p].held => lock' = FALSE
      /\ ~run[p].held => lock' = lock
  BY Zenon DEF Exit
<1>4. QED
  BY <1>2, <1>3
-----------------------------------------------------------------------------
\* A verdict that accepts has found none of the defects of what runs.
LEMMA Accepted ==
  ASSUME TypeOK, NEW p \in Runs, NEW phase, NEW r, NEW a,
         NEW v \in Results(p, phase, r, a), v.rc = 0
  PROVE  defects[running] = {}
<1>1. run[p].tmp
  BY DEF Results
<1>2. PICK f \in Findings(r, a) : v = Verify(phase, f)
  BY <1>1 DEF Results
<1>3. defects[running] \subseteq f
  BY DEF Findings
<1>4. {i \in DOMAIN Checks : Checks[i].name \in f} = {}
  BY <1>2 DEF Verify
<1>5. defects[running] \subseteq Names
  BY WrapperAssumption DEF TypeOK
<1>6. QED
  BY <1>3, <1>4, <1>5 DEF Names

\* Sequences of anything: short ones, and two joined.
IsSeq(s) == \E S : s \in Seq(S)

\* A few things in a row are a sequence.
LEMMA Short ==
  ASSUME NEW a, NEW b, NEW c
  PROVE  IsSeq(<< a >>) /\ IsSeq(<< a, b >>) /\ IsSeq(<< a, b, c >>)
<1>1. /\ << a >> \in Seq({a, b, c}) /\ << a, b >> \in Seq({a, b, c})
      /\ << a, b, c >> \in Seq({a, b, c})
  OBVIOUS
<1>2. QED
  BY ONLY <1>1 DEF IsSeq

\* So are five or six.
LEMMA Longer ==
  ASSUME NEW a, NEW b, NEW c, NEW d, NEW e, NEW f
  PROVE  IsSeq(<< a, b, c, d, e >>) /\ IsSeq(<< a, b, c, d, e, f >>)
<1>1. /\ << a, b, c, d, e >> \in Seq({a, b, c, d, e, f})
      /\ << a, b, c, d, e, f >> \in Seq({a, b, c, d, e, f})
  OBVIOUS
<1>2. QED
  BY ONLY <1>1 DEF IsSeq

\* Two sequences joined are one that begins with the first.
LEMMA Joined ==
  ASSUME NEW s, NEW t, IsSeq(s), IsSeq(t)
  PROVE  /\ IsSeq(s \o t)
         /\ \A i \in DOMAIN s : i \in DOMAIN (s \o t) /\ (s \o t)[i] = s[i]
<1>1. PICK S : s \in Seq(S)
  BY DEF IsSeq
<1>2. PICK T : t \in Seq(T)
  BY DEF IsSeq
<1>3. s \in Seq(S \cup T) /\ t \in Seq(S \cup T)
  BY ONLY <1>1, <1>2
<1>4. s \o t \in Seq(S \cup T)
  BY ONLY <1>3
<1>5. \A i \in DOMAIN s : i \in DOMAIN (s \o t) /\ (s \o t)[i] = s[i]
  BY ONLY <1>3
<1>6. QED
  BY ONLY <1>4, <1>5 DEF IsSeq

\* The third of the checks is whether the verifier can read the approval.
LEMMA ReadsApproval ==
  3 \in DOMAIN Checks /\ Checks[3].name = <<"approval_invalid">>
<1>1. DOMAIN InputChecks = 1..11 /\ InputChecks[3].name = <<"approval_invalid">>
  BY DEF InputChecks, Blocks, Check
<1>2. IsSeq(InputChecks)
  <2>1. InputChecks = [i \in 1..11 |-> InputChecks[i]]
    BY <1>1 DEF InputChecks
  <2>2. InputChecks \in Seq({InputChecks[i] : i \in 1..11})
    BY ONLY <2>1
  <2>3. QED
    BY ONLY <2>2 DEF IsSeq
<1>3. \A n, c : IsSeq(Request(n, c))
  BY Short DEF Request
<1>4. \A s : IsSeq(StatusChecks(s))
  BY Longer DEF StatusChecks
<1>5. IsSeq(ServiceChecks)
  <2>1. IsSeq(<<Blocks("artifact_read_failed"), Blames("architecture_mismatch"),
                Blames("cli_hash_mismatch"), Blames("plugin_hash_mismatch"),
                Blames("core_unavailable")>>)
    BY ONLY Longer
  <2>2. /\ IsSeq(<<Blames("plugin_missing"), Blames("plugin_not_registered"),
                   Blames("plugin_not_effective")>>)
        /\ IsSeq(<<Check(<<"config_parse">>, "config_invalid", FALSE)>>)
    BY ONLY Short
  <2>3. QED
    BY ONLY <1>3, <2>1, <2>2, Joined DEF ServiceChecks
<1>6. IsSeq(RuntimeChecks)
  <2>1. /\ IsSeq(<<Blames("plugin_version_mismatch"), Blocks("config_race"),
                   Blocks("config_digest_mismatch")>>)
        /\ IsSeq(<<Blames("fixture_mismatch"), Check(<<"result">>, "self_test_failed", FALSE)>>)
    BY ONLY Short
  <2>2. QED
    BY ONLY <1>4, <2>1, Joined DEF RuntimeChecks
<1>7. QED
  <2>1. /\ IsSeq(InputChecks \o ServiceChecks)
        /\ 3 \in DOMAIN (InputChecks \o ServiceChecks)
        /\ (InputChecks \o ServiceChecks)[3] = InputChecks[3]
    <3>1. 3 \in DOMAIN InputChecks
      BY ONLY <1>1
    <3>2. QED
      BY ONLY <3>1, <1>2, <1>5, Joined
  <2>2. 3 \in DOMAIN Checks /\ Checks[3] = InputChecks[3]
    BY ONLY <2>1, <1>6, Joined DEF Checks
  <2>3. QED
    BY <1>1, <2>2

\* With schema 2 the verifier accepts nothing.
LEMMA Refused ==
  ASSUME reads = 2, NEW p \in Runs, NEW r, NEW a, NEW v \in Results(p, "preflight", r, a)
  PROVE  v.rc # 0
<1>1. CASE ~run[p].tmp
  BY <1>1 DEF Results
<1>2. CASE run[p].tmp
  <2>1. PICK f \in Findings(r, a) : v = Verify("preflight", f)
    BY <1>2 DEF Results
  <2>2. <<"approval_invalid">> \in f
    BY <2>1 DEF Findings
  <2>3. 3 \in {i \in DOMAIN Checks : Checks[i].name \in f}
    BY <2>2, ReadsApproval
  <2>4. QED
    BY <2>1, <2>3 DEF Verify
<1>3. QED
  BY <1>1, <1>2
-----------------------------------------------------------------------------
\* Every step is of one of the kinds.
LEMMA Quits ==
  ASSUME TypeOK, NEW p \in Runs, Exit(p), pc[p] # "isolated",
         UNCHANGED <<approval, files, running, plugin, quarantine>>, UNCHANGED history,
         evidence \subseteq evidence', evidence' \subseteq Candidates,
         timer' \in BOOLEAN, alerted' \in BOOLEAN, alerted => alerted',
         \/ failed' \in {failed, Garbled}
         \/ failed' = run[p].release /\ (~alerted' => run[p].release \in evidence'),
         ~alerted' /\ interruptions = 0 =>
           \/ pc[p] \in {"out", "locking", "isolating", "verifying"} \cup Untouched
           \/ pc[p] = "postinstall" /\ defects[running] = {}
  PROVE  Ends(p)
BY Exited DEF Ends, history

\* die ends a run, where the host is whole.
LEMMA DieEnds ==
  ASSUME TypeOK, NEW p \in Runs, Die(p), UNCHANGED history, pc[p] # "isolated",
         interruptions = 0 =>
           pc[p] \in {"out", "locking", "isolating", "verifying"} \cup Untouched
  PROVE  Ends(p)
<1>1. /\ Exit(p) /\ timer' = timer /\ alerted' = alerted /\ failed' = failed
      /\ evidence' = evidence
      /\ UNCHANGED <<approval, files, running, plugin, quarantine>>
  BY DEF Die, disk
<1>2. QED
  BY <1>1, Quits DEF TypeOK

\* After an alert the timer is off, or as it was.
LEMMA Called ==
  ASSUME TypeOK, CallOperator
  PROVE  timer' \in BOOLEAN /\ alerted' = TRUE
<1>1. timer \in BOOLEAN
  BY DEF TypeOK
<1>2. timer' = FALSE \/ timer' = timer
  BY DEF CallOperator
<1>3. CASE timer' = FALSE
  BY <1>3 DEF CallOperator
<1>4. CASE timer' = timer
  BY <1>1, <1>4, Zenon DEF CallOperator
<1>5. QED
  BY <1>2, <1>3, <1>4

\* So does die after record_failed_fingerprint.
LEMMA RejectEnds ==
  ASSUME TypeOK, Holding, NEW p \in Runs, Reject(p), UNCHANGED history,
         pc[p] \in {"fetching", "probing"}
  PROVE  Ends(p)
<1>1. run[p].release \in Candidates
  BY DEF Holding
<1>2. QED
  BY <1>1, Quits DEF Reject, TypeOK, Untouched

\* So do exit 4 and rollback_failure, which call somebody.
LEMMA FailureEnds ==
  ASSUME TypeOK, NEW p \in Runs, RollbackFailure(p) \/ GiveUp(p), UNCHANGED history,
         pc[p] # "isolated"
  PROVE  Ends(p)
<1>1. /\ Exit(p) /\ CallOperator /\ failed' \in {run[p].release, failed, Garbled}
      /\ UNCHANGED <<approval, files, running, plugin, quarantine, evidence>>
  BY DEF RollbackFailure, GiveUp, Recordings
<1>2. timer' \in BOOLEAN /\ alerted' = TRUE
  BY <1>1, Called
<1>3. evidence \subseteq evidence' /\ evidence' \subseteq Candidates
  BY <1>1 DEF TypeOK
<1>4. QED
  BY <1>1, <1>2, <1>3, Quits

\* rollback_candidate begins, with a backup there and a ground for the blame.
LEMMA RollBackRolls ==
  ASSUME TypeOK, NEW p \in Runs, NEW b \in BOOLEAN, RollBack(p, b), UNCHANGED history,
         pc[p] \in Installed, Len(run[p].saved) = 1, b => run[p].release \in evidence',
         evidence \subseteq evidence', evidence' \subseteq Candidates
  PROVE  RollsBack(p)
<1>1. "restore_service" \in Labels
  BY DEF Labels
<1>2. /\ Becomes(p, "restore_service")
      /\ Holds(p, run[p].release, run[p].held, run[p].tmp, run[p].saved, run[p].broken, b)
  BY <1>1, NewBlame DEF RollBack
<1>3. QED
  BY <1>2 DEF RollBack, RollsBack, disk, history

\* The start of a run.
LEMMA StartKind ==
  ASSUME TypeOK, Holding, NEW p \in Runs, Start(p), UNCHANGED history
  PROVE  Kind(p)
<1>1. pc[p] = "out"
  BY DEF Start
<1>2. CASE plugin
  <2>1. /\ Goto(p, "locking") /\ run' = [run EXCEPT ![p].release = approval]
        /\ UNCHANGED <<disk, lock, evidence>>
    BY <1>2, Zenon DEF Start
  <2>2. approval \in Candidates /\ "locking" \in Labels
    BY DEF TypeOK, Labels
  <2>3. Begins(p)
    BY <1>1, <2>1, <2>2, NewRelease DEF Begins
  <2>4. QED
    BY <2>3 DEF Kind
<1>3. CASE ~plugin
  <2>1. Die(p)
    BY <1>3, Zenon DEF Start
  <2>2. Ends(p)
    BY <1>1, <2>1, DieEnds
  <2>3. QED
    BY <2>2 DEF Kind
<1>4. QED
  BY <1>2, <1>3

\* mkdir lock_dir.
LEMMA LockKind ==
  ASSUME TypeOK, Holding, NEW p \in Runs, Lock(p), UNCHANGED history
  PROVE  Kind(p)
<1>1. pc[p] = "locking"
  BY DEF Lock
<1>2. CASE Die(p)
  BY <1>1, <1>2, DieEnds DEF Kind
<1>3. CASE ~Die(p)
  <2>1. /\ ~lock /\ lock' = TRUE /\ run' = [run EXCEPT ![p].held = TRUE]
        /\ Goto(p, "checking") /\ UNCHANGED <<disk, evidence>>
    BY <1>3, Zenon DEF Lock
  <2>2. lock = FALSE /\ "checking" \in Labels
    BY <2>1 DEF TypeOK, Labels
  <2>3. Locks(p)
    BY <1>1, <2>1, <2>2, NewHeld DEF Locks
  <2>4. QED
    BY <2>3 DEF Kind
<1>4. QED
  BY <1>2, <1>3

\* The failed fingerprint.
LEMMA SkipKind ==
  ASSUME TypeOK, Holding, NEW p \in Runs, Skip(p), UNCHANGED history
  PROVE  Kind(p)
<1>1. pc[p] = "checking"
  BY DEF Skip
<1>2. CASE Die(p)
  BY <1>1, <1>2, DieEnds DEF Untouched, Kind
<1>3. CASE ~Die(p)
  <2>1. /\ run' = [run EXCEPT ![p].tmp = TRUE] /\ Goto(p, "fetching")
        /\ UNCHANGED <<disk, lock, evidence>>
    BY <1>3 DEF Skip
  <2>2. "fetching" \in Labels
    BY DEF Labels
  <2>3. Enters(p)
    BY <1>1, <2>1, <2>2, NewTmp DEF Enters
  <2>4. QED
    BY <2>3 DEF Kind
<1>4. QED
  BY <1>2, <1>3

\* A run goes on.
LEMMA StepAdvances ==
  ASSUME TypeOK, NEW p \in Runs, NEW l \in Labels, Step(p, l), UNCHANGED history,
         \/ pc[p] = "fetching" /\ l = "preflight"
         \/ pc[p] = "preflight" /\ l = "probing" /\ reads # 2
         \/ pc[p] = "probing" /\ l = "backup"
         \/ pc[p] = "resolving" /\ l = "postinstall" /\ Len(run[p].saved) = 1 /\ ~run[p].broken
  PROVE  Advances(p)
<1>1. Goto(p, l) /\ UNCHANGED <<disk, lock, run, evidence>>
  BY DEF Step
<1>2. Becomes(p, l) /\ Keeps(p)
  BY <1>1, Moved
<1>3. UNCHANGED <<disk, lock, history>> /\ evidence \subseteq evidence'
      /\ evidence' \subseteq Candidates
  BY <1>1 DEF TypeOK
<1>4. QED
  BY <1>2, <1>3 DEF Advances

\* The fetch.
LEMMA FetchKind ==
  ASSUME TypeOK, Holding, NEW p \in Runs, Fetch(p), UNCHANGED history
  PROVE  Kind(p)
<1>1. pc[p] = "fetching" /\ "preflight" \in Labels
  BY DEF Fetch, Labels
<1>2. CASE Die(p)
  BY <1>1, <1>2, DieEnds DEF Untouched, Kind
<1>3. CASE Reject(p)
  BY <1>1, <1>3, RejectEnds DEF Kind
<1>4. CASE Step(p, "preflight")
  BY <1>1, <1>4, StepAdvances DEF Kind
<1>5. QED
  BY <1>2, <1>3, <1>4 DEF Fetch

\* The preflight, which schema 2 never passes.
LEMMA PreflightKind ==
  ASSUME TypeOK, Holding, NEW p \in Runs, Preflight(p), UNCHANGED history
  PROVE  Kind(p)
<1>1. pc[p] = "preflight" /\ "probing" \in Labels
  BY DEF Preflight, Labels
<1>2. PICK v \in Results(p, "preflight", run[p].release, approval) :
        IF v.rc # 0 THEN Die(p) ELSE Step(p, "probing")
  BY DEF Preflight
<1>3. CASE v.rc # 0
  BY <1>1, <1>2, <1>3, DieEnds DEF Untouched, Kind
<1>4. CASE v.rc = 0
  <2>1. reads # 2
    BY <1>2, <1>4, Refused
  <2>2. Advances(p)
    BY <1>1, <1>2, <1>4, <2>1, StepAdvances
  <2>3. QED
    BY <2>2 DEF Kind
<1>5. QED
  BY <1>3, <1>4

\* compat-probe.
LEMMA ProbeKind ==
  ASSUME TypeOK, Holding, NEW p \in Runs, Probe(p), UNCHANGED history
  PROVE  Kind(p)
<1>1. pc[p] = "probing" /\ "backup" \in Labels
  BY DEF Probe, Labels
<1>2. CASE Reject(p)
  BY <1>1, <1>2, RejectEnds DEF Kind
<1>3. CASE Die(p)
  BY <1>1, <1>3, DieEnds DEF Untouched, Kind
<1>4. CASE Step(p, "backup")
  BY <1>1, <1>4, StepAdvances DEF Kind
<1>5. QED
  BY <1>2, <1>3, <1>4 DEF Probe

\* The host's updater.
LEMMA UpdaterKind ==
  ASSUME TypeOK, Holding, NEW p \in Runs, UNCHANGED history,
         \/ UpdaterFails(p) \/ \E n \in 0..2 : UpdaterBackup(p, n)
         \/ UpdaterReplace(p) \/ UpdaterDone(p)
  PROVE  Kind(p)
<1>1. CASE UpdaterFails(p)
  <2>1. /\ pc[p] \in {"backup", "replacing", "restarting"} /\ Goto(p, "resolving")
        /\ run' = [run EXCEPT ![p].broken = TRUE]
        /\ evidence' = evidence \cup {run[p].release}
        /\ UNCHANGED <<disk, lock, history>>
    BY <1>1 DEF UpdaterFails
  <2>2. "resolving" \in Labels /\ run[p].release \in Candidates
    BY <2>1 DEF Labels, Holding
  <2>3. evidence \subseteq evidence' /\ evidence' \subseteq Candidates
        /\ run[p].release \in evidence'
    BY <2>1, <2>2 DEF TypeOK
  <2>4. /\ Becomes(p, "resolving")
        /\ Holds(p, run[p].release, run[p].held, run[p].tmp, run[p].saved, TRUE, run[p].blame)
    BY <2>1, <2>2, NewBroken
  <2>5. QED
    BY <2>1, <2>3, <2>4 DEF Fails, Kind
<1>2. ASSUME NEW n \in 0..2, UpdaterBackup(p, n)
      PROVE  Kind(p)
  <2>1. /\ pc[p] = "backup" /\ Goto(p, "replacing")
        /\ run' = [run EXCEPT ![p].saved = [i \in 1..n |-> files]]
        /\ UNCHANGED <<disk, lock, evidence, history>>
    BY <1>2 DEF UpdaterBackup
  <2>2. "replacing" \in Labels /\ [i \in 1..n |-> files] \in Seq(Backup)
    BY DEF Labels, TypeOK
  <2>3. /\ Becomes(p, "replacing")
        /\ Holds(p, run[p].release, run[p].held, run[p].tmp, [i \in 1..n |-> files],
                 run[p].broken, run[p].blame)
    BY <2>1, <2>2, NewSaved
  <2>4. BacksUp(p)
    BY <2>1, <2>3 DEF BacksUp
  <2>5. QED
    BY <2>4 DEF Kind
<1>3. CASE UpdaterReplace(p)
  <2>1. /\ pc[p] = "replacing" /\ Goto(p, "restarting") /\ UNCHANGED run
        /\ files' = [files EXCEPT !["cli"] = run[p].release]
        /\ UNCHANGED <<approval, running, plugin, quarantine, failed, timer, alerted,
                 lock, evidence, history>>
    BY <1>3 DEF UpdaterReplace
  <2>2. "restarting" \in Labels /\ run[p].release \in Candidates
    BY <2>1 DEF Labels, Holding
  <2>3. files' \in Backup /\ files'["cli"] = run[p].release
    BY <2>1, <2>2 DEF TypeOK, Backup, Files, Releases
  <2>4. QED
    BY <2>1, <2>2, <2>3, Moved DEF Replaces, Kind
<1>4. CASE UpdaterDone(p)
  <2>1. /\ pc[p] = "restarting" /\ Goto(p, "resolving") /\ UNCHANGED run
        /\ files' = [f \in Files |-> run[p].release] /\ running' = run[p].release
        /\ UNCHANGED <<approval, plugin, quarantine, failed, timer, alerted,
                 lock, evidence, history>>
    BY <1>4 DEF UpdaterDone
  <2>2. "resolving" \in Labels /\ run[p].release \in Candidates
    BY <2>1 DEF Labels, Holding
  <2>3. files' \in Backup /\ \A f \in Files : files'[f] = run[p].release
    BY <2>1, <2>2 DEF Backup, Releases
  <2>4. QED
    BY <2>1, <2>2, <2>3, Moved DEF Completes, Kind
<1>5. QED
  BY <1>1, <1>2, <1>3, <1>4

\* resolve_new_backup_directory.
LEMMA ResolveKind ==
  ASSUME TypeOK, Holding, Blamed, NEW p \in Runs, Resolve(p), UNCHANGED history
  PROVE  Kind(p)
<1>1. pc[p] = "resolving"
  BY DEF Resolve
<1>2. CASE ~run[p].tmp
  <2>1. Die(p)
    BY <1>2, Zenon DEF Resolve
  <2>2. interruptions # 0
    BY <1>1, <1>2 DEF Holding
  <2>3. QED
    BY <1>1, <2>1, <2>2, DieEnds DEF Kind
<1>3. CASE run[p].tmp /\ Len(run[p].saved) # 1
  <2>1. GiveUp(p)
    BY <1>3, Zenon DEF Resolve
  <2>2. QED
    BY <1>1, <2>1, FailureEnds DEF Kind
<1>4. CASE run[p].tmp /\ Len(run[p].saved) = 1 /\ run[p].broken
  <2>1. RollBack(p, TRUE) /\ UNCHANGED evidence
    BY <1>4, Zenon DEF Resolve
  <2>2. run[p].release \in evidence' /\ evidence \subseteq evidence'
        /\ evidence' \subseteq Candidates
    BY <1>4, <2>1 DEF Blamed, TypeOK
  <2>3. RollsBack(p)
    BY <1>1, <1>4, <2>1, <2>2, RollBackRolls DEF Installed
  <2>4. QED
    BY <2>3 DEF Kind
<1>5. CASE run[p].tmp /\ Len(run[p].saved) = 1 /\ ~run[p].broken
  <2>1. Step(p, "postinstall")
    BY <1>5, Zenon DEF Resolve
  <2>2. Advances(p)
    BY <1>1, <1>5, <2>1, StepAdvances DEF Labels
  <2>3. QED
    BY <2>2 DEF Kind
<1>6. QED
  BY <1>2, <1>3, <1>4, <1>5

\* The verdict after an installation, in its three ways.
LEMMA PostinstallKind ==
  ASSUME TypeOK, Holding, NEW p \in Runs, Postinstall(p), UNCHANGED history
  PROVE  Kind(p)
<1>1. pc[p] = "postinstall" /\ run[p].release \in Candidates /\ Len(run[p].saved) = 1
  BY DEF Postinstall, Holding, Restoring
<1>2. PICK v \in Results(p, "postinstall", files["cli"], approval) :
        /\ evidence' = IF v.rc = 3 THEN evidence \cup {run[p].release} ELSE evidence
        /\ CASE v.rc = 0 -> Exit(p) /\ UNCHANGED disk
             [] v.rc = 3 /\ v.code \in PluginCodes /\ run[p].release \in Overrides ->
                  Goto(p, "isolating") /\ UNCHANGED <<disk, lock, run>>
             [] OTHER -> RollBack(p, v.rc = 3)
  BY DEF Postinstall
<1>3. evidence \subseteq evidence' /\ evidence' \subseteq Candidates
      /\ (v.rc = 3 => run[p].release \in evidence')
  BY <1>1, <1>2 DEF TypeOK
<1>4. CASE v.rc = 0
  <2>1. v.rc # 3
    BY <1>4
  <2>2. Exit(p) /\ UNCHANGED disk
    BY <1>2, <1>4, <2>1
  <2>3. defects[running] = {}
    BY <1>2, <1>4, Accepted
  <2>4. Ends(p)
    BY <1>1, <1>3, <2>2, <2>3, Quits DEF disk, TypeOK
  <2>5. QED
    BY <2>4 DEF Kind
<1>5. CASE v.rc = 3 /\ v.code \in PluginCodes /\ run[p].release \in Overrides
  <2>1. v.rc # 0
    BY <1>5
  <2>2. Goto(p, "isolating") /\ UNCHANGED <<disk, lock, run>>
    BY <1>2, <1>5, <2>1
  <2>3. Becomes(p, "isolating") /\ Keeps(p)
    BY <2>2, Moved DEF Labels
  <2>4. Advances(p)
    BY <1>1, <1>3, <1>5, <2>2, <2>3 DEF Advances
  <2>5. QED
    BY <2>4 DEF Kind
<1>6. CASE v.rc # 0 /\ ~(v.rc = 3 /\ v.code \in PluginCodes /\ run[p].release \in Overrides)
  <2>1. RollBack(p, v.rc = 3)
    BY <1>2, <1>6
  <2>2. (v.rc = 3) \in BOOLEAN
    OBVIOUS
  <2>3. RollsBack(p)
    BY <1>1, <1>3, <2>1, <2>2, RollBackRolls DEF Installed
  <2>4. QED
    BY <2>3 DEF Kind
<1>7. QED
  BY <1>4, <1>5, <1>6

\* apply_security_override up to its restart,
LEMMA IsolateKind ==
  ASSUME TypeOK, Holding, Blamed, NEW p \in Runs, Isolate(p), UNCHANGED history
  PROVE  Kind(p)
<1>1. pc[p] = "isolating" /\ Len(run[p].saved) = 1 /\ run[p].release \in evidence
  BY DEF Isolate, Holding, Blamed
<1>2. CASE RollBack(p, TRUE) /\ UNCHANGED evidence
  <2>1. RollsBack(p)
    BY <1>1, <1>2, RollBackRolls DEF Installed, TypeOK
  <2>2. QED
    BY <2>1 DEF Kind
<1>3. CASE Die(p)
  BY <1>1, <1>3, DieEnds DEF Kind
<1>4. CASE RollbackFailure(p)
  BY <1>1, <1>4, FailureEnds DEF Kind
<1>5. CASE /\ files["cli"] = run[p].release
           /\ plugin' = FALSE /\ quarantine' = quarantine \cup {run[p].release}
           /\ Goto(p, "isolated")
           /\ UNCHANGED <<approval, files, running, failed, timer, alerted, lock, run, evidence>>
  <2>1. Becomes(p, "isolated") /\ Keeps(p)
    BY <1>5, Moved DEF Labels
  <2>2. Isolates(p)
    BY <1>1, <1>5, <2>1 DEF Isolates
  <2>3. QED
    BY <2>2 DEF Kind
<1>6. QED
  BY <1>2, <1>3, <1>4, <1>5 DEF Isolate

\* and from there on.
LEMMA IsolatedKind ==
  ASSUME TypeOK, Holding, NEW p \in Runs, Isolated(p), UNCHANGED history
  PROVE  Kind(p)
<1>1. /\ pc[p] = "isolated" /\ running' = files["cli"] /\ Exit(p)
      /\ CallOperator \/ (timer' = timer /\ alerted' = alerted)
      /\ UNCHANGED <<approval, files, plugin, quarantine, failed, evidence>>
  BY DEF Isolated
<1>2. timer' \in BOOLEAN /\ alerted' \in BOOLEAN /\ (alerted => alerted')
  <2>1. CASE CallOperator
    BY <2>1, Called
  <2>2. CASE timer' = timer /\ alerted' = alerted
    BY <2>2, Zenon DEF TypeOK
  <2>3. QED
    BY <1>1, <2>1, <2>2
<1>3. Ends(p)
  BY <1>1, <1>2, Exited DEF Ends, history, TypeOK
<1>4. QED
  BY <1>3 DEF Kind

\* One file of the backup comes back.
LEMMA RestoreOne ==
  ASSUME TypeOK, Holding, NEW p \in Runs, UNCHANGED history,
         NEW l \in {"restore_service", "restore_cli", "restore_version"},
         NEW f \in Files, NEW next \in Labels, pc[p] = l, Goto(p, next),
         files' = [files EXCEPT ![f] = run[p].saved[1][f]],
         UNCHANGED <<approval, running, plugin, quarantine, failed, timer, alerted, lock,
                 run, evidence>>
  PROVE  PutsBack(p, l, f, next)
<1>1. Len(run[p].saved) = 1 /\ run[p].saved \in Seq(Backup)
  BY RunFields DEF Holding, Restoring, TypeOK
<1>2. run[p].saved[1] \in Backup
  BY <1>1
<1>3. files' \in Backup /\ files'[f] = run[p].saved[1][f]
      /\ \A g \in Files : g # f => files'[g] = files[g]
  BY <1>2 DEF TypeOK, Backup
<1>4. Becomes(p, next) /\ Keeps(p)
  BY Moved
<1>5. QED
  BY <1>3, <1>4 DEF PutsBack

\* rollback_candidate: the files, the restart and the last verdict.
LEMMA RestoreKind ==
  ASSUME TypeOK, Holding, Blamed, NEW p \in Runs, UNCHANGED history,
         Restore(p) \/ RestoreRestart(p) \/ RestoreVerify(p)
  PROVE  Kind(p)
<1>1. CASE pc[p] \in DOMAIN NextFile /\ RollbackFailure(p)
  <2>1. pc[p] # "isolated"
    BY <1>1 DEF NextFile
  <2>2. QED
    BY <1>1, <2>1, FailureEnds DEF Kind
<1>2. CASE /\ pc[p] \in DOMAIN NextFile
           /\ files' = [files EXCEPT ![FileOf[pc[p]]] = run[p].saved[1][FileOf[pc[p]]]]
           /\ Goto(p, NextFile[pc[p]])
           /\ UNCHANGED <<approval, running, plugin, quarantine, failed, timer, alerted, lock, run,
                          evidence>>
  <2>1. CASE pc[p] = "restore_service"
    <3>1. FileOf[pc[p]] = "service" /\ NextFile[pc[p]] = "restore_cli"
      BY <2>1 DEF FileOf, NextFile
    <3>2. PutsBack(p, "restore_service", "service", "restore_cli")
      BY <1>2, <2>1, <3>1, RestoreOne DEF Files, Labels
    <3>3. QED
      BY <3>2 DEF Kind
  <2>2. CASE pc[p] = "restore_cli"
    <3>1. FileOf[pc[p]] = "cli" /\ NextFile[pc[p]] = "restore_version"
      BY <2>2 DEF FileOf, NextFile
    <3>2. PutsBack(p, "restore_cli", "cli", "restore_version")
      BY <1>2, <2>2, <3>1, RestoreOne DEF Files, Labels
    <3>3. QED
      BY <3>2 DEF Kind
  <2>3. CASE pc[p] = "restore_version"
    <3>1. FileOf[pc[p]] = "version" /\ NextFile[pc[p]] = "restart"
      BY <2>3 DEF FileOf, NextFile
    <3>2. PutsBack(p, "restore_version", "version", "restart")
      BY <1>2, <2>3, <3>1, RestoreOne DEF Files, Labels
    <3>3. QED
      BY <3>2 DEF Kind
  <2>4. QED
    BY <1>2, <2>1, <2>2, <2>3 DEF NextFile
<1>3. CASE RestoreRestart(p)
  <2>1. pc[p] = "restart"
    BY <1>3 DEF RestoreRestart
  <2>2. CASE RollbackFailure(p)
    BY <2>1, <2>2, FailureEnds DEF Kind
  <2>3. CASE ~RollbackFailure(p)
    <3>1. /\ running' = files["cli"] /\ Goto(p, "verifying")
          /\ UNCHANGED <<approval, files, plugin, quarantine, failed, timer, alerted, lock,
                 run, evidence>>
      BY <1>3, <2>3 DEF RestoreRestart
    <3>2. Restarts(p)
      BY <2>1, <3>1, Moved DEF Restarts, Labels
    <3>3. QED
      BY <3>2 DEF Kind
  <2>4. QED
    BY <2>2, <2>3
<1>4. CASE RestoreVerify(p)
  <2>1. pc[p] = "verifying" /\ run[p].release \in Candidates
    BY <1>4 DEF RestoreVerify, Holding
  <2>2. CASE Die(p)
    BY <2>1, <2>2, DieEnds DEF Kind
  <2>3. CASE RollbackFailure(p)
    BY <2>1, <2>3, FailureEnds DEF Kind
  <2>4. CASE ~Die(p) /\ ~RollbackFailure(p)
    <3>1. /\ failed' \in (IF run[p].blame THEN {run[p].release, Garbled} ELSE {failed})
          /\ Exit(p)
          /\ UNCHANGED <<approval, files, running, plugin, quarantine, timer, alerted, evidence>>
      BY <1>4, <2>4 DEF RestoreVerify
    <3>2. \/ failed' \in {failed, Garbled}
          \/ failed' = run[p].release /\ run[p].release \in evidence'
      <4>1. run[p].blame => run[p].release \in evidence
        BY DEF Blamed
      <4>2. \/ failed' = failed \/ failed' = Garbled
            \/ failed' = run[p].release /\ run[p].blame
        BY <3>1
      <4>3. QED
        BY <3>1, <4>1, <4>2
    <3>3. timer' \in BOOLEAN /\ alerted' \in BOOLEAN /\ (alerted => alerted')
      BY <3>1, Zenon DEF TypeOK
    <3>4. evidence \subseteq evidence' /\ evidence' \subseteq Candidates
      BY <3>1 DEF TypeOK
    <3>5. Ends(p)
      BY <2>1, <3>1, <3>2, <3>3, <3>4, Quits
    <3>6. QED
      BY <3>5 DEF Kind
  <2>5. QED
    BY <2>2, <2>3, <2>4
<1>5. QED
  BY <1>1, <1>2, <1>3, <1>4 DEF Restore

\* A killed run.
LEMMA KillKind ==
  ASSUME TypeOK, NEW p \in Runs, Kill(p)
  PROVE  Kind(p)
<1>1. /\ pc[p] # "out" /\ kills' = kills + 1 /\ (running' = running \/ running' = files["cli"])
      /\ Goto(p, "out") /\ run' = [run EXCEPT ![p] = NoRun]
      /\ UNCHANGED <<approval, files, plugin, quarantine, failed, timer, alerted, lock, evidence,
                     defects, reads, operator, interruptions>>
  BY DEF Kill
<1>2. Becomes(p, "out") /\ Holds(p, None, FALSE, FALSE, << >>, FALSE, FALSE)
  BY <1>1, Made, NoRunFields DEF Labels
<1>3. QED
  BY <1>1, <1>2 DEF Dies, Kind

\* A signal, or the loss of the temporary directory.
LEMMA LossKind ==
  ASSUME TypeOK, NEW p \in Runs, Signal(p) \/ LoseDirectory(p)
  PROVE  Kind(p)
<1>1. /\ run[p].held /\ interruptions' = interruptions + 1 /\ lock' \in {FALSE, lock}
      /\ run' = [run EXCEPT ![p].tmp = FALSE] /\ UNCHANGED pc
      /\ UNCHANGED <<disk, evidence, defects, reads, operator, kills>>
  BY DEF Signal, LoseDirectory
<1>2. pc[p] \in Labels /\ Goto(p, pc[p])
  BY <1>1 DEF TypeOK, Goto
<1>3. /\ Becomes(p, pc[p])
      /\ Holds(p, run[p].release, run[p].held, FALSE, run[p].saved, run[p].broken,
               run[p].blame)
  BY <1>1, <1>2, NewTmp
<1>4. Loses(p)
  BY <1>1, <1>3 DEF Loses
<1>5. QED
  BY <1>4 DEF Kind

\* All steps together.
LEMMA Kinds ==
  ASSUME TypeOK, Holding, Blamed, [Next]_vars
  PROVE  UNCHANGED vars \/ (\E p \in Runs : Kind(p)) \/ Operated
<1>1. ASSUME NEW p \in Runs, Progress(p)
      PROVE  Kind(p)
  <2>1. UNCHANGED history
    BY <1>1 DEF Progress
  <2>2. CASE Lock(p) \/ Skip(p) \/ Fetch(p) \/ Preflight(p) \/ Probe(p)
    BY <2>1, <2>2, LockKind, SkipKind, FetchKind, PreflightKind, ProbeKind
  <2>3. CASE \/ UpdaterFails(p) \/ \E n \in 0..2 : UpdaterBackup(p, n)
             \/ UpdaterReplace(p) \/ UpdaterDone(p)
    BY <2>1, <2>3, UpdaterKind
  <2>4. CASE Resolve(p) \/ Postinstall(p) \/ Isolate(p) \/ Isolated(p)
    BY <2>1, <2>4, ResolveKind, PostinstallKind, IsolateKind, IsolatedKind
  <2>5. CASE Restore(p) \/ RestoreRestart(p) \/ RestoreVerify(p)
    BY <2>1, <2>5, RestoreKind
  <2>6. QED
    BY <1>1, <2>2, <2>3, <2>4, <2>5 DEF Progress
<1>2. ASSUME NEW r \in Candidates, Approve(r)
      PROVE  Operated
  BY <1>2 DEF Approve, Operates, Operated, TypeOK
<1>3. ASSUME Reinstall PROVE Operated
  BY <1>3 DEF Reinstall, Operates, Operated, TypeOK
<1>4. QED
  BY <1>1, <1>2, <1>3, StartKind, KillKind, LossKind DEF Next
-----------------------------------------------------------------------------
\* The invariant, part by part.
LEMMA TypeStep ==
  ASSUME TypeOK, Holding, Blamed, [Next]_vars
  PROVE  TypeOK'
<1> USE DEF TypeOK
<1>1. CASE UNCHANGED vars
  BY <1>1 DEF vars, disk, history
<1>2. CASE Operated
  BY <1>2 DEF Operated
<1>3. ASSUME NEW p \in Runs, Ends(p) PROVE TypeOK'
  <2>1. run[p].release \in Candidates \cup {None}
    BY RunFields
  <2>2. lock' \in BOOLEAN
    BY <1>3 DEF Ends
  <2>3. running' \in Releases
    BY <1>3 DEF Ends, Backup, Files
  <2>4. failed' \in Candidates \cup {None, Garbled}
    BY <1>3, <2>1 DEF Ends
  <2>5. QED
    BY <1>3, <2>2, <2>3, <2>4 DEF Ends, Becomes
<1>4. ASSUME NEW p \in Runs, Begins(p) PROVE TypeOK'
  BY <1>4 DEF Begins, Becomes, disk, history
<1>5. ASSUME NEW p \in Runs, Locks(p) PROVE TypeOK'
  BY <1>5 DEF Locks, Becomes, disk, history
<1>6. ASSUME NEW p \in Runs, Enters(p) PROVE TypeOK'
  BY <1>6 DEF Enters, Becomes, disk, history
<1>7. ASSUME NEW p \in Runs, Advances(p) PROVE TypeOK'
  BY <1>7 DEF Advances, Becomes, disk, history
<1>8. ASSUME NEW p \in Runs, Fails(p) PROVE TypeOK'
  BY <1>8 DEF Fails, Becomes, disk, history
<1>9. ASSUME NEW p \in Runs, BacksUp(p) PROVE TypeOK'
  BY <1>9 DEF BacksUp, Becomes, disk, history
<1>10. ASSUME NEW p \in Runs, Replaces(p) PROVE TypeOK'
  BY <1>10 DEF Replaces, Becomes, history
<1>11. ASSUME NEW p \in Runs, Completes(p) PROVE TypeOK'
  BY <1>11 DEF Completes, Becomes, Holding, Releases, history
<1>12. ASSUME NEW p \in Runs, RollsBack(p) PROVE TypeOK'
  BY <1>12 DEF RollsBack, Becomes, disk, history
<1>13. ASSUME NEW p \in Runs, Isolates(p) PROVE TypeOK'
  BY <1>13 DEF Isolates, Becomes, Holding, history
<1>14. ASSUME NEW p \in Runs, Restarts(p) PROVE TypeOK'
  BY <1>14 DEF Restarts, Becomes, Backup, Files, history
<1>15. ASSUME NEW p \in Runs, Dies(p) PROVE TypeOK'
  BY <1>15 DEF Dies, Becomes, Backup, Files
<1>16. ASSUME NEW p \in Runs, Loses(p) PROVE TypeOK'
  <2>1. /\ pc' \in [Runs -> Labels] /\ run' \in [Runs -> Run]
        /\ lock' \in {FALSE, lock} /\ interruptions' = interruptions + 1
    BY <1>16 DEF Loses, Becomes
  <2>2. UNCHANGED <<disk, evidence, defects, reads, operator, kills>>
    BY <1>16 DEF Loses
  <2>3. lock' \in BOOLEAN
    BY <2>1 DEF TypeOK
  <2>4. interruptions' \in Nat
    BY <2>1
  <2>5. QED
    BY <2>1, <2>2, <2>3, <2>4 DEF disk
<1>17. ASSUME NEW p \in Runs, NEW l, NEW f \in Files, NEW next, PutsBack(p, l, f, next),
            \/ l = "restore_service" /\ f = "service" /\ next = "restore_cli"
            \/ l = "restore_cli" /\ f = "cli" /\ next = "restore_version"
            \/ l = "restore_version" /\ f = "version" /\ next = "restart"
      PROVE  TypeOK'
  BY <1>17 DEF PutsBack, Becomes, history
<1>18. QED
  BY <1>1, <1>2, <1>3, <1>4, <1>5, <1>6, <1>7, <1>8, <1>9, <1>10,
     <1>11, <1>12, <1>13, <1>14, <1>15, <1>16, <1>17, Kinds DEF Kind, Files

\* What processes hold goes with their labels.
LEMMA HoldingStep ==
  ASSUME TypeOK, Holding, Blamed, [Next]_vars
  PROVE  Holding'
<1> USE DEF Holding, Untouched, Restoring
<1>1. CASE UNCHANGED vars
  BY <1>1 DEF vars, history
<1>2. CASE Operated
  BY <1>2 DEF Operated
<1>3. ASSUME NEW p \in Runs, Ends(p) PROVE Holding'
  BY <1>3 DEF Ends, Becomes, Holds
<1>4. ASSUME NEW p \in Runs, Begins(p) PROVE Holding'
  BY <1>4 DEF Begins, Becomes, Holds, history, TypeOK
<1>5. ASSUME NEW p \in Runs, Locks(p) PROVE Holding'
  BY <1>5 DEF Locks, Becomes, Holds, history
<1>6. ASSUME NEW p \in Runs, Enters(p) PROVE Holding'
  BY <1>6 DEF Enters, Becomes, Holds, history
<1>7. ASSUME NEW p \in Runs, Advances(p) PROVE Holding'
  BY <1>7 DEF Advances, Becomes, Holds, Keeps, history
<1>8. ASSUME NEW p \in Runs, Fails(p) PROVE Holding'
  BY <1>8 DEF Fails, Becomes, Holds, history
<1>9. ASSUME NEW p \in Runs, BacksUp(p) PROVE Holding'
  BY <1>9 DEF BacksUp, Becomes, Holds, history
<1>10. ASSUME NEW p \in Runs, Replaces(p) PROVE Holding'
  BY <1>10 DEF Replaces, Becomes, Holds, Keeps, history
<1>11. ASSUME NEW p \in Runs, Completes(p) PROVE Holding'
  BY <1>11 DEF Completes, Becomes, Holds, Keeps, history
<1>12. ASSUME NEW p \in Runs, RollsBack(p) PROVE Holding'
  <2>1. /\ pc[p] \in Installed /\ pc'[p] = "restore_service" /\ interruptions' = interruptions
        /\ run'[p].release = run[p].release /\ run'[p].held = run[p].held
        /\ run'[p].tmp = run[p].tmp /\ run'[p].saved = run[p].saved /\ Len(run[p].saved) = 1
        /\ \A q \in Runs : q # p => pc'[q] = pc[q] /\ run'[q] = run[q]
    BY <1>12 DEF RollsBack, Becomes, Holds, history
  <2>2. QED
    BY <2>1 DEF Installed
<1>13. ASSUME NEW p \in Runs, Isolates(p) PROVE Holding'
  BY <1>13 DEF Isolates, Becomes, Holds, Keeps, history
<1>14. ASSUME NEW p \in Runs, Restarts(p) PROVE Holding'
  BY <1>14 DEF Restarts, Becomes, Holds, Keeps, history
<1>15. ASSUME NEW p \in Runs, Dies(p) PROVE Holding'
  BY <1>15 DEF Dies, Becomes, Holds
<1>16. ASSUME NEW p \in Runs, Loses(p) PROVE Holding'
  <2>1. /\ pc'[p] = pc[p] /\ interruptions' # 0
        /\ run'[p].release = run[p].release /\ run'[p].held = run[p].held
        /\ run'[p].saved = run[p].saved /\ run'[p].broken = run[p].broken
        /\ run'[p].blame = run[p].blame
        /\ \A q \in Runs : q # p => pc'[q] = pc[q] /\ run'[q] = run[q]
    BY <1>16 DEF Loses, Becomes, Holds, TypeOK
  <2>2. QED
    BY <2>1
<1>17. ASSUME NEW p \in Runs, NEW l, NEW f \in Files, NEW next, PutsBack(p, l, f, next),
            \/ l = "restore_service" /\ f = "service" /\ next = "restore_cli"
            \/ l = "restore_cli" /\ f = "cli" /\ next = "restore_version"
            \/ l = "restore_version" /\ f = "version" /\ next = "restart"
      PROVE  Holding'
  BY <1>17 DEF PutsBack, Becomes, Holds, Keeps, history
<1>18. QED
  BY <1>1, <1>2, <1>3, <1>4, <1>5, <1>6, <1>7, <1>8, <1>9, <1>10,
     <1>11, <1>12, <1>13, <1>14, <1>15, <1>16, <1>17, Kinds DEF Kind, Files

\* The lock has its one holder.
LEMMA LockStep ==
  ASSUME TypeOK, Holding, Locked, Blamed, [Next]_vars
  PROVE  Locked'
<1> USE DEF Locked
<1>1. CASE UNCHANGED vars
  BY <1>1 DEF vars, history
<1>2. CASE Operated
  BY <1>2 DEF Operated
<1>3. ASSUME NEW p \in Runs, Ends(p) PROVE Locked'
  BY <1>3 DEF Ends, Becomes, Holds
<1>4. ASSUME NEW p \in Runs, Begins(p) PROVE Locked'
  BY <1>4 DEF Begins, Becomes, Holds, history
<1>5. ASSUME NEW p \in Runs, Locks(p) PROVE Locked'
  BY <1>5 DEF Locks, Becomes, Holds, history
<1>6. ASSUME NEW p \in Runs, Enters(p) PROVE Locked'
  BY <1>6 DEF Enters, Becomes, Holds, history
<1>7. ASSUME NEW p \in Runs, Advances(p) PROVE Locked'
  BY <1>7 DEF Advances, Becomes, Holds, Keeps, history
<1>8. ASSUME NEW p \in Runs, Fails(p) PROVE Locked'
  BY <1>8 DEF Fails, Becomes, Holds, history
<1>9. ASSUME NEW p \in Runs, BacksUp(p) PROVE Locked'
  BY <1>9 DEF BacksUp, Becomes, Holds, history
<1>10. ASSUME NEW p \in Runs, Replaces(p) PROVE Locked'
  BY <1>10 DEF Replaces, Becomes, Holds, Keeps, history
<1>11. ASSUME NEW p \in Runs, Completes(p) PROVE Locked'
  BY <1>11 DEF Completes, Becomes, Holds, Keeps, history
<1>12. ASSUME NEW p \in Runs, RollsBack(p) PROVE Locked'
  BY <1>12 DEF RollsBack, Becomes, Holds, history
<1>13. ASSUME NEW p \in Runs, Isolates(p) PROVE Locked'
  BY <1>13 DEF Isolates, Becomes, Holds, Keeps, history
<1>14. ASSUME NEW p \in Runs, Restarts(p) PROVE Locked'
  BY <1>14 DEF Restarts, Becomes, Holds, Keeps, history
<1>15. ASSUME NEW p \in Runs, Dies(p) PROVE Locked'
  BY <1>15 DEF Dies, Becomes, Holds, TypeOK
<1>16. ASSUME NEW p \in Runs, Loses(p) PROVE Locked'
  BY <1>16 DEF Loses, TypeOK
<1>17. ASSUME NEW p \in Runs, NEW l, NEW f \in Files, NEW next, PutsBack(p, l, f, next),
            \/ l = "restore_service" /\ f = "service" /\ next = "restore_cli"
            \/ l = "restore_cli" /\ f = "cli" /\ next = "restore_version"
            \/ l = "restore_version" /\ f = "version" /\ next = "restart"
      PROVE  Locked'
  BY <1>17 DEF PutsBack, Becomes, Holds, Keeps, history
<1>18. QED
  BY <1>1, <1>2, <1>3, <1>4, <1>5, <1>6, <1>7, <1>8, <1>9, <1>10,
     <1>11, <1>12, <1>13, <1>14, <1>15, <1>16, <1>17, Kinds DEF Kind, Files

\* Who is blamed was seen to fail: evidence only grows, and a run that may blame has it.
LEMMA BlameStep ==
  ASSUME TypeOK, Holding, Blamed, [Next]_vars
  PROVE  Blamed'
<1> USE DEF Blamed
<1>1. CASE UNCHANGED vars
  BY <1>1 DEF vars, disk
<1>2. CASE Operated
  BY <1>2 DEF Operated
<1>3. ASSUME NEW p \in Runs, Ends(p) PROVE Blamed'
  BY <1>3, WrapperAssumption DEF Ends, Becomes, Holds
<1>4. ASSUME NEW p \in Runs, Begins(p) PROVE Blamed'
  BY <1>4 DEF Begins, Becomes, Holds, disk, Holding
<1>5. ASSUME NEW p \in Runs, Locks(p) PROVE Blamed'
  BY <1>5 DEF Locks, Becomes, Holds, disk
<1>6. ASSUME NEW p \in Runs, Enters(p) PROVE Blamed'
  BY <1>6 DEF Enters, Becomes, Holds, disk
<1>7. ASSUME NEW p \in Runs, Advances(p) PROVE Blamed'
  BY <1>7 DEF Advances, Becomes, Holds, Keeps, disk
<1>8. ASSUME NEW p \in Runs, Fails(p) PROVE Blamed'
  BY <1>8 DEF Fails, Becomes, Holds, disk
<1>9. ASSUME NEW p \in Runs, BacksUp(p) PROVE Blamed'
  BY <1>9 DEF BacksUp, Becomes, Holds, disk
<1>10. ASSUME NEW p \in Runs, Replaces(p) PROVE Blamed'
  BY <1>10 DEF Replaces, Becomes, Holds, Keeps
<1>11. ASSUME NEW p \in Runs, Completes(p) PROVE Blamed'
  BY <1>11 DEF Completes, Becomes, Holds, Keeps
<1>12. ASSUME NEW p \in Runs, RollsBack(p) PROVE Blamed'
  BY <1>12 DEF RollsBack, Becomes, Holds, disk
<1>13. ASSUME NEW p \in Runs, Isolates(p) PROVE Blamed'
  BY <1>13 DEF Isolates, Becomes, Holds, Keeps
<1>14. ASSUME NEW p \in Runs, Restarts(p) PROVE Blamed'
  BY <1>14 DEF Restarts, Becomes, Holds, Keeps
<1>15. ASSUME NEW p \in Runs, Dies(p) PROVE Blamed'
  BY <1>15 DEF Dies, Becomes, Holds
<1>16. ASSUME NEW p \in Runs, Loses(p) PROVE Blamed'
  BY <1>16 DEF Loses, Becomes, Holds, disk
<1>17. ASSUME NEW p \in Runs, NEW l, NEW f \in Files, NEW next, PutsBack(p, l, f, next),
            \/ l = "restore_service" /\ f = "service" /\ next = "restore_cli"
            \/ l = "restore_cli" /\ f = "cli" /\ next = "restore_version"
            \/ l = "restore_version" /\ f = "version" /\ next = "restart"
      PROVE  Blamed'
  BY <1>17 DEF PutsBack, Becomes, Holds, Keeps
<1>18. QED
  BY <1>1, <1>2, <1>3, <1>4, <1>5, <1>6, <1>7, <1>8, <1>9, <1>10,
     <1>11, <1>12, <1>13, <1>14, <1>15, <1>16, <1>17, Kinds DEF Kind, Files

\* Behind the preflight there is nobody with schema 2, so no file changes.
LEMMA StoppedStep ==
  ASSUME TypeOK, Holding, Blamed, Stopped, [Next]_vars
  PROVE  Stopped'
<1> USE DEF Stopped
<1>1. CASE UNCHANGED vars
  BY <1>1 DEF vars, disk, history
<1>2. CASE Operated
  BY <1>2 DEF Operated
<1>3. ASSUME NEW p \in Runs, Ends(p) PROVE Stopped'
  BY <1>3 DEF Ends, Becomes
<1>4. ASSUME NEW p \in Runs, Begins(p) PROVE Stopped'
  BY <1>4 DEF Begins, Becomes, disk, history
<1>5. ASSUME NEW p \in Runs, Locks(p) PROVE Stopped'
  BY <1>5 DEF Locks, Becomes, disk, history
<1>6. ASSUME NEW p \in Runs, Enters(p) PROVE Stopped'
  BY <1>6 DEF Enters, Becomes, disk, history
<1>7. ASSUME NEW p \in Runs, Advances(p) PROVE Stopped'
  BY <1>7 DEF Advances, Becomes, disk, history
<1>8. ASSUME NEW p \in Runs, Fails(p) PROVE Stopped'
  BY <1>8 DEF Fails, history
<1>9. ASSUME NEW p \in Runs, BacksUp(p) PROVE Stopped'
  BY <1>9 DEF BacksUp, history
<1>10. ASSUME NEW p \in Runs, Replaces(p) PROVE Stopped'
  BY <1>10 DEF Replaces, history
<1>11. ASSUME NEW p \in Runs, Completes(p) PROVE Stopped'
  BY <1>11 DEF Completes, history
<1>12. ASSUME NEW p \in Runs, RollsBack(p) PROVE Stopped'
  BY <1>12 DEF RollsBack, history, Installed
<1>13. ASSUME NEW p \in Runs, Isolates(p) PROVE Stopped'
  BY <1>13 DEF Isolates, history
<1>14. ASSUME NEW p \in Runs, Restarts(p) PROVE Stopped'
  BY <1>14 DEF Restarts, history
<1>15. ASSUME NEW p \in Runs, Dies(p) PROVE Stopped'
  BY <1>15 DEF Dies, Becomes
<1>16. ASSUME NEW p \in Runs, Loses(p) PROVE Stopped'
  BY <1>16 DEF Loses, Becomes, disk
<1>17. ASSUME NEW p \in Runs, NEW l, NEW f \in Files, NEW next, PutsBack(p, l, f, next),
            \/ l = "restore_service" /\ f = "service" /\ next = "restore_cli"
            \/ l = "restore_cli" /\ f = "cli" /\ next = "restore_version"
            \/ l = "restore_version" /\ f = "version" /\ next = "restart"
      PROVE  Stopped'
  BY <1>17 DEF PutsBack, history
<1>18. QED
  BY <1>1, <1>2, <1>3, <1>4, <1>5, <1>6, <1>7, <1>8, <1>9, <1>10,
     <1>11, <1>12, <1>13, <1>14, <1>15, <1>16, <1>17, Kinds DEF Kind, Files

\* The old release does not come back: whoever could restore it would have to hold the
\* lock beside the run that took the plugin away.
LEMMA SecurityStep ==
  ASSUME TypeOK, Holding, Locked, Blamed, WholeBackup, OldIsGone, [Next]_vars
  PROVE  OldIsGone'
<1> USE DEF OldIsGone, MayRestore, Installed, Restoring
<1>1. CASE UNCHANGED vars
  BY <1>1 DEF vars, disk, history
<1>2. CASE Operated
  BY <1>2 DEF Operated
<1>3. ASSUME NEW p \in Runs, Ends(p) PROVE OldIsGone'
  BY <1>3 DEF Ends, Becomes
<1>4. ASSUME NEW p \in Runs, Begins(p) PROVE OldIsGone'
  BY <1>4 DEF Begins, Becomes, disk, history
<1>5. ASSUME NEW p \in Runs, Locks(p) PROVE OldIsGone'
  BY <1>5 DEF Locks, Becomes, disk, history
<1>6. ASSUME NEW p \in Runs, Enters(p) PROVE OldIsGone'
  BY <1>6 DEF Enters, Becomes, disk, history
<1>7. ASSUME NEW p \in Runs, Advances(p) PROVE OldIsGone'
  BY <1>7 DEF Advances, Becomes, Holds, Keeps, disk, history
<1>8. ASSUME NEW p \in Runs, Fails(p) PROVE OldIsGone'
  BY <1>8 DEF Fails, Becomes, Holds, disk, history, Holding, Untouched
<1>9. ASSUME NEW p \in Runs, BacksUp(p) PROVE OldIsGone'
  BY <1>9 DEF BacksUp, Becomes, Holds, disk, history
<1>10. ASSUME NEW p \in Runs, Replaces(p) PROVE OldIsGone'
  BY <1>10, WrapperAssumption DEF Replaces, Becomes, Holds, Keeps, history, Holding
<1>11. ASSUME NEW p \in Runs, Completes(p) PROVE OldIsGone'
  BY <1>11, WrapperAssumption DEF Completes, Becomes, Holds, Keeps, history, Holding, Files
<1>12. ASSUME NEW p \in Runs, RollsBack(p) PROVE OldIsGone'
  BY <1>12 DEF RollsBack, Becomes, Holds, disk, history
<1>13. ASSUME NEW p \in Runs, Isolates(p) PROVE OldIsGone'
  <2>1. /\ pc[p] = "isolating" /\ pc'[p] = "isolated"
        /\ files' = files /\ interruptions' = interruptions
        /\ files["cli"] = run[p].release
        /\ \A q \in Runs : q # p => pc'[q] = pc[q] /\ run'[q] = run[q]
    BY <1>13 DEF Isolates, Becomes, history
  <2>2. files["cli"] # Old
    BY <2>1, WrapperAssumption DEF Holding
  <2>3. ASSUME interruptions = 0, NEW q \in Runs, q # p PROVE pc[q] \notin MayRestore
    BY <2>1, <2>3 DEF Holding, Locked
  <2>4. pc'[p] \notin MayRestore
    BY <2>1
  <2>5. QED
    BY <2>1, <2>2, <2>3, <2>4
<1>14. ASSUME NEW p \in Runs, Restarts(p) PROVE OldIsGone'
  BY <1>14 DEF Restarts, Becomes, Holds, Keeps, history
<1>15. ASSUME NEW p \in Runs, Dies(p) PROVE OldIsGone'
  BY <1>15 DEF Dies, Becomes
<1>16. ASSUME NEW p \in Runs, Loses(p) PROVE OldIsGone'
  BY <1>16 DEF Loses, TypeOK
<1>17. ASSUME NEW p \in Runs, NEW l, NEW f \in Files, NEW next, PutsBack(p, l, f, next),
            \/ l = "restore_service" /\ f = "service" /\ next = "restore_cli"
            \/ l = "restore_cli" /\ f = "cli" /\ next = "restore_version"
            \/ l = "restore_version" /\ f = "version" /\ next = "restart"
      PROVE  OldIsGone'
  <2>1. /\ pc[p] \in Restoring /\ pc'[p] \in MayRestore
        /\ interruptions' = interruptions /\ quarantine' = quarantine
        /\ run'[p].saved = run[p].saved
        /\ \A q \in Runs : q # p => pc'[q] = pc[q] /\ run'[q] = run[q]
    BY <1>17 DEF PutsBack, Becomes, Keeps, Holds, history
  <2>2. files'["cli"] = files["cli"] \/ files'["cli"] = run[p].saved[1]["cli"]
    BY <1>17 DEF PutsBack, Files
  <2>3. Len(run[p].saved) = 1
    BY <2>1 DEF Holding
  <2>4. interruptions = 0 /\ quarantine # {} => files'["cli"] # Old
    BY <2>1, <2>2, <2>3
  <2>5. QED
    BY <2>1, <2>4
<1>18. QED
  BY <1>1, <1>2, <1>3, <1>4, <1>5, <1>6, <1>7, <1>8, <1>9, <1>10,
     <1>11, <1>12, <1>13, <1>14, <1>15, <1>16, <1>17, Kinds DEF Kind, Files

\* The host is whole before and between runs: a run that ends leaves the host untouched,
\* accepted, restored or with a security release, or has called somebody.
LEMMA WholeStep ==
  ASSUME TypeOK, Holding, Locked, Blamed, WholeBackup, Restored, WholeBefore, [Next]_vars
  PROVE  WholeBefore'
<1> USE DEF WholeBefore, Whole, Uniform, Vouched, Untouched
<1>1. CASE UNCHANGED vars
  BY <1>1 DEF vars, disk, history
<1>2. CASE Operated
  BY <1>2 DEF Operated
<1>3. ASSUME NEW p \in Runs, Ends(p) PROVE WholeBefore'
  <2>1. /\ pc'[p] = "out" /\ UNCHANGED <<files, defects, quarantine, interruptions>>
        /\ (alerted => alerted')
        /\ \A q \in Runs : q # p => pc'[q] = pc[q] /\ run'[q] = run[q]
    BY <1>3 DEF Ends, Becomes
  <2>2. ASSUME interruptions = 0, ~alerted', NEW q \in Runs, pc'[q] \in Untouched \cup {"replacing"}
        PROVE  Whole'
    <3>1. q # p /\ pc[q] = pc'[q] /\ Whole
      BY <2>1, <2>2
    <3>2. running' = running
      BY <1>3, <2>2, <3>1 DEF Ends, Holding, Locked
    <3>3. QED
      BY <2>1, <3>1, <3>2
  <2>3. ASSUME interruptions = 0, ~alerted', ~lock'
        PROVE  Whole'
    <3>1. CASE pc[p] \in {"out", "locking"}
      <4>1. lock' = lock /\ running' = running
        BY <1>3, <3>1 DEF Ends, Holding
      <4>2. QED
        BY <2>1, <2>3, <4>1
    <3>2. CASE pc[p] \in Untouched
      <4>1. Whole /\ running' = running
        BY <1>3, <2>1, <2>3, <3>2 DEF Ends
      <4>2. QED
        BY <2>1, <4>1
    <3>3. CASE pc[p] \in {"isolating", "isolated"}
      <4>1. /\ Uniform(files) /\ files["cli"] = run[p].release /\ running = files["cli"]
        BY <2>3, <3>3 DEF WholeBackup, SavedWhole, HasCandidate, Installed
      <4>2. running' = files["cli"]
        BY <1>3, <4>1 DEF Ends
      <4>3. run[p].release \in Overrides
        BY <3>3 DEF Holding
      <4>4. QED
        BY <2>1, <4>1, <4>2, <4>3
    <3>4. CASE pc[p] = "postinstall" /\ defects[running] = {}
      <4>1. /\ Uniform(files) /\ running = files["cli"]
        BY <2>3, <3>4 DEF WholeBackup, SavedWhole, HasCandidate, Installed
      <4>2. running' = running
        BY <1>3, <3>4 DEF Ends
      <4>3. QED
        BY <2>1, <3>4, <4>1, <4>2
    <3>5. CASE pc[p] = "verifying"
      <4>1. /\ \A f \in Files : files[f] = run[p].saved[1][f]
            /\ running = files["cli"]
        BY <2>3, <3>5 DEF Restored, Files
      <4>2. Uniform(run[p].saved[1]) /\ Vouched(run[p].saved[1]["cli"])
        BY <2>1, <2>3, <3>5 DEF WholeBackup, SavedWhole, MayRestore, Restoring, Holding
      <4>3. running' = running
        BY <1>3, <3>5 DEF Ends
      <4>4. "cli" \in Files
        BY DEF Files
      <4>5. QED
        BY <2>1, <4>1, <4>2, <4>3, <4>4
    <3>6. QED
      BY <1>3, <2>1, <2>3, <3>1, <3>2, <3>3, <3>4, <3>5 DEF Ends
  <2>4. QED
    BY <2>1, <2>2, <2>3
<1>4. ASSUME NEW p \in Runs, Begins(p) PROVE WholeBefore'
  BY <1>4 DEF Begins, Becomes, disk, history
<1>5. ASSUME NEW p \in Runs, Locks(p) PROVE WholeBefore'
  BY <1>5 DEF Locks, disk, history
<1>6. ASSUME NEW p \in Runs, Enters(p) PROVE WholeBefore'
  BY <1>6 DEF Enters, disk, history
<1>7. ASSUME NEW p \in Runs, Advances(p) PROVE WholeBefore'
  BY <1>7 DEF Advances, Becomes, disk, history
<1>8. ASSUME NEW p \in Runs, Fails(p) PROVE WholeBefore'
  BY <1>8 DEF Fails, Becomes, history, Holding, Locked
<1>9. ASSUME NEW p \in Runs, BacksUp(p) PROVE WholeBefore'
  BY <1>9 DEF BacksUp, disk, history
<1>10. ASSUME NEW p \in Runs, Replaces(p) PROVE WholeBefore'
  BY <1>10 DEF Replaces, Becomes, history, Holding, Locked
<1>11. ASSUME NEW p \in Runs, Completes(p) PROVE WholeBefore'
  BY <1>11 DEF Completes, Becomes, history, Holding, Locked
<1>12. ASSUME NEW p \in Runs, RollsBack(p) PROVE WholeBefore'
  BY <1>12 DEF RollsBack, Becomes, history, Holding, Locked, Installed
<1>13. ASSUME NEW p \in Runs, Isolates(p) PROVE WholeBefore'
  BY <1>13 DEF Isolates, Becomes, history
<1>14. ASSUME NEW p \in Runs, Restarts(p) PROVE WholeBefore'
  BY <1>14 DEF Restarts, Becomes, history
<1>15. ASSUME NEW p \in Runs, Dies(p) PROVE WholeBefore'
  BY <1>15 DEF Dies, Becomes
<1>16. ASSUME NEW p \in Runs, Loses(p) PROVE WholeBefore'
  BY <1>16 DEF Loses, TypeOK
<1>17. ASSUME NEW p \in Runs, NEW l, NEW f \in Files, NEW next, PutsBack(p, l, f, next),
            \/ l = "restore_service" /\ f = "service" /\ next = "restore_cli"
            \/ l = "restore_cli" /\ f = "cli" /\ next = "restore_version"
            \/ l = "restore_version" /\ f = "version" /\ next = "restart"
      PROVE  WholeBefore'
  BY <1>17 DEF PutsBack, Becomes, history, Holding, Locked
<1>18. QED
  BY <1>1, <1>2, <1>3, <1>4, <1>5, <1>6, <1>7, <1>8, <1>9, <1>10,
     <1>11, <1>12, <1>13, <1>14, <1>15, <1>16, <1>17, Kinds DEF Kind, Files

\* A step that leaves the files and the backups of others alone keeps the backups
\* whole, and the candidate on the host.
LEMMA BackupKept ==
  ASSUME NEW p \in Runs, WholeBackup,
         /\ UNCHANGED <<interruptions, defects, files>> /\ (alerted => alerted')
         /\ running' = running \/ running' = files["cli"]
         /\ \A q \in Runs : q # p => pc'[q] = pc[q] /\ run'[q] = run[q]
         /\ pc'[p] \in MayRestore => pc[p] \in MayRestore /\ run'[p].saved = run[p].saved
         /\ pc'[p] \in Installed \cup {"isolated"} /\ ~run'[p].broken =>
              /\ pc[p] \in Installed \cup {"isolated"} /\ ~run[p].broken
              /\ run'[p].release = run[p].release
         /\ interruptions = 0 /\ pc'[p] \in {"postinstall", "isolating", "isolated"} =>
              ~run'[p].broken
  PROVE  WholeBackup'
<1>1. ASSUME NEW q \in Runs, interruptions = 0 PROVE SavedWhole(q)'
  <2>1. SavedWhole(q)
    BY <1>1 DEF WholeBackup
  <2>2. pc'[q] \in MayRestore => pc[q] \in MayRestore /\ run'[q].saved = run[q].saved
    OBVIOUS
  <2>3. QED
    BY <2>1, <2>2 DEF SavedWhole, Uniform, Vouched
<1>2. ASSUME NEW q \in Runs, interruptions = 0 PROVE HasCandidate(q)'
  <2>1. HasCandidate(q)
    BY <1>2 DEF WholeBackup
  <2>2. /\ pc'[q] \in Installed \cup {"isolated"} /\ ~run'[q].broken =>
             /\ pc[q] \in Installed \cup {"isolated"} /\ ~run[q].broken
             /\ run'[q].release = run[q].release
        /\ pc'[q] \in {"postinstall", "isolating", "isolated"} => ~run'[q].broken
    BY <1>2, <2>1 DEF HasCandidate
  <2>3. QED
    BY <2>1, <2>2 DEF HasCandidate, Uniform
<1>3. QED
  BY <1>1, <1>2 DEF WholeBackup

\* A step of a run that works on the host leaves the backups of others alone, who
\* are not at work.
LEMMA BackupBeside ==
  ASSUME NEW p \in Runs, WholeBackup, Holding, Locked, run[p].held,
         /\ UNCHANGED <<interruptions, defects, alerted>>
         /\ \A q \in Runs : q # p => pc'[q] = pc[q] /\ run'[q] = run[q]
         /\ interruptions = 0 => SavedWhole(p)' /\ HasCandidate(p)'
  PROVE  WholeBackup'
<1>1. ASSUME NEW q \in Runs, interruptions = 0, q # p PROVE SavedWhole(q)' /\ HasCandidate(q)'
  <2>1. pc'[q] \in {"out", "locking"}
    BY <1>1 DEF Holding, Locked
  <2>2. QED
    BY <2>1 DEF SavedWhole, HasCandidate, MayRestore, Installed, Restoring
<1>2. QED
  BY <1>1 DEF WholeBackup

\* The backup is of a whole host, because the run that made it found one.
LEMMA BackupStep ==
  ASSUME TypeOK, Holding, Locked, Blamed, WholeBefore, WholeBackup, [Next]_vars
  PROVE  WholeBackup'
<1> USE DEF MayRestore, Installed, Restoring
<1>1. CASE UNCHANGED vars
  BY <1>1 DEF vars, disk, history, WholeBackup, SavedWhole, HasCandidate, Uniform, Vouched
<1>2. CASE Operated
  BY <1>2 DEF Operated, WholeBackup, SavedWhole, HasCandidate, Uniform, Vouched
<1>3. ASSUME NEW p \in Runs, Ends(p) PROVE WholeBackup'
  BY <1>3, BackupKept DEF Ends, Becomes
<1>4. ASSUME NEW p \in Runs, Begins(p) PROVE WholeBackup'
  BY <1>4, BackupKept DEF Begins, Becomes, disk, history
<1>5. ASSUME NEW p \in Runs, Locks(p) PROVE WholeBackup'
  BY <1>5, BackupKept DEF Locks, Becomes, disk, history
<1>6. ASSUME NEW p \in Runs, Enters(p) PROVE WholeBackup'
  BY <1>6, BackupKept DEF Enters, Becomes, disk, history
<1>7. ASSUME NEW p \in Runs, Advances(p) PROVE WholeBackup'
  <2>1. interruptions = 0 => (pc[p] = "postinstall" => ~run[p].broken)
    BY DEF WholeBackup, HasCandidate
  <2>2. QED
    BY <1>7, <2>1, BackupKept DEF Advances, Becomes, Keeps, Holds, disk, history
<1>8. ASSUME NEW p \in Runs, Fails(p) PROVE WholeBackup'
  <2>1. /\ pc[p] = "backup" => run'[p].saved = << >>
        /\ pc[p] # "backup" => pc[p] \in MayRestore
        /\ run'[p].saved = run[p].saved /\ run'[p].broken = TRUE /\ pc'[p] = "resolving"
        /\ UNCHANGED <<interruptions, defects, files, alerted, running>>
        /\ \A q \in Runs : q # p => pc'[q] = pc[q] /\ run'[q] = run[q]
    BY <1>8 DEF Fails, Becomes, Holds, Holding, Untouched, disk, history
  <2>2. HasCandidate(p)'
    BY <2>1 DEF HasCandidate
  <2>3. CASE pc[p] = "backup"
    <3>1. run[p].held
      BY <2>3 DEF Holding
    <3>2. SavedWhole(p)'
      BY <2>1, <2>3 DEF SavedWhole
    <3>3. QED
      BY <2>1, <2>2, <3>1, <3>2, BackupBeside
  <2>4. CASE pc[p] # "backup"
    BY <2>1, <2>4, BackupKept
  <2>5. QED
    BY <2>3, <2>4
<1>9. ASSUME NEW p \in Runs, BacksUp(p) PROVE WholeBackup'
  <2>1. /\ pc[p] = "backup" /\ pc'[p] = "replacing"
        /\ UNCHANGED <<interruptions, defects, alerted>>
        /\ \A q \in Runs : q # p => pc'[q] = pc[q] /\ run'[q] = run[q]
    BY <1>9 DEF BacksUp, Becomes, disk, history
  <2>2. \A i \in 1..Len(run'[p].saved) : run'[p].saved[i] = files
    BY <1>9 DEF BacksUp, Holds
  <2>3. interruptions = 0 => SavedWhole(p)'
    BY <2>1, <2>2 DEF SavedWhole, Uniform, Vouched, WholeBefore, Whole, Untouched
  <2>4. HasCandidate(p)' /\ run[p].held
    BY <2>1 DEF HasCandidate, Holding
  <2>5. QED
    BY <2>1, <2>3, <2>4, BackupBeside
<1>10. ASSUME NEW p \in Runs, \/ Replaces(p) \/ Completes(p)
                              \/ PutsBack(p, "restore_service", "service", "restore_cli")
                              \/ PutsBack(p, "restore_cli", "cli", "restore_version")
                              \/ PutsBack(p, "restore_version", "version", "restart")
       PROVE WholeBackup'
  <2>1. /\ pc[p] \in {"replacing", "restarting"} \cup Restoring
        /\ pc'[p] \in {"restarting", "resolving"} \cup Restoring
        /\ run'[p].saved = run[p].saved
        /\ UNCHANGED <<interruptions, defects, alerted>>
        /\ \A q \in Runs : q # p => pc'[q] = pc[q] /\ run'[q] = run[q]
    BY <1>10 DEF Replaces, Completes, PutsBack, Becomes, Keeps, Holds, history
  <2>2. pc'[p] = "resolving" =>
          /\ \A f \in Files : files'[f] = run'[p].release
          /\ running' = run'[p].release
    BY <1>10 DEF Replaces, Completes, PutsBack, Becomes, Keeps, Holds
  <2>3. interruptions = 0 => SavedWhole(p)'
    <3>1. interruptions = 0 => SavedWhole(p)
      BY DEF WholeBackup
    <3>2. QED
      BY <2>1, <3>1 DEF SavedWhole, Uniform, Vouched
  <2>4. HasCandidate(p)'
    <3>1. "cli" \in Files
      BY DEF Files
    <3>2. QED
      BY <2>1, <2>2, <3>1 DEF HasCandidate, Uniform
  <2>5. run[p].held
    BY <2>1 DEF Holding
  <2>6. QED
    BY <2>1, <2>3, <2>4, <2>5, BackupBeside
<1>11. ASSUME NEW p \in Runs, RollsBack(p) PROVE WholeBackup'
  BY <1>11, BackupKept DEF RollsBack, Becomes, Holds, disk, history
<1>12. ASSUME NEW p \in Runs, Isolates(p) PROVE WholeBackup'
  <2>1. interruptions = 0 => ~run[p].broken
    BY <1>12 DEF WholeBackup, HasCandidate, Isolates
  <2>2. QED
    BY <1>12, <2>1, BackupKept DEF Isolates, Becomes, Keeps, Holds, history
<1>13. ASSUME NEW p \in Runs, Restarts(p) PROVE WholeBackup'
  BY <1>13, BackupKept DEF Restarts, Becomes, Keeps, Holds, history
<1>14. ASSUME NEW p \in Runs, Dies(p) PROVE WholeBackup'
  BY <1>14, BackupKept DEF Dies, Becomes
<1>15. ASSUME NEW p \in Runs, Loses(p) PROVE WholeBackup'
  BY <1>15 DEF Loses, WholeBackup, TypeOK
<1>16. QED
  BY <1>1, <1>2, <1>3, <1>4, <1>5, <1>6, <1>7, <1>8, <1>9, <1>10,
     <1>11, <1>12, <1>13, <1>14, <1>15, Kinds DEF Kind

\* Nobody changes the files beside the run that restores them.
LEMMA RestoredStep ==
  ASSUME TypeOK, Holding, Locked, Blamed, Restored, [Next]_vars
  PROVE  Restored'
<1> USE DEF Restored
<1>1. CASE UNCHANGED vars
  BY <1>1 DEF vars, disk, history
<1>2. CASE Operated
  BY <1>2 DEF Operated
<1>3. ASSUME NEW p \in Runs, Ends(p) PROVE Restored'
  BY <1>3 DEF Ends, Becomes
<1>4. ASSUME NEW p \in Runs, Begins(p) PROVE Restored'
  BY <1>4 DEF Begins, Becomes, disk, history
<1>5. ASSUME NEW p \in Runs, Locks(p) PROVE Restored'
  BY <1>5 DEF Locks, Becomes, history, Holding, Locked
<1>6. ASSUME NEW p \in Runs, Enters(p) PROVE Restored'
  BY <1>6 DEF Enters, Becomes, history, Holding, Locked
<1>7. ASSUME NEW p \in Runs, Advances(p) PROVE Restored'
  BY <1>7 DEF Advances, Becomes, history, Holding, Locked
<1>8. ASSUME NEW p \in Runs, Fails(p) PROVE Restored'
  BY <1>8 DEF Fails, Becomes, history, Holding, Locked
<1>9. ASSUME NEW p \in Runs, BacksUp(p) PROVE Restored'
  BY <1>9 DEF BacksUp, Becomes, history, Holding, Locked
<1>10. ASSUME NEW p \in Runs, Replaces(p) PROVE Restored'
  BY <1>10 DEF Replaces, Becomes, history, Holding, Locked
<1>11. ASSUME NEW p \in Runs, Completes(p) PROVE Restored'
  BY <1>11 DEF Completes, Becomes, history, Holding, Locked
<1>12. ASSUME NEW p \in Runs, RollsBack(p) PROVE Restored'
  BY <1>12 DEF RollsBack, Becomes, history, Holding, Locked
<1>13. ASSUME NEW p \in Runs, Isolates(p) PROVE Restored'
  BY <1>13 DEF Isolates, Becomes, history
<1>14. ASSUME NEW p \in Runs, Restarts(p) PROVE Restored'
  BY <1>14 DEF Restarts, Becomes, Holds, Keeps, history
<1>15. ASSUME NEW p \in Runs, Dies(p) PROVE Restored'
  BY <1>15 DEF Dies, Becomes
<1>16. ASSUME NEW p \in Runs, Loses(p) PROVE Restored'
  BY <1>16 DEF Loses, TypeOK
<1>17. ASSUME NEW p \in Runs, NEW l, NEW f \in Files, NEW next, PutsBack(p, l, f, next),
            \/ l = "restore_service" /\ f = "service" /\ next = "restore_cli"
            \/ l = "restore_cli" /\ f = "cli" /\ next = "restore_version"
            \/ l = "restore_version" /\ f = "version" /\ next = "restart"
      PROVE  Restored'
  <2>1. /\ pc[p] = l /\ pc'[p] = next /\ interruptions' = interruptions /\ run'[p].saved = run[p].saved
        /\ files'[f] = run[p].saved[1][f] /\ \A g \in Files : g # f => files'[g] = files[g]
        /\ \A q \in Runs : q # p => pc'[q] = pc[q] /\ run'[q] = run[q]
    BY <1>17 DEF PutsBack, Becomes, Keeps, Holds, history
  <2>2. ASSUME interruptions = 0, NEW q \in Runs, q # p
        PROVE  pc[q] \notin Restoring
    BY <1>17, <2>1, <2>2 DEF Holding, Locked, Restoring
  <2>3. QED
    BY <1>17, <2>1, <2>2 DEF Files, Restoring
<1>18. QED
  BY <1>1, <1>2, <1>3, <1>4, <1>5, <1>6, <1>7, <1>8, <1>9, <1>10,
     <1>11, <1>12, <1>13, <1>14, <1>15, <1>16, <1>17, Kinds DEF Kind, Files
-----------------------------------------------------------------------------
\* At first nothing is held and the old release is whole.
LEMMA InitIInv == Init => IInv
<1> SUFFICES ASSUME Init PROVE IInv
  OBVIOUS
<1>1. \A p \in Runs : pc[p] = "out" /\ run[p] = NoRun
  BY DEF Init
<1>2. files \in Backup /\ files["cli"] = Old /\ \A f \in Files : files[f] = Old
  BY DEF Init, Backup, Files, Releases
<1>3. TypeOK
  BY <1>2, NoRunFields DEF Init, TypeOK, Labels, Releases
<1>4. Holding /\ Locked /\ Blamed
  BY <1>1, NoRunFields, WrapperAssumption DEF Init, Holding, Locked, Blamed, Untouched, Restoring
<1>5. Stopped /\ OldIsGone
  BY <1>1, <1>2 DEF Init, Stopped, OldIsGone
<1>6. Whole
  <2>1. defects[Old] = {}
    BY DEF Init
  <2>2. QED
    BY <1>2, <2>1 DEF Init, Whole, Uniform, Vouched
<1>7. WholeBefore /\ WholeBackup /\ Restored
  BY <1>1, <1>6 DEF WholeBefore, WholeBackup, SavedWhole, HasCandidate, Restored, Untouched,
                   MayRestore, Installed, Restoring
<1>8. QED
  BY <1>3, <1>4, <1>5, <1>7 DEF IInv

\* Every step keeps the invariant.
LEMMA NextIInv == IInv /\ [Next]_vars => IInv'
<1> SUFFICES ASSUME IInv, [Next]_vars PROVE IInv'
  OBVIOUS
<1>1. TypeOK' /\ Holding' /\ Locked' /\ Blamed' /\ Stopped'
  BY TypeStep, HoldingStep, LockStep, BlameStep, StoppedStep DEF IInv
<1>2. OldIsGone' /\ WholeBefore' /\ WholeBackup' /\ Restored'
  BY SecurityStep, WholeStep, BackupStep, RestoredStep DEF IInv
<1>3. QED
  BY <1>1, <1>2 DEF IInv

\* Whatever is approved, found, killed and interrupted, the parts of the invariant
\* hold together.
THEOREM WrapperInvariant == Spec => []IInv
<1>1. IInv /\ [Next]_vars => IInv'
  BY NextIInv
<1>2. QED
  BY <1>1, InitIInv, PTL DEF Spec

\* One run at a time works on the host, and the lock directory is there exactly
\* while one does, as long as none is interrupted or killed: mkdir and the trap
\* of update-wrapper.sh.
THEOREM LockIsExact == Spec => []LockExact
<1>1. IInv => LockExact
  <2> SUFFICES ASSUME IInv, interruptions = 0
               PROVE  /\ Cardinality(Holders) <= 1
                      /\ Holders # {} => lock
                      /\ lock /\ kills = 0 => Holders # {}
    BY DEF LockExact
  <2>1. \A p, q \in Holders : p = q
    BY DEF IInv, Locked, Holders
  <2>2. Cardinality(Holders) <= 1
    <3>1. CASE Holders = {}
      BY <3>1, FS_EmptySet
    <3>2. CASE Holders # {}
      <4>1. PICK p \in Holders : Holders = {p}
        BY <2>1, <3>2
      <4>2. Cardinality({p}) = 1
        BY FS_Singleton
      <4>3. QED
        BY <4>1, <4>2
    <3>3. QED
      BY <3>1, <3>2
  <2>3. QED
    BY <2>2 DEF IInv, Locked, Holders
<1>2. QED
  BY <1>1, WrapperInvariant, PTL

\* failed-candidate.json names a candidate only if it was seen to fail, as long as
\* nobody has been called: a verdict that blocks blames nobody.
THEOREM BlameIsJustified == Spec => []BlameJustified
<1>1. IInv => BlameJustified
  BY DEF IInv, Blamed, BlameJustified
<1>2. QED
  BY <1>1, WrapperInvariant, PTL

\* Nothing is installed by a wrapper that demands approvals of schema 1 with a
\* verifier that reads schema 2.
THEOREM SkewStopsUpdates == Spec => []SkewInstallsNothing
<1>1. IInv => SkewInstallsNothing
  BY DEF IInv, Stopped, SkewInstallsNothing
<1>2. QED
  BY <1>1, WrapperInvariant, PTL

\* No step brings back the old release once one is kept for security.
THEOREM SecurityReleaseStays == Spec => SecurityKept
<1>1. IInv /\ IInv' /\ [Next]_vars =>
        [interruptions = 0 /\ files["cli"] \in quarantine => files'["cli"] # Old]_vars
  <2> SUFFICES ASSUME IInv, IInv', [Next]_vars, interruptions = 0, files["cli"] \in quarantine
               PROVE  files'["cli"] # Old
    OBVIOUS
  <2>1. TypeOK /\ Holding /\ Locked /\ Blamed /\ OldIsGone
    BY DEF IInv
  <2>2. quarantine # {} /\ files["cli"] # Old
    BY <2>1 DEF OldIsGone
  <2>3. CASE interruptions' = 0 /\ quarantine' # {}
    BY <2>3 DEF IInv, OldIsGone
  <2>4. CASE UNCHANGED files
    BY <2>2, <2>4
  <2>5. QED
    <3>1. CASE UNCHANGED vars
      BY <2>4, <3>1 DEF vars, disk
    <3>2. CASE Operated
      BY <2>4, <3>2 DEF Operated
    <3>3. ASSUME NEW p \in Runs, Kind(p)
          PROVE  \/ UNCHANGED files
                 \/ interruptions' = 0 /\ quarantine' # {}
      BY <2>2, <3>3 DEF Kind, Ends, Begins, Locks, Enters, Advances, Fails, BacksUp, Replaces,
         Completes, RollsBack, Isolates, PutsBack, Restarts, Dies, Loses, disk, history
    <3>4. QED
      BY <2>1, <2>3, <2>4, <3>1, <3>2, <3>3, Kinds
<1>2. QED
  BY <1>1, WrapperInvariant, PTL DEF Spec, SecurityKept

\* Between runs the host is whole, as long as no run was interrupted: every way out of
\* update-wrapper.sh leaves it so, leaves the lock, or calls somebody, whatever
\* disturbs the checks and whichever command fails.
THEOREM HostIsSettled == Spec => []Settled
<1>1. IInv => Settled
  <2> SUFFICES ASSUME IInv, Quiet, ~alerted, ~lock, interruptions = 0
               PROVE  /\ \A f \in Files : files[f] = files["cli"]
                      /\ running = files["cli"]
                      /\ defects[files["cli"]] = {} \/ files["cli"] \in Overrides
    BY DEF Settled
  <2>1. Whole
    BY DEF IInv, WholeBefore
  <2>2. QED
    BY <2>1 DEF Whole, Uniform, Vouched
<1>2. QED
  BY <1>1, WrapperInvariant, PTL
=============================================================================
