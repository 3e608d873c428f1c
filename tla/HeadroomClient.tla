--------------------------- MODULE HeadroomClient ---------------------------
(***************************************************************************)
(* headroom.Client: one bounded compression call at a time, guarded by a   *)
(* circuit breaker, a one-slot semaphore and a status snapshot, plus the   *)
(* cached management probe.  The breaker, the semaphore, the snapshot and  *)
(* the probe cache each have their own lock and no lock covers two of      *)
(* them, so every crossing from one to the next is a separate step.        *)
(* Time is a bounded integer clock; what Headroom answers is a free choice *)
(* between a validated success and a failure.                              *)
(***************************************************************************)
EXTENDS Integers, Sequences, FiniteSets

CONSTANTS Threads,           \* goroutines that call Compress or Probe
          NoThread,          \* probeMu is free
          MaxConsecutive,    \* failures in a row that open the circuit (3)
          MaxInWindow,       \* failures in the window that open it (5)
          FailureWindow,     \* failureWindow
          OpenDuration,      \* circuitOpenDuration
          ProbeCache,        \* probeCacheDuration
          MaxClock           \* bound on the clock

ASSUME ClientAssumption ==
  /\ NoThread \notin Threads
  /\ {MaxConsecutive, MaxInWindow} \subseteq Nat \ {0}
  /\ {FailureWindow, OpenDuration, ProbeCache, MaxClock} \subseteq Nat

NoTime == -1          \* time.Time{}
Time == 0..MaxClock
Instant == Time \cup {NoTime}

\* What the rest of the plugin tells apart: "failed" is every outcome but
\* OutcomeApplied and OutcomeSaturated, an open circuit included.
Results  == {"applied", "failed"}
Outcomes == Results \cup {"saturated", "none"}

VARIABLES
  clock,       \* what client.now() returns
  consecutive, \* breaker.consecutiveFailures
  failures,    \* breaker.failures
  openUntil,   \* breaker.openUntil
  halfOpen,    \* breaker.halfOpenInFlight
  slot,        \* the semaphore is taken
  last,        \* client.lastValue, "none" while nothing was observed
  probeMu,     \* holder of client.probeMu
  probeAt,     \* client.probeAt
  probeValue,  \* client.probeValue
  probeNow,    \* the time the holder of probeMu read
  pc,          \* t -> where the goroutine is
  now,         \* t -> the time it read for the breaker
  probe,       \* t -> begin made it the half-open probe
  outcome      \* t -> what Compress is going to return

breakerVars == <<consecutive, failures, openUntil, halfOpen>>
probeVars   == <<probeMu, probeAt, probeValue, probeNow>>
vars == <<clock, breakerVars, slot, last, probeVars,
          pc, now, probe, outcome>>

\* idle        outside the client
\* wantsProbe  in Probe, before probeMu;  probing  holds it, before Compress
\* entering    has read the clock, before breaker.begin
\* begun       allowed by the breaker, before the semaphore
\* cancelling  did not get the slot, before breaker.cancel
\* sending     waits for Headroom;        answered  before breaker.finish
\* finished    before the slot is given back
\* leaving     before recordOutcome;      probed    before the probe cache
Labels == {"idle", "wantsProbe", "probing", "entering", "begun", "cancelling",
           "sending", "answered", "finished", "leaving", "probed"}

Init ==
  /\ clock = 0
  /\ consecutive = 0 /\ failures = <<>> /\ openUntil = NoTime
  /\ halfOpen = FALSE
  /\ slot = FALSE
  /\ last = "none"
  /\ probeMu = NoThread /\ probeAt = NoTime /\ probeValue = "none"
  /\ probeNow = NoTime
  /\ pc = [t \in Threads |-> "idle"]
  /\ now = [t \in Threads |-> NoTime]
  /\ probe = [t \in Threads |-> FALSE]
  /\ outcome = [t \in Threads |-> "none"]

Goto(t, l) == pc' = [pc EXCEPT ![t] = l]

\* A call is over and its result gone.  (Locals are reset after their last
\* use.)
Forget(t) ==
  /\ Goto(t, "idle")
  /\ outcome' = [outcome EXCEPT ![t] = "none"]

\* Leave Compress with outcome o, with the deferred recordOutcome to come.
Return(t, o) ==
  /\ Goto(t, "leaving")
  /\ outcome' = [outcome EXCEPT ![t] = o]
-----------------------------------------------------------------------------
\* Probe is called; it blocks on probeMu.
ProbeCall(t) ==
  /\ pc[t] = "idle"
  /\ Goto(t, "wantsProbe")
  /\ UNCHANGED <<clock, breakerVars, slot, last, probeVars,
                 now, probe, outcome>>

ProbeFresh == probeAt # NoTime /\ clock - probeAt < ProbeCache

\* A fresh cached value is returned and probeMu given back at once.
ProbeCached(t) ==
  /\ pc[t] = "wantsProbe"
  /\ probeMu = NoThread
  /\ ProbeFresh
  /\ Goto(t, "idle")
  /\ UNCHANGED <<clock, breakerVars, slot, last, probeVars,
                 now, probe, outcome>>

\* Otherwise the probe compresses while it holds probeMu.
ProbeLock(t) ==
  /\ pc[t] = "wantsProbe"
  /\ probeMu = NoThread
  /\ ~ProbeFresh
  /\ probeMu' = t
  /\ probeNow' = clock
  /\ Goto(t, "probing")
  /\ UNCHANGED <<clock, breakerVars, slot, last, probeAt, probeValue,
                 now, probe, outcome>>

\* Compress rejects an empty or oversized body before the breaker.
TooLarge(t) ==
  /\ pc[t] = "idle"
  /\ Return(t, "failed")
  /\ UNCHANGED <<clock, breakerVars, slot, last, probeVars,
                 now, probe>>

\* Compress reads the clock.
Enter(t) ==
  /\ pc[t] \in {"idle", "probing"}
  /\ now' = [now EXCEPT ![t] = clock]
  /\ Goto(t, "entering")
  /\ UNCHANGED <<clock, breakerVars, slot, last, probeVars,
                 probe, outcome>>
-----------------------------------------------------------------------------
\* breaker.begin on a closed circuit.
BeginClosed(t) ==
  /\ pc[t] = "entering"
  /\ openUntil = NoTime
  /\ now' = [now EXCEPT ![t] = NoTime]
  /\ Goto(t, "begun")
  /\ UNCHANGED <<clock, breakerVars, slot, last, probeVars,
                 probe, outcome>>

Refuses(time) == openUntil # NoTime /\ (time < openUntil \/ halfOpen)

\* breaker.begin refuses: the circuit is open or its probe is out.
BeginRefused(t) ==
  /\ pc[t] = "entering"
  /\ Refuses(now[t])
  /\ Return(t, "failed")
  /\ now' = [now EXCEPT ![t] = NoTime]
  /\ UNCHANGED <<clock, breakerVars, slot, last, probeVars,
                 probe>>

\* breaker.begin admits the half-open probe.
BeginProbe(t) ==
  /\ pc[t] = "entering"
  /\ openUntil # NoTime
  /\ ~Refuses(now[t])
  /\ halfOpen' = TRUE
  /\ probe' = [probe EXCEPT ![t] = TRUE]
  /\ now' = [now EXCEPT ![t] = NoTime]
  /\ Goto(t, "begun")
  /\ UNCHANGED <<clock, consecutive, failures, openUntil, slot, last,
                 probeVars, outcome>>

\* The select: the semaphore has room ...
TakeSlot(t) ==
  /\ pc[t] = "begun"
  /\ ~slot
  /\ slot' = TRUE
  /\ Goto(t, "sending")
  /\ UNCHANGED <<clock, breakerVars, last, probeVars,
                 now, probe, outcome>>

\* ... or the caller's context is done, or neither: fail now, do not queue.
NoSlot(t, o) ==
  /\ pc[t] = "begun"
  /\ o = "saturated" => slot
  /\ outcome' = [outcome EXCEPT ![t] = o]
  /\ Goto(t, "cancelling")
  /\ UNCHANGED <<clock, breakerVars, slot, last, probeVars,
                 now, probe>>

\* Mutated forms: the probe mark survives a cancelled probe; the slot of
\* another call is given back.
CancelLatching(t) ==
  /\ pc[t] = "cancelling"
  /\ Goto(t, "leaving")
  /\ UNCHANGED <<clock, breakerVars, slot, last, probeVars,
                 now, probe, outcome>>
CancelReleasing(t) ==
  /\ pc[t] = "cancelling"
  /\ slot' = FALSE
  /\ Goto(t, "leaving")
  /\ UNCHANGED <<clock, breakerVars, last, probeVars,
                 now, probe, outcome>>

\* breaker.cancel.
Cancel(t) ==
  /\ pc[t] = "cancelling"
  /\ halfOpen' = (halfOpen /\ ~probe[t])
  /\ probe' = [probe EXCEPT ![t] = FALSE]
  /\ Goto(t, "leaving")
  /\ UNCHANGED <<clock, consecutive, failures, openUntil, slot, last,
                 probeVars, now, outcome>>

\* Headroom answered and the answer was validated, or anything on the way
\* failed: request, timeout, status, encoding, size, JSON or validator.
Answer(t, o) ==
  /\ pc[t] = "sending"
  /\ outcome' = [outcome EXCEPT ![t] = o]
  /\ now' = [now EXCEPT ![t] = clock]
  /\ Goto(t, "answered")
  /\ UNCHANGED <<clock, breakerVars, slot, last, probeVars, probe>>
-----------------------------------------------------------------------------
\* Mutated form: a successful probe closes the circuit but keeps its record.
FinishProbeForgetful(time, ok) ==
  /\ halfOpen' = FALSE
  /\ openUntil' = IF ok THEN NoTime ELSE time + OpenDuration
  /\ UNCHANGED <<consecutive, failures>>

\* breaker.finish for the half-open probe.
FinishProbe(time, ok) ==
  /\ halfOpen' = FALSE
  /\ IF ok THEN /\ openUntil' = NoTime
                /\ consecutive' = 0
                /\ failures' = <<>>
           ELSE /\ openUntil' = time + OpenDuration
                /\ UNCHANGED <<consecutive, failures>>

\* The loop in breaker.finish: the failures that are not before the cutoff.
Recent(fs, cutoff) ==
  LET kept[n \in 0..Len(fs)] ==
        IF n = 0 THEN <<>>
        ELSE IF fs[n] < cutoff THEN kept[n - 1]
        ELSE Append(kept[n - 1], fs[n])
  IN  kept[Len(fs)]

\* breaker.finish for any other call: a success ends the run of failures, a
\* failure is counted in a row and in the window and may open the circuit.
FinishCall(time, ok) ==
  IF ok
  THEN /\ consecutive' = 0
       /\ UNCHANGED <<failures, openUntil, halfOpen>>
  ELSE LET kept == Append(Recent(failures, time - FailureWindow), time)
           trip == consecutive + 1 >= MaxConsecutive \/ Len(kept) >= MaxInWindow
       IN  /\ failures' = kept
           /\ consecutive' = consecutive + 1
           /\ openUntil' = IF trip THEN time + OpenDuration ELSE openUntil
           /\ halfOpen' = (halfOpen /\ ~trip)

Finish(t) ==
  /\ pc[t] = "answered"
  /\ LET ok == outcome[t] = "applied"
     IN  IF probe[t] THEN FinishProbe(now[t], ok) ELSE FinishCall(now[t], ok)
  /\ now' = [now EXCEPT ![t] = NoTime]
  /\ probe' = [probe EXCEPT ![t] = FALSE]
  /\ Goto(t, "finished")
  /\ UNCHANGED <<clock, slot, last, probeVars, outcome>>

\* The deferred receive from the semaphore, before the deferred record.
ReleaseSlot(t) ==
  /\ pc[t] = "finished"
  /\ slot' = FALSE
  /\ Goto(t, "leaving")
  /\ UNCHANGED <<clock, breakerVars, last, probeVars,
                 now, probe, outcome>>

\* recordOutcome: whatever Compress returns becomes the last outcome.
Record(t) ==
  /\ pc[t] = "leaving"
  /\ last' = outcome[t]
  /\ IF probeMu = t
     THEN Goto(t, "probed") /\ UNCHANGED outcome
     ELSE Forget(t)
  /\ UNCHANGED <<clock, breakerVars, slot, probeVars,
                 now, probe>>

\* Mutated form: a saturated probe returns early without giving up probeMu.
ProbeEndHolding(t) ==
  /\ pc[t] = "probed"
  /\ probeMu' = IF outcome[t] = "saturated" THEN probeMu ELSE NoThread
  /\ probeAt' = probeNow
  /\ probeValue' = outcome[t]
  /\ probeNow' = NoTime
  /\ Forget(t)
  /\ UNCHANGED <<clock, breakerVars, slot, last, now, probe>>

\* The rest of Probe: cache the outcome unless the slot was busy.
ProbeEnd(t) ==
  /\ pc[t] = "probed"
  /\ IF outcome[t] = "saturated"
     THEN UNCHANGED <<probeAt, probeValue>>
     ELSE probeAt' = probeNow /\ probeValue' = outcome[t]
  /\ probeMu' = NoThread
  /\ probeNow' = NoTime
  /\ Forget(t)
  /\ UNCHANGED <<clock, breakerVars, slot, last, now, probe>>

Tick ==
  /\ clock < MaxClock
  /\ clock' = clock + 1
  /\ UNCHANGED <<breakerVars, slot, last, probeVars,
                 pc, now, probe, outcome>>

Call(t) == ProbeCall(t) \/ TooLarge(t) \/ (pc[t] = "idle" /\ Enter(t))

Progress(t) ==
  \/ ProbeCached(t) \/ ProbeLock(t)
  \/ pc[t] = "probing" /\ Enter(t)
  \/ BeginClosed(t) \/ BeginRefused(t) \/ BeginProbe(t)
  \/ TakeSlot(t) \/ \E o \in {"saturated", "failed"} : NoSlot(t, o)
  \/ Cancel(t)
  \/ \E o \in Results : Answer(t, o)
  \/ Finish(t) \/ ReleaseSlot(t) \/ Record(t) \/ ProbeEnd(t)

Next == Tick \/ \E t \in Threads : Call(t) \/ Progress(t)

Spec == Init /\ [][Next]_vars

\* A goroutine inside the client is scheduled, the HTTP call ends by its
\* timeout, and sync.Mutex does not starve a waiter (strong fairness).
FairSpec ==
  /\ Spec
  /\ \A t \in Threads :
       /\ WF_vars(Progress(t))
       /\ SF_vars(ProbeCached(t) \/ ProbeLock(t))
-----------------------------------------------------------------------------
\* Fields have their types; part of SlotExact.
TypeOK ==
  /\ clock \in Time
  /\ consecutive \in Nat /\ failures \in Seq(Time)
  /\ openUntil \in Int /\ halfOpen \in BOOLEAN
  /\ slot \in BOOLEAN
  /\ last \in Outcomes
  /\ probeMu \in Threads \cup {NoThread}
  /\ probeAt \in Instant /\ probeValue \in Outcomes /\ probeNow \in Instant
  /\ pc \in [Threads -> Labels]
  /\ now \in [Threads -> Instant]
  /\ probe \in [Threads -> BOOLEAN]
  /\ outcome \in [Threads -> Outcomes]

\* Where a call that begin admitted still owes the breaker an answer.
Pending == {"begun", "cancelling", "sending", "answered"}
\* Where a call owns the semaphore.
Sending == {"sending", "answered", "finished"}

\* The half-open mark is always owed to a probe under way: no path through
\* cancellation, saturation or a late ordinary failure leaves it set with
\* nobody to clear it, which would refuse every call for ever.
ProbeOwned ==
  halfOpen => \E t \in Threads : probe[t] /\ pc[t] \in Pending

\* At most one call is at Headroom, and the slot is taken exactly then.
SlotExact ==
  /\ TypeOK
  /\ \A t, u \in Threads : pc[t] \in Sending /\ pc[u] \in Sending => t = u
  /\ slot <=> \E t \in Threads : pc[t] \in Sending

\* A closed circuit has seen fewer failures than either threshold: neither
\* recovery nor a late call leaves a record that the next failure trips.
ClosedBelowThresholds ==
  openUntil = NoTime =>
    consecutive < MaxConsecutive /\ Len(failures) < MaxInWindow

\* Every Compress and Probe returns, also those queued behind a probe.
EveryCallReturns == \A t \in Threads : pc[t] # "idle" ~> pc[t] = "idle"
=============================================================================
