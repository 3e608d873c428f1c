--------------------------- MODULE PluginRuntime ----------------------------
(***************************************************************************)
(* abi.Runtime: what stands between the host's threads and the plugin.     *)
(* Every RPC call is admitted and counted under r.mu, lifecycle calls and  *)
(* management requests are serialised by lifecycleMu, a reconfiguration is *)
(* published first in the saver and then in the configuration store, and   *)
(* the native shutdown waits on a condition variable for the admitted      *)
(* calls before it closes the saver.                                       *)
(* The saver is abstracted to the configuration of its current generation  *)
(* (module Generations has its detail), a request to what its decoding     *)
(* and its configuration are worth.                                        *)
(***************************************************************************)
EXTENDS Integers, FiniteSets

CONSTANTS Threads,   \* host threads
          NoThread,  \* nobody holds lifecycleMu
          Configs,   \* valid configurations
          Off,       \* config.Defaults(): every stage off
          Bad,       \* a configuration that does not parse
          Closed     \* what the saver runs after Close

ASSUME RuntimeAssumption ==
  /\ IsFiniteSet(Threads)
  /\ NoThread \notin Threads
  /\ Off \notin Configs /\ Bad \notin Configs \cup {Off}
  /\ Closed \notin Configs \cup {Off, Bad}

VARIABLES
  active,     \* r.active
  stopped,    \* r.stopped
  lifecycle,  \* holder of r.lifecycleMu
  store,      \* r.configs
  saver,      \* configuration of the saver's current generation
  down,       \* a Shutdown has returned
  pc,         \* t -> where the thread is
  method,     \* t -> the method it calls
  request     \* t -> the configuration in its lifecycle request

vars == <<active, stopped, lifecycle, store, saver, down, pc, method, request>>

Lifecycle == {"register", "reconfigure"}
Methods == Lifecycle \cup {"normalize", "handle", "other"}

\* idle         in the host
\* dispatching  admitted          queued      before lifecycleMu
\* locked       holds it          storing     saver published, store not yet
\* normalizing  in Normalize      handling    in management.Handle
\* returning    before r.release
\* sleeping     in r.cond.Wait    woken       notified, before r.mu
\* closing      before r.saver.Close
Dispatch == {"dispatching", "queued", "locked", "storing", "normalizing",
             "handling", "returning"}
Labels == Dispatch \cup {"idle", "sleeping", "woken", "closing"}

Init ==
  /\ active = 0 /\ stopped = FALSE
  /\ lifecycle = NoThread
  /\ store = Off /\ saver = Off
  /\ down = FALSE
  /\ pc = [t \in Threads |-> "idle"]
  /\ method = [t \in Threads |-> "other"]
  /\ request = [t \in Threads |-> Off]

Goto(t, l) == pc' = [pc EXCEPT ![t] = l]

\* The call is over and its request gone.
Forget(t) ==
  /\ method' = [method EXCEPT ![t] = "other"]
  /\ request' = [request EXCEPT ![t] = Off]
-----------------------------------------------------------------------------
\* Call on a stopped runtime answers plugin_shutdown.
CallRefused(t) ==
  /\ pc[t] = "idle"
  /\ stopped
  /\ UNCHANGED vars

\* Call: acquire admits and counts the call.
Acquire(t, m, c) ==
  /\ pc[t] = "idle"
  /\ ~stopped
  /\ m \notin Lifecycle => c = Off
  /\ active' = active + 1
  /\ method' = [method EXCEPT ![t] = m]
  /\ request' = [request EXCEPT ![t] = c]
  /\ Goto(t, "dispatching")
  /\ UNCHANGED <<stopped, lifecycle, store, saver, down>>

\* dispatch: lifecycle and management calls queue for lifecycleMu, normalize
\* does not, anything else and anything undecodable is answered at once.
DispatchTo(t, l) ==
  /\ pc[t] = "dispatching"
  /\ \/ l = "queued" /\ method[t] \in Lifecycle \cup {"handle"}
     \/ l = "normalizing" /\ method[t] = "normalize"
     \/ l = "returning" /\ method[t] \in {"normalize", "handle", "other"}
  /\ Goto(t, l)
  /\ UNCHANGED <<active, stopped, lifecycle, store, saver, down, method,
                 request>>

\* lifecycleMu is taken.
LockLifecycle(t) ==
  /\ pc[t] = "queued"
  /\ lifecycle = NoThread
  /\ lifecycle' = t
  /\ Goto(t, IF method[t] = "handle" THEN "handling" ELSE "locked")
  /\ UNCHANGED <<active, stopped, store, saver, down, method, request>>

\* What NewStore makes of a cold configuration: safe-off when it is bad.
Snapshot(c) == IF c = Bad THEN Off ELSE c

\* A lifecycle call fails before anything is published: it cannot be decoded,
\* a new configuration is bad, or the saver cannot build its client.
LifecycleFails(t) ==
  /\ pc[t] = "locked"
  /\ lifecycle' = NoThread
  /\ Goto(t, "returning")
  /\ UNCHANGED <<active, stopped, store, saver, down, method, request>>

\* The saver takes the new configuration; register accepts a bad one as off.
SaverReconfigure(t) ==
  /\ pc[t] = "locked"
  /\ method[t] = "reconfigure" => request[t] # Bad
  /\ saver' = Snapshot(request[t])
  /\ Goto(t, "storing")
  /\ UNCHANGED <<active, stopped, lifecycle, store, down, method, request>>

\* Then the configuration store does, and lifecycleMu is given back.
StoreConfig(t) ==
  /\ pc[t] = "storing"
  /\ store' = Snapshot(request[t])
  /\ lifecycle' = NoThread
  /\ Goto(t, "returning")
  /\ UNCHANGED <<active, stopped, saver, down, method, request>>

\* management.Handle returns, or panics and is recovered.
Handled(t) ==
  /\ pc[t] = "handling"
  /\ lifecycle' = NoThread
  /\ Goto(t, "returning")
  /\ UNCHANGED <<active, stopped, store, saver, down, method, request>>

\* saver.Normalize returns.
Normalized(t) ==
  /\ pc[t] = "normalizing"
  /\ Goto(t, "returning")
  /\ UNCHANGED <<active, stopped, lifecycle, store, saver, down, method,
                 request>>

\* Mutated form: the last call leaves without waking the shutdown.
ReleaseSilently(t) ==
  /\ pc[t] = "returning"
  /\ active' = active - 1
  /\ Goto(t, "idle")
  /\ Forget(t)
  /\ UNCHANGED <<stopped, lifecycle, store, saver, down>>

\* release: the call is uncounted, and the last one wakes the sleepers.
Release(t) ==
  /\ pc[t] = "returning"
  /\ active' = active - 1
  /\ pc' = [u \in Threads |->
              IF u = t THEN "idle"
              ELSE IF pc[u] = "sleeping" /\ active = 1 THEN "woken"
              ELSE pc[u]]
  /\ Forget(t)
  /\ UNCHANGED <<stopped, lifecycle, store, saver, down>>
-----------------------------------------------------------------------------
\* Mutated form: a woken shutdown closes without looking at the count again.
ShutdownImpatient(t) ==
  /\ pc[t] \in {"idle", "woken"}
  /\ stopped' = TRUE
  /\ Goto(t, IF active > 0 /\ ~stopped THEN "sleeping" ELSE "closing")
  /\ UNCHANGED <<active, lifecycle, store, saver, down, method, request>>

\* Shutdown under r.mu: stop admission, then sleep while calls are active.
\* A woken thread takes r.mu again and looks again.
Shutdown(t) ==
  /\ pc[t] \in {"idle", "woken"}
  /\ stopped' = TRUE
  /\ Goto(t, IF active > 0 THEN "sleeping" ELSE "closing")
  /\ UNCHANGED <<active, lifecycle, store, saver, down, method, request>>

\* The saver is closed and Shutdown returns.
CloseSaver(t) ==
  /\ pc[t] = "closing"
  /\ saver' = Closed
  /\ down' = TRUE
  /\ Goto(t, "idle")
  /\ UNCHANGED <<active, stopped, lifecycle, store, method, request>>

Enter(t) ==
  \/ \E m \in Methods, c \in Configs \cup {Off, Bad} : Acquire(t, m, c)
  \/ CallRefused(t)
  \/ pc[t] = "idle" /\ Shutdown(t)

Progress(t) ==
  \/ \E l \in {"queued", "normalizing", "returning"} : DispatchTo(t, l)
  \/ LockLifecycle(t) \/ LifecycleFails(t) \/ SaverReconfigure(t)
  \/ StoreConfig(t) \/ Handled(t) \/ Normalized(t) \/ Release(t)
  \/ pc[t] = "woken" /\ Shutdown(t)
  \/ CloseSaver(t)

Next == \E t \in Threads : Enter(t) \/ Progress(t)

Spec == Init /\ [][Next]_vars

\* Threads are scheduled, work inside the plugin is bounded by the Headroom
\* timeout, and sync.Mutex does not starve a waiter.
FairSpec ==
  Spec /\ \A t \in Threads : WF_vars(Progress(t)) /\ SF_vars(LockLifecycle(t))
-----------------------------------------------------------------------------
InDispatch == {t \in Threads : pc[t] \in Dispatch}

\* Fields have their types; part of QuietAfterShutdown.
TypeOK ==
  /\ active \in Nat /\ stopped \in BOOLEAN /\ down \in BOOLEAN
  /\ lifecycle \in Threads \cup {NoThread}
  /\ store \in Configs \cup {Off}
  /\ saver \in Configs \cup {Off, Closed}
  /\ pc \in [Threads -> Labels]
  /\ method \in [Threads -> Methods]
  /\ request \in [Threads -> Configs \cup {Off, Bad}]

\* Once a shutdown closes the saver no call is inside the plugin, and none
\* enters again, however many shutdowns and late calls race: r.active counts
\* the threads inside dispatch, so zero means that every call that was
\* admitted has left.
QuietAfterShutdown ==
  /\ TypeOK
  /\ active = Cardinality(InDispatch)
  /\ (down \/ \E t \in Threads : pc[t] = "closing") => InDispatch = {}
  /\ saver = Closed => stopped

\* Every admitted call returns, also those queued for lifecycleMu, and so
\* does every shutdown, as no call is admitted any more.
CallsReturn == \A t \in Threads : pc[t] # "idle" ~> pc[t] = "idle"
=============================================================================
