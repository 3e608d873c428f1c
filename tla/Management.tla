----------------------------- MODULE Management -----------------------------
(***************************************************************************)
(* The lifecycle methods of abi.Runtime and management.Handler, which they *)
(* share lifecycleMu with.  A lifecycle call parses a document, gives the  *)
(* saver its next generation and then replaces the configuration store.    *)
(* A management request reads store and saver one after the other, the     *)
(* active Headroom check is limited by an in-flight mark and a cooldown,   *)
(* and the self-test runs the pipeline and looks for a generation change.  *)
(***************************************************************************)
EXTENDS Config, Host

CONSTANTS NoThread,
          Docs,            \* configuration documents the host may send
          Cooldown,        \* checkCooldown
          MaxClock,        \* bound on the clock
          MaxGenerations   \* bound on the generations published

ASSUME ManagementAssumption ==
  /\ NoThread \notin Threads
  /\ {Cooldown, MaxClock, MaxGenerations} \subseteq Nat
  /\ \A doc \in Docs : IsDocument(doc)

VARIABLES
  at,          \* t -> where the thread is
  asked,       \* t -> [op, doc]: the method or route, and the document
  lifecycle,   \* holder of r.lifecycleMu
  store,       \* r.configs
  published,   \* configurations of the saver's generations 0, 1, ...
  shown,       \* t -> what a management request has read so far, and the
               \*      attempt of a self-test or the time a check started
  answer,      \* t -> the answer's code
  checking,    \* handler.checkInFlight is taken
  lastCheckedAt, \* handler.lastCheckedAt: empty or a time
  lastSelfTest,  \* handler.lastSelfTest
  probeEnded,  \* history: when the last check's probe ended
  clock        \* handler.now()

handlerVars == <<checking, lastCheckedAt, lastSelfTest, probeEnded>>
managementVars == <<at, asked, lifecycle, store, published, shown, answer,
                    handlerVars, clock>>

Lifecycle == {"register", "reconfigure"}
Routes    == {"status", "self_test", "public_status", "check"}

\* One request; an invalid one is undecodable, unknown or asks for what never
\* changes.
Ops == Lifecycle \cup Routes \cup {"invalid"}

Blank  == [form |-> "blank", entries |-> <<>>]
Unread == [config |-> Defaults, valid |-> TRUE, generation |-> 0, attempt |-> 0]
NoCall == [op |-> "invalid", doc |-> Blank]

Generation == Len(published) - 1
Current    == published[Len(published)]

ManagementInit ==
  /\ at = [t \in Threads |-> "out"]
  /\ asked = [t \in Threads |-> NoCall]
  /\ lifecycle = NoThread
  /\ store = NewStore(Blank)
  /\ published = <<Defaults>>
  /\ shown = [t \in Threads |-> Unread]
  /\ answer = [t \in Threads |-> "none"]
  /\ checking = FALSE /\ lastCheckedAt = <<>> /\ lastSelfTest = "never"
  /\ probeEnded = <<>> /\ clock = 0

Step(t, l) == at' = [at EXCEPT ![t] = l]

\* The call is answered; the deferred unlock gives lifecycleMu back.
Done(t, code) ==
  /\ Step(t, "done")
  /\ answer' = [answer EXCEPT ![t] = code]
  /\ lifecycle' = IF lifecycle = t THEN NoThread ELSE lifecycle

\* Generations that the calls under way may still publish.
Reconfiguring == Cardinality({t \in Threads : asked[t].op \in Lifecycle})

\* dispatch: what cannot be decoded or is not known is answered at once.
Ask(t, op, doc) ==
  /\ at[t] = "out"
  /\ op \in Lifecycle => Generation + Reconfiguring < MaxGenerations
  /\ asked' = [asked EXCEPT ![t] = [op |-> op, doc |-> doc]]
  /\ IF op = "invalid" THEN Done(t, "invalid_request")
     ELSE Step(t, "queued") /\ UNCHANGED <<answer, lifecycle>>
  /\ UNCHANGED <<store, published, shown, handlerVars, clock>>

\* Mutated form: management requests do not take lifecycleMu.
LockSometimes(t) ==
  /\ at[t] = "queued"
  /\ IF asked[t].op \in Routes THEN UNCHANGED lifecycle
     ELSE lifecycle = NoThread /\ lifecycle' = t
  /\ Step(t, IF asked[t].op \in Routes THEN "handling" ELSE "locked")
  /\ UNCHANGED <<asked, store, published, shown, answer, handlerVars, clock>>

\* lifecycleMu is taken.
Lock(t) ==
  /\ at[t] = "queued"
  /\ lifecycle = NoThread
  /\ lifecycle' = t
  /\ Step(t, IF asked[t].op \in Routes THEN "handling" ELSE "locked")
  /\ UNCHANGED <<asked, store, published, shown, answer, handlerVars, clock>>
-----------------------------------------------------------------------------
\* register and reconfigure up to saver.Reconfigure.  A bad document is
\* refused by reconfigure and means safe-off to register.
Configure(t) ==
  LET new     == NewStore(asked[t].doc)
      refused == asked[t].op = "reconfigure" /\ ~new.valid
      started == new.config.headroom_enabled => ClientAccepts(new.config)
  IN
  /\ at[t] = "locked"
  /\ IF refused \/ ~started
     THEN /\ Done(t, IF refused THEN "invalid_config" ELSE "configure_failed")
          /\ UNCHANGED published
     ELSE /\ published' = Append(published, new.config)
          /\ Step(t, "storing")
          /\ UNCHANGED <<answer, lifecycle>>
  /\ UNCHANGED <<asked, store, shown, handlerVars, clock>>

\* r.configs.Store.
StoreConfig(t) ==
  /\ at[t] = "storing"
  /\ store' = NewStore(asked[t].doc)
  /\ Done(t, "registered")
  /\ UNCHANGED <<asked, published, shown, handlerVars, clock>>
-----------------------------------------------------------------------------
Handling(t, route) == at[t] = "handling" /\ asked[t].op = route

\* status: configuration() and, if Headroom is on, a probe of it.
StatusRead(t) ==
  /\ Handling(t, "status")
  /\ shown' = [shown EXCEPT ![t] = [@ EXCEPT !.config = store.config,
                                             !.valid = store.valid]]
  /\ Step(t, "status")
  /\ UNCHANGED <<asked, lifecycle, store, published, answer, handlerVars, clock>>

\* status: generation() and the answer.
StatusAnswer(t) ==
  /\ at[t] = "status"
  /\ shown' = [shown EXCEPT ![t].generation = Generation]
  /\ Done(t, "status")
  /\ UNCHANGED <<asked, store, published, handlerVars, clock>>

\* publicHeadroomStatus and the Headroom part of dashboard: without a valid
\* configuration that has Headroom on, the saver's snapshot is not looked at.
PublicStatus(t) ==
  /\ Handling(t, "public_status")
  /\ \E seen \in {"unknown", "ready", "degraded"} :
       Done(t, IF store.valid /\ store.config.headroom_enabled THEN seen
               ELSE "disabled")
  /\ UNCHANGED <<asked, store, published, shown, handlerVars, clock>>

Cooling == lastCheckedAt # <<>> /\ clock - lastCheckedAt[1] < Cooldown

\* check up to the probe; what keeps it from starting is tried in this order.
CheckStart(t) ==
  LET on      == store.valid /\ store.config.headroom_enabled
      refusal == IF ~on THEN "config_invalid" ELSE IF checking THEN "in_flight"
                 ELSE IF Cooling THEN "cooldown" ELSE "none"
  IN
  /\ Handling(t, "check")
  /\ IF refusal # "none"
     THEN Done(t, refusal) /\ UNCHANGED <<checking, shown>>
     ELSE /\ checking' = TRUE
          /\ shown' = [shown EXCEPT ![t].attempt = clock]
          /\ Step(t, "checking")
          /\ UNCHANGED <<answer, lifecycle>>
  /\ UNCHANGED <<asked, store, published, lastCheckedAt, lastSelfTest, probeEnded,
                 clock>>

\* Mutated form: the time from before the probe is recorded.
CheckEndEarly(t) ==
  /\ at[t] = "checking"
  /\ lastCheckedAt' = <<shown[t].attempt>>
  /\ probeEnded' = <<clock>>
  /\ checking' = FALSE
  /\ Done(t, "checked")
  /\ UNCHANGED <<asked, store, published, shown, lastSelfTest, clock>>

\* check after the probe: recordCheck, and the mark is taken back.
CheckEnd(t) ==
  /\ at[t] = "checking"
  /\ lastCheckedAt' = <<clock>>
  /\ probeEnded' = <<clock>>
  /\ checking' = FALSE
  /\ Done(t, "checked")
  /\ UNCHANGED <<asked, store, published, shown, lastSelfTest, clock>>
-----------------------------------------------------------------------------
\* selfTest, head of the loop: the generation is read first.
TestBegin(t) ==
  /\ Handling(t, "self_test")
  /\ shown' = [shown EXCEPT ![t].generation = Generation]
  /\ Step(t, "testing")
  /\ UNCHANGED <<asked, lifecycle, store, published, answer, handlerVars, clock>>

\* continue, or the end of the loop after two attempts.
TestAgain(t) ==
  /\ shown' = [shown EXCEPT ![t].attempt = @ + 1]
  /\ IF shown[t].attempt = 1
     THEN lastSelfTest' = "failed" /\ Done(t, "config_changed")
     ELSE Step(t, "handling") /\ UNCHANGED <<lastSelfTest, answer, lifecycle>>

\* selfTest: the configuration is read, the generation is compared.
TestConfig(t) ==
  /\ at[t] = "testing"
  /\ IF ~store.valid
     THEN lastSelfTest' = "failed" /\ Done(t, "config_invalid") /\ UNCHANGED shown
     ELSE IF Generation # shown[t].generation THEN TestAgain(t)
     ELSE Step(t, "normalizing") /\ UNCHANGED <<lastSelfTest, shown, answer, lifecycle>>
  /\ UNCHANGED <<asked, store, published, checking, lastCheckedAt, probeEnded, clock>>

\* selfTest: Normalize returned a body, which is JSON as the fixture is.
TestEnd(t) ==
  /\ at[t] = "normalizing"
  /\ IF Generation # shown[t].generation THEN TestAgain(t)
     ELSE lastSelfTest' = "passed" /\ Done(t, "passed") /\ UNCHANGED shown
  /\ UNCHANGED <<asked, store, published, checking, lastCheckedAt, probeEnded, clock>>

\* The call leaves the runtime.
Leave(t) ==
  /\ at[t] = "done"
  /\ Step(t, "out")
  /\ asked' = [asked EXCEPT ![t] = NoCall]
  /\ shown' = [shown EXCEPT ![t] = Unread]
  /\ answer' = [answer EXCEPT ![t] = "none"]
  /\ UNCHANGED <<lifecycle, store, published, handlerVars, clock>>

Tick ==
  /\ clock < MaxClock
  /\ clock' = clock + 1
  /\ UNCHANGED <<at, asked, lifecycle, store, published, shown, answer, handlerVars>>

ManagementStep(t) ==
  \/ Lock(t) \/ Configure(t) \/ StoreConfig(t)
  \/ StatusRead(t) \/ StatusAnswer(t) \/ PublicStatus(t)
  \/ CheckStart(t) \/ CheckEnd(t)
  \/ TestBegin(t) \/ TestConfig(t) \/ TestEnd(t)
-----------------------------------------------------------------------------
\* Between lifecycle calls the store and the saver's generation have the same
\* configuration, and a document that could not be read leaves every stage
\* off, with nothing of what it did say.  One that Parse accepts is never
\* refused by the Headroom client, so no lifecycle call fails half way.
ConfigAgreement ==
  /\ (\A t \in Threads : at[t] # "storing") =>
       /\ store.config = Current
       /\ ~store.valid => AllBypassed(Current)
  /\ \A t \in Threads : answer[t] # "configure_failed"

\* lifecycleMu keeps reconfigurations and other requests away from a
\* management request: the configuration and the generation of one status
\* answer belong together, the self-test never finds the generation changed,
\* and a check never finds another one in flight.
HandlerIsolated ==
  \A t \in Threads :
    /\ answer[t] \notin {"config_changed", "in_flight"}
    /\ answer[t] = "status" => shown[t].config = published[shown[t].generation + 1]

\* Two checks of Headroom are at least the cooldown apart, from the end of one
\* probe to the start of the next, however long probes take.
ProbesSpaced ==
  [][\A t \in Threads :
       at[t] # "checking" /\ at'[t] = "checking" =>
         /\ \A u \in Threads : at[u] # "checking"
         /\ probeEnded # <<>> => clock - probeEnded[1] >= Cooldown]_managementVars
=============================================================================
