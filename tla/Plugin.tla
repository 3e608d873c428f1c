------------------------------- MODULE Plugin -------------------------------
(***************************************************************************)
(* The shared library as its host sees it: module Management behind the C  *)
(* functions of module NativeABI.  The pipeline is reduced to the lengths  *)
(* of its bodies (module Pipeline), the runtime's count of active calls to *)
(* the threads that are calling (module PluginRuntime).                    *)
(***************************************************************************)
EXTENDS NativeABI, Management

CONSTANTS BodyLengths,  \* lengths of bodies, of requests and of results
          MaxProvider   \* maxProviderPayloadBytes

ASSUME PluginAssumption ==
  /\ BodyLengths \subseteq Nat
  /\ MaxRequest <= MaxResponse
  /\ MaxProvider \in Nat /\ ResponseLength(MaxProvider) <= MaxResponse

VARIABLES loaded,   \* the host has the table of functions
          stopped   \* r.stopped

vars == <<pc, nativeVars, managementVars, loaded, stopped>>

Init ==
  /\ NativeInit /\ ManagementInit
  /\ pc = [t \in Threads |-> "idle"]
  /\ loaded = FALSE /\ stopped = FALSE

\* cliproxy_plugin_init, refused after a shutdown.
Load(t) ==
  /\ pc[t] = "idle" /\ ~loaded /\ ~stopped
  /\ loaded' = TRUE
  /\ UNCHANGED <<pc, nativeVars, managementVars, stopped>>

\* Bound: the host holds no more responses than there are addresses.
MayCall(t) ==
  /\ pc[t] = "idle" /\ loaded
  /\ Cardinality(heap) + Cardinality({u \in Threads : pc[u] \in {"calling", "writing"}})
       < Cardinality(Addresses)

\* Length of an answer without a body.
Short == Envelope

\* cliproxyPluginCall refuses the method or the request, or Runtime.Call
\* every call after a shutdown; either way there is a response.
CallRefused(t) ==
  /\ MayCall(t)
  /\ Answer(t, Short)
  /\ UNCHANGED <<managementVars, loaded, stopped>>

\* cliproxyPluginCall with a lifecycle or management method.
Call(t, op, doc) ==
  /\ MayCall(t) /\ ~stopped
  /\ Ask(t, op, doc)
  /\ Goto(t, "calling")
  /\ UNCHANGED <<nativeVars, loaded, stopped>>

\* Runtime.Call returns.
Return(t) ==
  /\ Leave(t)
  /\ Answer(t, Short)
  /\ UNCHANGED <<loaded, stopped>>

\* Mutated form: the length of the result is not checked again.
NormalizedGrowing(n) ==
  IF AllBypassed(Current) \/ n = 0 \/ n > MaxProvider THEN {n} ELSE BodyLengths

\* Lengths of what Normalize may return.
Normalized(n) ==
  IF AllBypassed(Current) \/ n = 0 \/ n > MaxProvider THEN {n}
  ELSE {m \in BodyLengths : 0 < m /\ m <= MaxProvider}

\* cliproxyPluginCall with request.normalize, whose request fits.
CallNormalize(t, n) ==
  /\ MayCall(t) /\ ~stopped
  /\ RequestLength(n) <= MaxRequest
  /\ \E m \in Normalized(n) : Answer(t, ResponseLength(m))
  /\ UNCHANGED <<managementVars, loaded, stopped>>

\* cliproxyPluginShutdown: no call enters the runtime any more.
Shutdown(t) ==
  /\ pc[t] = "idle" /\ loaded
  /\ stopped' = TRUE
  /\ Goto(t, "stopping")
  /\ UNCHANGED <<nativeVars, managementVars, loaded>>

\* Shutdown has waited for the active calls.
ShutdownEnd(t) ==
  /\ pc[t] = "stopping"
  /\ \A u \in Threads : pc[u] # "calling"
  /\ Goto(t, "idle")
  /\ UNCHANGED <<nativeVars, managementVars, loaded, stopped>>

\* A step inside the C functions, or inside the runtime.
NativeOnly(t) == NativeStep(t) /\ UNCHANGED <<managementVars, loaded, stopped>>
RuntimeOnly(t) == ManagementStep(t) /\ UNCHANGED <<pc, nativeVars, loaded, stopped>>
TimePasses == Tick /\ UNCHANGED <<pc, nativeVars, loaded, stopped>>

Next ==
  \/ TimePasses
  \/ \E t \in Threads :
       \/ Load(t) \/ CallRefused(t) \/ Return(t) \/ Shutdown(t) \/ ShutdownEnd(t)
       \/ \E op \in Lifecycle, doc \in Docs : Call(t, op, doc)
       \/ \E op \in Ops \ Lifecycle : Call(t, op, Blank)
       \/ \E n \in BodyLengths : CallNormalize(t, n)
       \/ NativeOnly(t) \/ RuntimeOnly(t)

Spec == Init /\ [][Next]_vars
=============================================================================
