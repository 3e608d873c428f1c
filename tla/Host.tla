-------------------------------- MODULE Host --------------------------------
(***************************************************************************)
(* CLIProxyAPI, the host process: the threads that call the plugin and the *)
(* lengths, in bytes, of the JSON messages it exchanges with it.  The body *)
(* of a message travels in base64.                                         *)
(***************************************************************************)
EXTENDS Integers, FiniteSets

CONSTANTS Threads,     \* host threads
          MaxRequest,  \* MaxRequestBytes
          MaxResponse, \* MaxResponseBytes
          Overhead,    \* bytes of a normalize request around its body
          Envelope     \* bytes of a normalize response around its body

\* A host that sends every field of the request needs more bytes around the
\* body than the response does.
ASSUME HostAssumption ==
  /\ {MaxRequest, MaxResponse, Overhead, Envelope} \subseteq Nat
  /\ Envelope <= Overhead

\* encoding/json of n bytes.
Base64(n) == 4 * ((n + 2) \div 3)

RequestLength(n) == Base64(n) + Overhead
ResponseLength(n) == Base64(n) + Envelope
=============================================================================
