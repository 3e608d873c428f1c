----------------------------- MODULE ClientLease -----------------------------
(***************************************************************************)
(* What the saver service promises about its Headroom clients, without     *)
(* counters, locks or the order of its clean-up: clients succeed each      *)
(* other, only the newest is lent out, and a client is closed once, after  *)
(* it has been replaced or the service stopped and after its last user.    *)
(***************************************************************************)
EXTENDS Integers

CONSTANTS Users,   \* who may use a client
          Last     \* the last client that can be installed

Client == 0..Last

VARIABLES phase,   \* client -> its phase
          users    \* client -> who uses it

leaseVars == <<phase, users>>

LeaseInit ==
  /\ phase = [c \in Client |-> IF c = 0 THEN "live" ELSE "absent"]
  /\ users = [c \in Client |-> {}]

\* A new client replaces the live one.
Install(c) ==
  /\ c + 1 \in Client
  /\ phase[c] = "live"
  /\ phase[c + 1] = "absent"
  /\ phase' = [phase EXCEPT ![c] = "retired", ![c + 1] = "live"]
  /\ UNCHANGED users

\* The live client is retired without a successor, for good.
Stop(c) ==
  /\ phase[c] = "live"
  /\ phase' = [phase EXCEPT ![c] = "retired"]
  /\ UNCHANGED users

Use(u, c) ==
  /\ phase[c] = "live"
  /\ \A d \in Client : u \notin users[d]
  /\ users' = [users EXCEPT ![c] = @ \cup {u}]
  /\ UNCHANGED phase

Done(u, c) ==
  /\ u \in users[c]
  /\ users' = [users EXCEPT ![c] = @ \ {u}]
  /\ UNCHANGED phase

Close(c) ==
  /\ phase[c] = "retired"
  /\ users[c] = {}
  /\ phase' = [phase EXCEPT ![c] = "closed"]
  /\ UNCHANGED users

LeaseNext ==
  \E c \in Client :
    \/ Install(c) \/ Stop(c) \/ Close(c)
    \/ \E u \in Users : Use(u, c) \/ Done(u, c)

LeaseSpec == LeaseInit /\ [][LeaseNext]_leaseVars
=============================================================================
