------------------------------ MODULE NativeABI -----------------------------
(***************************************************************************)
(* The C side of the plugin (main.go) and abi.BufferPool.  A response is   *)
(* copied into C memory, its address is entered into the pool and the host *)
(* gets it; later the host gives the address back, the pool forgets it and *)
(* then the memory is freed.  Copying and freeing happen outside the       *)
(* pool's mutex, so the allocator may hand an address out again at once.   *)
(***************************************************************************)
EXTENDS Host

CONSTANTS Addresses,   \* what the C allocator may return
          NoAddress

ASSUME NativeAssumption == NoAddress \notin Addresses

VARIABLES pc,      \* t -> where the thread is
          heap,    \* addresses the C allocator has given out
          pool,    \* keys of BufferPool.allocations
          buf,     \* t -> address in the hands of Allocate or Free
          length,  \* t -> length of the response to be written
          host,    \* addresses in responses the host has not given back
          lost     \* calls that ended without their response

nativeVars == <<heap, pool, buf, length, host, lost>>

NativeInit ==
  /\ heap = {} /\ pool = {} /\ host = {} /\ lost = 0
  /\ buf = [t \in Threads |-> NoAddress]
  /\ length = [t \in Threads |-> 0]

Goto(t, l) == pc' = [pc EXCEPT ![t] = l]

\* The call has its response, of n bytes.
Answer(t, n) ==
  /\ length' = [length EXCEPT ![t] = n]
  /\ Goto(t, "writing")
  /\ UNCHANGED <<heap, pool, buf, host, lost>>

\* BufferPool.Allocate: a response that is too long is refused and the host
\* gets none, any other is copied by C.CBytes.
Allocate(t) ==
  /\ pc[t] = "writing"
  /\ IF length[t] > MaxResponse
     THEN /\ lost' = lost + 1
          /\ length' = [length EXCEPT ![t] = 0]
          /\ Goto(t, "idle")
          /\ UNCHANGED <<heap, buf>>
     ELSE /\ \E a \in Addresses \ heap :
               heap' = heap \cup {a} /\ buf' = [buf EXCEPT ![t] = a]
          /\ Goto(t, "tracking")
          /\ UNCHANGED <<length, lost>>
  /\ UNCHANGED <<pool, host>>

\* BufferPool.Allocate under its mutex, and the return to the host; an
\* address that is in the pool already is refused and its memory dropped.
Track(t) ==
  /\ pc[t] = "tracking"
  /\ IF buf[t] \in pool
     THEN lost' = lost + 1 /\ UNCHANGED <<pool, host>>
     ELSE /\ pool' = pool \cup {buf[t]}
          /\ host' = host \cup {buf[t]}
          /\ UNCHANGED lost
  /\ buf' = [buf EXCEPT ![t] = NoAddress]
  /\ length' = [length EXCEPT ![t] = 0]
  /\ Goto(t, "idle")
  /\ UNCHANGED heap

\* Mutated form: the pool does not forget the address.
UntrackForgotten(t, a) ==
  /\ pc[t] = "idle"
  /\ a \in pool
  /\ host' = host \ {a}
  /\ buf' = [buf EXCEPT ![t] = a]
  /\ Goto(t, "freeing")
  /\ UNCHANGED <<heap, pool, length, lost>>

\* BufferPool.Free under its mutex: the host gives an address back.  One
\* that is not in the pool is ignored.
Untrack(t, a) ==
  /\ pc[t] = "idle"
  /\ a \in pool
  /\ host' = host \ {a}
  /\ pool' = pool \ {a}
  /\ buf' = [buf EXCEPT ![t] = a]
  /\ Goto(t, "freeing")
  /\ UNCHANGED <<heap, length, lost>>

\* C.free, after the mutex.
CFree(t) ==
  /\ pc[t] = "freeing"
  /\ heap' = heap \ {buf[t]}
  /\ buf' = [buf EXCEPT ![t] = NoAddress]
  /\ Goto(t, "idle")
  /\ UNCHANGED <<pool, length, host, lost>>

NativeStep(t) ==
  \/ Allocate(t) \/ Track(t) \/ CFree(t)
  \/ \E a \in host : Untrack(t, a)

InHand(labels) == {buf[t] : t \in {u \in Threads : pc[u] \in labels}}

\* Every address in the hands of the host is allocated and in the pool, so it
\* can be given back once; all other memory is on its way in or out, and no
\* two responses share an address.
BuffersExact ==
  /\ host = pool
  /\ heap = pool \cup InHand({"tracking", "freeing"})
  /\ \A t \in Threads : buf[t] \notin pool
  /\ \A t, u \in Threads : buf[t] = buf[u] /\ buf[t] # NoAddress => t = u

\* No response is lost: the allocator never returns an address the pool still
\* holds, and what the pipeline makes of a request that was accepted fits
\* into a response, although a body may grow and the limits of host messages
\* and of provider payloads are set apart.
NoResponseLost == lost = 0
=============================================================================
