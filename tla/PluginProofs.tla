---------------------------- MODULE PluginProofs ----------------------------
(***************************************************************************)
(* Proofs about Plugin for any threads, addresses, documents and limits:   *)
(* memory that crosses the boundary is owned once, no response is lost,    *)
(* the store and the saver agree, management requests are isolated, and    *)
(* checks of Headroom keep their distance.  The last part is about         *)
(* PluginRuntime, which shows the calls of the plugin in their finest      *)
(* steps: the count of admitted calls is exact, nothing is inside once a   *)
(* shutdown closes the plugin, lifecycleMu excludes, and between lifecycle *)
(* calls the saver and the store run the same configuration.               *)
(***************************************************************************)
EXTENDS Plugin, ProofLemmas

\* The stores that a document of the host, or none, can lead to, and the
\* configurations in them.
Stores  == {NewStore(doc) : doc \in Docs \cup {Blank}}
Snapshots == {s.config : s \in Stores}

Readings == [config : Snapshots, valid : BOOLEAN, generation : Nat, attempt : Nat]

\* Where a thread is while it has lifecycleMu, and all places.
Inside == {"locked", "storing", "handling", "status", "checking", "testing",
           "normalizing"}
Places == Inside \cup {"out", "queued", "done"}

\* The codes of answers.
Codes == {"none", "invalid_request", "invalid_config", "configure_failed",
          "registered", "status", "unknown", "ready", "degraded", "disabled",
          "config_invalid", "in_flight", "cooldown", "checked", "config_changed",
          "passed"}

ManagementTypes ==
  /\ at \in [Threads -> Places]
  /\ asked \in [Threads -> [op : Ops, doc : Docs \cup {Blank}]]
  /\ lifecycle \in Threads \cup {NoThread}
  /\ store \in Stores
  /\ published \in Seq(Snapshots) /\ Len(published) > 0
  /\ shown \in [Threads -> Readings]
  /\ answer \in [Threads -> Codes]
  /\ checking \in BOOLEAN
  /\ clock \in Nat
  /\ lastCheckedAt # <<>> => lastCheckedAt[1] \in Nat

\* lifecycleMu belongs to the one thread that is between Lock and Done.
Mutex == \A t \in Threads : at[t] \in Inside <=> lifecycle = t

\* The store is the saver's configuration, except while the thread that has
\* published one has not stored it.
Agreed ==
  /\ \/ store.config = Current
     \/ \E t \in Threads : at[t] = "storing"
  /\ \A t \in Threads : at[t] = "storing" => Current = NewStore(asked[t].doc).config

\* What a request has read is still so while it holds lifecycleMu.
Fresh ==
  \A t \in Threads :
    /\ at[t] = "status" => shown[t].config = store.config
    /\ at[t] \in {"testing", "normalizing"} => shown[t].generation = Generation

\* A call has an answer when it is done, and none of those that would show a
\* request disturbed by another.
Answered ==
  \A t \in Threads :
    /\ at[t] # "done" => answer[t] = "none"
    /\ answer[t] \notin {"configure_failed", "config_changed", "in_flight"}
    /\ answer[t] = "status" =>
         /\ shown[t].generation < Len(published)
         /\ shown[t].config = published[shown[t].generation + 1]

\* The in-flight mark is a check's, and the time recorded is that of the end
\* of the last probe.
Marked ==
  /\ checking => \E t \in Threads : at[t] = "checking"
  /\ probeEnded = lastCheckedAt

MInv == ManagementTypes /\ Mutex /\ Agreed /\ Fresh /\ Answered /\ Marked

NativeTypes ==
  /\ pc \in [Threads -> {"idle", "calling", "writing", "tracking", "freeing", "stopping"}]
  /\ buf \in [Threads -> Addresses \cup {NoAddress}]
  /\ length \in [Threads -> Nat]
  /\ pool \subseteq Addresses

\* A thread has an address while it allocates or frees, and the response it
\* is to write is not too long.
InHands ==
  \A t \in Threads :
    /\ pc[t] \in {"tracking", "freeing"} <=> buf[t] # NoAddress
    /\ length[t] <= MaxResponse

\* A thread is in the runtime while the C function waits for it.
Entered == \A t \in Threads : at[t] # "out" <=> pc[t] = "calling"

NInv == NativeTypes /\ InHands /\ BuffersExact /\ NoResponseLost

\* The inductive invariant.
IInv == MInv /\ NInv /\ Entered
-----------------------------------------------------------------------------
\* What normalizeHeadroomURL keeps, NewClient accepts.
LEMMA KeptURL ==
  ASSUME NEW u \in URLs, NormalizeHeadroomURL(u) # <<>>
  PROVE  FixedEndpoint(NormalizeHeadroomURL(u)[1])
<1> DEFINE good == /\ ~u.padded /\ ~u.broken
                   /\ u.scheme = "http" /\ u.extras = {}
                   /\ u.path \in {"", "/"}
                   /\ u.host \in Loopback
                   /\ PortInRange(u.port)
<1>1. PICK v : v = [u EXCEPT !.path = ""]
  OBVIOUS
<1>2. /\ v.padded = u.padded /\ v.broken = u.broken /\ v.scheme = u.scheme
      /\ v.extras = u.extras /\ v.host = u.host /\ v.port = u.port /\ v.path = ""
  BY ONLY u \in URLs, <1>1 DEF URLs
<1>3. NormalizeHeadroomURL(u) = IF good THEN <<[u EXCEPT !.path = ""]>> ELSE <<>>
  BY ONLY TRUE DEF NormalizeHeadroomURL
<1>4. good /\ NormalizeHeadroomURL(u) = <<v>>
  <2> HIDE DEF good
  <2>1. QED
    BY ONLY NormalizeHeadroomURL(u) # <<>>, <1>1, <1>3
<1>5. /\ ~u.padded /\ ~u.broken /\ u.scheme = "http" /\ u.extras = {}
      /\ u.host \in Loopback /\ PortInRange(u.port)
  BY ONLY <1>4
<1>6. u.host # ""
  BY ONLY <1>5 DEF Loopback
<1>7. FixedEndpoint(v)
  BY ONLY <1>2, <1>5, <1>6 DEF FixedEndpoint
<1> HIDE DEF good
<1>8. NormalizeHeadroomURL(u)[1] = v
  BY ONLY <1>4
<1>9. QED
  BY ONLY <1>7, <1>8

\* Any port on the loopback will do.
LEMMA LoopbackAccepted ==
  ASSUME NEW port, PortInRange(port)
  PROVE  FixedEndpoint(URL("127.0.0.1", port))
<1>1. PICK u : u = URL("127.0.0.1", port)
  OBVIOUS
<1> DEFINE none == ""
<1>2. u = [padded |-> FALSE, broken |-> FALSE, scheme |-> "http", extras |-> {},
           path |-> none, host |-> "127.0.0.1", port |-> port]
  BY ONLY <1>1, Zenon DEF URL
<1> HIDE DEF none
<1>3. /\ ~u.padded /\ ~u.broken /\ u.scheme = "http" /\ u.extras = {}
      /\ u.path = none /\ u.host = "127.0.0.1"
  BY ONLY <1>2
<1>4. PortInRange(u.port)
  BY ONLY PortInRange(port), <1>2
<1>5. "127.0.0.1" # "" /\ "127.0.0.1" \in Loopback
  BY Zenon DEF Loopback
<1>6. /\ u.host # "" /\ u.host \in Loopback
  BY ONLY <1>3, <1>5, Zenon
<1>7. u.path \in {"", "/"}
  BY ONLY <1>3, Zenon DEF none
<1>8. FixedEndpoint(u)
  BY ONLY <1>3, <1>4, <1>6, <1>7, Zenon DEF FixedEndpoint
<1>9. QED
  BY ONLY <1>1, <1>8

\* A decoded value of a field that NewClient checks is as NewClient demands.
Demanded(field, value) ==
  /\ field = "headroom_url" => FixedEndpoint(value[1])
  /\ field = "headroom_timeout_ms" => value[1] \in 100..1500

\* A URL and a timeout that Parse has decoded are such that NewClient accepts
\* them.
LEMMA DecodedAccepted ==
  ASSUME NEW node, NEW field,
         field = "headroom_url" /\ IsScalar(node, "str") => node.url \in URLs,
         Decoded(field, node) # <<>>
  PROVE  Demanded(field, Decoded(field, node))
<1>1. ASSUME field = "headroom_url" PROVE FixedEndpoint(Decoded(field, node)[1])
  <2>1. Decoded(field, node) =
          IF IsScalar(node, "str") THEN NormalizeHeadroomURL(node.url) ELSE <<>>
    BY ONLY <1>1 DEF Decoded, Booleans
  <2>2. /\ IsScalar(node, "str")
        /\ Decoded(field, node) = NormalizeHeadroomURL(node.url)
    BY <2>1
  <2>3. node.url \in URLs
    BY <1>1, <2>2
  <2>4. QED
    BY <2>2, <2>3, KeptURL
<1>2. ASSUME field = "headroom_timeout_ms"
      PROVE  Decoded(field, node)[1] \in 100..1500
  <2> DEFINE good == /\ IsScalar(node, "int") /\ node.legal
                     /\ node.int \in MinHeadroomTimeoutMS..MaxHeadroomTimeoutMS
  <2>1. Decoded(field, node) = IF good THEN <<node.int>> ELSE <<>>
    BY ONLY <1>2 DEF Decoded, Booleans
  <2>2. good /\ Decoded(field, node) = <<node.int>>
    <3> HIDE DEF good
    <3>1. QED
      BY <2>1
  <2>3. node.int \in 100..1500
    BY <2>2 DEF MinHeadroomTimeoutMS, MaxHeadroomTimeoutMS
  <2>4. QED
    BY ONLY <2>2, <2>3
<1>3. QED
  BY <1>1, <1>2 DEF Demanded

\* A configuration that Parse returns is one NewClient accepts.
LEMMA ParsedAccepted ==
  ASSUME NEW doc, IsDocument(doc), Parse(doc) # <<>>
  PROVE  ClientAccepts(Parse(doc)[1])
<1>1. /\ ClientAccepts(Defaults)
      /\ FixedEndpoint(Defaults.headroom_url)
      /\ Defaults.headroom_timeout_ms \in 100..1500
  <2>1. /\ Defaults.headroom_url = URL("127.0.0.1", <<8787>>)
        /\ Defaults.headroom_timeout_ms = 1500
    BY DEF Defaults, DefaultHeadroomURL, MaxHeadroomTimeoutMS
  <2>2. PortInRange(<<8787>>) /\ 1500 \in 100..1500
    BY DEF PortInRange
  <2>3. FixedEndpoint(URL("127.0.0.1", <<8787>>))
    BY <2>2, LoopbackAccepted
  <2>4. QED
    BY ONLY <2>1, <2>2, <2>3 DEF ClientAccepts
<1>2. CASE Parse(doc) = <<Defaults>>
  BY <1>1, <1>2
<1>3. CASE Parse(doc) # <<Defaults>>
  <2> DEFINE Field(n) == doc.entries[n].key
             Value(n) == Decoded(Field(n), doc.entries[n].node)
             known == {n \in DOMAIN doc.entries : Field(n) \in Known}
             given == {Field(n) : n \in known}
             Place(f) == CHOOSE n \in known : Field(n) = f
             refused == \/ \E n, m \in known : n # m /\ Field(n) = Field(m)
                        \/ \E n \in known : Value(n) = <<>>
             blank == doc.form = "blank"
             mapping == doc.form = "mapping" /\ ~refused
             c == [f \in Known |-> IF f \in given THEN Value(Place(f))[1]
                                   ELSE Defaults[f]]
  <2>1. Parse(doc) = CASE blank -> <<Defaults>>
                       [] mapping -> <<c>>
                       [] OTHER -> <<>>
    BY DEF Parse
  <2>2. mapping /\ Parse(doc) = <<c>>
    <3>1. ~ (blank /\ mapping)
      OBVIOUS
    <3> HIDE DEF blank, c, mapping
    <3>2. QED
      BY ONLY Parse(doc) # <<>>, <1>3, <2>1, <3>1
  <2>3. ASSUME NEW n \in known PROVE Value(n) # <<>>
    BY <2>2
  <2>4. ASSUME NEW n \in known
        PROVE  Demanded(Field(n), Value(n))
    <3>1. n \in DOMAIN doc.entries
      OBVIOUS
    <3>2. Field(n) = "headroom_url" /\ IsScalar(doc.entries[n].node, "str")
            => doc.entries[n].node.url \in URLs
      BY ONLY IsDocument(doc), <3>1 DEF IsDocument
    <3>3. Value(n) # <<>>
      BY <2>3
    <3>4. QED
      BY ONLY <3>2, <3>3, DecodedAccepted
  <2>5. ASSUME NEW f \in given PROVE Place(f) \in known /\ Field(Place(f)) = f
    <3>1. \E n \in known : Field(n) = f
      OBVIOUS
    <3> HIDE DEF known, Field
    <3>2. QED
      BY ONLY <3>1
  <2> HIDE DEF Place, Value, Field, given, known, mapping
  <2>6. /\ c.headroom_url = IF "headroom_url" \in given
                            THEN Value(Place("headroom_url"))[1]
                            ELSE Defaults.headroom_url
        /\ c.headroom_timeout_ms = IF "headroom_timeout_ms" \in given
                                   THEN Value(Place("headroom_timeout_ms"))[1]
                                   ELSE Defaults.headroom_timeout_ms
    BY DEF Known
  <2> HIDE DEF c
  <2>7. FixedEndpoint(c.headroom_url) /\ c.headroom_timeout_ms \in 100..1500
    BY ONLY <1>1, <2>4, <2>5, <2>6 DEF Demanded
  <2>8. ClientAccepts(c)
    BY ONLY <2>7 DEF ClientAccepts
  <2>9. QED
    BY ONLY <2>2, <2>8
<1>4. QED
  BY <1>2, <1>3

\* A store either has a configuration that NewClient accepts, or it has the
\* defaults because the document could not be read.
LEMMA StoresAccepted ==
  ASSUME NEW s \in Stores
  PROVE  /\ s \in [config : Snapshots, valid : BOOLEAN]
         /\ s.valid => ClientAccepts(s.config)
         /\ ~s.valid => s.config = Defaults
<1>1. PICK doc \in Docs \cup {Blank} : s = NewStore(doc)
  BY DEF Stores
<1>2. IsDocument(doc)
  BY ManagementAssumption DEF IsDocument, Blank
<1>3. s.config \in Snapshots
  BY DEF Snapshots
<1>4. CASE Parse(doc) = <<>>
  BY <1>1, <1>3, <1>4 DEF NewStore
<1>5. CASE Parse(doc) # <<>>
  BY <1>1, <1>2, <1>3, <1>5, ParsedAccepted DEF NewStore
<1>6. QED
  BY <1>4, <1>5
-----------------------------------------------------------------------------
\* The C side.

\* What is written to the host is not too long: a body that came in fits into
\* a response, because a response has less around it than a request, and so
\* does one that the pipeline has checked.
LEMMA ResponsesFit ==
  /\ Short \in Nat /\ Short <= MaxResponse
  /\ \A n \in BodyLengths : RequestLength(n) <= MaxRequest =>
       \A m \in Normalized(n) :
         ResponseLength(m) \in Nat /\ ResponseLength(m) <= MaxResponse
<1>1. /\ MaxRequest \in Nat /\ MaxResponse \in Nat /\ Overhead \in Nat
      /\ Envelope \in Nat /\ Envelope <= Overhead
  BY HostAssumption
<1>2. /\ BodyLengths \subseteq Nat /\ MaxRequest <= MaxResponse
      /\ MaxProvider \in Nat /\ ResponseLength(MaxProvider) <= MaxResponse
  BY PluginAssumption
<1>3. ASSUME NEW m \in Nat PROVE Base64(m) \in Nat
  BY DEF Base64
<1>4. ASSUME NEW m \in Nat, NEW n \in Nat, m <= n PROVE Base64(m) <= Base64(n)
  BY <1>4 DEF Base64
<1>5. Short \in Nat /\ Short <= MaxResponse
  BY <1>1, <1>2, <1>3 DEF Short, ResponseLength
<1>6. ASSUME NEW n \in BodyLengths, RequestLength(n) <= MaxRequest,
             NEW m \in Normalized(n)
      PROVE  ResponseLength(m) \in Nat /\ ResponseLength(m) <= MaxResponse
  <2>1. m = n \/ (m \in BodyLengths /\ m <= MaxProvider)
    BY DEF Normalized
  <2>2. m \in Nat /\ n \in Nat
    BY <1>2, <2>1
  <2>3. CASE m = n
    BY <1>1, <1>2, <1>3, <1>6, <2>2, <2>3 DEF ResponseLength, RequestLength
  <2>4. CASE m <= MaxProvider
    BY <1>1, <1>2, <1>3, <1>4, <2>2, <2>4 DEF ResponseLength
  <2>5. QED
    BY <2>1, <2>3, <2>4
<1>7. QED
  BY <1>5, <1>6

\* A thread that has no address goes somewhere else where it has none.
Outer == {"idle", "calling", "writing", "stopping"}

Passes(t, l) ==
  /\ pc[t] \in Outer /\ l \in Outer
  /\ Goto(t, l)
  /\ UNCHANGED <<heap, pool, buf, host, lost>>
  /\ \/ UNCHANGED length
     \/ \E n \in Nat : n <= MaxResponse /\ length' = [length EXCEPT ![t] = n]

\* Such a step disturbs nothing.
LEMMA PassesStep ==
  ASSUME NInv, NEW t \in Threads, NEW l, Passes(t, l)
  PROVE  NInv'
<1>1. /\ pc' = [pc EXCEPT ![t] = l] /\ pc[t] \in Outer /\ l \in Outer
      /\ heap' = heap /\ pool' = pool /\ buf' = buf /\ host' = host /\ lost' = lost
  BY DEF Passes, Goto
<1>2. NativeTypes'
  BY <1>1 DEF NInv, NativeTypes, Passes, Outer
<1>3. ASSUME NEW u \in Threads
      PROVE  pc'[u] \in {"tracking", "freeing"} <=> pc[u] \in {"tracking", "freeing"}
  BY <1>1 DEF NInv, NativeTypes, Outer
<1>4. InHands'
  BY <1>1, <1>3 DEF NInv, NativeTypes, InHands, Passes
<1>5. BuffersExact'
  <2>1. InHand({"tracking", "freeing"})' = InHand({"tracking", "freeing"})
    BY <1>1, <1>3 DEF InHand
  <2>2. QED
    BY <1>1, <2>1 DEF NInv, BuffersExact
<1>6. NoResponseLost'
  BY <1>1 DEF NInv, NoResponseLost
<1>7. QED
  BY <1>2, <1>4, <1>5, <1>6 DEF NInv

\* Which memory is allocated, address by address.
LEMMA HeapPointwise ==
  ASSUME BuffersExact
  PROVE  \A a : a \in heap <=>
           \/ a \in pool
           \/ \E u \in Threads : pc[u] \in {"tracking", "freeing"} /\ buf[u] = a
BY DEF BuffersExact, InHand

\* A step of the allocator or of the pool.
LEMMA NativeStepKeeps ==
  ASSUME NInv, NEW t \in Threads, NativeStep(t)
  PROVE  NInv'
<1> USE DEF NInv
<1>1. CASE Allocate(t)
  <2>1. length[t] <= MaxResponse /\ length[t] \in Nat /\ MaxResponse \in Nat
    BY HostAssumption DEF InHands, NativeTypes
  <2>2. PICK a \in Addresses \ heap :
          /\ heap' = heap \cup {a} /\ buf' = [buf EXCEPT ![t] = a]
          /\ pc' = [pc EXCEPT ![t] = "tracking"]
          /\ pc[t] = "writing"
          /\ length' = length /\ lost' = lost /\ pool' = pool /\ host' = host
    BY <1>1, <2>1 DEF Allocate, Goto
  <2>3. a # NoAddress /\ a \notin pool
    BY NativeAssumption, HeapPointwise
  <2>4. NativeTypes'
    BY <2>2 DEF NativeTypes
  <2>5. InHands'
    BY <2>2, <2>3 DEF NativeTypes, InHands
  <2>6. \A x : x \in heap' <=>
          \/ x \in pool'
          \/ \E u \in Threads : pc'[u] \in {"tracking", "freeing"} /\ buf'[u] = x
    <3>1. pc[t] \notin {"tracking", "freeing"}
      BY <2>2
    <3>2. \A u \in Threads :
            /\ u # t => pc'[u] = pc[u] /\ buf'[u] = buf[u]
            /\ u = t => pc'[u] = "tracking" /\ buf'[u] = a
      BY <2>2 DEF NativeTypes
    <3>3. QED
      BY <2>2, <3>1, <3>2, HeapPointwise
  <2>7. BuffersExact'
    <3>1. heap' = pool' \cup InHand({"tracking", "freeing"})'
      BY <2>6 DEF InHand
    <3>2. \A u \in Threads : u # t => buf[u] # a
      BY <2>2, <2>3, HeapPointwise DEF InHands
    <3>3. \A u \in Threads : /\ u # t => buf'[u] = buf[u]
                             /\ u = t => buf'[u] = a
      BY <2>2 DEF NativeTypes
    <3>4. QED
      BY <2>2, <2>3, <3>1, <3>2, <3>3 DEF BuffersExact
  <2>8. NoResponseLost'
    BY <2>2 DEF NoResponseLost
  <2>9. QED
    BY <2>4, <2>5, <2>7, <2>8
<1>2. CASE Track(t)
  <2>1. buf[t] \notin pool /\ pc[t] = "tracking"
    BY <1>2 DEF Track, BuffersExact
  <2>2. /\ pool' = pool \cup {buf[t]} /\ host' = host \cup {buf[t]}
        /\ lost' = lost /\ heap' = heap
        /\ buf' = [buf EXCEPT ![t] = NoAddress]
        /\ length' = [length EXCEPT ![t] = 0]
        /\ pc' = [pc EXCEPT ![t] = "idle"]
    BY <1>2, <2>1 DEF Track, Goto
  <2>3. buf[t] # NoAddress /\ buf[t] \in Addresses
    BY <2>1 DEF InHands, NativeTypes
  <2>4. NativeTypes'
    BY <2>2, <2>3 DEF NativeTypes
  <2>5. InHands'
    BY <2>2, HostAssumption DEF NativeTypes, InHands
  <2>6. \A u \in Threads :
          /\ u # t => pc'[u] = pc[u] /\ buf'[u] = buf[u]
          /\ u = t => pc'[u] = "idle" /\ buf'[u] = NoAddress
    BY <2>2 DEF NativeTypes
  <2>7. \A x : x \in heap' <=>
          \/ x \in pool'
          \/ \E u \in Threads : pc'[u] \in {"tracking", "freeing"} /\ buf'[u] = x
    BY <2>1, <2>2, <2>6, HeapPointwise
  <2>8. BuffersExact'
    <3>1. heap' = pool' \cup InHand({"tracking", "freeing"})'
      BY <2>7 DEF InHand
    <3>2. ASSUME NEW u \in Threads PROVE buf'[u] \notin pool'
      BY <2>2, <2>3, <2>6, NativeAssumption DEF BuffersExact, NativeTypes
    <3>3. ASSUME NEW u \in Threads, NEW v \in Threads,
                 buf'[u] = buf'[v], buf'[u] # NoAddress
          PROVE  u = v
      BY <2>6, <3>3 DEF BuffersExact
    <3>4. QED
      BY <2>2, <3>1, <3>2, <3>3 DEF BuffersExact
  <2>9. NoResponseLost'
    BY <2>2 DEF NoResponseLost
  <2>10. QED
    BY <2>4, <2>5, <2>8, <2>9
<1>3. CASE CFree(t)
  <2>1. /\ pc[t] = "freeing" /\ heap' = heap \ {buf[t]}
        /\ buf' = [buf EXCEPT ![t] = NoAddress]
        /\ pc' = [pc EXCEPT ![t] = "idle"]
        /\ pool' = pool /\ length' = length /\ host' = host /\ lost' = lost
    BY <1>3 DEF CFree, Goto
  <2>2. buf[t] # NoAddress /\ buf[t] \notin pool
    BY <2>1 DEF InHands, BuffersExact
  <2>3. NativeTypes'
    BY <2>1 DEF NativeTypes
  <2>4. InHands'
    BY <2>1 DEF NativeTypes, InHands
  <2>5. \A u \in Threads :
          /\ u # t => pc'[u] = pc[u] /\ buf'[u] = buf[u]
          /\ u = t => pc'[u] = "idle" /\ buf'[u] = NoAddress
    BY <2>1 DEF NativeTypes
  <2>6. \A u \in Threads : u # t => buf[u] # buf[t]
    BY <2>2 DEF BuffersExact
  <2>7. \A x : x \in heap' <=>
          \/ x \in pool'
          \/ \E u \in Threads : pc'[u] \in {"tracking", "freeing"} /\ buf'[u] = x
    BY <2>1, <2>2, <2>5, <2>6, HeapPointwise
  <2>8. BuffersExact'
    <3>1. heap' = pool' \cup InHand({"tracking", "freeing"})'
      BY <2>7 DEF InHand
    <3>2. ASSUME NEW u \in Threads PROVE buf'[u] \notin pool'
      BY <2>1, <2>5, NativeAssumption DEF BuffersExact, NativeTypes
    <3>3. QED
      BY <2>1, <2>5, <3>1, <3>2 DEF BuffersExact
  <2>9. NoResponseLost'
    BY <2>1 DEF NoResponseLost
  <2>10. QED
    BY <2>3, <2>4, <2>8, <2>9
<1>4. CASE \E a \in host : Untrack(t, a)
  <2>1. PICK a \in pool :
          /\ pc[t] = "idle"
          /\ host' = host \ {a} /\ pool' = pool \ {a}
          /\ buf' = [buf EXCEPT ![t] = a]
          /\ pc' = [pc EXCEPT ![t] = "freeing"]
          /\ heap' = heap /\ length' = length /\ lost' = lost
    BY <1>4 DEF Untrack, Goto
  <2>2. a # NoAddress /\ a \in Addresses
    BY NativeAssumption DEF NativeTypes
  <2>3. NativeTypes'
    BY <2>1, <2>2 DEF NativeTypes
  <2>4. InHands'
    BY <2>1, <2>2 DEF NativeTypes, InHands
  <2>5. \A u \in Threads :
          /\ u # t => pc'[u] = pc[u] /\ buf'[u] = buf[u]
          /\ u = t => pc'[u] = "freeing" /\ buf'[u] = a
    BY <2>1 DEF NativeTypes
  <2>6. \A u \in Threads : buf[u] # a
    BY DEF BuffersExact
  <2>7. \A x : x \in heap' <=>
          \/ x \in pool'
          \/ \E u \in Threads : pc'[u] \in {"tracking", "freeing"} /\ buf'[u] = x
    <3>1. pc[t] \notin {"tracking", "freeing"}
      BY <2>1
    <3>2. QED
      BY <2>1, <2>5, <3>1, HeapPointwise
  <2>8. BuffersExact'
    <3>1. heap' = pool' \cup InHand({"tracking", "freeing"})'
      BY <2>7 DEF InHand
    <3>2. ASSUME NEW u \in Threads PROVE buf'[u] \notin pool'
      BY <2>1, <2>5 DEF BuffersExact
    <3>3. QED
      BY <2>1, <2>5, <2>6, <3>1, <3>2 DEF BuffersExact
  <2>9. NoResponseLost'
    BY <2>1 DEF NoResponseLost
  <2>10. QED
    BY <2>3, <2>4, <2>8, <2>9
<1>5. QED
  BY <1>1, <1>2, <1>3, <1>4 DEF NativeStep
-----------------------------------------------------------------------------
\* Lifecycle and management requests.

\* What a step of the thread leaves alone of the others.
Others(t) ==
  \A u \in Threads \ {t} :
    /\ at'[u] = at[u] /\ asked'[u] = asked[u]
    /\ shown'[u] = shown[u] /\ answer'[u] = answer[u]

Idle == UNCHANGED <<store, published, checking, lastCheckedAt, probeEnded, clock>>

\* The steps of a request, as kinds: it waits for lifecycleMu or is decided
\* without it, or it leaves.
Waits(t) ==
  /\ at[t] \in {"out", "queued", "done"} /\ at'[t] \in {"out", "queued", "done"}
  /\ IF at'[t] = "done" THEN answer'[t] = "invalid_request" ELSE answer'[t] = "none"
  /\ UNCHANGED lifecycle /\ Idle

\* It takes lifecycleMu.
Locks(t) ==
  /\ lifecycle = NoThread /\ lifecycle' = t
  /\ at[t] = "queued" /\ at'[t] \in {"locked", "handling"}
  /\ answer'[t] = answer[t] /\ Idle

\* It goes on with lifecycleMu, having read the store or the generation.
Reads(t) ==
  /\ at[t] \in Inside /\ at'[t] \in {"status", "testing", "normalizing"}
  /\ at'[t] = "status" => shown'[t].config = store.config
  /\ at'[t] = "testing" => shown'[t].generation = Generation
  /\ at'[t] = "normalizing" => at[t] = "testing" /\ shown'[t] = shown[t]
  /\ at[t] \notin {"storing", "checking"}
  /\ answer'[t] = answer[t]
  /\ UNCHANGED lifecycle /\ Idle

\* saver.Reconfigure publishes a configuration.
Publishes(t) ==
  /\ at[t] = "locked" /\ at'[t] = "storing"
  /\ published' = Append(published, NewStore(asked[t].doc).config)
  /\ asked'[t] = asked[t] /\ answer'[t] = answer[t]
  /\ UNCHANGED <<lifecycle, store, checking, lastCheckedAt, probeEnded, clock>>

\* A probe starts.
Probes(t) ==
  /\ at[t] = "handling" /\ at'[t] = "checking"
  /\ ~checking /\ checking' = TRUE /\ ~Cooling
  /\ answer'[t] = answer[t]
  /\ UNCHANGED <<lifecycle, store, published, lastCheckedAt, probeEnded, clock>>

\* It is answered, and stores the configuration, ends the probe or neither.
Ends(t) ==
  /\ at[t] \in Inside /\ at'[t] = "done"
  /\ lifecycle' = NoThread
  /\ answer'[t] \notin {"configure_failed", "config_changed", "in_flight"}
  /\ answer'[t] = "status" =>
       /\ at[t] = "status" /\ shown'[t].config = shown[t].config
       /\ shown'[t].generation = Generation
  /\ IF at[t] = "storing" THEN store' = NewStore(asked[t].doc) ELSE UNCHANGED store
  /\ IF at[t] = "checking"
     THEN checking' = FALSE /\ lastCheckedAt' = <<clock>> /\ probeEnded' = <<clock>>
     ELSE UNCHANGED <<checking, lastCheckedAt, probeEnded>>
  /\ UNCHANGED <<published, clock>>

Kind(t) == Waits(t) \/ Locks(t) \/ Reads(t) \/ Publishes(t) \/ Probes(t) \/ Ends(t)

\* A thread at a place inside has lifecycleMu.
LEMMA DoneEffect ==
  ASSUME MInv, NEW t \in Threads, NEW code \in Codes, at[t] \in Inside,
         Done(t, code)
  PROVE  /\ at' = [at EXCEPT ![t] = "done"]
         /\ answer' = [answer EXCEPT ![t] = code]
         /\ lifecycle' = NoThread
         /\ at'[t] = "done" /\ answer'[t] = code
         /\ \A u \in Threads \ {t} : at'[u] = at[u] /\ answer'[u] = answer[u]
BY DEF MInv, Mutex, ManagementTypes, Done, Step

\* A step to another place.
LEMMA StepEffect ==
  ASSUME MInv, NEW t \in Threads, NEW l \in Places, Step(t, l)
  PROVE  /\ at' = [at EXCEPT ![t] = l]
         /\ at'[t] = l
         /\ \A u \in Threads \ {t} : at'[u] = at[u]
BY DEF MInv, ManagementTypes, Step

\* The store before any document, and after a blank one.
LEMMA BlankStore ==
  NewStore(Blank) \in Stores /\ NewStore(Blank).config = Defaults /\ Defaults \in Snapshots
<1>1. NewStore(Blank) \in Stores
  BY DEF Stores
<1>2. NewStore(Blank).config = Defaults
  <2>1. Blank.form = "blank"
    BY DEF Blank
  <2>2. Parse(Blank) = <<Defaults>>
    BY <2>1 DEF Parse
  <2>3. QED
    BY <2>2 DEF NewStore
<1>3. QED
  BY <1>1, <1>2 DEF Snapshots

\* Every step of a thread is of one of these kinds and keeps the types.
LEMMA ManagementKinds ==
  ASSUME MInv, NEW t \in Threads,
         \/ ManagementStep(t)
         \/ Leave(t)
         \/ \E op \in Ops, doc \in Docs \cup {Blank} : Ask(t, op, doc)
  PROVE  ManagementTypes' /\ Others(t) /\ Kind(t)
<1> USE DEF Places, Inside, Codes
<1>1. ManagementTypes
  BY DEF MInv
<1>2. ASSUME NEW op \in Ops, NEW doc \in Docs \cup {Blank}, Ask(t, op, doc)
      PROVE  ManagementTypes' /\ Others(t) /\ Kind(t)
  <2>1. /\ at[t] = "out" /\ lifecycle # t
        /\ answer[t] = "none"
    BY <1>2 DEF Ask, MInv, Mutex, Answered
  <2>2. /\ asked' = [asked EXCEPT ![t] = [op |-> op, doc |-> doc]]
        /\ \/ /\ at' = [at EXCEPT ![t] = "done"]
              /\ answer' = [answer EXCEPT ![t] = "invalid_request"]
           \/ /\ at' = [at EXCEPT ![t] = "queued"] /\ answer' = answer
        /\ lifecycle' = lifecycle /\ store' = store /\ published' = published
        /\ shown' = shown /\ clock' = clock
        /\ checking' = checking /\ lastCheckedAt' = lastCheckedAt
        /\ probeEnded' = probeEnded
    BY <1>2, <2>1 DEF Ask, Done, Step, handlerVars
  <2>3. ManagementTypes'
    BY <1>1, <2>2 DEF ManagementTypes
  <2>4. Others(t)
    BY <1>1, <2>2 DEF ManagementTypes, Others
  <2>5. Waits(t)
    BY <1>1, <2>1, <2>2 DEF ManagementTypes, Waits, Idle
  <2>6. QED
    BY <2>3, <2>4, <2>5 DEF Kind
<1>3. CASE Leave(t)
  <2>1. NoCall \in [op : Ops, doc : Docs \cup {Blank}] /\ Unread \in Readings
    <3>1. Defaults \in Snapshots
      BY BlankStore
    <3>2. QED
      BY <3>1 DEF NoCall, Ops, Unread, Readings
  <2>2. /\ at[t] = "done" /\ at' = [at EXCEPT ![t] = "out"]
        /\ asked' = [asked EXCEPT ![t] = NoCall]
        /\ shown' = [shown EXCEPT ![t] = Unread]
        /\ answer' = [answer EXCEPT ![t] = "none"]
        /\ lifecycle' = lifecycle /\ store' = store /\ published' = published
        /\ clock' = clock /\ checking' = checking
        /\ lastCheckedAt' = lastCheckedAt /\ probeEnded' = probeEnded
    BY <1>3 DEF Leave, Step, handlerVars
  <2>3. ManagementTypes'
    BY <1>1, <2>1, <2>2 DEF ManagementTypes
  <2>4. Others(t)
    BY <1>1, <2>2 DEF ManagementTypes, Others
  <2>5. Waits(t)
    BY <1>1, <2>2 DEF ManagementTypes, Waits, Idle
  <2>6. QED
    BY <2>3, <2>4, <2>5 DEF Kind
<1>4. CASE Lock(t)
  <2>1. /\ at[t] = "queued" /\ lifecycle = NoThread /\ lifecycle' = t
        /\ \E l \in {"handling", "locked"} : at' = [at EXCEPT ![t] = l]
        /\ asked' = asked /\ store' = store /\ published' = published
        /\ shown' = shown /\ answer' = answer /\ clock' = clock
        /\ checking' = checking /\ lastCheckedAt' = lastCheckedAt
        /\ probeEnded' = probeEnded
    BY <1>4 DEF Lock, Step, handlerVars
  <2>2. ManagementTypes'
    BY <1>1, <2>1 DEF ManagementTypes
  <2>3. Others(t)
    BY <1>1, <2>1 DEF ManagementTypes, Others
  <2>4. Locks(t)
    BY <1>1, <2>1 DEF ManagementTypes, Locks, Idle
  <2>5. QED
    BY <2>2, <2>3, <2>4 DEF Kind
<1>5. CASE Configure(t)
  <2>1. asked[t].doc \in Docs \cup {Blank} /\ at[t] = "locked"
    BY <1>1, <1>5 DEF ManagementTypes, Configure
  <2>2. PICK new : new = NewStore(asked[t].doc)
    OBVIOUS
  <2>3. new \in Stores /\ new.config \in Snapshots
    BY <2>1, <2>2 DEF Stores, Snapshots
  <2>4. new.config.headroom_enabled => ClientAccepts(new.config)
    <3>1. Defaults.headroom_enabled = FALSE
      BY DEF Defaults
    <3>2. CASE new.valid
      BY <2>3, <3>2, StoresAccepted
    <3>3. CASE ~new.valid
      BY <2>3, <3>1, <3>3, StoresAccepted
    <3>4. QED
      BY <3>2, <3>3
  <2>5. /\ asked' = asked /\ store' = store /\ shown' = shown /\ clock' = clock
        /\ checking' = checking /\ lastCheckedAt' = lastCheckedAt
        /\ probeEnded' = probeEnded
        /\ \/ Done(t, "invalid_config") /\ published' = published
           \/ /\ published' = Append(published, new.config)
              /\ Step(t, "storing")
              /\ answer' = answer /\ lifecycle' = lifecycle
    BY <1>5, <2>2, <2>4 DEF Configure, handlerVars
  <2>6. CASE Done(t, "invalid_config") /\ published' = published
    <3>1. /\ at' = [at EXCEPT ![t] = "done"]
          /\ answer' = [answer EXCEPT ![t] = "invalid_config"]
          /\ lifecycle' = NoThread
      BY <2>1, <2>6, DoneEffect
    <3>2. ManagementTypes'
      BY <1>1, <2>5, <2>6, <3>1 DEF ManagementTypes
    <3>3. Others(t)
      BY <1>1, <2>5, <3>1 DEF ManagementTypes, Others
    <3>4. Ends(t)
      BY <1>1, <2>1, <2>5, <2>6, <3>1 DEF ManagementTypes, Ends
    <3>5. QED
      BY <3>2, <3>3, <3>4 DEF Kind
  <2>7. CASE /\ published' = Append(published, new.config)
             /\ Step(t, "storing") /\ answer' = answer /\ lifecycle' = lifecycle
    <3>1. at' = [at EXCEPT ![t] = "storing"]
      BY <2>7 DEF Step
    <3>2. ManagementTypes'
      <4>1. published' \in Seq(Snapshots) /\ Len(published') > 0
        BY <1>1, <2>3, <2>7 DEF ManagementTypes
      <4>2. QED
        BY <1>1, <2>5, <2>7, <3>1, <4>1 DEF ManagementTypes
    <3>3. Others(t)
      BY <1>1, <2>5, <2>7, <3>1 DEF ManagementTypes, Others
    <3>4. Publishes(t)
      BY <1>1, <2>1, <2>2, <2>5, <2>7, <3>1 DEF ManagementTypes, Publishes
    <3>5. QED
      BY <3>2, <3>3, <3>4 DEF Kind
  <2>8. QED
    BY <2>5, <2>6, <2>7
<1>6. CASE StoreConfig(t)
  <2>1. /\ at[t] = "storing"
        /\ Done(t, "registered")
        /\ store' = NewStore(asked[t].doc)
        /\ asked' = asked /\ published' = published /\ clock' = clock
        /\ shown' = shown /\ checking' = checking
        /\ lastCheckedAt' = lastCheckedAt /\ probeEnded' = probeEnded
    BY <1>6 DEF StoreConfig, handlerVars
  <2>2. /\ at' = [at EXCEPT ![t] = "done"]
        /\ answer' = [answer EXCEPT ![t] = "registered"]
        /\ lifecycle' = NoThread
    BY <2>1, DoneEffect
  <2>3. store' \in Stores
    BY <1>1, <2>1 DEF ManagementTypes, Stores
  <2>4. ManagementTypes'
    BY <1>1, <2>1, <2>2, <2>3 DEF ManagementTypes
  <2>5. Others(t)
    BY <1>1, <2>1, <2>2 DEF ManagementTypes, Others
  <2>6. Ends(t)
    BY <1>1, <2>1, <2>2 DEF ManagementTypes, Ends
  <2>7. QED
    BY <2>4, <2>5, <2>6 DEF Kind
<1>7. CASE StatusRead(t)
  <2>1. /\ at[t] = "handling" /\ at' = [at EXCEPT ![t] = "status"]
        /\ shown' = [shown EXCEPT ![t] = [@ EXCEPT !.config = store.config,
                                                   !.valid = store.valid]]
        /\ asked' = asked /\ lifecycle' = lifecycle /\ store' = store
        /\ published' = published /\ answer' = answer /\ clock' = clock
        /\ checking' = checking /\ lastCheckedAt' = lastCheckedAt
        /\ probeEnded' = probeEnded
    BY <1>7 DEF StatusRead, Handling, Step, handlerVars
  <2>2. store.config \in Snapshots /\ store.valid \in BOOLEAN
    BY <1>1, StoresAccepted DEF ManagementTypes
  <2>3. shown' \in [Threads -> Readings] /\ shown'[t].config = store.config
    BY <1>1, <2>1, <2>2 DEF ManagementTypes, Readings
  <2>4. ManagementTypes'
    BY <1>1, <2>1, <2>3 DEF ManagementTypes
  <2>5. Others(t)
    BY <1>1, <2>1 DEF ManagementTypes, Others
  <2>6. Reads(t)
    BY <1>1, <2>1, <2>3 DEF ManagementTypes, Reads, Idle
  <2>7. QED
    BY <2>4, <2>5, <2>6 DEF Kind
<1>8. CASE StatusAnswer(t)
  <2>1. /\ at[t] = "status"
        /\ Done(t, "status")
        /\ shown' = [shown EXCEPT ![t].generation = Generation]
        /\ asked' = asked /\ published' = published /\ clock' = clock
        /\ store' = store /\ checking' = checking
        /\ lastCheckedAt' = lastCheckedAt /\ probeEnded' = probeEnded
    BY <1>8 DEF StatusAnswer, handlerVars
  <2>2. /\ at' = [at EXCEPT ![t] = "done"]
        /\ answer' = [answer EXCEPT ![t] = "status"]
        /\ lifecycle' = NoThread
    BY <2>1, DoneEffect
  <2>3. Generation \in Nat
    BY <1>1 DEF ManagementTypes, Generation
  <2>4. /\ shown' \in [Threads -> Readings]
        /\ shown'[t].generation = Generation /\ shown'[t].config = shown[t].config
    BY <1>1, <2>1, <2>3 DEF ManagementTypes, Readings
  <2>5. ManagementTypes'
    BY <1>1, <2>1, <2>2, <2>4 DEF ManagementTypes
  <2>6. Others(t)
    BY <1>1, <2>1, <2>2 DEF ManagementTypes, Others
  <2>7. Ends(t)
    BY <1>1, <2>1, <2>2, <2>4 DEF ManagementTypes, Ends
  <2>8. QED
    BY <2>5, <2>6, <2>7 DEF Kind
<1>9. ASSUME NEW code \in Codes, Done(t, code),
             code \notin {"configure_failed", "config_changed", "in_flight", "status"},
             at[t] \in Inside \ {"storing", "checking"},
             UNCHANGED <<asked, store, published, shown, checking, lastCheckedAt,
                         probeEnded, clock>>
      PROVE  ManagementTypes' /\ Others(t) /\ Kind(t)
  <2>1. /\ at' = [at EXCEPT ![t] = "done"]
        /\ answer' = [answer EXCEPT ![t] = code]
        /\ lifecycle' = NoThread
    BY <1>9, DoneEffect
  <2>2. ManagementTypes'
    BY <1>1, <1>9, <2>1 DEF ManagementTypes
  <2>3. Others(t)
    BY <1>1, <1>9, <2>1 DEF ManagementTypes, Others
  <2>4. Ends(t)
    BY <1>1, <1>9, <2>1 DEF ManagementTypes, Ends
  <2>5. QED
    BY <2>2, <2>3, <2>4 DEF Kind
<1>10. CASE PublicStatus(t)
  <2>1. PICK code \in {"unknown", "ready", "degraded", "disabled"} : Done(t, code)
    BY <1>10 DEF PublicStatus
  <2>2. at[t] = "handling" /\ UNCHANGED <<asked, store, published, shown, checking,
                                          lastCheckedAt, probeEnded, clock>>
    BY <1>10 DEF PublicStatus, Handling, handlerVars
  <2>3. QED
    BY <1>9, <2>1, <2>2
<1>11. CASE CheckStart(t)
  <2>1. at[t] = "handling" /\ lifecycle = t
    BY <1>11 DEF CheckStart, Handling, MInv, Mutex
  <2>2. checking = FALSE
    BY <1>1, <2>1 DEF MInv, Mutex, Marked, ManagementTypes
  <2>3. \/ \E code \in {"config_invalid", "cooldown"} :
             Done(t, code) /\ checking' = checking /\ shown' = shown
        \/ /\ ~Cooling
           /\ checking' = TRUE
           /\ shown' = [shown EXCEPT ![t].attempt = clock]
           /\ at' = [at EXCEPT ![t] = "checking"]
           /\ answer' = answer /\ lifecycle' = lifecycle
    BY <1>11, <2>2 DEF CheckStart, Step
  <2>4. /\ asked' = asked /\ store' = store /\ published' = published
        /\ lastCheckedAt' = lastCheckedAt /\ probeEnded' = probeEnded
        /\ clock' = clock
    BY <1>11 DEF CheckStart
  <2>5. CASE \E code \in {"config_invalid", "cooldown"} :
               Done(t, code) /\ checking' = checking /\ shown' = shown
    BY <1>9, <2>1, <2>4, <2>5
  <2>6. CASE /\ ~Cooling
             /\ checking' = TRUE
             /\ shown' = [shown EXCEPT ![t].attempt = clock]
             /\ at' = [at EXCEPT ![t] = "checking"]
             /\ answer' = answer /\ lifecycle' = lifecycle
    <3>1. shown' \in [Threads -> Readings]
      BY <1>1, <2>6 DEF ManagementTypes, Readings
    <3>2. ManagementTypes'
      BY <1>1, <2>4, <2>6, <3>1 DEF ManagementTypes
    <3>3. Others(t)
      BY <1>1, <2>4, <2>6 DEF ManagementTypes, Others
    <3>4. Probes(t)
      BY <1>1, <2>1, <2>2, <2>4, <2>6 DEF ManagementTypes, Probes
    <3>5. QED
      BY <3>2, <3>3, <3>4 DEF Kind
  <2>7. QED
    BY <2>3, <2>5, <2>6
<1>12. CASE CheckEnd(t)
  <2>1. /\ at[t] = "checking"
        /\ Done(t, "checked")
        /\ lastCheckedAt' = <<clock>> /\ probeEnded' = <<clock>> /\ checking' = FALSE
        /\ asked' = asked /\ published' = published /\ clock' = clock
        /\ store' = store /\ shown' = shown
    BY <1>12 DEF CheckEnd
  <2>2. /\ at' = [at EXCEPT ![t] = "done"]
        /\ answer' = [answer EXCEPT ![t] = "checked"]
        /\ lifecycle' = NoThread
    BY <2>1, DoneEffect
  <2>3. lastCheckedAt'[1] \in Nat
    BY <1>1, <2>1 DEF ManagementTypes
  <2>4. ManagementTypes'
    BY <1>1, <2>1, <2>2, <2>3 DEF ManagementTypes
  <2>5. Others(t)
    BY <1>1, <2>1, <2>2 DEF ManagementTypes, Others
  <2>6. Ends(t)
    BY <1>1, <2>1, <2>2 DEF ManagementTypes, Ends
  <2>7. QED
    BY <2>4, <2>5, <2>6 DEF Kind
<1>13. CASE TestBegin(t)
  <2>1. /\ at[t] = "handling" /\ at' = [at EXCEPT ![t] = "testing"]
        /\ shown' = [shown EXCEPT ![t].generation = Generation]
        /\ asked' = asked /\ lifecycle' = lifecycle /\ store' = store
        /\ published' = published /\ answer' = answer /\ clock' = clock
        /\ checking' = checking /\ lastCheckedAt' = lastCheckedAt
        /\ probeEnded' = probeEnded
    BY <1>13 DEF TestBegin, Handling, Step, handlerVars
  <2>2. Generation \in Nat
    BY <1>1 DEF ManagementTypes, Generation
  <2>3. shown' \in [Threads -> Readings] /\ shown'[t].generation = Generation
    BY <1>1, <2>1, <2>2 DEF ManagementTypes, Readings
  <2>4. ManagementTypes'
    BY <1>1, <2>1, <2>3 DEF ManagementTypes
  <2>5. Others(t)
    BY <1>1, <2>1 DEF ManagementTypes, Others
  <2>6. Reads(t)
    BY <1>1, <2>1, <2>3 DEF ManagementTypes, Reads, Idle
  <2>7. QED
    BY <2>4, <2>5, <2>6 DEF Kind
<1>14. CASE TestConfig(t)
  <2>1. at[t] = "testing" /\ Generation = shown[t].generation
    BY <1>14 DEF TestConfig, MInv, Fresh
  <2>2. /\ asked' = asked /\ store' = store /\ published' = published
        /\ checking' = checking /\ lastCheckedAt' = lastCheckedAt
        /\ probeEnded' = probeEnded /\ clock' = clock
        /\ shown' = shown
        /\ \/ Done(t, "config_invalid")
           \/ /\ at' = [at EXCEPT ![t] = "normalizing"]
              /\ answer' = answer /\ lifecycle' = lifecycle
    BY <1>14, <2>1 DEF TestConfig, Step
  <2>3. CASE Done(t, "config_invalid")
    BY <1>9, <2>1, <2>2, <2>3
  <2>4. CASE /\ at' = [at EXCEPT ![t] = "normalizing"]
             /\ answer' = answer /\ lifecycle' = lifecycle
    <3>1. ManagementTypes'
      BY <1>1, <2>2, <2>4 DEF ManagementTypes
    <3>2. Others(t)
      BY <1>1, <2>2, <2>4 DEF ManagementTypes, Others
    <3>3. Reads(t)
      BY <1>1, <2>1, <2>2, <2>4 DEF ManagementTypes, Reads, Idle
    <3>4. QED
      BY <3>1, <3>2, <3>3 DEF Kind
  <2>5. QED
    BY <2>2, <2>3, <2>4
<1>15. CASE TestEnd(t)
  <2>1. at[t] = "normalizing" /\ Generation = shown[t].generation
    BY <1>15 DEF TestEnd, MInv, Fresh
  <2>2. Done(t, "passed") /\ UNCHANGED <<asked, store, published, shown, checking,
                                         lastCheckedAt, probeEnded, clock>>
    BY <1>15, <2>1 DEF TestEnd
  <2>3. QED
    BY <1>9, <2>1, <2>2
<1>16. QED
  BY <1>2, <1>3, <1>4, <1>5, <1>6, <1>7, <1>8, <1>10, <1>11, <1>12, <1>13, <1>14,
     <1>15 DEF ManagementStep

\* Appending to a sequence of configurations leaves the others where they are.
LEMMA Appended ==
  ASSUME NEW s \in Seq(Snapshots), Len(s) > 0, NEW c \in Snapshots
  PROVE  /\ Len(Append(s, c)) = Len(s) + 1
         /\ Append(s, c)[Len(s) + 1] = c
         /\ \A n \in Nat : n < Len(s) => Append(s, c)[n + 1] = s[n + 1]
OBVIOUS

\* lifecycleMu still has one holder after a step of any kind.
LEMMA MutexStep ==
  ASSUME MInv, NEW t \in Threads, Others(t), Kind(t)
  PROVE  Mutex'
<1>1. Mutex /\ NoThread \notin Threads /\ lifecycle \in Threads \cup {NoThread}
  BY ManagementAssumption DEF MInv, ManagementTypes
<1>2. \/ lifecycle' = lifecycle /\ (at[t] \in Inside <=> at'[t] \in Inside)
      \/ lifecycle = NoThread /\ lifecycle' = t /\ at'[t] \in Inside
      \/ at[t] \in Inside /\ lifecycle' = NoThread /\ at'[t] \notin Inside
  <2>1. ASSUME Waits(t) PROVE lifecycle' = lifecycle /\ at[t] \notin Inside /\ at'[t] \notin Inside
    BY <2>1 DEF Waits, Inside
  <2>2. ASSUME Locks(t) PROVE lifecycle = NoThread /\ lifecycle' = t /\ at'[t] \in Inside
    BY <2>2 DEF Locks, Inside
  <2>3. ASSUME Reads(t) \/ Publishes(t) \/ Probes(t)
        PROVE  lifecycle' = lifecycle /\ at[t] \in Inside /\ at'[t] \in Inside
    BY <2>3 DEF Reads, Publishes, Probes, Inside
  <2>4. ASSUME Ends(t) PROVE at[t] \in Inside /\ lifecycle' = NoThread /\ at'[t] \notin Inside
    BY <2>4 DEF Ends, Inside
  <2>5. QED
    BY <2>1, <2>2, <2>3, <2>4 DEF Kind
<1>3. ASSUME NEW u \in Threads PROVE at'[u] \in Inside <=> lifecycle' = u
  <2>1. CASE u = t
    BY <1>1, <1>2, <2>1 DEF Mutex
  <2>2. CASE u # t
    BY <1>1, <1>2, <2>2 DEF Mutex, Others
  <2>3. QED
    BY <2>1, <2>2
<1>4. QED
  BY <1>3 DEF Mutex

\* Two threads are not both inside.
LEMMA Alone ==
  ASSUME Mutex, NEW t \in Threads, NEW u \in Threads, at[t] \in Inside,
         at[u] \in Inside
  PROVE  t = u
BY DEF Mutex

\* The store and the saver still agree.
LEMMA AgreedStep ==
  ASSUME MInv, NEW t \in Threads, Others(t), Kind(t)
  PROVE  Agreed'
<1> USE DEF Inside
<1>1. Mutex /\ Agreed /\ published \in Seq(Snapshots) /\ Len(published) > 0
  BY DEF MInv, ManagementTypes
<1>2. CASE Publishes(t)
  <2>1. NewStore(asked[t].doc).config \in Snapshots
    <3>1. asked[t].doc \in Docs \cup {Blank}
      BY DEF MInv, ManagementTypes
    <3>2. QED
      BY <3>1 DEF Snapshots, Stores
  <2>2. Current' = NewStore(asked[t].doc).config
    BY <1>1, <1>2, <2>1, Appended DEF Publishes, Current
  <2>3. \A u \in Threads : u # t => at'[u] # "storing"
    BY <1>1, <1>2 DEF Publishes, Others, Mutex
  <2>4. at'[t] = "storing" /\ asked'[t] = asked[t]
    BY <1>2 DEF Publishes
  <2>5. QED
    BY <2>2, <2>3, <2>4 DEF Agreed
<1>3. CASE ~Publishes(t)
  <2>1. published' = published /\ Current' = Current
    BY <1>3 DEF Kind, Waits, Locks, Reads, Probes, Ends, Idle, Current
  <2>2. \A u \in Threads : at'[u] = "storing" => at[u] = "storing" /\ asked'[u] = asked[u]
    <3>1. at'[t] # "storing"
      BY <1>3 DEF Kind, Waits, Locks, Reads, Probes, Ends
    <3>2. QED
      BY <3>1 DEF Others
  <2>3. CASE at[t] = "storing"
    <3>1. store' = NewStore(asked[t].doc)
      BY <1>3, <2>3 DEF Kind, Waits, Locks, Reads, Probes, Ends
    <3>2. QED
      BY <1>1, <2>1, <2>2, <2>3, <3>1 DEF Agreed
  <2>4. CASE at[t] # "storing"
    <3>1. store' = store
      BY <1>3, <2>4 DEF Kind, Waits, Locks, Reads, Probes, Ends, Idle
    <3>2. \A u \in Threads : at[u] = "storing" => at'[u] = "storing"
      BY <2>4 DEF Others
    <3>3. QED
      BY <1>1, <2>1, <2>2, <3>1, <3>2 DEF Agreed
  <2>5. QED
    BY <2>3, <2>4
<1>4. QED
  BY <1>2, <1>3

\* What the holder of lifecycleMu has read stays so.
LEMMA FreshStep ==
  ASSUME MInv, NEW t \in Threads, Others(t), Kind(t)
  PROVE  Fresh'
<1>1. Mutex /\ Fresh /\ Mutex'
  BY MutexStep DEF MInv
<1>2. ASSUME NEW u \in Threads, at'[u] \in {"status", "testing", "normalizing"}
      PROVE  /\ at'[u] = "status" => shown'[u].config = store'.config
             /\ at'[u] \in {"testing", "normalizing"} => shown'[u].generation = Generation'
  <2>1. CASE u = t
    <3>1. Reads(t)
      BY <1>2, <2>1 DEF Kind, Waits, Locks, Publishes, Probes, Ends
    <3>2. store' = store /\ Generation' = Generation
      BY <3>1 DEF Reads, Idle, Generation
    <3>3. QED
      BY <1>1, <1>2, <2>1, <3>1, <3>2 DEF Reads, Fresh
  <2>2. CASE u # t
    <3>1. at[u] = at'[u] /\ shown'[u] = shown[u]
      BY <2>2 DEF Others
    <3>2. at[t] \notin Inside /\ at'[t] \notin Inside
      BY <1>1, <1>2, <2>2, <3>1 DEF Inside, Mutex
    <3>3. Waits(t)
      BY <3>2 DEF Kind, Locks, Reads, Publishes, Probes, Ends, Inside
    <3>4. store' = store /\ Generation' = Generation
      BY <3>3 DEF Waits, Idle, Generation
    <3>5. QED
      BY <1>1, <3>1, <3>4 DEF Fresh
  <2>3. QED
    BY <2>1, <2>2
<1>3. QED
  BY <1>2 DEF Fresh

\* Answers stay as they were given.
LEMMA AnsweredStep ==
  ASSUME MInv, NEW t \in Threads, Others(t), Kind(t), ManagementTypes'
  PROVE  Answered'
<1>1. /\ Mutex /\ Fresh /\ Answered /\ Agreed
      /\ published \in Seq(Snapshots) /\ Len(published) > 0
      /\ shown \in [Threads -> Readings]
  BY DEF MInv, ManagementTypes
<1>2. /\ Len(published') >= Len(published)
      /\ Len(published) \in Nat /\ Len(published') \in Nat
      /\ \A n \in Nat : n < Len(published) => published'[n + 1] = published[n + 1]
  <2>1. CASE Publishes(t)
    <3>1. NewStore(asked[t].doc).config \in Snapshots
      <4>1. asked[t].doc \in Docs \cup {Blank}
        BY DEF MInv, ManagementTypes
      <4>2. QED
        BY <4>1 DEF Snapshots, Stores
    <3>2. published' = Append(published, NewStore(asked[t].doc).config)
      BY <2>1 DEF Publishes
    <3>3. QED
      BY <1>1, <3>1, <3>2, Appended
  <2>2. CASE ~Publishes(t)
    <3>1. published' = published
      BY <2>2 DEF Kind, Waits, Locks, Reads, Probes, Ends, Idle
    <3>2. QED
      BY <1>1, <3>1
  <2>3. QED
    BY <2>1, <2>2
<1>3. ASSUME NEW u \in Threads
      PROVE  /\ at'[u] # "done" => answer'[u] = "none"
             /\ answer'[u] \notin {"configure_failed", "config_changed", "in_flight"}
             /\ answer'[u] = "status" =>
                  /\ shown'[u].generation < Len(published')
                  /\ shown'[u].config = published'[shown'[u].generation + 1]
  <2>1. CASE u # t
    <3>1. at'[u] = at[u] /\ answer'[u] = answer[u] /\ shown'[u] = shown[u]
      BY <2>1 DEF Others
    <3>2. shown[u].generation \in Nat
      BY <1>1 DEF Readings
    <3>3. QED
      BY <1>1, <1>2, <3>1, <3>2 DEF Answered
  <2>2. CASE u = t /\ ~Ends(t)
    <3>1. /\ at'[t] # "done" => answer'[t] = "none"
          /\ answer'[t] \in {"none", "invalid_request"}
      <4>1. ASSUME Waits(t) PROVE /\ at'[t] # "done" => answer'[t] = "none"
                                  /\ answer'[t] \in {"none", "invalid_request"}
        BY <4>1 DEF Waits
      <4>2. ASSUME ~Waits(t) PROVE answer'[t] = answer[t] /\ at[t] # "done"
        BY <2>2, <4>2 DEF Kind, Locks, Reads, Publishes, Probes, Inside
      <4>3. QED
        BY <1>1, <4>1, <4>2 DEF Answered
    <3>2. QED
      BY <2>2, <3>1
  <2>3. CASE u = t /\ Ends(t)
    <3>1. /\ at'[t] = "done"
          /\ answer'[t] \notin {"configure_failed", "config_changed", "in_flight"}
          /\ answer'[t] = "status" =>
               /\ at[t] = "status" /\ shown'[t].config = shown[t].config
               /\ shown'[t].generation = Generation
      BY <2>3 DEF Ends
    <3>2. ASSUME answer'[t] = "status"
          PROVE  /\ shown'[t].generation < Len(published')
                 /\ shown'[t].config = published'[shown'[t].generation + 1]
      <4>1. shown[t].config = store.config
        BY <1>1, <3>1, <3>2 DEF Fresh
      <4>2. store.config = Current
        <5>1. \A v \in Threads : at[v] # "storing"
          BY <1>1, <3>1, <3>2 DEF Mutex, Inside
        <5>2. QED
          BY <1>1, <5>1 DEF Agreed
      <4>3. /\ Generation \in Nat /\ Generation < Len(published)
            /\ Current = published[Generation + 1]
        BY <1>1 DEF Generation, Current
      <4>4. QED
        BY <1>2, <3>1, <3>2, <4>1, <4>2, <4>3
    <3>3. QED
      BY <2>3, <3>1, <3>2
  <2>4. QED
    BY <2>1, <2>2, <2>3
<1>4. QED
  BY <1>3 DEF Answered

\* The in-flight mark stays with the check that made it.
LEMMA MarkedStep ==
  ASSUME MInv, NEW t \in Threads, Others(t), Kind(t)
  PROVE  Marked'
<1>1. Mutex /\ Marked
  BY DEF MInv
<1>2. probeEnded' = lastCheckedAt'
  BY <1>1 DEF Marked, Kind, Waits, Locks, Reads, Publishes, Probes, Ends, Idle
<1>3. ASSUME checking' PROVE \E u \in Threads : at'[u] = "checking"
  <2>1. CASE Probes(t)
    BY <2>1 DEF Probes
  <2>2. CASE ~Probes(t)
    <3>1. checking /\ at[t] # "checking"
      <4>1. ASSUME Ends(t) PROVE checking /\ at[t] # "checking"
        BY <1>3, <4>1 DEF Ends
      <4>2. ASSUME ~Ends(t) PROVE checking /\ at[t] # "checking"
        BY <1>3, <2>2, <4>2 DEF Kind, Waits, Locks, Reads, Publishes, Idle
      <4>3. QED
        BY <4>1, <4>2
    <3>2. PICK u \in Threads : at[u] = "checking"
      BY <1>1, <3>1 DEF Marked
    <3>3. at'[u] = "checking"
      BY <3>1, <3>2 DEF Others
    <3>4. QED
      BY <3>3
  <2>3. QED
    BY <2>1, <2>2
<1>4. QED
  BY <1>2, <1>3 DEF Marked

\* So every step of a thread keeps the invariant of the requests.
LEMMA ManagementKeeps ==
  ASSUME MInv, NEW t \in Threads, ManagementTypes', Others(t), Kind(t)
  PROVE  MInv'
BY MutexStep, AgreedStep, FreshStep, AnsweredStep, MarkedStep DEF MInv

\* So does a step that leaves all of it alone, or only moves the clock.
LEMMA ManagementStutters ==
  ASSUME MInv, UNCHANGED <<at, asked, lifecycle, store, published, shown, answer,
                           checking, lastCheckedAt, probeEnded>>,
         clock' \in Nat
  PROVE  MInv'
<1>1. ManagementTypes' /\ Mutex' /\ Agreed'
  BY DEF MInv, ManagementTypes, Mutex, Agreed, Current
<1>2. Fresh' /\ Answered' /\ Marked'
  BY DEF MInv, Fresh, Answered, Marked, Generation
<1>3. QED
  BY <1>1, <1>2 DEF MInv
-----------------------------------------------------------------------------
\* The plugin.

\* The initial state has the invariant.
LEMMA InitIInv == Init => IInv
<1> SUFFICES ASSUME Init PROVE IInv
  OBVIOUS
<1>1. /\ pc = [t \in Threads |-> "idle"] /\ buf = [t \in Threads |-> NoAddress]
      /\ length = [t \in Threads |-> 0] /\ heap = {} /\ pool = {} /\ host = {}
      /\ lost = 0
  BY DEF Init, NativeInit
<1>2. NInv
  <2>1. NativeTypes
    BY <1>1 DEF NativeTypes
  <2>2. InHands
    BY <1>1, HostAssumption DEF InHands
  <2>3. InHand({"tracking", "freeing"}) = {}
    BY <1>1 DEF InHand
  <2>4. BuffersExact
    BY <1>1, <2>3 DEF BuffersExact
  <2>5. QED
    BY <1>1, <2>1, <2>2, <2>4 DEF NInv, NoResponseLost
<1>3. /\ at = [t \in Threads |-> "out"] /\ asked = [t \in Threads |-> NoCall]
      /\ lifecycle = NoThread /\ store = NewStore(Blank) /\ published = <<Defaults>>
      /\ shown = [t \in Threads |-> Unread] /\ answer = [t \in Threads |-> "none"]
      /\ checking = FALSE /\ lastCheckedAt = <<>> /\ probeEnded = <<>> /\ clock = 0
  BY DEF Init, ManagementInit
<1>4. store \in Stores /\ store.config = Defaults /\ Defaults \in Snapshots
  BY <1>3, BlankStore
<1>5. ManagementTypes
  <2>1. NoCall \in [op : Ops, doc : Docs \cup {Blank}] /\ Unread \in Readings
    BY <1>4 DEF NoCall, Ops, Unread, Readings
  <2>2. published \in Seq(Snapshots) /\ Len(published) > 0
    BY <1>3, <1>4
  <2>3. QED
    BY <1>3, <1>4, <2>1, <2>2 DEF ManagementTypes, Places, Codes
<1>6. Mutex
  BY <1>3, ManagementAssumption DEF Mutex, Inside
<1>7. Agreed
  <2>1. Current = Defaults
    BY <1>3 DEF Current
  <2>2. QED
    BY <1>3, <1>4, <2>1 DEF Agreed
<1>8. Fresh /\ Answered /\ Marked
  BY <1>3 DEF Fresh, Answered, Marked
<1>9. Entered
  BY <1>1, <1>3 DEF Entered
<1>10. QED
  BY <1>2, <1>5, <1>6, <1>7, <1>8, <1>9 DEF IInv, MInv

\* Every step keeps it.
LEMMA StepIInv == IInv /\ [Next]_vars => IInv'
<1> SUFFICES ASSUME IInv, [Next]_vars PROVE IInv'
  OBVIOUS
<1>1. /\ MInv /\ NInv /\ Entered
      /\ pc \in [Threads -> {"idle", "calling", "writing", "tracking", "freeing", "stopping"}]
      /\ at \in [Threads -> Places] /\ clock \in Nat
  BY DEF IInv, NInv, NativeTypes, MInv, ManagementTypes
<1>2. ASSUME UNCHANGED managementVars PROVE MInv'
  BY <1>1, <1>2, ManagementStutters DEF managementVars, handlerVars
<1>3. ASSUME UNCHANGED <<pc, nativeVars>> PROVE NInv'
  BY <1>1, <1>3 DEF nativeVars, NInv, NativeTypes, InHands, BuffersExact, InHand,
                    NoResponseLost
<1>4. ASSUME NEW t \in Threads, NEW l, Passes(t, l), UNCHANGED managementVars,
             pc[t] # "calling", l # "calling"
      PROVE  IInv'
  <2>1. NInv' /\ MInv'
    BY <1>1, <1>2, <1>4, PassesStep
  <2>2. Entered'
    BY <1>1, <1>4 DEF Entered, Passes, Goto, managementVars
  <2>3. QED
    BY <2>1, <2>2 DEF IInv
<1>5. ASSUME NEW t \in Threads, NEW n \in Nat, n <= MaxResponse, Answer(t, n),
             pc[t] \in Outer
      PROVE  Passes(t, "writing")
  BY <1>5 DEF Answer, Passes, Outer, Goto
<1>6. CASE UNCHANGED vars
  BY <1>1, <1>2, <1>3, <1>6 DEF vars, IInv, Entered, managementVars
<1>7. CASE TimePasses
  <2>1. clock' \in Nat
    BY <1>1, <1>7 DEF TimePasses, Tick
  <2>2. MInv'
    BY <1>1, <1>7, <2>1, ManagementStutters DEF TimePasses, Tick, handlerVars
  <2>3. NInv' /\ Entered'
    BY <1>1, <1>3, <1>7 DEF TimePasses, Tick, Entered
  <2>4. QED
    BY <2>2, <2>3 DEF IInv
<1>8. ASSUME NEW t \in Threads, Load(t) PROVE IInv'
  <2>1. NInv' /\ MInv' /\ Entered'
    BY <1>1, <1>2, <1>3, <1>8 DEF Load, Entered, managementVars
  <2>2. QED
    BY <2>1 DEF IInv
<1>9. ASSUME NEW t \in Threads, CallRefused(t) PROVE IInv'
  <2>1. Passes(t, "writing") /\ pc[t] = "idle" /\ UNCHANGED managementVars
    BY <1>5, <1>9, ResponsesFit DEF CallRefused, MayCall, Outer
  <2>2. QED
    BY <1>4, <2>1
<1>10. ASSUME NEW t \in Threads, NEW n \in BodyLengths, CallNormalize(t, n)
       PROVE  IInv'
  <2>1. pc[t] = "idle" /\ UNCHANGED managementVars
    BY <1>10 DEF CallNormalize, MayCall
  <2>2. PICK m \in Normalized(n) : Answer(t, ResponseLength(m))
    BY <1>10 DEF CallNormalize
  <2>3. ResponseLength(m) \in Nat /\ ResponseLength(m) <= MaxResponse
    BY <1>10, ResponsesFit DEF CallNormalize
  <2>4. Passes(t, "writing")
    BY <1>5, <2>1, <2>2, <2>3 DEF Outer
  <2>5. QED
    BY <1>4, <2>1, <2>4
<1>11. ASSUME NEW t \in Threads, Shutdown(t) PROVE IInv'
  <2>1. Passes(t, "stopping") /\ pc[t] = "idle" /\ UNCHANGED managementVars
    BY <1>11 DEF Shutdown, Passes, Outer, nativeVars
  <2>2. QED
    BY <1>4, <2>1
<1>12. ASSUME NEW t \in Threads, ShutdownEnd(t) PROVE IInv'
  <2>1. Passes(t, "idle") /\ pc[t] = "stopping" /\ UNCHANGED managementVars
    BY <1>12 DEF ShutdownEnd, Passes, Outer, nativeVars
  <2>2. QED
    BY <1>4, <2>1
<1>13. ASSUME NEW t \in Threads, NativeOnly(t) PROVE IInv'
  <2>1. NInv' /\ MInv'
    BY <1>1, <1>2, <1>13, NativeStepKeeps DEF NativeOnly
  <2>2. \A u \in Threads : pc'[u] = "calling" <=> pc[u] = "calling"
    BY <1>1, <1>13 DEF NativeOnly, NativeStep, Allocate, Track, CFree, Untrack, Goto
  <2>3. Entered'
    BY <1>1, <1>13, <2>2 DEF Entered, NativeOnly, managementVars
  <2>4. QED
    BY <2>1, <2>3 DEF IInv
<1>14. ASSUME NEW t \in Threads, ManagementTypes', Others(t), Kind(t)
       PROVE  MInv'
  BY <1>1, <1>14, ManagementKeeps
<1>15. ASSUME NEW t \in Threads, RuntimeOnly(t) PROVE IInv'
  <2>1. ManagementTypes' /\ Others(t) /\ Kind(t)
    BY <1>1, <1>15, ManagementKinds DEF RuntimeOnly
  <2>2. MInv' /\ NInv'
    BY <1>3, <1>14, <1>15, <2>1 DEF RuntimeOnly
  <2>3. at[t] # "out" /\ at'[t] # "out"
    BY <1>1, <1>15 DEF RuntimeOnly, ManagementStep, Lock, Configure, StoreConfig,
       StatusRead, StatusAnswer, PublicStatus, CheckStart, CheckEnd, TestBegin,
       TestConfig, TestEnd, TestAgain, Handling, Done, Step
  <2>4. Entered'
    BY <1>1, <1>15, <2>1, <2>3 DEF Entered, RuntimeOnly, Others
  <2>5. QED
    BY <2>2, <2>4 DEF IInv
<1>16. ASSUME NEW t \in Threads, NEW op \in Ops, NEW doc \in Docs \cup {Blank},
              Call(t, op, doc)
       PROVE  IInv'
  <2>1. /\ Ask(t, op, doc) /\ pc[t] = "idle" /\ UNCHANGED nativeVars
        /\ pc' = [pc EXCEPT ![t] = "calling"]
    BY <1>16 DEF Call, MayCall, Goto
  <2>2. ManagementTypes' /\ Others(t) /\ Kind(t)
    BY <1>1, <2>1, ManagementKinds
  <2>3. NInv'
    <3>1. Passes(t, "calling")
      BY <2>1 DEF Passes, Outer, Goto, nativeVars
    <3>2. QED
      BY <1>1, <3>1, PassesStep
  <2>4. at'[t] # "out"
    BY <1>1, <2>1 DEF Ask, Done, Step
  <2>5. Entered'
    BY <1>1, <2>1, <2>2, <2>4 DEF Entered, Others
  <2>6. QED
    BY <1>14, <2>2, <2>3, <2>5 DEF IInv
<1>17. ASSUME NEW t \in Threads, Return(t) PROVE IInv'
  <2>1. Leave(t) /\ Answer(t, Short)
    BY <1>17 DEF Return
  <2>2. at[t] = "done" /\ at'[t] = "out"
    BY <1>1, <2>1 DEF Leave, Step
  <2>3. pc[t] = "calling"
    BY <1>1, <2>2 DEF Entered
  <2>4. ManagementTypes' /\ Others(t) /\ Kind(t)
    BY <1>1, <2>1, ManagementKinds
  <2>5. Passes(t, "writing")
    BY <1>5, <2>1, <2>3, ResponsesFit DEF Outer
  <2>6. NInv'
    BY <1>1, <2>5, PassesStep
  <2>7. Entered'
    BY <1>1, <2>2, <2>4, <2>5 DEF Entered, Passes, Goto, Others
  <2>8. QED
    BY <1>14, <2>4, <2>6, <2>7 DEF IInv
<1>18. CASE Next
  <2>1. Lifecycle \subseteq Ops /\ Blank \in Docs \cup {Blank}
    BY DEF Ops
  <2>2. QED
    BY <1>7, <1>8, <1>9, <1>10, <1>11, <1>12, <1>13, <1>15, <1>16, <1>17, <1>18,
       <2>1
       DEF Next
<1>19. QED
  BY <1>6, <1>18

\* The inductive invariant: types, one holder of lifecycleMu, agreement of
\* store and saver, what requests have read and been answered, the in-flight
\* mark, and every address where it belongs.
THEOREM PluginInvariant == Spec => []IInv
BY InitIInv, StepIInv, PTL DEF Spec

\* BufferPool: an address in the hands of the host is allocated and in the
\* pool, all other memory is on its way in or out, and no two responses share
\* an address, whatever the allocator returns.
THEOREM BuffersAreExact == Spec => []BuffersExact
<1>1. IInv => BuffersExact
  BY DEF IInv, NInv
<1>2. QED
  BY <1>1, PluginInvariant, PTL

\* BufferPool.Allocate refuses no response, for any limits in the order that
\* those of package abi and of the pipeline have.
THEOREM ResponsesArrive == Spec => []NoResponseLost
<1>1. IInv => NoResponseLost
  BY DEF IInv, NInv
<1>2. QED
  BY <1>1, PluginInvariant, PTL

\* Runtime.register and reconfigure: between calls the store and the saver
\* have the same configuration, an unreadable document turns every stage off,
\* and what Parse accepts the Headroom client does, for every document.
THEOREM ConfigurationsAgree == Spec => []ConfigAgreement
<1>1. IInv => ConfigAgreement
  <2> SUFFICES ASSUME IInv PROVE ConfigAgreement
    OBVIOUS
  <2>1. Agreed /\ Answered /\ store \in Stores
    BY DEF IInv, MInv, ManagementTypes
  <2>2. AllBypassed(Defaults)
    BY DEF AllBypassed, Defaults, Booleans
  <2>3. ~store.valid => store.config = Defaults
    BY <2>1, StoresAccepted
  <2>4. QED
    BY <2>1, <2>2, <2>3 DEF Agreed, Answered, ConfigAgreement
<1>2. QED
  BY <1>1, PluginInvariant, PTL

\* management.Handler under lifecycleMu: a status answer is of one generation,
\* the self-test sees no generation change and a check no other check.
THEOREM RequestsAreIsolated == Spec => []HandlerIsolated
<1>1. IInv => HandlerIsolated
  BY DEF IInv, MInv, Answered, HandlerIsolated
<1>2. QED
  BY <1>1, PluginInvariant, PTL

\* handler.check: a probe starts a cooldown after the end of the last one, and
\* never beside another.
THEOREM ProbesAreSpaced == Spec => ProbesSpaced
<1> DEFINE Spaced ==
      \A t \in Threads :
        at[t] # "checking" /\ at'[t] = "checking" =>
          /\ \A u \in Threads : at[u] # "checking"
          /\ probeEnded # <<>> => clock - probeEnded[1] >= Cooldown
<1>1. IInv /\ [Next]_vars => [Spaced]_managementVars
  <2> SUFFICES ASSUME IInv, [Next]_vars, ~ UNCHANGED managementVars PROVE Spaced
    OBVIOUS
  <2>1. MInv /\ Mutex /\ Marked /\ ManagementTypes
    BY DEF IInv, MInv
  <2>2. at' = at \/ \E t \in Threads : Others(t) /\ Kind(t)
    <3>1. ASSUME NEW t \in Threads,
                 \/ ManagementStep(t)
                 \/ Leave(t)
                 \/ \E op \in Ops, doc \in Docs \cup {Blank} : Ask(t, op, doc)
          PROVE  Others(t) /\ Kind(t)
      BY <2>1, <3>1, ManagementKinds
    <3>2. Lifecycle \subseteq Ops
      BY DEF Ops
    <3>3. QED
      <4>1. ASSUME NEW v \in Threads,
                   \/ Load(v) \/ CallRefused(v) \/ Shutdown(v) \/ ShutdownEnd(v)
                   \/ NativeOnly(v) \/ \E n \in BodyLengths : CallNormalize(v, n)
            PROVE  at' = at
        BY <4>1 DEF Load, CallRefused, Shutdown, ShutdownEnd, NativeOnly,
                    CallNormalize,
                    managementVars
      <4>2. TimePasses \/ UNCHANGED vars => at' = at
        BY DEF TimePasses, Tick, vars, managementVars
      <4>3. QED
        BY <3>1, <3>2, <4>1, <4>2 DEF Next, Return, Call, RuntimeOnly
  <2>3. ASSUME NEW u \in Threads, at[u] # "checking", at'[u] = "checking"
        PROVE  /\ \A v \in Threads : at[v] # "checking"
               /\ probeEnded # <<>> => clock - probeEnded[1] >= Cooldown
    <3>1. PICK t \in Threads : u = t /\ Kind(t)
      BY <2>2, <2>3 DEF Others
    <3>2. Probes(t)
      BY <2>3, <3>1 DEF Kind, Waits, Locks, Reads, Publishes, Ends
    <3>3. \A v \in Threads : at[v] # "checking"
      BY <2>1, <3>2 DEF Probes, Mutex, Inside
    <3>4. probeEnded # <<>> => clock - probeEnded[1] >= Cooldown
      <4>1. Cooldown \in Nat /\ clock \in Nat /\ probeEnded = lastCheckedAt
            /\ (lastCheckedAt # <<>> => lastCheckedAt[1] \in Nat)
        BY <2>1, ManagementAssumption DEF Marked, ManagementTypes
      <4>2. QED
        BY <3>2, <4>1 DEF Probes, Cooling
    <3>5. QED
      BY <3>3, <3>4
  <2>4. QED
    BY <2>3
<1>2. QED
  BY <1>1, PluginInvariant, PTL DEF Spec, ProbesSpaced
-----------------------------------------------------------------------------
\* PluginRuntime, with the threads of Plugin.  Its constants and variables that
\* Plugin lacks are declared here; pc, stopped, lifecycle and store are of the
\* same fields in both, and no theorem says anything of both at once.
CONSTANTS
  Configs,     \* valid configurations
  Off,         \* config.Defaults(): every stage off
  Bad,         \* a configuration that does not parse
  Closed       \* what the saver runs after Close

VARIABLES
  active,      \* r.active
  saver,       \* configuration of the saver's current generation
  down,        \* a Shutdown has returned
  method,      \* t -> the method it calls
  request      \* t -> the configuration in its lifecycle request

Runtime == INSTANCE PluginRuntime

\* The values that PluginRuntime takes for different ones.
RuntimeNames ==
  /\ IsFiniteSet(Threads)
  /\ NoThread \notin Threads
  /\ Off \notin Configs /\ Bad \notin Configs \cup {Off}
  /\ Closed \notin Configs \cup {Off, Bad}

\* Where a thread holds lifecycleMu.
Critical == {"locked", "storing", "handling"}

\* r.active counts the threads inside dispatch.
ActiveCounted == active = Cardinality(Runtime!InDispatch)

\* A shutdown that is past its admission gate, under way or over, has closed it.
GateShut ==
  /\ \A t \in Threads : pc[t] \in {"sleeping", "woken", "closing"} => stopped
  /\ down => stopped
  /\ saver = Closed => stopped /\ down

\* A shutdown that closes the saver, or has, leaves nobody inside.
Quiet == (down \/ \E t \in Threads : pc[t] = "closing") => Runtime!InDispatch = {}

\* lifecycleMu has the holder that its field says.
Excludes == \A t \in Threads : pc[t] \in Critical <=> lifecycle = t

\* The saver and the store differ only between the two publications of one
\* lifecycle call, and after the saver was closed.
SameConfig ==
  ~down => \/ saver = store
           \/ \E t \in Threads : pc[t] = "storing" /\ lifecycle = t

\* What the call between its two publications is about to store.
Publishing ==
  \A t \in Threads : pc[t] = "storing" => saver = Runtime!Snapshot(request[t])

\* The inductive invariant.
RInv == /\ Runtime!TypeOK /\ ActiveCounted /\ GateShut /\ Quiet
        /\ Excludes /\ SameConfig /\ Publishing

\* Whenever lifecycleMu is free and the plugin is not shut down, a request and
\* the management page see one configuration.
ConfigsAgree == lifecycle = NoThread /\ ~down => saver = store
-----------------------------------------------------------------------------
\* One thread enters or leaves dispatch and the count follows it.
LEMMA CountFollows ==
  ASSUME RuntimeNames, Runtime!TypeOK, Runtime!TypeOK', ActiveCounted,
         NEW t \in Threads,
         \A u \in Threads \ {t} : pc'[u] \in Runtime!Dispatch <=> pc[u] \in Runtime!Dispatch,
         active' = active + (IF pc'[t] \in Runtime!Dispatch THEN 1 ELSE 0)
                          - (IF pc[t] \in Runtime!Dispatch THEN 1 ELSE 0)
  PROVE  ActiveCounted'
<1>1. IsFiniteSet(Runtime!InDispatch)
  BY FS_Subset DEF RuntimeNames, Runtime!InDispatch
<1>2. Runtime!InDispatch' \ {t} = Runtime!InDispatch \ {t}
  BY DEF Runtime!InDispatch
<1>3. Cardinality(Runtime!InDispatch') = Cardinality(Runtime!InDispatch)
                                 + (IF t \in Runtime!InDispatch' THEN 1 ELSE 0)
                                 - (IF t \in Runtime!InDispatch THEN 1 ELSE 0)
  BY <1>1, <1>2, OneMember
<1>4. /\ t \in Runtime!InDispatch <=> pc[t] \in Runtime!Dispatch
      /\ t \in Runtime!InDispatch' <=> pc'[t] \in Runtime!Dispatch
  BY DEF Runtime!InDispatch
<1>5. QED
  BY <1>3, <1>4 DEF ActiveCounted

\* A count of zero means that nobody is inside.
LEMMA NobodyInside ==
  ASSUME RuntimeNames, Runtime!TypeOK, ActiveCounted
  PROVE  active = 0 <=> Runtime!InDispatch = {}
<1>1. IsFiniteSet(Runtime!InDispatch)
  BY FS_Subset DEF RuntimeNames, Runtime!InDispatch
<1>2. QED
  BY <1>1, FS_EmptySet DEF ActiveCounted

\* A step keeps the types.
LEMMA TypeStep ==
  ASSUME RuntimeNames, Runtime!TypeOK, ActiveCounted, [Runtime!Next]_(Runtime!vars)
  PROVE  Runtime!TypeOK'
<1> USE DEF RuntimeNames, Runtime!TypeOK, Runtime!Labels, Runtime!Dispatch,
            Runtime!Methods, Runtime!Lifecycle
<1>1. CASE UNCHANGED Runtime!vars
  BY <1>1 DEF Runtime!vars
<1>2. ASSUME NEW t \in Threads, NEW m \in Runtime!Methods,
             NEW c \in Configs \cup {Off, Bad},
             Runtime!Acquire(t, m, c)
      PROVE  Runtime!TypeOK'
  BY <1>2 DEF Runtime!Acquire, Runtime!Goto
<1>3. ASSUME NEW t \in Threads, Runtime!Shutdown(t)
      PROVE  Runtime!TypeOK'
  BY <1>3 DEF Runtime!Shutdown, Runtime!Goto
<1>4. ASSUME NEW t \in Threads, NEW l \in {"queued", "normalizing", "returning"},
             Runtime!DispatchTo(t, l)
      PROVE  Runtime!TypeOK'
  BY <1>4 DEF Runtime!DispatchTo, Runtime!Goto
<1>5. ASSUME NEW t \in Threads, Runtime!LockLifecycle(t)
      PROVE  Runtime!TypeOK'
  BY <1>5 DEF Runtime!LockLifecycle, Runtime!Goto
<1>6. ASSUME NEW t \in Threads, Runtime!LifecycleFails(t)
      PROVE  Runtime!TypeOK'
  BY <1>6 DEF Runtime!LifecycleFails, Runtime!Goto
<1>7. ASSUME NEW t \in Threads, Runtime!SaverReconfigure(t)
      PROVE  Runtime!TypeOK'
  BY <1>7 DEF Runtime!SaverReconfigure, Runtime!Snapshot, Runtime!Goto
<1>8. ASSUME NEW t \in Threads, Runtime!StoreConfig(t)
      PROVE  Runtime!TypeOK'
  BY <1>8 DEF Runtime!StoreConfig, Runtime!Snapshot, Runtime!Goto
<1>9. ASSUME NEW t \in Threads, Runtime!Handled(t)
      PROVE  Runtime!TypeOK'
  BY <1>9 DEF Runtime!Handled, Runtime!Goto
<1>10. ASSUME NEW t \in Threads, Runtime!Normalized(t)
      PROVE  Runtime!TypeOK'
  BY <1>10 DEF Runtime!Normalized, Runtime!Goto
<1>11. ASSUME NEW t \in Threads, Runtime!Release(t)
      PROVE  Runtime!TypeOK'
  <2>1. active - 1 \in Nat
    <3>1. Runtime!InDispatch # {}
      BY <1>11 DEF Runtime!Release, Runtime!InDispatch
    <3>2. QED
      BY <3>1, NobodyInside
  <2>2. QED
    BY <1>11, <2>1 DEF Runtime!Release, Runtime!Forget
<1>12. ASSUME NEW t \in Threads, Runtime!CloseSaver(t)
      PROVE  Runtime!TypeOK'
  BY <1>12 DEF Runtime!CloseSaver, Runtime!Goto
<1>13. QED
  BY <1>1, <1>2, <1>3, <1>4, <1>5, <1>6, <1>7, <1>8, <1>9, <1>10, <1>11, <1>12
     DEF Runtime!Next, Runtime!Enter, Runtime!Progress, Runtime!CallRefused

\* A step keeps the count: only Acquire and Release cross the border.
LEMMA CountStep ==
  ASSUME RuntimeNames, Runtime!TypeOK, Runtime!TypeOK', ActiveCounted,
         [Runtime!Next]_(Runtime!vars)
  PROVE  ActiveCounted'
<1>1. CASE UNCHANGED Runtime!vars
  BY <1>1 DEF Runtime!vars, ActiveCounted, Runtime!InDispatch
<1>2. ASSUME NEW t \in Threads, NEW m \in Runtime!Methods,
             NEW c \in Configs \cup {Off, Bad},
             Runtime!Acquire(t, m, c)
      PROVE  ActiveCounted'
  <2>1. \A u \in Threads \ {t} : pc'[u] \in Runtime!Dispatch <=> pc[u] \in Runtime!Dispatch
    BY <1>2 DEF Runtime!TypeOK, Runtime!Dispatch, Runtime!Acquire, Runtime!Goto
  <2>2. active' = active + (IF pc'[t] \in Runtime!Dispatch THEN 1 ELSE 0)
                         - (IF pc[t] \in Runtime!Dispatch THEN 1 ELSE 0)
    BY <1>2 DEF Runtime!TypeOK, Runtime!Dispatch, Runtime!Lifecycle,
                Runtime!Acquire, Runtime!Goto
  <2>3. QED
    BY <2>1, <2>2, CountFollows
<1>3. ASSUME NEW t \in Threads, Runtime!Shutdown(t)
      PROVE  ActiveCounted'
  <2>1. \A u \in Threads \ {t} : pc'[u] \in Runtime!Dispatch <=> pc[u] \in Runtime!Dispatch
    BY <1>3 DEF Runtime!TypeOK, Runtime!Dispatch, Runtime!Shutdown, Runtime!Goto
  <2>2. active' = active + (IF pc'[t] \in Runtime!Dispatch THEN 1 ELSE 0)
                         - (IF pc[t] \in Runtime!Dispatch THEN 1 ELSE 0)
    BY <1>3 DEF Runtime!TypeOK, Runtime!Dispatch, Runtime!Lifecycle,
                Runtime!Shutdown, Runtime!Goto
  <2>3. QED
    BY <2>1, <2>2, CountFollows
<1>4. ASSUME NEW t \in Threads, NEW l \in {"queued", "normalizing", "returning"},
             Runtime!DispatchTo(t, l)
      PROVE  ActiveCounted'
  <2>1. \A u \in Threads \ {t} : pc'[u] \in Runtime!Dispatch <=> pc[u] \in Runtime!Dispatch
    BY <1>4 DEF Runtime!TypeOK, Runtime!Dispatch, Runtime!DispatchTo, Runtime!Goto
  <2>2. active' = active + (IF pc'[t] \in Runtime!Dispatch THEN 1 ELSE 0)
                         - (IF pc[t] \in Runtime!Dispatch THEN 1 ELSE 0)
    BY <1>4 DEF Runtime!TypeOK, Runtime!Dispatch, Runtime!Lifecycle,
                Runtime!DispatchTo, Runtime!Goto
  <2>3. QED
    BY <2>1, <2>2, CountFollows
<1>5. ASSUME NEW t \in Threads, Runtime!LockLifecycle(t)
      PROVE  ActiveCounted'
  <2>1. \A u \in Threads \ {t} : pc'[u] \in Runtime!Dispatch <=> pc[u] \in Runtime!Dispatch
    BY <1>5 DEF Runtime!TypeOK, Runtime!Dispatch, Runtime!LockLifecycle,
                Runtime!Goto
  <2>2. active' = active + (IF pc'[t] \in Runtime!Dispatch THEN 1 ELSE 0)
                         - (IF pc[t] \in Runtime!Dispatch THEN 1 ELSE 0)
    BY <1>5 DEF Runtime!TypeOK, Runtime!Dispatch, Runtime!Lifecycle,
                Runtime!LockLifecycle, Runtime!Goto
  <2>3. QED
    BY <2>1, <2>2, CountFollows
<1>6. ASSUME NEW t \in Threads, Runtime!LifecycleFails(t)
      PROVE  ActiveCounted'
  <2>1. \A u \in Threads \ {t} : pc'[u] \in Runtime!Dispatch <=> pc[u] \in Runtime!Dispatch
    BY <1>6 DEF Runtime!TypeOK, Runtime!Dispatch, Runtime!LifecycleFails,
                Runtime!Goto
  <2>2. active' = active + (IF pc'[t] \in Runtime!Dispatch THEN 1 ELSE 0)
                         - (IF pc[t] \in Runtime!Dispatch THEN 1 ELSE 0)
    BY <1>6 DEF Runtime!TypeOK, Runtime!Dispatch, Runtime!Lifecycle,
                Runtime!LifecycleFails, Runtime!Goto
  <2>3. QED
    BY <2>1, <2>2, CountFollows
<1>7. ASSUME NEW t \in Threads, Runtime!SaverReconfigure(t)
      PROVE  ActiveCounted'
  <2>1. \A u \in Threads \ {t} : pc'[u] \in Runtime!Dispatch <=> pc[u] \in Runtime!Dispatch
    BY <1>7 DEF Runtime!TypeOK, Runtime!Dispatch, Runtime!SaverReconfigure,
                Runtime!Snapshot, Runtime!Goto
  <2>2. active' = active + (IF pc'[t] \in Runtime!Dispatch THEN 1 ELSE 0)
                         - (IF pc[t] \in Runtime!Dispatch THEN 1 ELSE 0)
    BY <1>7 DEF Runtime!TypeOK, Runtime!Dispatch, Runtime!Lifecycle,
                Runtime!SaverReconfigure, Runtime!Snapshot, Runtime!Goto
  <2>3. QED
    BY <2>1, <2>2, CountFollows
<1>8. ASSUME NEW t \in Threads, Runtime!StoreConfig(t)
      PROVE  ActiveCounted'
  <2>1. \A u \in Threads \ {t} : pc'[u] \in Runtime!Dispatch <=> pc[u] \in Runtime!Dispatch
    BY <1>8 DEF Runtime!TypeOK, Runtime!Dispatch, Runtime!StoreConfig,
                Runtime!Snapshot, Runtime!Goto
  <2>2. active' = active + (IF pc'[t] \in Runtime!Dispatch THEN 1 ELSE 0)
                         - (IF pc[t] \in Runtime!Dispatch THEN 1 ELSE 0)
    BY <1>8 DEF Runtime!TypeOK, Runtime!Dispatch, Runtime!Lifecycle,
                Runtime!StoreConfig, Runtime!Snapshot, Runtime!Goto
  <2>3. QED
    BY <2>1, <2>2, CountFollows
<1>9. ASSUME NEW t \in Threads, Runtime!Handled(t)
      PROVE  ActiveCounted'
  <2>1. \A u \in Threads \ {t} : pc'[u] \in Runtime!Dispatch <=> pc[u] \in Runtime!Dispatch
    BY <1>9 DEF Runtime!TypeOK, Runtime!Dispatch, Runtime!Handled, Runtime!Goto
  <2>2. active' = active + (IF pc'[t] \in Runtime!Dispatch THEN 1 ELSE 0)
                         - (IF pc[t] \in Runtime!Dispatch THEN 1 ELSE 0)
    BY <1>9 DEF Runtime!TypeOK, Runtime!Dispatch, Runtime!Lifecycle,
                Runtime!Handled, Runtime!Goto
  <2>3. QED
    BY <2>1, <2>2, CountFollows
<1>10. ASSUME NEW t \in Threads, Runtime!Normalized(t)
      PROVE  ActiveCounted'
  <2>1. \A u \in Threads \ {t} : pc'[u] \in Runtime!Dispatch <=> pc[u] \in Runtime!Dispatch
    BY <1>10 DEF Runtime!TypeOK, Runtime!Dispatch, Runtime!Normalized, Runtime!Goto
  <2>2. active' = active + (IF pc'[t] \in Runtime!Dispatch THEN 1 ELSE 0)
                         - (IF pc[t] \in Runtime!Dispatch THEN 1 ELSE 0)
    BY <1>10 DEF Runtime!TypeOK, Runtime!Dispatch, Runtime!Lifecycle,
                 Runtime!Normalized, Runtime!Goto
  <2>3. QED
    BY <2>1, <2>2, CountFollows
<1>11. ASSUME NEW t \in Threads, Runtime!Release(t)
      PROVE  ActiveCounted'
  <2>1. \A u \in Threads \ {t} : pc'[u] \in Runtime!Dispatch <=> pc[u] \in Runtime!Dispatch
    BY <1>11 DEF Runtime!TypeOK, Runtime!Dispatch, Runtime!Release, Runtime!Forget
  <2>2. active' = active + (IF pc'[t] \in Runtime!Dispatch THEN 1 ELSE 0)
                         - (IF pc[t] \in Runtime!Dispatch THEN 1 ELSE 0)
    BY <1>11 DEF Runtime!TypeOK, Runtime!Dispatch, Runtime!Lifecycle,
                 Runtime!Release, Runtime!Forget
  <2>3. QED
    BY <2>1, <2>2, CountFollows
<1>12. ASSUME NEW t \in Threads, Runtime!CloseSaver(t)
      PROVE  ActiveCounted'
  <2>1. \A u \in Threads \ {t} : pc'[u] \in Runtime!Dispatch <=> pc[u] \in Runtime!Dispatch
    BY <1>12 DEF Runtime!TypeOK, Runtime!Dispatch, Runtime!CloseSaver, Runtime!Goto
  <2>2. active' = active + (IF pc'[t] \in Runtime!Dispatch THEN 1 ELSE 0)
                         - (IF pc[t] \in Runtime!Dispatch THEN 1 ELSE 0)
    BY <1>12 DEF Runtime!TypeOK, Runtime!Dispatch, Runtime!Lifecycle,
                 Runtime!CloseSaver, Runtime!Goto
  <2>3. QED
    BY <2>1, <2>2, CountFollows
<1>13. QED
  BY <1>1, <1>2, <1>3, <1>4, <1>5, <1>6, <1>7, <1>8, <1>9, <1>10, <1>11, <1>12
     DEF Runtime!Next, Runtime!Enter, Runtime!Progress, Runtime!CallRefused

\* A step keeps the admission gate shut behind a shutdown.
LEMMA GateKeeps ==
  ASSUME RuntimeNames, Runtime!TypeOK, ActiveCounted, GateShut, Quiet,
         [Runtime!Next]_(Runtime!vars)
  PROVE  GateShut'
<1> USE DEF RuntimeNames, Runtime!TypeOK, GateShut, Runtime!Labels, Runtime!Dispatch
<1>1. CASE UNCHANGED Runtime!vars
  BY <1>1 DEF Runtime!vars
<1>2. ASSUME NEW t \in Threads, NEW m \in Runtime!Methods,
             NEW c \in Configs \cup {Off, Bad},
             Runtime!Acquire(t, m, c)
      PROVE  GateShut'
  BY <1>2 DEF Runtime!Acquire, Runtime!Goto
<1>3. ASSUME NEW t \in Threads, Runtime!Shutdown(t)
      PROVE  GateShut'
  BY <1>3 DEF Runtime!Shutdown, Runtime!Goto
<1>4. ASSUME NEW t \in Threads, NEW l \in {"queued", "normalizing", "returning"},
             Runtime!DispatchTo(t, l)
      PROVE  GateShut'
  BY <1>4 DEF Runtime!DispatchTo, Runtime!Goto
<1>5. ASSUME NEW t \in Threads, Runtime!LockLifecycle(t)
      PROVE  GateShut'
  BY <1>5 DEF Runtime!LockLifecycle, Runtime!Goto
<1>6. ASSUME NEW t \in Threads, Runtime!LifecycleFails(t)
      PROVE  GateShut'
  BY <1>6 DEF Runtime!LifecycleFails, Runtime!Goto
<1>7. ASSUME NEW t \in Threads, Runtime!SaverReconfigure(t)
      PROVE  GateShut'
  BY <1>7 DEF Runtime!SaverReconfigure, Runtime!Snapshot, Runtime!Goto
<1>8. ASSUME NEW t \in Threads, Runtime!StoreConfig(t)
      PROVE  GateShut'
  BY <1>8 DEF Runtime!StoreConfig, Runtime!Snapshot, Runtime!Goto
<1>9. ASSUME NEW t \in Threads, Runtime!Handled(t)
      PROVE  GateShut'
  BY <1>9 DEF Runtime!Handled, Runtime!Goto
<1>10. ASSUME NEW t \in Threads, Runtime!Normalized(t)
      PROVE  GateShut'
  BY <1>10 DEF Runtime!Normalized, Runtime!Goto
<1>11. ASSUME NEW t \in Threads, Runtime!Release(t)
      PROVE  GateShut'
  BY <1>11 DEF Runtime!Release, Runtime!Forget
<1>12. ASSUME NEW t \in Threads, Runtime!CloseSaver(t)
      PROVE  GateShut'
  BY <1>12 DEF Runtime!CloseSaver, Runtime!Goto
<1>13. QED
  BY <1>1, <1>2, <1>3, <1>4, <1>5, <1>6, <1>7, <1>8, <1>9, <1>10, <1>11, <1>12
     DEF Runtime!Next, Runtime!Enter, Runtime!Progress, Runtime!CallRefused

\* A step keeps the plugin quiet: a shutdown goes on to close the saver only
\* when it sees the count at zero, and nothing is admitted after that.
LEMMA QuietStep ==
  ASSUME RuntimeNames, Runtime!TypeOK, ActiveCounted, GateShut, Quiet,
         [Runtime!Next]_(Runtime!vars)
  PROVE  Quiet'
<1> USE DEF Runtime!TypeOK, GateShut, Quiet, Runtime!InDispatch, Runtime!Dispatch
<1>1. CASE UNCHANGED Runtime!vars
  BY <1>1 DEF Runtime!vars
<1>2. ASSUME NEW t \in Threads, NEW m \in Runtime!Methods,
             NEW c \in Configs \cup {Off, Bad},
             Runtime!Acquire(t, m, c)
      PROVE  Quiet'
  BY <1>2 DEF Runtime!Acquire, Runtime!Goto
<1>3. ASSUME NEW t \in Threads, Runtime!Shutdown(t)
      PROVE  Quiet'
  <2>1. CASE active > 0
    BY <1>3, <2>1 DEF Runtime!Shutdown, Runtime!Goto
  <2>2. CASE ~(active > 0)
    <3>1. Runtime!InDispatch = {}
      BY <2>2, NobodyInside
    <3>2. Runtime!InDispatch' = {}
      BY <1>3, <2>2, <3>1 DEF Runtime!Shutdown, Runtime!Goto
    <3>3. QED
      BY <3>2
  <2>3. QED
    BY <2>1, <2>2
<1>4. ASSUME NEW t \in Threads, NEW l \in {"queued", "normalizing", "returning"},
             Runtime!DispatchTo(t, l)
      PROVE  Quiet'
  BY <1>4 DEF Runtime!DispatchTo, Runtime!Goto
<1>5. ASSUME NEW t \in Threads, Runtime!LockLifecycle(t)
      PROVE  Quiet'
  BY <1>5 DEF Runtime!LockLifecycle, Runtime!Goto
<1>6. ASSUME NEW t \in Threads, Runtime!LifecycleFails(t)
      PROVE  Quiet'
  BY <1>6 DEF Runtime!LifecycleFails, Runtime!Goto
<1>7. ASSUME NEW t \in Threads, Runtime!SaverReconfigure(t)
      PROVE  Quiet'
  BY <1>7 DEF Runtime!SaverReconfigure, Runtime!Snapshot, Runtime!Goto
<1>8. ASSUME NEW t \in Threads, Runtime!StoreConfig(t)
      PROVE  Quiet'
  BY <1>8 DEF Runtime!StoreConfig, Runtime!Snapshot, Runtime!Goto
<1>9. ASSUME NEW t \in Threads, Runtime!Handled(t)
      PROVE  Quiet'
  BY <1>9 DEF Runtime!Handled, Runtime!Goto
<1>10. ASSUME NEW t \in Threads, Runtime!Normalized(t)
      PROVE  Quiet'
  BY <1>10 DEF Runtime!Normalized, Runtime!Goto
<1>11. ASSUME NEW t \in Threads, Runtime!Release(t)
      PROVE  Quiet'
  BY <1>11 DEF Runtime!Release, Runtime!Forget
<1>12. ASSUME NEW t \in Threads, Runtime!CloseSaver(t)
      PROVE  Quiet'
  BY <1>12 DEF Runtime!CloseSaver, Runtime!Goto
<1>13. QED
  BY <1>1, <1>2, <1>3, <1>4, <1>5, <1>6, <1>7, <1>8, <1>9, <1>10, <1>11, <1>12
     DEF Runtime!Next, Runtime!Enter, Runtime!Progress, Runtime!CallRefused

\* A step keeps lifecycleMu exclusive.
LEMMA ExcludeStep ==
  ASSUME RuntimeNames, Runtime!TypeOK, Excludes, [Runtime!Next]_(Runtime!vars)
  PROVE  Excludes'
<1> USE DEF RuntimeNames, Runtime!TypeOK, Excludes, Critical
<1>1. CASE UNCHANGED Runtime!vars
  BY <1>1 DEF Runtime!vars
<1>2. ASSUME NEW t \in Threads, NEW m \in Runtime!Methods,
             NEW c \in Configs \cup {Off, Bad},
             Runtime!Acquire(t, m, c)
      PROVE  Excludes'
  BY <1>2 DEF Runtime!Acquire, Runtime!Goto
<1>3. ASSUME NEW t \in Threads, Runtime!Shutdown(t)
      PROVE  Excludes'
  BY <1>3 DEF Runtime!Shutdown, Runtime!Goto
<1>4. ASSUME NEW t \in Threads, NEW l \in {"queued", "normalizing", "returning"},
             Runtime!DispatchTo(t, l)
      PROVE  Excludes'
  BY <1>4 DEF Runtime!DispatchTo, Runtime!Goto
<1>5. ASSUME NEW t \in Threads, Runtime!LockLifecycle(t)
      PROVE  Excludes'
  BY <1>5 DEF Runtime!LockLifecycle, Runtime!Goto
<1>6. ASSUME NEW t \in Threads, Runtime!LifecycleFails(t)
      PROVE  Excludes'
  BY <1>6 DEF Runtime!LifecycleFails, Runtime!Goto
<1>7. ASSUME NEW t \in Threads, Runtime!SaverReconfigure(t)
      PROVE  Excludes'
  BY <1>7 DEF Runtime!SaverReconfigure, Runtime!Snapshot, Runtime!Goto
<1>8. ASSUME NEW t \in Threads, Runtime!StoreConfig(t)
      PROVE  Excludes'
  BY <1>8 DEF Runtime!StoreConfig, Runtime!Snapshot, Runtime!Goto
<1>9. ASSUME NEW t \in Threads, Runtime!Handled(t)
      PROVE  Excludes'
  BY <1>9 DEF Runtime!Handled, Runtime!Goto
<1>10. ASSUME NEW t \in Threads, Runtime!Normalized(t)
      PROVE  Excludes'
  BY <1>10 DEF Runtime!Normalized, Runtime!Goto
<1>11. ASSUME NEW t \in Threads, Runtime!Release(t)
      PROVE  Excludes'
  BY <1>11 DEF Runtime!Release, Runtime!Forget
<1>12. ASSUME NEW t \in Threads, Runtime!CloseSaver(t)
      PROVE  Excludes'
  BY <1>12 DEF Runtime!CloseSaver, Runtime!Goto
<1>13. QED
  BY <1>1, <1>2, <1>3, <1>4, <1>5, <1>6, <1>7, <1>8, <1>9, <1>10, <1>11, <1>12
     DEF Runtime!Next, Runtime!Enter, Runtime!Progress, Runtime!CallRefused

\* A step keeps the two publications of a configuration together.
LEMMA ConfigStep ==
  ASSUME RuntimeNames, Runtime!TypeOK, GateShut, Quiet, Excludes, SameConfig,
         Publishing, [Runtime!Next]_(Runtime!vars)
  PROVE  SameConfig' /\ Publishing'
<1> USE DEF RuntimeNames, Runtime!TypeOK, Quiet, Excludes, Critical, SameConfig,
            Publishing,
        Runtime!InDispatch, Runtime!Dispatch
<1>1. CASE UNCHANGED Runtime!vars
  BY <1>1 DEF Runtime!vars, Runtime!Snapshot
<1>2. ASSUME NEW t \in Threads, NEW m \in Runtime!Methods,
             NEW c \in Configs \cup {Off, Bad},
             Runtime!Acquire(t, m, c)
      PROVE  SameConfig' /\ Publishing'
  BY <1>2 DEF Runtime!Acquire, Runtime!Goto, Runtime!Snapshot
<1>3. ASSUME NEW t \in Threads, Runtime!Shutdown(t)
      PROVE  SameConfig' /\ Publishing'
  BY <1>3 DEF Runtime!Shutdown, Runtime!Goto, Runtime!Snapshot
<1>4. ASSUME NEW t \in Threads, NEW l \in {"queued", "normalizing", "returning"},
             Runtime!DispatchTo(t, l)
      PROVE  SameConfig' /\ Publishing'
  BY <1>4 DEF Runtime!DispatchTo, Runtime!Goto, Runtime!Snapshot
<1>5. ASSUME NEW t \in Threads, Runtime!LockLifecycle(t)
      PROVE  SameConfig' /\ Publishing'
  BY <1>5 DEF Runtime!LockLifecycle, Runtime!Goto, Runtime!Snapshot
<1>6. ASSUME NEW t \in Threads, Runtime!LifecycleFails(t)
      PROVE  SameConfig' /\ Publishing'
  BY <1>6 DEF Runtime!LifecycleFails, Runtime!Goto, Runtime!Snapshot
<1>7. ASSUME NEW t \in Threads, Runtime!SaverReconfigure(t)
      PROVE  SameConfig' /\ Publishing'
  BY <1>7 DEF Runtime!SaverReconfigure, Runtime!Snapshot, Runtime!Goto
<1>8. ASSUME NEW t \in Threads, Runtime!StoreConfig(t)
      PROVE  SameConfig' /\ Publishing'
  BY <1>8 DEF Runtime!StoreConfig, Runtime!Snapshot, Runtime!Goto
<1>9. ASSUME NEW t \in Threads, Runtime!Handled(t)
      PROVE  SameConfig' /\ Publishing'
  BY <1>9 DEF Runtime!Handled, Runtime!Goto, Runtime!Snapshot
<1>10. ASSUME NEW t \in Threads, Runtime!Normalized(t)
      PROVE  SameConfig' /\ Publishing'
  BY <1>10 DEF Runtime!Normalized, Runtime!Goto, Runtime!Snapshot
<1>11. ASSUME NEW t \in Threads, Runtime!Release(t)
      PROVE  SameConfig' /\ Publishing'
  BY <1>11 DEF Runtime!Release, Runtime!Forget, Runtime!Snapshot
<1>12. ASSUME NEW t \in Threads, Runtime!CloseSaver(t)
      PROVE  SameConfig' /\ Publishing'
  BY <1>12 DEF Runtime!CloseSaver, Runtime!Goto, Runtime!Snapshot
<1>13. QED
  BY <1>1, <1>2, <1>3, <1>4, <1>5, <1>6, <1>7, <1>8, <1>9, <1>10, <1>11, <1>12
     DEF Runtime!Next, Runtime!Enter, Runtime!Progress, Runtime!CallRefused
-----------------------------------------------------------------------------
\* The initial state satisfies the inductive invariant.
LEMMA InitRInv ==
  ASSUME RuntimeNames, Runtime!Init
  PROVE  RInv
<1>1. Runtime!TypeOK
  BY DEF Runtime!Init, Runtime!TypeOK, Runtime!Labels, Runtime!Methods
<1>2. Runtime!InDispatch = {}
  BY DEF Runtime!Init, Runtime!InDispatch, Runtime!Dispatch
<1>3. ActiveCounted
  BY <1>2, FS_EmptySet DEF Runtime!Init, ActiveCounted
<1>4. GateShut /\ Excludes /\ SameConfig /\ Publishing
  BY DEF RuntimeNames, Runtime!Init, GateShut, Excludes, Critical, SameConfig,
         Publishing
<1>5. QED
  BY <1>1, <1>2, <1>3, <1>4 DEF RInv, Quiet

\* Every step keeps it.
LEMMA NextRInv ==
  ASSUME RuntimeNames, RInv, [Runtime!Next]_(Runtime!vars)
  PROVE  RInv'
<1>1. /\ Runtime!TypeOK /\ ActiveCounted /\ GateShut /\ Quiet
      /\ Excludes /\ SameConfig /\ Publishing
  BY DEF RInv
<1>2. Runtime!TypeOK'
  BY <1>1, TypeStep
<1>3. ActiveCounted'
  BY <1>1, <1>2, CountStep
<1>4. GateShut' /\ Quiet'
  BY <1>1, GateKeeps, QuietStep
<1>5. Excludes'
  BY <1>1, ExcludeStep
<1>6. SameConfig' /\ Publishing'
  BY <1>1, ConfigStep
<1>7. QED
  BY <1>2, <1>3, <1>4, <1>5, <1>6 DEF RInv

\* The invariant holds in every reachable state.
THEOREM RuntimeInvariant ==
  ASSUME RuntimeNames
  PROVE  Runtime!Spec => []RInv
<1>1. Runtime!Init => RInv
  BY InitRInv
<1>2. RInv /\ [Runtime!Next]_(Runtime!vars) => RInv'
  BY NextRInv
<1>3. QED
  BY <1>1, <1>2, PTL DEF Runtime!Spec

\* Shutdown: when it closes the saver, and ever after, no admitted call is inside
\* the plugin, whatever number of calls and shutdowns race with it.
THEOREM ShutdownIsQuiet ==
  ASSUME RuntimeNames
  PROVE  Runtime!Spec => []Runtime!QuietAfterShutdown
<1>1. RInv => Runtime!QuietAfterShutdown
  BY DEF RInv, Runtime!QuietAfterShutdown, ActiveCounted, Quiet, GateShut,
         Cardinality, Runtime!Cardinality
<1>2. QED
  BY <1>1, RuntimeInvariant, PTL

\* Reconfiguration: the saver is published before the store and without a common
\* lock, yet outside lifecycleMu nobody sees the two differ.
THEOREM ConfigsStayTogether ==
  ASSUME RuntimeNames
  PROVE  Runtime!Spec => []ConfigsAgree
<1>1. RInv => ConfigsAgree
  BY DEF RuntimeNames, RInv, ConfigsAgree, SameConfig
<1>2. QED
  BY <1>1, RuntimeInvariant, PTL
=============================================================================
