------------------------------ MODULE MCPlugin ------------------------------
(***************************************************************************)
(* Module Plugin for TLC.  The byte limits are the real ones; the bodies   *)
(* lie on both sides of each, the documents of each check of Parse.        *)
(***************************************************************************)
EXTENDS Plugin, TLC

Str(v)  == [kind |-> "scalar", tag |-> "str", str |-> v, legal |-> TRUE]
Bool(v) == [kind |-> "scalar", tag |-> "bool", bool |-> v, legal |-> TRUE]
Number(n) == [kind |-> "scalar", tag |-> "int", int |-> n, legal |-> TRUE]

Entry(k, node) == [key |-> k, node |-> node]
Mapping(entries) == [form |-> "mapping", entries |-> entries]

\* Headroom on, and one more field.
On(k, node) == Mapping(<<Entry("headroom_enabled", Bool(TRUE)), Entry(k, node)>>)
At(u) == On("headroom_url", [kind |-> "scalar", tag |-> "str", url |-> u, legal |-> TRUE])

MCDocs ==
  {Blank, [form |-> "broken", entries |-> <<>>],
   Mapping(<<Entry("host_field", Str("x")), Entry("rtk_enabled", Bool(TRUE))>>),
   At(URL("::1", <<>>)), At(URL("127.0.0.1", <<65536>>)),
   At([URL("127.0.0.1", <<1>>) EXCEPT !.path = "/v1"]), At(URL("localhost", <<8787>>)),
   On("headroom_timeout_ms", Number(99)), On("headroom_timeout_ms", Number(100)),
   On("headroom_timeout_ms", Number(1501)), On("headroom_timeout_ms", Str("100")),
   On("caveman_level", Str("wenyan")), On("ponytail_level", Str("wenyan")),
   On("headroom_enabled", Bool(FALSE)),
   On("model_allowlist", [kind |-> "sequence", items |-> <<Str("m")>>]),
   On("model_allowlist", [kind |-> "sequence", items |-> <<[Str("") EXCEPT !.legal = FALSE]>>])}

MiB == 1048576

\* Around the limit of a payload and the largest body a request can carry.
MCBodyLengths ==
  {0, 1, 10 * MiB, 10 * MiB + 1, 12 * MiB - 51, 12 * MiB - 50, 12 * MiB}

Symmetry == Permutations(Threads) \cup Permutations(Addresses)
=============================================================================
