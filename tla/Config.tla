------------------------------- MODULE Config -------------------------------
(***************************************************************************)
(* package config: what Parse makes of a YAML document, what NewStore      *)
(* publishes, and what headroom.NewClient demands of a configuration.      *)
(* A document is its form and its mapping entries; a node has a kind, a    *)
(* YAML tag, a value in a field of that type and whether the value can be  *)
(* decoded and is not blank; a URL is what url.Parse finds in it.          *)
(***************************************************************************)
EXTENDS Integers, Sequences

Booleans == {"rtk_enabled", "headroom_enabled", "caveman_enabled",
             "ponytail_enabled"}

\* isKnownField.
Known == Booleans \cup {"headroom_url", "headroom_timeout_ms", "caveman_level",
                        "ponytail_level", "model_allowlist"}

MinHeadroomTimeoutMS == 100
MaxHeadroomTimeoutMS == 1500

Levels(field) ==
  {"lite", "full", "ultra"}
  \cup IF field = "caveman_level" THEN {"wenyan-lite", "wenyan", "wenyan-ultra"}
       ELSE {}

\* A URL: padded when empty or inside whitespace, broken when url.Parse fails,
\* extras stands for an opaque part, user information, a query or a fragment,
\* port is empty or holds a number.
URL(host, port) == [padded |-> FALSE, broken |-> FALSE, scheme |-> "http",
                    extras |-> {}, path |-> "", host |-> host, port |-> port]

DefaultHeadroomURL == URL("127.0.0.1", <<8787>>)

Loopback == {"127.0.0.1", "::1"}

\* config.Defaults.
Defaults ==
  [rtk_enabled |-> FALSE, headroom_enabled |-> FALSE,
   headroom_url |-> DefaultHeadroomURL,
   headroom_timeout_ms |-> MaxHeadroomTimeoutMS,
   caveman_enabled |-> FALSE, caveman_level |-> "full",
   ponytail_enabled |-> FALSE, ponytail_level |-> "full",
   model_allowlist |-> <<>>]

AllBypassed(c) == \A f \in Booleans : ~c[f]
-----------------------------------------------------------------------------
\* No port, or one that can be dialled.
PortInRange(port) == port # <<>> => port[1] \in 1..65535

\* normalizeHeadroomURL: nothing, or the URL that is kept.
NormalizeHeadroomURL(u) ==
  IF /\ ~u.padded /\ ~u.broken
     /\ u.scheme = "http" /\ u.extras = {}
     /\ u.path \in {"", "/"}
     /\ u.host \in Loopback
     /\ PortInRange(u.port)
  THEN <<[u EXCEPT !.path = ""]>> ELSE <<>>

IsScalar(node, tag) == node.kind = "scalar" /\ node.tag = tag

\* The level a field has: the two prompts do not have the same ones.
Level(field, node) ==
  IF IsScalar(node, "str") /\ node.str \in Levels(field) THEN <<node.str>> ELSE <<>>

\* decodeBool, decodeInt, decodeString, decodeStringList and the checks of
\* Parse that follow them: nothing, or the value of the field.
Decoded(field, node) ==
  CASE field \in Booleans ->
         IF IsScalar(node, "bool") /\ node.legal THEN <<node.bool>> ELSE <<>>
    [] field = "headroom_url" ->
         IF IsScalar(node, "str") THEN NormalizeHeadroomURL(node.url) ELSE <<>>
    [] field = "headroom_timeout_ms" ->
         IF /\ IsScalar(node, "int") /\ node.legal
            /\ node.int \in MinHeadroomTimeoutMS..MaxHeadroomTimeoutMS
         THEN <<node.int>> ELSE <<>>
    [] field \in {"caveman_level", "ponytail_level"} -> Level(field, node)
    [] OTHER ->
         IF /\ node.kind = "sequence"
            /\ \A n \in DOMAIN node.items :
                 IsScalar(node.items[n], "str") /\ node.items[n].legal
         THEN <<[n \in DOMAIN node.items |-> node.items[n].str]>> ELSE <<>>

\* Parse: nothing, or a configuration.  Unknown fields are skipped, a known
\* one may come once.
Parse(doc) ==
  LET Field(n) == doc.entries[n].key
      Value(n) == Decoded(Field(n), doc.entries[n].node)
      known == {n \in DOMAIN doc.entries : Field(n) \in Known}
      given == {Field(n) : n \in known}
      Place(f) == CHOOSE n \in known : Field(n) = f
      refused == \/ \E n, m \in known : n # m /\ Field(n) = Field(m)
                 \/ \E n \in known : Value(n) = <<>>
  IN  CASE doc.form = "blank" -> <<Defaults>>
        [] doc.form = "mapping" /\ ~refused ->
             <<[f \in Known |-> IF f \in given THEN Value(Place(f))[1]
                                ELSE Defaults[f]]>>
        [] OTHER -> <<>>

\* Mutated form: the fields that could be read are kept.
NewStorePartial(doc) ==
  LET Field(n) == doc.entries[n].key
      Value(n) == Decoded(Field(n), doc.entries[n].node)
      good == {n \in DOMAIN doc.entries : Field(n) \in Known /\ Value(n) # <<>>}
      Place(f) == CHOOSE n \in good : Field(n) = f
  IN  [config |-> [f \in Known |-> IF \E n \in good : Field(n) = f
                                   THEN Value(Place(f))[1] ELSE Defaults[f]],
       valid |-> Parse(doc) # <<>>]

\* NewStore: what is published and whether it is what the document says.
NewStore(doc) ==
  LET parsed == Parse(doc) IN
  IF parsed = <<>> THEN [config |-> Defaults, valid |-> FALSE]
  ELSE [config |-> parsed[1], valid |-> TRUE]
-----------------------------------------------------------------------------
\* What url.Parse finds in a string.
URLs == [padded : BOOLEAN, broken : BOOLEAN, scheme : STRING,
         extras : SUBSET STRING, path : STRING, host : STRING, port : Seq(Nat)]

\* A document that is not blank has entries, each with a key and a node; a
\* string that is to be a URL has been looked at by url.Parse.
IsDocument(doc) ==
  \A n \in DOMAIN doc.entries :
    LET entry == doc.entries[n] IN
    entry.key = "headroom_url" /\ IsScalar(entry.node, "str") => entry.node.url \in URLs
-----------------------------------------------------------------------------
\* fixedEndpoint accepts the URL.
FixedEndpoint(u) ==
  /\ ~u.padded /\ ~u.broken
  /\ u.scheme = "http" /\ u.host # "" /\ u.extras = {}
  /\ u.path \in {"", "/"}
  /\ u.host \in Loopback
  /\ PortInRange(u.port)

\* headroom.NewClient accepts the configuration.
ClientAccepts(c) ==
  FixedEndpoint(c.headroom_url) /\ c.headroom_timeout_ms \in 100..1500
=============================================================================
