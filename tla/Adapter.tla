------------------------------- MODULE Adapter ------------------------------
(***************************************************************************)
(* headroom.Adapter: a body is projected into the messages Headroom is     *)
(* asked to compress, the messages that come back are checked against the  *)
(* projection, and only texts the projection declared are written back.    *)
(* A projected message has the form of an Item whose texts are decoded.    *)
(***************************************************************************)
EXTENDS Payload

CONSTANTS MaxItem,     \* maxPayloadBytes of the client (1 MiB)
          ReplyTexts   \* texts Headroom may give back

ASSUME AdapterAssumption == MaxItem \in Nat

\* What encoding/json reads where gjson reads Decode(raw).
Unmarshal(raw) ==
  Map(LAMBDA a : IF a = "bin" THEN "fffd" ELSE a, Decode(raw))

\* A projection, or a part of one: its messages, and for every text that may
\* change its path in the body, the message and block it went to (block 0 is
\* the whole content) and its value.
Reject  == [ok |-> FALSE, msgs |-> <<>>, targets |-> <<>>]
Nothing == [ok |-> TRUE,  msgs |-> <<>>, targets |-> <<>>]

One(msg, targets) == [ok |-> TRUE, msgs |-> <<msg>>, targets |-> targets]

Target(b, p, j) ==
  [path |-> p, msg |-> 1, block |-> j, text |-> Unmarshal(ValueAt(b, p).text)]

\* Parts one after the other; messageIndex is the number of messages so far.
Join(parts) ==
  Fold(LAMBDA view, part :
             [ok      |-> view.ok /\ part.ok,
              msgs    |-> view.msgs \o part.msgs,
              targets |-> view.targets \o
                Map(LAMBDA t : [t EXCEPT !.msg = @ + Len(view.msgs)], part.targets)],
       Nothing, parts)

\* One message holding the text at path p, which may change if mutable.
TextMessage(b, role, id, p, mutable) ==
  One([Item(role, JSONString(Unmarshal(ValueAt(b, p).text))) EXCEPT !.id = id],
      IF mutable THEN <<Target(b, p, 0)>> ELSE <<>>)

\* One message with a text block for every block of v, found at path p.
BlocksMessage(b, m, v, p, mutable) ==
  One([m EXCEPT !.content = JSONArray(Map(LAMBDA x :
         Block("text", JSONString(Unmarshal(x.val.text))), v.blocks))],
      IF mutable THEN Map(LAMBDA j : Target(b, Append(p, j), j), Positions(v.blocks))
      ELSE <<>>)

AllText(v, kinds) ==
  \A j \in DOMAIN v.blocks : v.blocks[j].kind \in kinds
                             /\ v.blocks[j].val.k = "string"

CallMessage(blk) ==
  One([Item("assistant", JSONString(<<>>)) EXCEPT !.id = blk.id, !.calls = "ok"],
      <<>>)

Mutable(role) == role \notin {"system", "developer"}
-----------------------------------------------------------------------------
\* validateOpenAIToolFields.
ValidToolFields(m) ==
  /\ m.role = "tool" => m.id # ""
  /\ m.calls = "absent" \/ (m.calls = "ok" /\ m.role = "assistant")

\* projectOpenAIChat, for message i.
ProjectChat(b, i) ==
  LET m == b.items[i]
      v == m.content
      p == <<i>>
  IN  CASE m.role \notin ChatRoles \/ ~ValidToolFields(m) -> Reject
        [] v.k \in {"absent", "null"} ->
             IF m.role = "assistant" /\ m.calls = "ok" THEN One(m, <<>>)
             ELSE Reject
        [] v.k = "string" ->
             One([m EXCEPT !.content.text = Unmarshal(@)],
                 IF Mutable(m.role) THEN <<Target(b, p, 0)>> ELSE <<>>)
        [] v.k = "array" /\ AllText(v, {"text"}) ->
             BlocksMessage(b, m, v, p, Mutable(m.role))
        [] OTHER -> Reject

OutputText == {"input_text", "output_text"}

\* projectResponses when every item must be a message: item i.
ProjectResponse(b, i) ==
  LET m == b.items[i]
      v == m.content
      p == <<i>>
  IN  CASE m.type # "message" \/ m.role \notin ChatRoles \ {"tool"} -> Reject
        [] v.k = "string" -> TextMessage(b, m.role, "", p, Mutable(m.role))
        [] v.k = "array" /\ AllText(v, OutputText) ->
             IF Len(v.blocks) = 1
             THEN TextMessage(b, m.role, "", <<i, 1>>, Mutable(m.role))
             ELSE BlocksMessage(b, Item(m.role, v), v, p, Mutable(m.role))
        [] OTHER -> Reject

\* projectResponsesOutputs, item i: one tool message per text of its output.
ProjectOutput(b, i) ==
  LET m == b.items[i]
      paths == TextPaths(m.content, <<i>>, OutputText)
  IN  IF m.type \notin OutputTypes \/ m.id = "" THEN Nothing
      ELSE Join(Map(LAMBDA p : TextMessage(b, "tool", m.id, p, TRUE), paths))

\* projectClaudeToolResult, block j of message i.
ProjectToolResult(b, i, j) ==
  LET blk == b.items[i].content.blocks[j]
      v   == blk.val
  IN  CASE blk.id = "" -> Reject
        [] v.k = "string" -> TextMessage(b, "tool", blk.id, <<i, j>>, TRUE)
        [] v.k = "array" /\ AllText(v, {"text"}) ->
             BlocksMessage(b, [Item("tool", v) EXCEPT !.id = blk.id], v, <<i, j>>, TRUE)
        [] OTHER -> Reject

\* The block switch of projectClaude, with projectClaudeToolUse.
ProjectClaudeBlock(b, i, j) ==
  LET role == b.items[i].role
      blk  == b.items[i].content.blocks[j]
  IN  CASE blk.kind = "text" /\ blk.val.k = "string" ->
             TextMessage(b, role, "", <<i, j>>, TRUE)
        [] blk.kind = "tool_use" /\ role = "assistant" /\ blk.id # "" ->
             CallMessage(blk)
        [] blk.kind = "tool_result" /\ role = "user" -> ProjectToolResult(b, i, j)
        [] OTHER -> Reject

\* The content switch shared by Claude and Gemini items: blocks one by one.
ProjectBlocks(b, i, ProjectBlock(_, _, _)) ==
  Join(Map(LAMBDA j : ProjectBlock(b, i, j), Positions(b.items[i].content.blocks)))

ProjectClaudeItem(b, i) ==
  LET m == b.items[i] IN
  CASE m.role \notin {"user", "assistant"} -> Reject
    [] m.content.k = "string" -> TextMessage(b, m.role, "", <<i>>, TRUE)
    [] m.content.k = "array"  -> ProjectBlocks(b, i, ProjectClaudeBlock)
    [] OTHER -> Reject

\* The part switch of projectGeminiEnvelope, with geminiThought.
ProjectPart(b, i, j) ==
  LET role == b.items[i].role
      blk  == b.items[i].content.blocks[j]
  IN  CASE blk.kind = "data" -> Nothing
        [] blk.kind = "text" /\ blk.val.k = "string" /\ blk.thought # "bad" ->
             IF blk.thought = "true" THEN Nothing
             ELSE TextMessage(b, IF role = "model" THEN "assistant" ELSE role, "",
                              <<i, j>>, TRUE)
        [] blk.kind = "call" /\ role = "model" /\ blk.id # "" -> CallMessage(blk)
        [] blk.kind = "response" /\ role = "user" /\ blk.id # ""
           /\ blk.val.k = "string" ->
             TextMessage(b, "tool", blk.id, <<i, j>>, TRUE)
        [] OTHER -> Reject

ProjectGeminiItem(b, i) ==
  LET m == b.items[i] IN
  IF m.role \in {"user", "model"} /\ m.content.k = "array"
  THEN ProjectBlocks(b, i, ProjectPart) ELSE Reject

\* The system field of projectClaude, and projectGeminiSystem: messages that
\* are sent along and may not change.
ProjectSystem(b, to) ==
  LET at    == IF to \in Gemini /\ b.system.k = "absent" THEN AtAlias ELSE AtSystem
      v     == FieldAt(b, at)
      paths == TextPaths(v, <<at>>, {"text"})
      legal == CASE v.k = "absent" -> TRUE
                 [] v.k = "string" -> to = "claude"
                 [] v.k = "array"  ->
                      IF to = "claude" THEN AllText(v, {"text"})
                      ELSE \A j \in DOMAIN v.blocks : v.blocks[j].kind # "scalar"
                 [] OTHER -> FALSE
  IN  IF ~legal THEN Reject
      ELSE Join(Map(LAMBDA p : TextMessage(b, "system", "", p, FALSE), paths))

\* The projection of a body for a target format; decodeObject refuses
\* duplicate keys.
Project(b, to) ==
  LET Items(P(_, _)) == Join(Map(LAMBDA i : P(b, i), Positions(b.items))) IN
  CASE b.json # "object" \/ ~b.list \/ b.items = <<>> -> Reject
    [] to = "openai" -> Items(ProjectChat)
    [] to \in Responses ->
         IF \E i \in DOMAIN b.items : b.items[i].type \in OutputTypes
         THEN Items(ProjectOutput) ELSE Items(ProjectResponse)
    [] to = "claude" ->
         Join(<<ProjectSystem(b, to), Items(ProjectClaudeItem)>>)
    [] OTHER -> Join(<<ProjectSystem(b, to), Items(ProjectGeminiItem)>>)
-----------------------------------------------------------------------------
\* The text a target names in messages, when it is there (replaceProjectedText
\* finds a string).
HasText(msgs, t) ==
  LET v == msgs[t.msg].content IN
  IF t.block = 0 THEN v.k = "string"
  ELSE v.k = "array" /\ t.block \in DOMAIN v.blocks
       /\ v.blocks[t.block].val.k = "string"

MessageText(msgs, t) ==
  LET v == msgs[t.msg].content IN
  IF t.block = 0 THEN v.text ELSE v.blocks[t.block].val.text

SetMessageText(msgs, t, text) ==
  IF t.block = 0 THEN [msgs EXCEPT ![t.msg].content.text = text]
  ELSE [msgs EXCEPT ![t.msg].content.blocks[t.block].val.text = text]

Masked(msgs, targets) ==
  Fold(LAMBDA acc, t : SetMessageText(acc, t, <<>>), msgs, targets)

\* Mutated form: what lies around the texts is not compared.
ValidateTextsOnly(view, reply) ==
  /\ Len(reply) = Len(view.msgs)
  /\ \A n \in DOMAIN view.targets :
       /\ HasText(reply, view.targets[n])
       /\ MessageText(reply, view.targets[n]) = <<>> => view.targets[n].text = <<>>

\* projection.validate: only declared texts differ, and none became empty.
Validate(view, reply) ==
  /\ Len(reply) = Len(view.msgs)
  /\ \A n \in DOMAIN reply : reply[n].type # "duplicate"
  /\ \A n \in DOMAIN view.targets :
       /\ HasText(reply, view.targets[n])
       /\ MessageText(reply, view.targets[n]) = <<>> => view.targets[n].text = <<>>
  /\ Masked(reply, view.targets) = Masked(view.msgs, view.targets)

\* projection.rewrite: the texts that changed, written into their spans.
RewriteTargets(b, view, reply) ==
  LET moved == SelectSeq(view.targets, LAMBDA t : MessageText(reply, t) # t.text)
  IN  Rewrite(b, Map(LAMBDA t : [t EXCEPT !.text = MessageText(reply, t)], moved))

Sent(b, view) == Parses(b) /\ Size(b) <= MaxItem /\ view.ok /\ view.targets # <<>>

\* Adapter.Apply up to the call: why the body is not sent.
NotSent(b, view) ==
  CASE Size(b) = 0 \/ ~Parses(b) -> "bypass_unsupported_structure"
    [] Size(b) > MaxItem         -> "bypass_request_too_large"
    [] OTHER                     -> "bypass_unsupported_structure"

\* Adapter.Apply after a reply: the body and the outcome.
Applied(b, view, reply) ==
  LET out == RewriteTargets(b, view, reply)
      Kept(outcome) == [body |-> b, outcome |-> outcome]
  IN  IF ~Validate(view, reply) THEN Kept("fail_invalid_response")
      ELSE IF out = b THEN Kept("no_change")
      ELSE IF Size(out) > MaxItem THEN Kept("fail_response_too_large")
      ELSE [body |-> out, outcome |-> "applied"]

\* What Headroom may answer: the messages as they are, other texts, a message
\* less or more, an instruction or a role changed, messages swapped, another
\* content type, a duplicate key.
Replies(view) ==
  LET m == view.msgs
      n == Len(m)
      Say(t, text) == SetMessageText(m, t, text)
      targets == ToSet(view.targets)
  IN  {m, Front(m), Append(m, m[n]), Reverse(m),
       Fold(LAMBDA acc, t : SetMessageText(acc, t, <<"brief">>), m, view.targets)}
      \cup {Say(t, x) : t \in targets, x \in ReplyTexts}
      \cup {[m EXCEPT ![i].role = "user"] : i \in 1..n}
      \cup {[m EXCEPT ![i].type = "duplicate"] : i \in {1}}
      \cup {[m EXCEPT ![i].content = JSONString(<<"brief">>)] : i \in 1..n}
      \cup {[m EXCEPT ![i].content = JSONArray(<<>>)] : i \in {n}}
=============================================================================
