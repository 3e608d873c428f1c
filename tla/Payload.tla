------------------------------ MODULE Payload -------------------------------
(***************************************************************************)
(* Provider request bodies as the plugin sees them: protocol.View and      *)
(* Payload.Rewrite, the provider shapes the pipeline demands, and the RTK  *)
(* stage, which shortens tool-result texts in place.                       *)
(*                                                                         *)
(* A body is abstracted to what the code reads: how its bytes parse, its   *)
(* instruction fields, its array of items, and padding for the bytes that  *)
(* no stage touches.  A text is a sequence of atoms instead of characters; *)
(* it is stored as the bytes of a JSON string literal and read through     *)
(* Decode, because json.Marshal does not write back what gjson reads:      *)
(*   lt    a character that Marshal writes as an escape, ltEsc             *)
(*   bin   a byte that is not UTF-8; Marshal writes the escape fffdEsc,    *)
(*         which is read as the character fffd, which Marshal writes raw   *)
(*   log   output a filter cuts down to cut;  odd, boom, void: output on   *)
(*         which a filter grows the text, panics, or leaves nothing        *)
(*   obj   heads the text {"output": rest}, whose rest is a literal again: *)
(*         in the body an escape in it, as ltEsc, is escaped to ltEscEsc   *)
(*   brief what Headroom makes of a text;  CAVE, PONY: the prompt blocks   *)
(***************************************************************************)
EXTENDS Integers, Sequences, SequencesExt

CONSTANTS MinCompress,  \* rtk.MinCompressBytes
          MaxRaw,       \* rtk.MaxRawBytes
          MaxProvider   \* maxProviderPayloadBytes

ASSUME PayloadAssumption == {MinCompress, MaxRaw, MaxProvider} \subseteq Nat

\* Bytes of an atom in a string literal.
Weight == [word |-> 1, lt |-> 1, ltEsc |-> 4, ltEscEsc |-> 5, bin |-> 1,
           fffdEsc |-> 4, fffdEscEsc |-> 5, fffd |-> 2, log |-> 3, cut |-> 1, odd |-> 3, boom |-> 3,
           void |-> 3, obj |-> 1, brief |-> 1, CAVE |-> 2, PONY |-> 2]

\* A left fold that TLC evaluates in linear time.
Fold(Op(_, _), base, s) ==
  LET f[n \in 0..Len(s)] == IF n = 0 THEN base ELSE Op(f[n - 1], s[n])
  IN  f[Len(s)]

Map(F(_), s)     == Fold(LAMBDA acc, x : Append(acc, F(x)), <<>>, s)
FlatMap(F(_), s) == Fold(LAMBDA acc, x : acc \o F(x), <<>>, s)
Positions(s)     == [i \in DOMAIN s |-> i]

Length(s) == Fold(LAMBDA n, a : n + Weight[a], 0, s)

\* gjson's Result.String: the text a literal stands for.
Decode(raw) ==
  Map(LAMBDA a : CASE a = "ltEsc"      -> "lt"
                   [] a = "ltEscEsc"   -> "ltEsc"
                   [] a = "fffdEsc"    -> "fffd"
                   [] a = "fffdEscEsc" -> "fffdEsc"
                   [] OTHER            -> a, raw)

\* json.Marshal of a string.
Encode(text) ==
  Map(LAMBDA a : CASE a = "lt"      -> "ltEsc"
                   [] a = "ltEsc"   -> "ltEscEsc"
                   [] a = "bin"     -> "fffdEsc"
                   [] a = "fffdEsc" -> "fffdEscEsc"
                   [] OTHER         -> a, text)
-----------------------------------------------------------------------------
(* A JSON value that may hold text: absent, null, a string, an array of    *)
(* blocks, or anything else.  A block is a scalar or has a kind, an id, an *)
(* error mark, a thought mark and a value: its text, its content or its    *)
(* response.result.  For Gemini an array stands for {"parts": [...]}.      *)

JSONNull   == [k |-> "null",   text |-> <<>>, blocks |-> <<>>]
JSONAbsent == [JSONNull EXCEPT !.k = "absent"]
JSONOther  == [JSONNull EXCEPT !.k = "other"]
JSONString(t) == [JSONNull EXCEPT !.k = "string", !.text = t]
JSONArray(bs) == [JSONNull EXCEPT !.k = "array", !.blocks = bs]

Block(kind, v) == [kind |-> kind, val |-> v, id |-> "", err |-> FALSE,
                   thought |-> "absent"]

\* An item of messages, input or contents.  The role "scalar" marks an item
\* that is no object; calls tells how tool_calls looks; content stands for
\* content, parts or output.
Item(role, v) == [role |-> role, type |-> "", id |-> "", err |-> FALSE,
                  calls |-> "absent", content |-> v]

\* The instruction fields are system or instructions or systemInstruction,
\* and Gemini's alias system_instruction.  Text paths start with the index
\* of an item, or with one of:
AtSystem == 0
AtAlias  == -1

FieldAt(b, i) == CASE i = AtSystem -> b.system
                   [] i = AtAlias  -> b.alias
                   [] OTHER        -> b.items[i].content

ValueAt(b, p) ==
  LET v == FieldAt(b, p[1]) IN
  CASE Len(p) = 1 -> v
    [] Len(p) = 2 -> v.blocks[p[2]].val
    [] OTHER      -> v.blocks[p[2]].val.blocks[p[3]].val

TextAt(b, p) == Decode(ValueAt(b, p).text)

SetField(b, i, v) == CASE i = AtSystem -> [b EXCEPT !.system = v]
                       [] i = AtAlias  -> [b EXCEPT !.alias = v]
                       [] OTHER        -> [b EXCEPT !.items[i].content = v]

\* b with the literal raw at path p.
Put(b, p, raw) ==
  LET v == FieldAt(b, p[1]) IN
  SetField(b, p[1],
    CASE Len(p) = 1 -> [v EXCEPT !.text = raw]
      [] Len(p) = 2 -> [v EXCEPT !.blocks[p[2]].val.text = raw]
      [] OTHER ->
           [v EXCEPT !.blocks[p[2]].val.blocks[p[3]].val.text = raw])

\* The indices of s whose element satisfies Test, in order.
Indices(s, Test(_)) == SelectSeq(Positions(s), LAMBDA i : Test(s[i]))

\* Paths of the texts of value v found at path p: the string itself, or the
\* strings of the blocks whose kind is one of kinds.
TextPaths(v, p, kinds) ==
  CASE v.k = "string" -> <<p>>
    [] v.k = "array"  ->
         Map(LAMBDA j : Append(p, j),
             Indices(v.blocks, LAMBDA x : x.kind \in kinds /\ x.val.k = "string"))
    [] OTHER -> <<>>

Kinds == {"text", "input_text", "output_text", "tool_use", "tool_result",
          "call", "response", "data"}

\* Every text below one field, then every text of the body.
FieldTexts(v, p) ==
  TextPaths(v, p, Kinds)
  \o FlatMap(LAMBDA j : TextPaths(JSONArray(v.blocks[j].val.blocks), Append(p, j), Kinds),
             Positions(v.blocks))

AllTexts(b) ==
  FieldTexts(b.system, <<AtSystem>>) \o FieldTexts(b.alias, <<AtAlias>>)
  \o FlatMap(LAMBDA i : FieldTexts(b.items[i].content, <<i>>), Positions(b.items))

\* len(body).
FlatSize(v)  == Fold(LAMBDA n, x : n + Length(x.val.text), Length(v.text), v.blocks)
FieldSize(v) == Fold(LAMBDA n, x : n + FlatSize(x.val), Length(v.text), v.blocks)
Size(b) == b.pad + FieldSize(b.system) + FieldSize(b.alias)
           + Fold(LAMBDA n, m : n + FieldSize(m.content), 0, b.items)

Parses(b) == b.json \in {"object", "duplicate"}
-----------------------------------------------------------------------------
Translators == {"openai", "openai-response", "claude", "gemini", "interactions"}

NativeMessagePairs ==
  (Translators \X {"openai", "codex", "gemini"})
  \cup ((Translators \ {"claude"}) \X {"claude"})
  \cup {<<"interactions", "openai-response">>,
        <<"openai-response", "antigravity">>}

\* Pair.Eligible.
Eligible(pair) == pair \in NativeMessagePairs

Responses == {"openai-response", "codex"}
Gemini    == {"gemini", "antigravity"}

\* Types of Responses items that carry a tool's output.
OutputTypes == {"custom_tool_call_output", "function_call_output",
                "local_shell_call_output", "apply_patch_call_output"}

\* protocol.View recognises the body.
Viewable(b, pair) == Parses(b) /\ Eligible(pair) /\ b.list

\* Mutated form: results marked as errors are taken for plain ones.
SlotNoError(b, p, id, err) ==
  [path |-> p, text |-> TextAt(b, p), id |-> id, err |-> FALSE]

\* Payload.add.
Slot(b, p, id, err) ==
  [path |-> p, text |-> TextAt(b, p), id |-> id, err |-> err]

SlotsAt(b, paths, id, err) ==
  IF id = "" THEN <<>>
  ELSE Map(LAMBDA p : Slot(b, p, id, err), paths)

\* A block of message i that carries a tool result.
BlockSlots(b, i, kind, Paths(_, _)) ==
  LET bs == b.items[i].content.blocks IN
  FlatMap(LAMBDA j : IF bs[j].kind # kind THEN <<>>
                     ELSE SlotsAt(b, Paths(bs[j].val, <<i, j>>), bs[j].id, bs[j].err),
          Positions(bs))

OpenAIChat(b, i) ==
  LET m == b.items[i] IN
  IF m.role # "tool" THEN <<>>
  ELSE SlotsAt(b, TextPaths(m.content, <<i>>, {"text"}), m.id, m.err)

OpenAIResponses(b, i) ==
  LET m == b.items[i] IN
  IF m.role = "scalar" \/ m.type \notin OutputTypes THEN <<>>
  ELSE SlotsAt(b, TextPaths(m.content, <<i>>, {"input_text", "output_text"}),
               m.id, m.err)

ClaudeMessages(b, i) ==
  BlockSlots(b, i, "tool_result", LAMBDA v, p : TextPaths(v, p, {"text"}))

GeminiAt(b, i) ==
  BlockSlots(b, i, "response", LAMBDA v, p : TextPaths(v, p, {}))

\* Payload.Slots of a viewable body, in payload order.
Slots(b, pair) ==
  FlatMap(LAMBDA i : CASE pair[2] = "openai"    -> OpenAIChat(b, i)
                       [] pair[2] \in Responses -> OpenAIResponses(b, i)
                       [] pair[2] = "claude"    -> ClaudeMessages(b, i)
                       [] OTHER                 -> GeminiAt(b, i),
          Positions(b.items))

\* Payload.Rewrite: each replacement is encoded into the span of its slot and
\* every other byte stays.
Rewrite(b, edits) ==
  Fold(LAMBDA acc, e : Put(acc, e.path, Encode(e.text)), b, edits)
-----------------------------------------------------------------------------
\* rtk.Detect and the filter it resolves to, by what the filter does.
Detect(text) ==
  CASE Contains(text, "boom") -> "panics"
    [] Contains(text, "void") -> "empties"
    [] Contains(text, "odd")  -> "pads"
    [] Contains(text, "log")  -> "trims"
    [] OTHER                  -> "none"

\* safelyApply: a filter that panics leaves its input.
SafelyApply(filter, text) ==
  CASE filter = "empties" -> <<>>
    [] filter = "pads"    -> Append(text, "cut")
    [] filter = "trims"   ->
         Map(LAMBDA a : IF a = "log" THEN "cut" ELSE a, text)
    [] OTHER              -> text

\* Mutated form: an empty candidate is accepted.
AcceptEmpty(text, candidate) ==
  IF Length(candidate) >= Length(text) THEN text ELSE candidate

\* acceptReplacement, by decoded lengths.
AcceptReplacement(text, candidate) ==
  IF candidate = <<>> \/ Length(candidate) >= Length(text) THEN text
  ELSE candidate

CompressPlainText(text) ==
  IF Length(text) \in MinCompress..MaxRaw
  THEN AcceptReplacement(text, SafelyApply(Detect(text), text))
  ELSE text

\* The text a filter works on: of {"output": ...} what its literal stands for.
Filtered(text) ==
  IF text # <<>> /\ Head(text) = "obj" THEN Decode(Tail(text)) ELSE text

\* compressText: inside {"output": ...} only the output is compressed, and the
\* literal written for it is not compared with the one that was there.
CompressText(text) ==
  LET candidate == CompressPlainText(Filtered(text)) IN
  CASE candidate = Filtered(text) -> text
    [] Head(text) = "obj"         -> <<"obj">> \o Encode(candidate)
    [] OTHER                      -> candidate

\* rtk.Apply.
RTKApply(b, pair) ==
  IF ~Viewable(b, pair) THEN b
  ELSE LET hit == SelectSeq(Slots(b, pair), LAMBDA s :
                    ~s.err /\ CompressText(s.text) # s.text)
       IN  Rewrite(b, Map(LAMBDA s : [s EXCEPT !.text = CompressText(@)], hit))
-----------------------------------------------------------------------------
ChatRoles == {"system", "developer", "user", "assistant", "tool"}

\* validRoleArray, validGeminiProviderShape and the Responses loop, for one
\* item.
ItemShape(m, to) ==
  /\ m.role # "scalar"
  /\ CASE to = "openai"   -> m.role \in ChatRoles \cup {"function"}
       [] to = "claude"   -> m.role \in {"user", "assistant"}
       [] to \in Responses -> m.role # "absent" \/ m.type # ""
       [] OTHER           -> m.role \in {"user", "model"}
                             /\ m.content.k = "array"

\* validProviderShape.
ValidProviderShape(b, pair) ==
  /\ Size(b) \in 1..MaxProvider
  /\ Parses(b)
  /\ Eligible(pair)
  /\ b.list
  /\ b.items # <<>>
  /\ \A i \in DOMAIN b.items : ItemShape(b.items[i], pair[2])

\* validRTKTransition: the same slots, and writing the texts that changed
\* into the old body gives the new one byte for byte.
ValidRTKTransition(before, after, pair) ==
  LET old == Slots(before, pair)
      new == Slots(after, pair)
      moved == SelectSeq(Positions(new), LAMBDA n : old[n].text # new[n].text)
  IN  \/ before = after
      \/ /\ Viewable(before, pair) /\ Viewable(after, pair)
         /\ Len(old) = Len(new)
         /\ \A n \in DOMAIN old : old[n].id = new[n].id /\ old[n].err = new[n].err
         /\ Rewrite(before, Map(LAMBDA n : new[n], moved)) = after
=============================================================================
