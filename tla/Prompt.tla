------------------------------- MODULE Prompt -------------------------------
(***************************************************************************)
(* prompt.Inject: the Caveman and Ponytail instructions are written into   *)
(* the instruction texts of a body, at most once each.  A prompt block is  *)
(* the atom CAVE or PONY; its two markers and its wording are not told     *)
(* apart.                                                                  *)
(***************************************************************************)
EXTENDS Payload

CavemanLevels  == {"lite", "full", "ultra", "wenyan-lite", "wenyan",
                   "wenyan-ultra"}
PonytailLevels == {"lite", "full", "ultra"}

\* A stage's block and the marker it goes in front of.  Caveman takes the
\* first instruction text, Ponytail the last.
CavemanStage  == [block |-> "CAVE", before |-> "PONY", first |-> TRUE]
PonytailStage == [block |-> "PONY", before |-> "none", first |-> FALSE]

Exists(v) == v.k # "absent"

\* validOpenAIMessages, validResponsesInput, validClaudeMessages and
\* validGeminiContents, for one item.
InjectableItem(m, to) ==
  CASE to = "openai"    -> m.role \in ChatRoles \cup {"function"}
    [] to \in Responses  -> \/ m.role # "scalar" /\ m.type \notin {"", "message"}
                            \/ /\ m.role \in ChatRoles \ {"tool"}
                               /\ Exists(m.content)
    [] to = "claude"    -> m.role \in {"user", "assistant"} /\ Exists(m.content)
    [] OTHER            -> m.role \in {"user", "model"} /\ m.content.k = "array"

\* supportedShape and validGeminiShape.
SupportedShape(b, to) ==
  /\ b.list /\ b.items # <<>>
  /\ \A i \in DOMAIN b.items : InjectableItem(b.items[i], to)
  /\ CASE to = "openai"    -> TRUE
       [] to \in Responses  -> b.system.k \in {"absent", "string"}
       [] to = "claude"    -> b.system.k \in {"absent", "string", "array"}
       [] OTHER            -> /\ b.system.k \in {"absent", "array"}
                              /\ b.alias.k \in {"absent", "array"}
                              /\ ~(Exists(b.system) /\ Exists(b.alias))

\* selectText.
SelectText(s, stage) == IF stage.first THEN Head(s) ELSE Last(s)

\* injectJSONString: in front of the other stage's marker, or at the end.
InjectJSONString(b, p, stage) ==
  LET raw   == ValueAt(b, p).text
      marks == Indices(raw, LAMBDA a : a = stage.before)
  IN  Put(b, p, IF marks = <<>> THEN Append(raw, stage.block)
                ELSE InsertAt(raw, Head(marks), stage.block))

\* appendArrayItem of a text block to the array field at index i.
AppendBlock(b, i, kind, stage) ==
  LET v == FieldAt(b, i) IN
  SetField(b, i, JSONArray(Append(v.blocks, Block(kind, JSONString(<<stage.block>>)))))

\* messageInstructionTargets: the system and developer messages.
Instructing(b) ==
  Indices(b.items, LAMBDA m : m.role \in {"system", "developer"})
InstructionTexts(b, kind) ==
  FlatMap(LAMBDA i : TextPaths(b.items[i].content, <<i>>, {kind}), Instructing(b))
InstructionArrays(b) ==
  SelectSeq(Instructing(b), LAMBDA i : b.items[i].content.k = "array")

\* Into a text, or else into an array of blocks, or else as Fresh.
InjectInto(b, texts, arrays, kind, stage, Fresh(_)) ==
  CASE texts # <<>>  -> InjectJSONString(b, SelectText(texts, stage), stage)
    [] texts = <<>> /\ arrays # <<>> ->
         AppendBlock(b, SelectText(arrays, stage), kind, stage)
    [] OTHER -> Fresh(b)

WithSystem(b, v) == [b EXCEPT !.system = v]

InjectOpenAI(b, stage) ==
  InjectInto(b, InstructionTexts(b, "text"), InstructionArrays(b), "text", stage,
    LAMBDA c : [c EXCEPT !.items =
                  <<Item("system", JSONString(<<stage.block>>))>> \o @])

InjectResponses(b, stage) ==
  InjectInto(b, (IF b.system.k = "string" THEN <<<<AtSystem>>>> ELSE <<>>)
                \o InstructionTexts(b, "input_text"),
             InstructionArrays(b), "input_text", stage,
    LAMBDA c : WithSystem(c, JSONString(<<stage.block>>)))

InjectClaude(b, stage) ==
  InjectInto(b, TextPaths(b.system, <<AtSystem>>, {"text"}),
             IF b.system.k = "array" THEN <<AtSystem>> ELSE <<>>, "text", stage,
    LAMBDA c : WithSystem(c, JSONString(<<stage.block>>)))

InjectGeminiAt(b, stage) ==
  LET at == IF Exists(b.system) THEN AtSystem ELSE AtAlias
      v  == FieldAt(b, at)
  IN  InjectInto(b, TextPaths(v, <<at>>, {"text"}),
                 IF Exists(v) THEN <<at>> ELSE <<>>, "text", stage,
        LAMBDA c : WithSystem(c,
                     JSONArray(<<Block("text", JSONString(<<stage.block>>))>>)))

\* Mutated form: the markers are looked for in the instruction field only.
MarkedInSystem(b, block) ==
  \E p \in ToSet(FieldTexts(b.system, <<AtSystem>>)) :
    Contains(ValueAt(b, p).text, block)

\* One of the stage's markers occurs somewhere in the body.
Marked(b, block) ==
  \E p \in ToSet(AllTexts(b)) : Contains(ValueAt(b, p).text, block)

InjectStage(b, to, stage) ==
  CASE Marked(b, stage.block) -> b
    [] OTHER ->
       CASE to = "openai"    -> InjectOpenAI(b, stage)
         [] to \in Responses  -> InjectResponses(b, stage)
         [] to = "claude"    -> InjectClaude(b, stage)
         [] OTHER            -> InjectGeminiAt(b, stage)

\* Inject with a Caveman level c and a Ponytail level p; "" turns one off.
Inject(b, pair, c, p) ==
  IF ~Parses(b) \/ ~Eligible(pair) \/ ~SupportedShape(b, pair[2]) THEN b
  ELSE Fold(LAMBDA acc, stage : InjectStage(acc, pair[2], stage), b,
            (IF c \in CavemanLevels THEN <<CavemanStage>> ELSE <<>>)
            \o (IF p \in PonytailLevels THEN <<PonytailStage>> ELSE <<>>))
=============================================================================
