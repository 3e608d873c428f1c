----------------------------- MODULE MCPipeline -----------------------------
(* Instances of Pipeline.  MCWide* is one request at a time over bodies of  *)
(* every format; MCShared* is a few bodies for requests that run together.  *)
EXTENDS Pipeline

\* Values, blocks and items the bodies are made of.
Word == JSONString(<<"word">>)
Text(kind) == Block(kind, Word)
Id(x) == [x EXCEPT !.id = "id"]
Err(x) == [x EXCEPT !.err = TRUE]
Typed(x, type) == [x EXCEPT !.type = type]
Results == {JSONString(t) : t \in
              {<<"log">>, <<"log", "lt", "lt">>, <<"log", "bin">>, <<"void">>,
               <<"odd">>, <<"boom">>, <<"obj", "log", "ltEscEsc">>,
               <<"obj", "log", "lt", "lt">>, <<"obj", "log", "bin">>, <<"word", "lt">>}}

Body(system, alias, items) ==
  [json |-> "object", list |-> TRUE, system |-> system, alias |-> alias,
   items |-> items, pad |-> 1]

\* One or two items, and the instruction fields.
Bodies(items, systems, aliases) ==
  {Body(s, a, q) : s \in systems, a \in aliases,
                   q \in {<<x>> : x \in items} \cup (items \X items)}

ChatItems ==
  {Id(Item("tool", v)) : v \in Results}
  \cup {Item("system", Word), Item("developer", JSONArray(<<Text("data")>>)),
        Item("developer", JSONArray(<<Text("text")>>)), Item("user", Word),
        Item("user", JSONArray(<<Text("text"), Text("text")>>)),
        Item("system", JSONString(<<"word", "PONY">>)),
        [Item("assistant", JSONNull) EXCEPT !.calls = "ok"],
        Err(Id(Item("tool", JSONString(<<"log">>)))), Item("tool", JSONString(<<"log">>)),
        Item("function", Word), Item("scalar", JSONAbsent)}

ResponseItems ==
  {Id(Typed(Item("absent", v), "function_call_output")) :
     v \in {JSONString(<<"log", "lt", "lt">>),
            JSONArray(<<Text("output_text"), Text("data"), Text("input_text")>>)}}
  \cup {Typed(Item("user", Word), "message"),
        Typed(Item("user", JSONArray(<<Text("input_text")>>)), "message"),
        Typed(Item("user", JSONArray(<<Text("input_text"), Text("input_text")>>)), "message"),
        Typed(Item("developer", JSONArray(<<Text("data")>>)), "message"),
        Typed(Item("system", Word), "message"), Item("user", Word),
        Typed(Item("absent", Word), "reasoning")}

ClaudeItems ==
  {Item("user", JSONArray(<<Id(Block("tool_result", v))>>)) :
     v \in {JSONString(<<"log">>), JSONArray(<<Text("text"), Text("text")>>)}}
  \cup {Item("user", Word), Item("assistant", JSONArray(<<Id(Text("tool_use")), Text("text")>>)),
        Item("user", JSONArray(<<Err(Id(Block("tool_result", JSONString(<<"log">>)))), Text("text")>>)),
        Item("user", JSONArray(<<Text("data")>>)), Item("user", JSONAbsent)}

GeminiItems ==
  {Item("user", JSONArray(<<Id(Block("response", v))>>)) :
     v \in {JSONString(<<"log">>), JSONOther}}
  \cup {Item("user", JSONArray(<<Text("text"), Text("data")>>)),
        Item("model", JSONArray(<<Id(Text("call")), Text("text")>>)),
        Item("model", JSONArray(<<[Text("text") EXCEPT !.thought = "true"], Text("text")>>)),
        Item("model", JSONString(<<"word">>))}

Instructions ==
  {JSONAbsent, JSONArray(<<Text("text"), Text("text")>>), JSONArray(<<Text("data")>>)}

\* Bodies that parse badly, and one that is near each size limit.
OddBodies ==
  LET b == Body(JSONAbsent, JSONAbsent, <<Item("user", Word)>>) IN
  {[b EXCEPT !.json = j] : j \in {"invalid", "scalar", "duplicate"}}
  \cup {[b EXCEPT !.list = FALSE], [b EXCEPT !.items = <<>>]}
  \cup {[b EXCEPT !.pad = n] : n \in {MaxItem - 1, MaxItem, MaxProvider - 2, MaxProvider}}
  \cup {[b EXCEPT !.pad = MaxItem - 6,
           !.items = <<Id(Item("tool", JSONString(<<"log", "lt", "lt">>)))>>]}

Routed(pair, bodies) ==
  {[pair |-> pair, model |-> "m", stream |-> FALSE, body |-> b] : b \in bodies}

MCWideRequests ==
  Routed(<<"claude", "openai">>, Bodies(ChatItems, {JSONAbsent}, {JSONAbsent}) \cup OddBodies)
  \cup Routed(<<"openai", "codex">>,
             Bodies(ResponseItems, {JSONAbsent, Word, JSONOther}, {JSONAbsent}))
  \cup Routed(<<"openai", "claude">>,
             Bodies(ClaudeItems, Instructions \cup {Word, JSONNull}, {JSONAbsent}))
  \cup Routed(<<"claude", "gemini">>,
             Bodies(GeminiItems, Instructions, {JSONAbsent}))
  \cup Routed(<<"openai-response", "antigravity">>,
             Bodies(GeminiItems, {JSONAbsent}, Instructions \ {JSONAbsent})
             \cup Bodies(GeminiItems, {JSONArray(<<>>)}, {JSONArray(<<>>)}))
  \cup Routed(<<"plugin", "openai">>, Bodies({Item("user", Word)}, {JSONAbsent}, {JSONAbsent}))

Config(stages, allow) ==
  [rtk |-> "rtk" \in stages, headroom |-> "headroom" \in stages,
   caveman |-> "caveman" \in stages, ponytail |-> "ponytail" \in stages,
   clevel |-> "full", plevel |-> "lite", allow |-> allow]

MCWideConfigs ==
  {Config({"rtk", "headroom"}, {}), Config({"rtk", "caveman", "ponytail"}, {"m"}),
   Config({"ponytail"}, {"other"}), Config({}, {})}

MCReplyTexts == {<<"brief">>, <<>>, <<"lt", "word">>}
MCBriefReply == {<<"brief">>}

MCSharedRequests ==
  Routed(<<"claude", "openai">>,
        {Body(JSONAbsent, JSONAbsent, q) : q \in
           {<<Id(Item("tool", JSONString(<<"log">>))), Item("system", Word)>>,
            <<Item("user", Word)>>, <<>>}})

MCSharedConfigs ==
  {Config({"rtk", "headroom"}, {}), Config({"headroom", "caveman"}, {})}
=============================================================================
