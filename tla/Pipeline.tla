------------------------------ MODULE Pipeline ------------------------------
(***************************************************************************)
(* saver.Service.Normalize: a request pins the current configuration       *)
(* generation, is admitted or passed through, runs RTK and Headroom behind *)
(* the dedupe cache, then Caveman and Ponytail, and leaves with the result *)
(* or, when a stage cannot be trusted, with what the stage was given.      *)
(* The dedupe cache is used by its promise (Memo), which Dedupe implements.*)
(* Steps of a request that touch nothing shared are fused with the next    *)
(* one that does.                                                          *)
(***************************************************************************)
EXTENDS Prompt, Adapter, Metrics

CONSTANTS Threads,         \* host calls of Normalize under way
          Requests,        \* [pair, model, stream, body]
          Configs,         \* validated configurations
          CallFailures,    \* what client.Compress returns without a reply
          MaxRequests,     \* bound on the requests served
          MaxGenerations   \* bound on the generations published

ASSUME PipelineAssumption ==
  /\ IsFiniteSet(Threads)
  /\ MaxRequests \in Nat /\ MaxGenerations \in Nat \ {0}
  /\ \A r \in Requests : Size(r.body) \in Nat

VARIABLES
  generation,  \* current.generation
  config,      \* current.config
  pc,          \* t -> the step its request is at
  req,         \* t -> the request
  pinned,      \* t -> the generation acquired and its config
  work,        \* t -> working
  metrics,     \* the registry
  finished,    \* history: requests that returned
  refused,     \* history: those among them that were not admitted
  role, key, got, memo   \* the dedupe cache

M == INSTANCE Memo

memoVars == <<role, key, got, memo>>
vars == <<generation, config, pc, req, pinned, work, metrics, finished, refused,
          memoVars>>

Labels == {"idle", "dedupe", "waiting", "rtk", "headroom", "publish",
           "caveman", "ponytail", "final"}

\* What an idle thread holds.
NoBody == [json |-> "invalid", list |-> FALSE, system |-> JSONAbsent,
           alias |-> JSONAbsent, items |-> <<>>, pad |-> 0]
NoRequest == [pair |-> <<"", "">>, model |-> "", stream |-> FALSE, body |-> NoBody]

Init ==
  /\ generation = 1
  /\ config \in Configs
  /\ pc = [t \in Threads |-> "idle"]
  /\ req = [t \in Threads |-> NoRequest]
  /\ pinned = [t \in Threads |-> [gen |-> 0, cfg |-> config]]
  /\ work = [t \in Threads |-> NoBody]
  /\ metrics = NewMetrics
  /\ finished = 0 /\ refused = 0
  /\ M!Init

Goto(t, l) == pc' = [pc EXCEPT ![t] = l]

\* Counts one outcome of a stage for the request of t.
Record(t, s, outcome, before, after) ==
  metrics' = Recorded(metrics, s, outcome, Size(before), Size(after), req[t].pair)

Busy == Cardinality({t \in Threads : pc[t] # "idle"})
-----------------------------------------------------------------------------
AllOff(c) == ~(c.rtk \/ c.headroom \/ c.caveman \/ c.ponytail)

\* Config.AllowsModel.
AllowsModel(c, model) == c.allow = {} \/ model \in c.allow

\* An empty or oversized original has no valid shape either.
Admissible(c, r) == AllowsModel(c, r.model) /\ ValidProviderShape(r.body, r.pair)

\* Normalize with every stage off: counted and returned as it came.
SafeOff(r) ==
  /\ AllOff(config)
  /\ metrics' = AllBypassed(metrics, Size(r.body), r.pair)
  /\ finished' = finished + 1
  /\ UNCHANGED <<generation, config, pc, req, pinned, work, refused, memoVars>>

\* Normalize of a request that is not for the pipeline.
Refuse(r) ==
  /\ ~AllOff(config) /\ ~Admissible(config, r)
  /\ metrics' = Recorded(metrics, "pipeline", "bypassed", Size(r.body),
                         Size(r.body), r.pair)
  /\ finished' = finished + 1
  /\ refused' = refused + 1
  /\ UNCHANGED <<generation, config, pc, req, pinned, work, memoVars>>

\* Normalize up to the first stage: acquire pins the generation.
Enter(t, r) ==
  /\ pc[t] = "idle"
  /\ ~AllOff(config) /\ Admissible(config, r)
  /\ req' = [req EXCEPT ![t] = r]
  /\ pinned' = [pinned EXCEPT ![t] = [gen |-> generation, cfg |-> config]]
  /\ work' = [work EXCEPT ![t] = r.body]
  /\ Goto(t, IF config.headroom /\ Size(r.body) <= MaxItem THEN "dedupe" ELSE "rtk")
  /\ UNCHANGED <<generation, config, metrics, finished, refused, memoVars>>

\* Mutated forms: the digest leaves out the generation, or the body.
KeyAcrossGenerations(gen, r) == <<0, r>>
KeyWithoutBody(gen, r) == <<gen, [r EXCEPT !.body = NoBody]>>

\* dedupeKey.
DedupeKey(gen, r) == <<gen, r>>

\* dedupe.Do finds the key, or runs the work under it, or runs it alone.
Lookup(t) ==
  LET k == DedupeKey(pinned[t].gen, req[t]) IN
  /\ pc[t] = "dedupe"
  /\ \/ M!Join(t, k) /\ Goto(t, "waiting")
     \/ M!Lead(t, k) /\ Goto(t, "rtk")
     \/ M!Bypass(t, k) /\ Goto(t, "rtk")
  /\ UNCHANGED <<generation, config, req, pinned, work, metrics, finished, refused>>

\* Mutated form: only the Headroom stage is counted for a shared result.
HitHalfCounted(t) ==
  /\ pc[t] = "waiting"
  /\ M!Receive(t)
  /\ work' = [work EXCEPT ![t] = got[t][2]]
  /\ Record(t, "headroom", "bypassed", got[t][2], got[t][2])
  /\ Goto(t, "caveman")
  /\ UNCHANGED <<generation, config, req, pinned, finished, refused>>

\* The shared result is there.  The work returns no error, so the error
\* branch after Do is never taken.
Hit(t) ==
  /\ pc[t] = "waiting"
  /\ M!Receive(t)
  /\ work' = [work EXCEPT ![t] = got[t][2]]
  /\ metrics' = LET n == Size(req[t].body)
                    w == Size(got[t][2])
                    m == Recorded(metrics, "rtk", "bypassed", n, n, req[t].pair)
                IN  Recorded(m, "headroom", "bypassed", w, w, req[t].pair)
  /\ Goto(t, "caveman")
  /\ UNCHANGED <<generation, config, req, pinned, finished, refused>>
-----------------------------------------------------------------------------
Enabled(s, c) == CASE s = "rtk"     -> c.rtk
                   [] s = "caveman" -> c.caveman
                   [] OTHER         -> c.ponytail

\* options.RTK, options.Caveman and options.Ponytail.
Apply(s, b, pair, c) ==
  IF s = "rtk" THEN RTKApply(b, pair)
  ELSE Inject(b, pair, IF s = "caveman" THEN c.clevel ELSE "",
                       IF s = "ponytail" THEN c.plevel ELSE "")

\* validStage.
ValidStage(s, before, after, pair, c) ==
  /\ ValidProviderShape(after, pair)
  /\ CASE s = "rtk"      -> ValidRTKTransition(before, after, pair)
       [] s = "headroom" -> TRUE
       [] OTHER          -> after = Apply(s, before, pair, c)

\* What runLocalStage makes of a stage's output.
Judged(s, b, out, pair, c) ==
  IF ~ValidStage(s, b, out, pair, c) THEN [body |-> b, outcome |-> "fail_open"]
  ELSE [body |-> out, outcome |-> IF out = b THEN "bypassed" ELSE "executed"]

\* What may come of a local stage; a panic is recovered.
LocalResults(s, b, pair, c) ==
  IF ~Enabled(s, c) THEN {[body |-> b, outcome |-> "bypassed"]}
  ELSE {[body |-> b, outcome |-> "fail_open"]}
       \cup {Judged(s, b, out, pair, c) : out \in {Apply(s, b, pair, c)}}

AfterStage(t, s) == CASE s = "rtk" /\ role[t] = "idle" -> "caveman"
                      [] s = "rtk" /\ role[t] # "idle" -> "headroom"
                      [] s = "caveman"  -> "ponytail"
                      [] OTHER          -> "final"

\* runLocalStage with result r; outside the cache RTK is followed by a count
\* for the Headroom stage that is left out.
RunLocalStage(t, s, r) ==
  /\ pc[t] = s
  /\ work' = [work EXCEPT ![t] = r.body]
  /\ metrics' =
       LET n == Size(r.body)
           m == Recorded(metrics, s, r.outcome, Size(work[t]), n, req[t].pair)
       IN  IF AfterStage(t, s) # "caveman" THEN m
           ELSE Recorded(m, "headroom", "bypassed", n, n, req[t].pair)
  /\ Goto(t, AfterStage(t, s))
  /\ UNCHANGED <<generation, config, req, pinned, finished, refused, memoVars>>

\* adapterRunner.Apply on a body: what may come of it.
HeadroomResults(b, to) ==
  LET view == Project(b, to) IN
  IF ~Sent(b, view) THEN {[body |-> b, outcome |-> NotSent(b, view)]}
  ELSE {[body |-> b, outcome |-> o] : o \in CallFailures}
       \cup {Applied(b, view, reply) : reply \in Replies(view)}

\* metricForHeadroom.
MetricForHeadroom(outcome, changed) ==
  CASE outcome = "applied"      -> IF changed THEN "executed" ELSE "bypassed"
    [] outcome \in {"no_change", "bypass_unsupported_format",
                    "bypass_unsupported_structure", "bypass_request_too_large",
                    "bypass_circuit_open"} -> "bypassed"
    [] outcome = "fail_timeout"     -> "timeout"
    [] outcome = "bypass_saturated" -> "saturated"
    [] OTHER                        -> "fail_open"

\* runHeadroomStage with result r of the runner; a panic counts like a
\* failure.
RunHeadroomStage(t, r) ==
  LET b == work[t]
      outcome == MetricForHeadroom(r.outcome, r.body # b)
      sound == ValidStage("headroom", b, r.body, req[t].pair, pinned[t].cfg)
      kept  == outcome \in {"executed", "bypassed"} /\ sound
  IN  /\ pc[t] = "headroom"
      /\ work' = [work EXCEPT ![t] = IF kept THEN r.body ELSE b]
      /\ Record(t, "headroom",
                IF outcome \in {"executed", "bypassed"} /\ ~sound THEN "fail_open"
                ELSE outcome, b, work'[t])
      /\ Goto(t, "publish")
      /\ UNCHANGED <<generation, config, req, pinned, finished, refused, memoVars>>

\* The work of dedupe.Do is over.
Publish(t) ==
  /\ pc[t] = "publish"
  /\ M!Finish(t, M!Ok(work[t])) \/ M!Return(t)
  /\ Goto(t, "caveman")
  /\ UNCHANGED <<generation, config, req, pinned, work, metrics, finished, refused>>

\* The end of Normalize: the result is checked once more and counted.
Final(t) ==
  /\ pc[t] = "final"
  /\ LET b == req[t].body IN
     IF ~ValidProviderShape(work[t], req[t].pair)
     THEN Record(t, "pipeline", "fail_open", b, b)
     ELSE Record(t, "pipeline", IF work[t] = b THEN "bypassed" ELSE "executed",
                 b, work[t])
  /\ finished' = finished + 1
  /\ Goto(t, "idle")
  /\ req' = [req EXCEPT ![t] = NoRequest]
  /\ work' = [work EXCEPT ![t] = NoBody]
  /\ pinned' = [pinned EXCEPT ![t] = [gen |-> 0, cfg |-> config]]
  /\ UNCHANGED <<generation, config, refused, memoVars>>

\* Reconfigure publishes the next generation.
Reconfigure(c) ==
  /\ generation < MaxGenerations
  /\ generation' = generation + 1
  /\ config' = c
  /\ UNCHANGED <<pc, req, pinned, work, metrics, finished, refused, memoVars>>

\* Every request the bound allows has returned.
Rest ==
  /\ \A t \in Threads : pc[t] = "idle"
  /\ UNCHANGED vars

Progress(t) ==
  \/ Lookup(t) \/ Hit(t)
  \/ \E s \in {pc[t]} \cap LocalStages :
       \E r \in LocalResults(s, work[t], req[t].pair, pinned[t].cfg) :
         RunLocalStage(t, s, r)
  \/ /\ pc[t] = "headroom"
     /\ \E r \in HeadroomResults(work[t], req[t].pair[2]) : RunHeadroomStage(t, r)
  \/ Publish(t) \/ Final(t)

\* The host calls Normalize.
Arrive ==
  /\ finished + Busy < MaxRequests
  /\ \E r \in Requests : SafeOff(r) \/ Refuse(r) \/ \E t \in Threads : Enter(t, r)

Next ==
  \/ Arrive
  \/ \E t \in Threads : Progress(t)
  \/ \E c \in Configs : Reconfigure(c)
  \/ Rest

Spec == Init /\ [][Next]_vars

\* A step of t that Progress can take: every one moves pc[t], and only a wait
\* for a result can hold t up.
Moves(t) ==
  /\ pc[t] # "idle"
  /\ pc[t] = "waiting" => got[t] # M!Running
  /\ \E l \in Labels \ {pc[t]} : Goto(t, l)

\* Goroutines are scheduled, and a stage ends: the local ones compute, the
\* Headroom call has a deadline.
FairSpec == Spec /\ \A t \in Threads : WF_pc(Moves(t))
-----------------------------------------------------------------------------
\* A body without its texts.
Skeleton(b) == Fold(LAMBDA acc, p : Put(acc, p, <<>>), b, AllTexts(b))

\* Texts that compression may not touch: instruction fields, system and
\* developer messages, and thoughts.
Protected(b, p) ==
  \/ p[1] <= 0
  \/ b.items[p[1]].role \in {"system", "developer"}
  \/ Len(p) > 1 /\ b.items[p[1]].content.blocks[p[2]].thought = "true"

\* RTK and Headroom change texts and nothing around them, leave instructions
\* and thoughts alone and empty no text; the result that reaches Caveman,
\* computed here or taken from another request's work, is one of this
\* request's body.
CompressionInPlace ==
  \A t \in Threads : pc[t] = "caveman" =>
    LET b == req[t].body
        w == work[t]
    IN  /\ Skeleton(w) = Skeleton(b)
        /\ \A p \in ToSet(AllTexts(b)) :
             /\ Protected(b, p) => ValueAt(w, p) = ValueAt(b, p)
             /\ ValueAt(w, p).text = <<>> => ValueAt(b, p).text = <<>>

\* Writing a reply back is the inverse of projecting: projecting the body
\* that Apply returns gives exactly the messages Headroom sent, so each text
\* went to the slot it was taken from and nothing Headroom said is lost.
WriteBackInverse ==
  \A t \in Threads : pc[t] = "headroom" =>
    LET to   == req[t].pair[2]
        view == Project(work[t], to)
    IN  Sent(work[t], view) =>
          \A reply \in Replies(view) :
            LET r == Applied(work[t], view, reply) IN
            r.outcome = "applied" => Project(r.body, to).msgs = reply

Failing(b, p) ==
  /\ p[1] > 0
  /\ \/ b.items[p[1]].err
     \/ Len(p) > 1 /\ b.items[p[1]].content.blocks[p[2]].err

\* RTK leaves the results of failed tools alone, what a filter works on gets
\* shorter, and what RTK returns passes the check the pipeline makes of it.
\* Bytes that are not UTF-8 are excepted from the last two: they do not
\* survive a second encoding.
RTKSound ==
  \A t \in Threads : pc[t] = "rtk" =>
    LET b    == work[t]
        pair == req[t].pair
        out  == RTKApply(b, pair)
    IN  /\ \A p \in ToSet(AllTexts(b)) :
             ValueAt(out, p) # ValueAt(b, p) =>
               /\ ~Failing(b, p)
               /\ \/ Length(Filtered(TextAt(out, p))) < Length(Filtered(TextAt(b, p)))
                  \/ Contains(TextAt(b, p), "bin")
        /\ \/ ValidRTKTransition(b, out, pair)
           \/ \E s \in ToSet(Slots(b, pair)) : Contains(s.text, "bin")

InstructionAtoms(b, to) ==
  LET kind  == IF to \in Responses THEN "input_text" ELSE "text"
      paths == TextPaths(b.system, <<AtSystem>>, {kind})
               \o TextPaths(b.alias, <<AtAlias>>, {kind})
               \o InstructionTexts(b, kind)
  IN  FlatMap(LAMBDA p : ValueAt(b, p).text, paths)

\* A body that went through the prompt stages is not changed by them again,
\* as when the host sends it once more; no block is added twice; and in the
\* instructions Caveman's is in front of Ponytail's, also when one of them
\* was there before.
PromptsOnce ==
  \A t \in Threads : pc[t] = "final" =>
    LET c == pinned[t].cfg
        b == work[t]
    IN  /\ c.caveman /\ Marked(b, "CAVE") =>
             Inject(b, req[t].pair, c.clevel, "") = b
        /\ c.ponytail /\ Marked(b, "PONY") =>
             Inject(b, req[t].pair, "", c.plevel) = b
        /\ \A block \in {"CAVE", "PONY"} :
             ~Marked(req[t].body, block) =>
               Len(SelectSeq(InstructionAtoms(b, req[t].pair[2]),
                             LAMBDA a : a = block)) <= 1
        /\ ~Marked(req[t].body, "CAVE") =>
             LET atoms == InstructionAtoms(b, req[t].pair[2]) IN
             \A i, j \in DOMAIN atoms : atoms[i] = "CAVE" /\ atoms[j] = "PONY" => i < j

\* A stage the request's own generation has turned off leaves no trace in
\* its result, whatever other generations and shared results do meanwhile.
OnlyPinnedStages ==
  \A t \in Threads : pc[t] = "final" =>
    LET c == pinned[t].cfg
        New(a) == Marked(work[t], a) /\ ~Marked(req[t].body, a)
    IN  /\ New("cut") => c.rtk
        /\ New("brief") => c.headroom
        /\ New("CAVE") => c.caveman
        /\ New("PONY") => c.ponytail

\* What a stage makes of the bodies in B.
After(s, B, pair, c) ==
  UNION {{r.body : r \in LocalResults(s, b, pair, c)} : b \in B}

\* The bodies that request r may have behind RTK and Headroom, and in the end,
\* when it is the only one and runs under configuration c.
Compressed(r, c) ==
  LET B == After("rtk", {r.body}, r.pair, c) IN
  IF ~c.headroom \/ Size(r.body) > MaxItem THEN B
  ELSE UNION {{b} \cup {h.body : h \in HeadroomResults(b, r.pair[2])} : b \in B}

Alone(r, c) ==
  After("ponytail", After("caveman", Compressed(r, c), r.pair, c), r.pair, c)

\* A request ends with a body that it could have had alone, from its own body
\* and under the configuration it pinned, also when it took over what another
\* request had computed and when configurations changed meanwhile.
OwnResult ==
  \A t \in Threads : pc[t] = "final" => work[t] \in Alone(req[t], pinned[t].cfg)

\* With no request under way every request is counted once for the pipeline
\* and every admitted one once for each stage, the routes add up to the
\* stages, outcome by outcome, and the byte totals fit together: what Headroom
\* gave Caveman received, and so on to the pipeline's own.
EveryRequestCounted ==
  (\A t \in Threads : pc[t] = "idle") =>
    /\ Total(metrics.outcomes["pipeline"]) = finished
    /\ \A s \in Stages \ {"pipeline"} :
         Total(metrics.outcomes[s]) = finished - refused
    /\ \A s \in Stages, c \in Counters :
         ByRoute(metrics, s, c) = metrics.outcomes[s][c]
    /\ metrics.output["headroom"] = metrics.input["caveman"]
    /\ metrics.output["caveman"] = metrics.input["ponytail"]
    /\ refused = 0 => /\ metrics.output["ponytail"] = metrics.output["pipeline"]
                      /\ metrics.input["rtk"] = metrics.input["pipeline"]

\* Every request returns, also one that waits for another request's work.
EveryRequestReturns == \A t \in Threads : pc[t] # "idle" ~> pc[t] = "idle"
=============================================================================
