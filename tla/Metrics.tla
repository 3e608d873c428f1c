------------------------------- MODULE Metrics ------------------------------
(***************************************************************************)
(* metrics.Registry: outcome counters and byte totals per stage, and the   *)
(* outcome counters again per route.  Durations are left out; generations  *)
(* in flight are in Generations.                                           *)
(***************************************************************************)
EXTENDS Integers, FiniteSetsExt

LocalStages == {"rtk", "caveman", "ponytail"}
Stages      == LocalStages \cup {"headroom", "pipeline"}
Counters    == {"executed", "bypassed", "fail_open", "timeout", "saturated"}

KnownFormats == {"openai", "openai-response", "codex", "claude", "gemini",
                 "interactions", "antigravity"}

NoOutcomes == [c \in Counters |-> 0]

\* metrics.New.
NewMetrics == [outcomes |-> [s \in Stages |-> NoOutcomes],
               input    |-> [s \in Stages |-> 0],
               output   |-> [s \in Stages |-> 0],
               routes   |-> << >>]

KnownFormat(f) == IF f \in KnownFormats THEN f ELSE "other"

\* normalizedRouteKey.
RouteKey(pair) == <<KnownFormat(pair[1]), KnownFormat(pair[2])>>

\* A timeout and a saturation count as failing open, too (recordRouteOutcome
\* and the switch of Record).
Counted(counts, outcome) ==
  [c \in Counters |->
     IF c = outcome \/ (c = "fail_open" /\ outcome \in {"timeout", "saturated"})
     THEN counts[c] + 1 ELSE counts[c]]

Route(m, r) ==
  IF r \in DOMAIN m.routes THEN m.routes[r] ELSE [s \in Stages |-> NoOutcomes]

\* The routes when r has counts f.
WithRoute(m, r, f) ==
  [x \in DOMAIN m.routes \cup {r} |-> IF x = r THEN f ELSE m.routes[x]]

\* Service.record: Record and RecordRoute.
Recorded(m, s, outcome, in, out, pair) ==
  LET r == RouteKey(pair) IN
  [outcomes |-> [m.outcomes EXCEPT ![s] = Counted(@, outcome)],
   input    |-> [m.input  EXCEPT ![s] = @ + in],
   output   |-> [m.output EXCEPT ![s] = @ + out],
   routes   |-> WithRoute(m, r, [Route(m, r) EXCEPT ![s] = Counted(@, outcome)])]

\* RecordAllBypassed and RecordAllBypassedRoute.
AllBypassed(m, size, pair) ==
  LET r == RouteKey(pair) IN
  [outcomes |-> [s \in Stages |-> Counted(m.outcomes[s], "bypassed")],
   input    |-> [s \in Stages |-> m.input[s] + size],
   output   |-> [s \in Stages |-> m.output[s] + size],
   routes   |-> WithRoute(m, r, [s \in Stages |-> Counted(Route(m, r)[s], "bypassed")])]

\* How often a stage reported, by its own counters and summed over routes.
Total(counts) == counts["executed"] + counts["bypassed"] + counts["fail_open"]
ByRoute(m, s, c) == MapThenSumSet(LAMBDA r : m.routes[r][s][c], DOMAIN m.routes)
=============================================================================
