---------------------------- MODULE PipelineProofs ---------------------------
(***************************************************************************)
(* Proofs about Pipeline for any finite set of threads, any requests with  *)
(* sizes, any configurations and any bound on reconfigurations.  The       *)
(* inductive invariant IInv has three parts: where the work of a request   *)
(* stands between its own body and what it could have had alone (Works);   *)
(* what the shared cache may hold, told by the configuration of every      *)
(* generation so far (Shared); and what the counters owe the requests      *)
(* under way (MetricsOK, Reported, Bytes).                                 *)
(***************************************************************************)
EXTENDS Pipeline, ProofLemmas

\* The configuration that the request of thread t holds.
Held(t) == pinned[t].cfg

\* Request r goes through the cache and Headroom under configuration c.
Through(r, c) == c.headroom /\ Size(r.body) <= MaxItem

\* What the requests under way are.
RequestTypes ==
  /\ generation \in 1..MaxGenerations
  /\ config \in Configs
  /\ pc \in [Threads -> Labels]
  /\ req = [t \in Threads |-> req[t]]
  /\ pinned = [t \in Threads |-> pinned[t]]
  /\ work = [t \in Threads |-> work[t]]
  /\ \A t \in Threads : pc[t] # "idle" =>
       /\ req[t] \in Requests
       /\ pinned[t] \in [gen : 1..generation, cfg : Configs]
  /\ finished \in Nat /\ refused \in Nat

\* The thread's side of the cache, and the cache itself.
CacheTypes ==
  /\ role \in [Threads -> {"idle", "leading", "uncached", "waiting"}]
  /\ key = [t \in Threads |-> key[t]]
  /\ got = [t \in Threads |-> got[t]]
  /\ memo = [k \in DOMAIN memo |-> memo[k]]

\* A thread has a role exactly while it is inside GetOrCompute, and only with
\* a request that goes there.
Roles ==
  \A t \in Threads :
    /\ pc[t] = "waiting" <=> role[t] = "waiting"
    /\ role[t] \in {"leading", "uncached"} => pc[t] \in {"rtk", "headroom", "publish"}
    /\ pc[t] \in {"headroom", "publish"} => role[t] \in {"leading", "uncached"}
    /\ pc[t] = "dedupe" \/ role[t] # "idle" => Through(req[t], Held(t))
    /\ pc[t] = "rtk" /\ role[t] = "idle" => ~Through(req[t], Held(t))
    /\ role[t] # "idle" => key[t] = DedupeKey(pinned[t].gen, req[t])

\* Where the work of a request stands.
Stands(l, r, c, w) ==
  CASE l \in {"dedupe", "waiting", "rtk"} -> w = r.body
    [] l = "headroom" -> w \in After("rtk", {r.body}, r.pair, c)
    [] l \in {"publish", "caveman"} -> w \in Compressed(r, c)
    [] l = "ponytail" -> w \in After("caveman", Compressed(r, c), r.pair, c)
    [] OTHER -> w \in Alone(r, c)

\* The work of every request is a valid body and stands where it should.
Works ==
  \A t \in Threads : pc[t] # "idle" =>
    /\ ValidProviderShape(work[t], req[t].pair)
    /\ Stands(pc[t], req[t], Held(t), work[t])

\* v is what the cache may hold under key k when h tells the configurations.
Holds(h, k, v) ==
  \E g \in 1..generation, r \in Requests :
    /\ k = DedupeKey(g, r)
    /\ \/ v = M!Running
       \/ \E w \in Compressed(r, h[g]) : v = M!Ok(w) /\ ValidProviderShape(w, r.pair)

\* h tells the configuration of every generation that is or was active.
History(h) ==
  /\ config = h[generation]
  /\ \A t \in Threads : pc[t] # "idle" => Held(t) = h[pinned[t].gen]
  /\ \A k \in DOMAIN memo : Holds(h, k, memo[k])
  /\ \A t \in Threads : role[t] = "waiting" => Holds(h, key[t], got[t])

\* Some history explains all that is pinned, cached and taken over.
Shared == \E h \in [1..MaxGenerations -> Configs] : History(h)

\* Where a request stands that each stage has counted.
Past == [rtk      |-> {"headroom", "publish", "caveman", "ponytail", "final"},
         headroom |-> {"publish", "caveman", "ponytail", "final"},
         caveman  |-> {"ponytail", "final"},
         ponytail |-> {"final"},
         pipeline |-> {}]

\* The threads at the labels in L, and the sizes that they carry.
At(L) == {t \in Threads : pc[t] \in L}
WorkSize == [t \in Threads |-> Size(work[t])]
BodySize == [t \in Threads |-> Size(req[t].body)]

\* What each route counts of outcome c of stage s.
Routes(m, s, c) == [r \in DOMAIN m.routes |-> m.routes[r][s][c]]

\* The counters are numbers, and the routes add up to the totals.
MetricsOK(m) ==
  /\ m.outcomes \in [Stages -> [Counters -> Nat]]
  /\ m.input \in [Stages -> Nat]
  /\ m.output \in [Stages -> Nat]
  /\ IsFiniteSet(DOMAIN m.routes)
  /\ \A r \in DOMAIN m.routes : m.routes[r] \in [Stages -> [Counters -> Nat]]
  /\ \A s \in Stages, c \in Counters :
       Weigh(Routes(m, s, c), DOMAIN m.routes) = m.outcomes[s][c]

\* A stage has counted the finished requests and those past it, and Normalize's
\* own count has the finished ones.
Reported ==
  /\ Total(metrics.outcomes["pipeline"]) = finished
  /\ \A s \in Stages \ {"pipeline"} :
       Total(metrics.outcomes[s]) + refused = finished + Cardinality(At(Past[s]))

\* The flows of bytes: what Headroom gave to Caveman, Caveman to Ponytail and
\* Ponytail to the result, and what RTK received of the requests.
Flows == {"caveman", "ponytail", "result", "request"}

\* The bytes of a flow that were counted where it starts and not yet where it
\* ends, the requests they are those of, and how many these have.
Due(m, f) ==
  CASE f = "caveman"  -> m.output["headroom"] - m.input["caveman"]
    [] f = "ponytail" -> m.output["caveman"] - m.input["ponytail"]
    [] f = "result"   -> m.output["ponytail"] - m.output["pipeline"]
    [] OTHER          -> m.input["rtk"] - m.input["pipeline"]

\* Where the requests stand whose bytes are due.
Where == [caveman |-> {"publish", "caveman"}, ponytail |-> {"ponytail"},
          result |-> {"final"}, request |-> Past["rtk"]]

\* The sizes that a flow counts.
Load(f) == IF f = "request" THEN BodySize ELSE WorkSize

\* What is due is what the requests on the way carry.
Bytes ==
  \A f \in Flows : f \in {"caveman", "ponytail"} \/ refused = 0 =>
    Due(metrics, f) = Weigh(Load(f), At(Where[f]))

\* The inductive invariant.
IInv ==
  /\ RequestTypes
  /\ CacheTypes
  /\ Roles
  /\ Works
  /\ Shared
  /\ MetricsOK(metrics)
  /\ Reported
  /\ Bytes
-----------------------------------------------------------------------------
\* The sums over two sets that differ in the member t at most, when only the
\* weight of t may differ.
LEMMA SumStep ==
  ASSUME NEW S, NEW S2, NEW t, IsFiniteSet(S), S2 \ {t} = S \ {t}, NEW w, NEW v,
         \A x \in S : w[x] \in Nat, \A x \in S2 : v[x] \in Nat,
         \A x \in S \ {t} : v[x] = w[x]
  PROVE  /\ IsFiniteSet(S2)
         /\ Weigh(w, S) \in Nat
         /\ Weigh(v, S2) \in Nat
         /\ Weigh(v, S2) + (IF t \in S THEN w[t] ELSE 0)
              = Weigh(w, S) + (IF t \in S2 THEN v[t] ELSE 0)
<1> DEFINE R == S \ {t}
<1>1. IsFiniteSet(S2) /\ IsFiniteSet(R)
  BY FS_Subset, OneMember
<1>2. Weigh(v, R) = Weigh(w, R) /\ Weigh(w, R) \in Nat
  <2>1. \A x \in R : w[x] \in Nat /\ v[x] = w[x]
    OBVIOUS
  <2> HIDE DEF R
  <2>2. QED
    BY <1>1, <2>1, WeighSame, WeighMember
<1>3. /\ Weigh(w, S) \in Nat
      /\ IF t \in S THEN Weigh(w, S) = w[t] + Weigh(w, R) ELSE S = R
  BY WeighMember
<1>4. /\ Weigh(v, S2) \in Nat
      /\ IF t \in S2 THEN Weigh(v, S2) = v[t] + Weigh(v, R) ELSE S2 = R
  <2>1. R = S2 \ {t}
    OBVIOUS
  <2> HIDE DEF R
  <2>2. QED
    BY <1>1, <2>1, WeighMember
<1> HIDE DEF R
<1>5. QED
  BY <1>1, <1>2, <1>3, <1>4
-----------------------------------------------------------------------------
\* How a count goes up.
LEMMA CountedUp ==
  ASSUME NEW counts \in [Counters -> Nat], NEW o \in Counters
  PROVE  /\ Counted(counts, o) \in [Counters -> Nat]
         /\ Total(Counted(counts, o)) = Total(counts) + 1
BY DEF Counted, Counters, Total

\* The routes after one more outcome of stage s on route r.
LEMMA RoutesUp ==
  ASSUME NEW m, MetricsOK(m), NEW r, NEW f \in [Stages -> [Counters -> Nat]],
         NEW m2, m2.routes = WithRoute(m, r, f)
  PROVE  /\ IsFiniteSet(DOMAIN m2.routes)
         /\ \A x \in DOMAIN m2.routes : m2.routes[x] \in [Stages -> [Counters -> Nat]]
         /\ \A s \in Stages, c \in Counters :
              Weigh(Routes(m2, s, c), DOMAIN m2.routes) + Route(m, r)[s][c]
                = m.outcomes[s][c] + f[s][c]
<1>1. m2.routes = [x \in DOMAIN m.routes \cup {r} |->
                     IF x = r THEN f ELSE m.routes[x]]
  BY DEF WithRoute
<1> DEFINE S == DOMAIN m.routes
           S2 == DOMAIN m2.routes
<1>2. /\ S2 = S \cup {r}
      /\ \A x \in S2 : m2.routes[x] \in [Stages -> [Counters -> Nat]]
      /\ m2.routes[r] = f
      /\ \A x \in S \ {r} : m2.routes[x] = m.routes[x]
  BY <1>1 DEF MetricsOK
<1>3. IsFiniteSet(S) /\ IsFiniteSet(S2)
  <2>1. IsFiniteSet(S)
    BY DEF MetricsOK
  <2> HIDE DEF S, S2
  <2>2. QED
    BY <1>2, <2>1, FS_AddElement
<1>4. ASSUME NEW s \in Stages, NEW c \in Counters
      PROVE  Weigh(Routes(m2, s, c), S2) + Route(m, r)[s][c] = m.outcomes[s][c] + f[s][c]
  <2> DEFINE w == Routes(m, s, c)
             v == Routes(m2, s, c)
  <2>1. /\ \A x \in S : w[x] \in Nat
        /\ \A x \in S2 : v[x] \in Nat
        /\ \A x \in S \ {r} : v[x] = w[x]
        /\ v[r] = f[s][c]
        /\ f[s][c] \in Nat
        /\ r \in S => w[r] = Route(m, r)[s][c]
        /\ r \notin S => Route(m, r)[s][c] = 0
    BY <1>2 DEF MetricsOK, Routes, Route, NoOutcomes
  <2>2. S2 \ {r} = S \ {r} /\ r \in S2
    BY <1>2
  <2>3. Weigh(w, S) = m.outcomes[s][c]
    BY DEF MetricsOK
  <2> HIDE DEF w, v, S, S2
  <2>4. /\ Weigh(w, S) \in Nat
        /\ Weigh(v, S2) \in Nat
        /\ Weigh(v, S2) + (IF r \in S THEN w[r] ELSE 0)
             = Weigh(w, S) + (IF r \in S2 THEN v[r] ELSE 0)
    <3>1. /\ IsFiniteSet(S)
          /\ S2 \ {r} = S \ {r}
          /\ \A x \in S : w[x] \in Nat
          /\ \A x \in S2 : v[x] \in Nat
          /\ \A x \in S \ {r} : v[x] = w[x]
      BY <1>3, <2>1, <2>2
    <3>2. QED
      BY ONLY <3>1, SumStep
  <2>5. Weigh(v, S2) + Route(m, r)[s][c] = Weigh(w, S) + f[s][c]
    BY <2>1, <2>2, <2>4
  <2>6. QED
    BY <2>3, <2>5 DEF v, S2
<1>5. QED
  BY <1>2, <1>3, <1>4

\* The totals change from m to m2 as a route does whose counts were g and are f.
Balanced(m, m2, f, g) ==
  \A s \in Stages, c \in Counters :
    /\ f[s][c] - g[s][c] = m2.outcomes[s][c] - m.outcomes[s][c]
    /\ Weigh(Routes(m2, s, c), DOMAIN m2.routes) + g[s][c] = m.outcomes[s][c] + f[s][c]

\* Then the routes add up again.
LEMMA RoutesExact ==
  ASSUME NEW m, NEW m2,
         NEW f \in [Stages -> [Counters -> Nat]], NEW g \in [Stages -> [Counters -> Nat]],
         m.outcomes \in [Stages -> [Counters -> Nat]],
         m2.outcomes \in [Stages -> [Counters -> Nat]],
         m2.input \in [Stages -> Nat], m2.output \in [Stages -> Nat],
         IsFiniteSet(DOMAIN m2.routes),
         \A x \in DOMAIN m2.routes : m2.routes[x] \in [Stages -> [Counters -> Nat]],
         Balanced(m, m2, f, g)
  PROVE  MetricsOK(m2)
<1>1. ASSUME NEW s \in Stages, NEW c \in Counters
      PROVE  Weigh(Routes(m2, s, c), DOMAIN m2.routes) = m2.outcomes[s][c]
  <2> DEFINE W == Weigh(Routes(m2, s, c), DOMAIN m2.routes)
  <2>1. W \in Nat
    <3> DEFINE D == DOMAIN m2.routes
               w == Routes(m2, s, c)
    <3>1. IsFiniteSet(D) /\ \A y \in D : w[y] \in Nat
      BY DEF Routes
    <3> HIDE DEF D, w
    <3>2. Weigh(w, D) \in Nat
      BY <3>1, WeighMember
    <3>3. QED
      BY <3>2 DEF D, w
  <2> DEFINE x == f[s][c]
             y == g[s][c]
             u == m.outcomes[s][c]
             v == m2.outcomes[s][c]
  <2>2. x \in Nat /\ y \in Nat /\ u \in Nat /\ v \in Nat
    OBVIOUS
  <2>3. x - y = v - u /\ W + y = u + x
    BY DEF Balanced
  <2> HIDE DEF W, x, y, u, v
  <2>4. W = v
    BY ONLY <2>1, <2>2, <2>3
  <2>5. QED
    BY <2>4 DEF W, v
<1>2. QED
  BY <1>1 DEF MetricsOK

\* m2 is m with a report of every stage in X, on a request of in bytes that
\* left with out bytes.
Reports(m, m2, X, in, out) ==
  /\ MetricsOK(m2)
  /\ \A s \in Stages :
       /\ Total(m2.outcomes[s]) = Total(m.outcomes[s]) + (IF s \in X THEN 1 ELSE 0)
       /\ m2.input[s]  = m.input[s]  + (IF s \in X THEN in ELSE 0)
       /\ m2.output[s] = m.output[s] + (IF s \in X THEN out ELSE 0)

\* Recorded reports one stage,
LEMMA RecordedReports ==
  ASSUME NEW m, MetricsOK(m), NEW s \in Stages, NEW o \in Counters,
         NEW in \in Nat, NEW out \in Nat, NEW pair
  PROVE  Reports(m, Recorded(m, s, o, in, out, pair), {s}, in, out)
<1> DEFINE r == RouteKey(pair)
           f == [Route(m, r) EXCEPT ![s] = Counted(@, o)]
           m2 == Recorded(m, s, o, in, out, pair)
<1>1. /\ m2.outcomes = [m.outcomes EXCEPT ![s] = Counted(m.outcomes[s], o)]
      /\ m2.input = [m.input EXCEPT ![s] = m.input[s] + in]
      /\ m2.output = [m.output EXCEPT ![s] = m.output[s] + out]
      /\ m2.routes = WithRoute(m, r, f)
  BY DEF Recorded
<1>2. Route(m, r) \in [Stages -> [Counters -> Nat]]
  BY DEF Route, MetricsOK, NoOutcomes
<1>3. /\ f \in [Stages -> [Counters -> Nat]]
      /\ \A x \in Stages, c \in Counters :
           f[x][c] - Route(m, r)[x][c] = m2.outcomes[x][c] - m.outcomes[x][c]
  <2>1. Counted(Route(m, r)[s], o) \in [Counters -> Nat]
    BY <1>2, CountedUp
  <2>2. \A c \in Counters : Counted(Route(m, r)[s], o)[c] - Route(m, r)[s][c]
                              = Counted(m.outcomes[s], o)[c] - m.outcomes[s][c]
    BY <1>2 DEF Counted, MetricsOK
  <2>3. QED
    BY <1>1, <1>2, <2>1, <2>2 DEF MetricsOK
<1>4. /\ m.outcomes \in [Stages -> [Counters -> Nat]]
      /\ m2.outcomes \in [Stages -> [Counters -> Nat]]
      /\ Total(m2.outcomes[s]) = Total(m.outcomes[s]) + 1
      /\ \A x \in Stages \ {s} : m2.outcomes[x] = m.outcomes[x]
  <2>1. m.outcomes \in [Stages -> [Counters -> Nat]]
    BY DEF MetricsOK
  <2>2. /\ Counted(m.outcomes[s], o) \in [Counters -> Nat]
        /\ Total(Counted(m.outcomes[s], o)) = Total(m.outcomes[s]) + 1
    BY <2>1, CountedUp
  <2> HIDE DEF m2, f, r
  <2>3. QED
    BY <1>1, <2>1, <2>2
<1>5. /\ m.input \in [Stages -> Nat]
      /\ m.output \in [Stages -> Nat]
      /\ m2.input \in [Stages -> Nat]
      /\ m2.output \in [Stages -> Nat]
      /\ \A x \in Stages : /\ m2.input[x]  = m.input[x]  + (IF x \in {s} THEN in ELSE 0)
                          /\ m2.output[x] = m.output[x] + (IF x \in {s} THEN out ELSE 0)
  <2>1. m.input \in [Stages -> Nat] /\ m.output \in [Stages -> Nat]
    BY DEF MetricsOK
  <2> HIDE DEF m2, f, r
  <2>2. QED
    BY <1>1, <2>1
<1> HIDE DEF f, m2, r
<1>6. /\ IsFiniteSet(DOMAIN m2.routes)
      /\ \A x \in DOMAIN m2.routes : m2.routes[x] \in [Stages -> [Counters -> Nat]]
      /\ \A x \in Stages, c \in Counters :
           Weigh(Routes(m2, x, c), DOMAIN m2.routes) + Route(m, r)[x][c]
             = m.outcomes[x][c] + f[x][c]
  BY <1>1, <1>3, RoutesUp
<1>8. MetricsOK(m2)
  <2>1. Balanced(m, m2, f, Route(m, r))
    BY <1>3, <1>6 DEF Balanced
  <2>2. QED
    BY <1>2, <1>3, <1>4, <1>5, <1>6, <2>1, RoutesExact
<1>9. \A x \in Stages : Total(m.outcomes[x]) \in Nat
  BY <1>4 DEF Total, Counters
<1>10. Reports(m, m2, {s}, in, out)
  BY <1>4, <1>5, <1>8, <1>9 DEF Reports
<1>11. QED
  BY <1>10 DEF m2

\* and AllBypassed all of them.
LEMMA AllBypassedReports ==
  ASSUME NEW m, MetricsOK(m), NEW size \in Nat, NEW pair
  PROVE  Reports(m, AllBypassed(m, size, pair), Stages, size, size)
<1> DEFINE r == RouteKey(pair)
           f == [s \in Stages |-> Counted(Route(m, r)[s], "bypassed")]
           m2 == AllBypassed(m, size, pair)
<1>1. /\ m2.outcomes = [s \in Stages |-> Counted(m.outcomes[s], "bypassed")]
      /\ m2.input = [s \in Stages |-> m.input[s] + size]
      /\ m2.output = [s \in Stages |-> m.output[s] + size]
      /\ m2.routes = WithRoute(m, r, f)
  BY DEF AllBypassed
<1>2. Route(m, r) \in [Stages -> [Counters -> Nat]]
  BY DEF Route, MetricsOK, NoOutcomes
<1>3. "bypassed" \in Counters
  BY DEF Counters
<1>4. /\ f \in [Stages -> [Counters -> Nat]]
      /\ \A x \in Stages, c \in Counters :
           f[x][c] - Route(m, r)[x][c] = m2.outcomes[x][c] - m.outcomes[x][c]
  <2>1. \A x \in Stages : Counted(Route(m, r)[x], "bypassed") \in [Counters -> Nat]
    BY <1>2, <1>3, CountedUp
  <2>2. \A x \in Stages, c \in Counters :
          Counted(Route(m, r)[x], "bypassed")[c] - Route(m, r)[x][c]
            = Counted(m.outcomes[x], "bypassed")[c] - m.outcomes[x][c]
    BY <1>2 DEF Counted, MetricsOK
  <2> HIDE DEF m2, r
  <2>3. QED
    BY <1>1, <2>1, <2>2
<1>5. /\ m.outcomes \in [Stages -> [Counters -> Nat]]
      /\ m2.outcomes \in [Stages -> [Counters -> Nat]]
      /\ \A x \in Stages : Total(m2.outcomes[x]) = Total(m.outcomes[x]) + 1
  <2>1. m.outcomes \in [Stages -> [Counters -> Nat]]
    BY DEF MetricsOK
  <2>2. \A x \in Stages :
          /\ Counted(m.outcomes[x], "bypassed") \in [Counters -> Nat]
          /\ Total(Counted(m.outcomes[x], "bypassed")) = Total(m.outcomes[x]) + 1
    BY <1>3, <2>1, CountedUp
  <2> HIDE DEF m2, f, r
  <2>3. QED
    BY <1>1, <2>1, <2>2
<1>6. /\ m.input \in [Stages -> Nat]
      /\ m.output \in [Stages -> Nat]
      /\ m2.input \in [Stages -> Nat]
      /\ m2.output \in [Stages -> Nat]
      /\ \A x \in Stages : /\ m2.input[x]  = m.input[x]  + size
                          /\ m2.output[x] = m.output[x] + size
  <2>1. m.input \in [Stages -> Nat] /\ m.output \in [Stages -> Nat]
    BY DEF MetricsOK
  <2> HIDE DEF m2, f, r
  <2>2. QED
    BY <1>1, <2>1
<1> HIDE DEF f, m2, r
<1>7. /\ IsFiniteSet(DOMAIN m2.routes)
      /\ \A x \in DOMAIN m2.routes : m2.routes[x] \in [Stages -> [Counters -> Nat]]
      /\ \A x \in Stages, c \in Counters :
           Weigh(Routes(m2, x, c), DOMAIN m2.routes) + Route(m, r)[x][c]
             = m.outcomes[x][c] + f[x][c]
  BY <1>1, <1>4, RoutesUp
<1>8. MetricsOK(m2)
  <2>1. Balanced(m, m2, f, Route(m, r))
    BY <1>4, <1>7 DEF Balanced
  <2>2. QED
    BY <1>2, <1>4, <1>5, <1>6, <1>7, <2>1, RoutesExact
<1>9. Reports(m, m2, Stages, size, size)
  BY <1>5, <1>6, <1>8 DEF Reports
<1>10. QED
  BY <1>9 DEF m2
-----------------------------------------------------------------------------
\* A body with a valid shape has a size, and what is counted of it is known.
LEMMA ValidSize ==
  ASSUME NEW b, NEW pair, ValidProviderShape(b, pair)
  PROVE  Size(b) \in Nat
<1>1. Size(b) \in 1..MaxProvider
  BY DEF ValidProviderShape
<1>2. MaxProvider \in Nat
  BY PayloadAssumption
<1>3. QED
  BY <1>1, <1>2

\* What a local stage makes of a valid body is valid, counted and among what
\* After says.
LEMMA LocalResult ==
  ASSUME NEW s, NEW b, NEW pair, NEW c,
         NEW r \in LocalResults(s, b, pair, c), ValidProviderShape(b, pair)
  PROVE  /\ r.outcome \in Counters
         /\ ValidProviderShape(r.body, pair)
         /\ \A B : b \in B => r.body \in After(s, B, pair, c)
<1>1. r.outcome \in Counters /\ ValidProviderShape(r.body, pair)
  BY DEF LocalResults, Judged, ValidStage, Counters
<1>2. ASSUME NEW B, b \in B PROVE r.body \in After(s, B, pair, c)
  BY <1>2 DEF After
<1>3. QED
  BY <1>1, <1>2

\* What is counted of Headroom's answer is a counter.
LEMMA HeadroomCounted ==
  ASSUME NEW o, NEW ch PROVE MetricForHeadroom(o, ch) \in Counters
BY DEF MetricForHeadroom, Counters

\* x for a thread at l that is in L.
Inside(L, l, x) == IF l \in L THEN x ELSE 0

\* Numbers and sums over the threads at some labels, when t goes to l.
LEMMA Tallies ==
  ASSUME RequestTypes, Works, NEW t \in Threads, NEW l, pc' = [pc EXCEPT ![t] = l],
         \A u \in Threads \ {t} : work'[u] = work[u] /\ req'[u] = req[u],
         l # "idle" => Size(work'[t]) \in Nat /\ Size(req'[t].body) \in Nat
  PROVE  \A L \in SUBSET (Labels \ {"idle"}) :
           /\ Cardinality(At(L)) \in Nat
           /\ Cardinality(At(L)') \in Nat
           /\ Cardinality(At(L)') = Cardinality(At(L)) + Inside(L, l, 1) - Inside(L, pc[t], 1)
           /\ Weigh(WorkSize, At(L)) \in Nat
           /\ Weigh(WorkSize', At(L)') \in Nat
           /\ Weigh(WorkSize', At(L)') + Inside(L, pc[t], Size(work[t]))
                = Weigh(WorkSize, At(L)) + Inside(L, l, Size(work'[t]))
           /\ Weigh(BodySize, At(L)) \in Nat
           /\ Weigh(BodySize', At(L)') \in Nat
           /\ Weigh(BodySize', At(L)') + Inside(L, pc[t], Size(req[t].body))
                = Weigh(BodySize, At(L)) + Inside(L, l, Size(req'[t].body))
<1> SUFFICES ASSUME NEW L \in SUBSET (Labels \ {"idle"})
             PROVE  /\ Cardinality(At(L)) \in Nat
                    /\ Cardinality(At(L)') \in Nat
                    /\ Cardinality(At(L)')
                         = Cardinality(At(L)) + Inside(L, l, 1) - Inside(L, pc[t], 1)
                    /\ Weigh(WorkSize, At(L)) \in Nat
                    /\ Weigh(WorkSize', At(L)') \in Nat
                    /\ Weigh(WorkSize', At(L)') + Inside(L, pc[t], Size(work[t]))
                         = Weigh(WorkSize, At(L)) + Inside(L, l, Size(work'[t]))
                    /\ Weigh(BodySize, At(L)) \in Nat
                    /\ Weigh(BodySize', At(L)') \in Nat
                    /\ Weigh(BodySize', At(L)') + Inside(L, pc[t], Size(req[t].body))
                         = Weigh(BodySize, At(L)) + Inside(L, l, Size(req'[t].body))
  OBVIOUS
<1> DEFINE S == At(L)
           S2 == At(L)'
<1>1. /\ S \subseteq Threads /\ S2 \subseteq Threads
      /\ \A u \in Threads \ {t} : u \in S <=> u \in S2
      /\ t \in S <=> pc[t] \in L
      /\ t \in S2 <=> l \in L
      /\ \A u \in S : pc[u] # "idle"
      /\ \A u \in S2 \ {t} : pc[u] # "idle"
      /\ t \in S2 => l # "idle"
  BY DEF RequestTypes, At
<1>2. IsFiniteSet(S) /\ S2 \ {t} = S \ {t}
  BY <1>1, FS_Subset, PipelineAssumption
<1>3. /\ \A u \in S : WorkSize[u] \in Nat /\ BodySize[u] \in Nat
      /\ \A u \in S2 : WorkSize'[u] \in Nat /\ BodySize'[u] \in Nat
      /\ \A u \in S \ {t} : WorkSize'[u] = WorkSize[u] /\ BodySize'[u] = BodySize[u]
      /\ WorkSize[t] = Size(work[t]) /\ WorkSize'[t] = Size(work'[t])
      /\ BodySize[t] = Size(req[t].body) /\ BodySize'[t] = Size(req'[t].body)
  <2>1. \A u \in Threads : pc[u] # "idle" =>
          Size(work[u]) \in Nat /\ Size(req[u].body) \in Nat
    BY ValidSize, PipelineAssumption DEF RequestTypes, Works
  <2> HIDE DEF S, S2
  <2>2. QED
    BY <1>1, <2>1 DEF WorkSize, BodySize
<1> HIDE DEF S, S2
<1>4. /\ Cardinality(S) \in Nat /\ Cardinality(S2) \in Nat
      /\ Cardinality(S2) = Cardinality(S) + Inside(L, l, 1) - Inside(L, pc[t], 1)
  BY <1>1, <1>2, OneMember DEF Inside
<1>5. /\ Weigh(WorkSize, S) \in Nat
      /\ Weigh(WorkSize', S2) \in Nat
      /\ Weigh(WorkSize', S2) + (IF t \in S THEN WorkSize[t] ELSE 0)
           = Weigh(WorkSize, S) + (IF t \in S2 THEN WorkSize'[t] ELSE 0)
  <2> DEFINE w == WorkSize
             v == WorkSize'
  <2>1. /\ IsFiniteSet(S)
        /\ S2 \ {t} = S \ {t}
        /\ \A x \in S : w[x] \in Nat
        /\ \A x \in S2 : v[x] \in Nat
        /\ \A x \in S \ {t} : v[x] = w[x]
    BY <1>2, <1>3
  <2> HIDE DEF w, v
  <2>2. /\ Weigh(w, S) \in Nat
        /\ Weigh(v, S2) \in Nat
        /\ Weigh(v, S2) + (IF t \in S THEN w[t] ELSE 0)
             = Weigh(w, S) + (IF t \in S2 THEN v[t] ELSE 0)
    BY ONLY <2>1, SumStep
  <2>3. QED
    BY <2>2 DEF w, v
<1>6. /\ Weigh(BodySize, S) \in Nat
      /\ Weigh(BodySize', S2) \in Nat
      /\ Weigh(BodySize', S2) + (IF t \in S THEN BodySize[t] ELSE 0)
           = Weigh(BodySize, S) + (IF t \in S2 THEN BodySize'[t] ELSE 0)
  <2> DEFINE w == BodySize
             v == BodySize'
  <2>1. /\ IsFiniteSet(S)
        /\ S2 \ {t} = S \ {t}
        /\ \A x \in S : w[x] \in Nat
        /\ \A x \in S2 : v[x] \in Nat
        /\ \A x \in S \ {t} : v[x] = w[x]
    BY <1>2, <1>3
  <2> HIDE DEF w, v
  <2>2. /\ Weigh(w, S) \in Nat
        /\ Weigh(v, S2) \in Nat
        /\ Weigh(v, S2) + (IF t \in S THEN w[t] ELSE 0)
             = Weigh(w, S) + (IF t \in S2 THEN v[t] ELSE 0)
    BY ONLY <2>1, SumStep
  <2>3. QED
    BY <2>2 DEF w, v
<1>7. QED
  BY <1>1, <1>3, <1>4, <1>5, <1>6 DEF Inside, S, S2
-----------------------------------------------------------------------------
\* t goes to label l with body w, inside its request.
Moved(t, l, w) ==
  /\ pc' = [pc EXCEPT ![t] = l]
  /\ work' = [work EXCEPT ![t] = w]
  /\ UNCHANGED <<generation, config, req, pinned, finished, refused>>

\* A thread goes on with a work that stands where it goes to.
LEMMA MovedWorks ==
  ASSUME RequestTypes, Works, NEW t \in Threads, pc[t] # "idle",
         NEW l \in Labels \ {"idle"}, NEW w, Moved(t, l, w),
         ValidProviderShape(w, req[t].pair), Stands(l, req[t], Held(t), w)
  PROVE  RequestTypes' /\ Works'
<1>1. /\ pc' \in [Threads -> Labels]
      /\ pc'[t] = l /\ work'[t] = w
      /\ work' = [u \in Threads |-> work'[u]]
      /\ \A u \in Threads \ {t} : pc'[u] = pc[u] /\ work'[u] = work[u]
  BY DEF Moved, RequestTypes
<1>2. /\ generation' = generation /\ config' = config
      /\ req' = req /\ pinned' = pinned /\ finished' = finished /\ refused' = refused
  BY DEF Moved
<1>3. RequestTypes'
  BY <1>1, <1>2 DEF RequestTypes
<1>4. Works'
  BY <1>1, <1>2 DEF Works, Held
<1>5. QED
  BY <1>3, <1>4

\* t goes to label l, perhaps to another request or none.
Goes(t, l) ==
  /\ pc' = [pc EXCEPT ![t] = l]
  /\ \A u \in Threads \ {t} : work'[u] = work[u] /\ req'[u] = req[u]
  /\ l # "idle" => Size(work'[t]) \in Nat /\ Size(req'[t].body) \in Nat

\* The counts agree when t is counted by the stages it passes, or as finished.
LEMMA StepReported ==
  ASSUME RequestTypes, Works, MetricsOK(metrics), Reported,
         NEW t \in Threads, NEW l \in Labels, Goes(t, l),
         MetricsOK(metrics'), finished' \in Nat, refused' = refused,
         Total(metrics'.outcomes["pipeline"]) = finished',
         \A s \in Stages \ {"pipeline"} :
           Total(metrics'.outcomes[s]) + finished + Inside(Past[s], pc[t], 1)
             = Total(metrics.outcomes[s]) + finished' + Inside(Past[s], l, 1)
  PROVE  Reported'
<1>1. \A L \in SUBSET (Labels \ {"idle"}) :
        /\ Cardinality(At(L)) \in Nat
        /\ Cardinality(At(L)') \in Nat
        /\ Cardinality(At(L)') = Cardinality(At(L)) + Inside(L, l, 1) - Inside(L, pc[t], 1)
  BY Tallies DEF Goes
<1>2. ASSUME NEW s \in Stages PROVE Past[s] \in SUBSET (Labels \ {"idle"})
  BY DEF Past, Stages, LocalStages, Labels
<1>3. \A s \in Stages : /\ Total(metrics.outcomes[s]) \in Nat
                         /\ Total(metrics'.outcomes[s]) \in Nat
  BY DEF MetricsOK, Total, Counters
<1>4. ASSUME NEW s \in Stages \ {"pipeline"}
      PROVE  Total(metrics'.outcomes[s]) + refused = finished' + Cardinality(At(Past[s])')
  <2> DEFINE C == Cardinality(At(Past[s]))
             C2 == Cardinality(At(Past[s])')
             T == Total(metrics.outcomes[s])
             T2 == Total(metrics'.outcomes[s])
             k == pc[t]
  <2>1. /\ C \in Nat /\ C2 \in Nat /\ T \in Nat /\ T2 \in Nat
        /\ C2 = C + Inside(Past[s], l, 1) - Inside(Past[s], k, 1)
    BY <1>1, <1>2, <1>3
  <2>2. T + refused = finished + C
    BY DEF Reported
  <2>3. T2 + finished + Inside(Past[s], k, 1) = T + finished' + Inside(Past[s], l, 1)
    OBVIOUS
  <2>4. finished \in Nat /\ refused \in Nat /\ finished' \in Nat
    BY DEF RequestTypes
  <2> HIDE DEF C, C2, T, T2, k
  <2>5. T2 + refused = finished' + C2
    BY ONLY <2>1, <2>2, <2>3, <2>4 DEF Inside
  <2>6. QED
    BY <2>5 DEF T2, C2
<1>5. QED
  BY <1>4 DEF Reported

\* What is due is a number,
LEMMA DueType ==
  ASSUME NEW m, MetricsOK(m), NEW f
  PROVE  Due(m, f) \in Int
BY DEF MetricsOK, Due, Stages, LocalStages

\* x if stage s is in X.
If(s, X, x) == IF s \in X THEN x ELSE 0

\* and changes as the reports of the stages in X say.
Gain(f, X, in, out) ==
  CASE f = "caveman"  -> If("headroom", X, out) - If("caveman", X, in)
    [] f = "ponytail" -> If("caveman", X, out) - If("ponytail", X, in)
    [] f = "result"   -> If("ponytail", X, out) - If("pipeline", X, out)
    [] OTHER          -> If("rtk", X, in) - If("pipeline", X, in)

\* and it grows by what the stages report.
LEMMA DueReports ==
  ASSUME NEW m, MetricsOK(m), NEW m2, NEW X, NEW in \in Nat, NEW out \in Nat,
         Reports(m, m2, X, in, out), NEW f
  PROVE  Due(m2, f) = Due(m, f) + Gain(f, X, in, out)
<1>1. \A s \in {"rtk", "headroom", "caveman", "ponytail", "pipeline"} :
        /\ m.input[s] \in Nat /\ m.output[s] \in Nat
        /\ If(s, X, in) \in Nat /\ If(s, X, out) \in Nat
        /\ m2.input[s] = m.input[s] + If(s, X, in)
        /\ m2.output[s] = m.output[s] + If(s, X, out)
  BY DEF Reports, MetricsOK, Stages, LocalStages, If
<1>2. CASE f = "caveman"
  BY <1>1, <1>2 DEF Due, Gain
<1>3. CASE f = "ponytail"
  BY <1>1, <1>3 DEF Due, Gain
<1>4. CASE f = "result"
  BY <1>1, <1>4 DEF Due, Gain
<1>5. CASE f \notin {"caveman", "ponytail", "result"}
  BY <1>1, <1>5 DEF Due, Gain
<1>6. QED
  BY <1>2, <1>3, <1>4, <1>5

\* The byte totals fit together when what t had and what it has are counted
\* where they belong.
LEMMA StepBytes ==
  ASSUME RequestTypes, Works, MetricsOK(metrics), Bytes,
         NEW t \in Threads, NEW l \in Labels, Goes(t, l),
         MetricsOK(metrics'), refused' = refused,
         NEW gain \in [Flows -> Int],
         \A f \in Flows : Due(metrics', f) = Due(metrics, f) + gain[f],
         \A f \in Flows : gain[f] + Inside(Where[f], pc[t], Load(f)[t])
                            = Inside(Where[f], l, Load(f)'[t])
  PROVE  Bytes'
<1> SUFFICES ASSUME NEW f \in Flows, f \in {"caveman", "ponytail"} \/ refused = 0
             PROVE  Due(metrics', f) = Weigh(Load(f)', At(Where[f])')
  BY DEF Bytes
<1> DEFINE L == Where[f]
<1>1. L \in SUBSET (Labels \ {"idle"})
  BY DEF Where, Flows, Past, Labels
<1>2. /\ Load(f)[t] = IF f = "request" THEN Size(req[t].body) ELSE Size(work[t])
      /\ Load(f)'[t] = IF f = "request" THEN Size(req'[t].body) ELSE Size(work'[t])
  BY DEF Load, BodySize, WorkSize
<1>3. /\ Weigh(Load(f), At(L)) \in Nat
      /\ Weigh(Load(f)', At(L)') \in Nat
      /\ Weigh(Load(f)', At(L)') + Inside(L, pc[t], Load(f)[t])
           = Weigh(Load(f), At(L)) + Inside(L, l, Load(f)'[t])
  <2> HIDE DEF L
  <2>1. /\ Weigh(WorkSize, At(L)) \in Nat
        /\ Weigh(WorkSize', At(L)') \in Nat
        /\ Weigh(WorkSize', At(L)') + Inside(L, pc[t], Size(work[t]))
             = Weigh(WorkSize, At(L)) + Inside(L, l, Size(work'[t]))
        /\ Weigh(BodySize, At(L)) \in Nat
        /\ Weigh(BodySize', At(L)') \in Nat
        /\ Weigh(BodySize', At(L)') + Inside(L, pc[t], Size(req[t].body))
             = Weigh(BodySize, At(L)) + Inside(L, l, Size(req'[t].body))
    BY <1>1, Tallies DEF Goes
  <2>2. CASE f = "request"
    BY <1>2, <2>1, <2>2 DEF Load
  <2>3. CASE f # "request"
    BY <1>2, <2>1, <2>3 DEF Load
  <2>4. QED
    BY <2>2, <2>3
<1>4. /\ Inside(L, pc[t], Load(f)[t]) \in Nat
      /\ Inside(L, l, Load(f)'[t]) \in Nat
  <2>1. pc[t] # "idle" => Size(work[t]) \in Nat /\ Size(req[t].body) \in Nat
    BY ValidSize, PipelineAssumption DEF Works, RequestTypes
  <2> HIDE DEF L
  <2>2. QED
    BY <1>1, <1>2, <2>1 DEF Goes, Inside
<1>5. Due(metrics, f) = Weigh(Load(f), At(L))
  BY DEF Bytes
<1> DEFINE W  == Weigh(Load(f), At(L))
           W2 == Weigh(Load(f)', At(L)')
           x  == Inside(L, pc[t], Load(f)[t])
           y  == Inside(L, l, Load(f)'[t])
           d  == Due(metrics, f)
           d2 == Due(metrics', f)
           g  == gain[f]
<1>6. /\ d = W /\ d2 = d + g /\ g + x = y /\ W2 + x = W + y
      /\ W \in Nat /\ W2 \in Nat /\ x \in Nat /\ y \in Nat /\ g \in Int
  BY <1>3, <1>4, <1>5
<1> HIDE DEF W, W2, x, y, d, d2, g
<1>7. d2 = W2
  BY ONLY <1>6
<1>8. QED
  BY <1>7 DEF d2, W2, L

\* The counts agree when t goes to l and the stages in X and then those in Y
\* report.
LEMMA Counting ==
  ASSUME IInv, NEW t \in Threads, NEW l \in Labels, Goes(t, l), refused' = refused,
         NEW m, NEW X, NEW in \in Nat, NEW out \in Nat, Reports(metrics, m, X, in, out),
         NEW Y, NEW in2 \in Nat, NEW out2 \in Nat, Reports(m, metrics', Y, in2, out2),
         finished' = finished + If("pipeline", X, 1) + If("pipeline", Y, 1),
         \A s \in Stages \ {"pipeline"} :
           If(s, X, 1) + If(s, Y, 1) + finished + Inside(Past[s], pc[t], 1)
             = finished' + Inside(Past[s], l, 1),
         \A f \in Flows :
           Gain(f, X, in, out) + Gain(f, Y, in2, out2) + Inside(Where[f], pc[t], Load(f)[t])
             = Inside(Where[f], l, Load(f)'[t])
  PROVE  Reported' /\ Bytes'
<1>1. /\ RequestTypes /\ Works /\ MetricsOK(metrics) /\ Reported /\ Bytes
      /\ MetricsOK(m) /\ MetricsOK(metrics') /\ finished \in Nat
  BY DEF IInv, Reports, RequestTypes
<1>2. \A s \in Stages :
        /\ Total(metrics.outcomes[s]) \in Nat
        /\ Total(m.outcomes[s]) = Total(metrics.outcomes[s]) + If(s, X, 1)
        /\ Total(metrics'.outcomes[s]) = Total(m.outcomes[s]) + If(s, Y, 1)
        /\ If(s, X, 1) \in Nat /\ If(s, Y, 1) \in Nat
        /\ Inside(Past[s], pc[t], 1) \in Nat /\ Inside(Past[s], l, 1) \in Nat
  <2>1. \A s \in Stages : Total(metrics.outcomes[s]) \in Nat
    BY <1>1 DEF MetricsOK, Total, Counters
  <2>2. \A s \in Stages :
          /\ Total(m.outcomes[s]) = Total(metrics.outcomes[s]) + If(s, X, 1)
          /\ Total(metrics'.outcomes[s]) = Total(m.outcomes[s]) + If(s, Y, 1)
    BY DEF Reports, If
  <2>3. QED
    BY <2>1, <2>2 DEF If, Inside
<1>3. "pipeline" \in Stages /\ Total(metrics.outcomes["pipeline"]) = finished
  BY <1>1 DEF Stages, Reported
<1>4. finished' \in Nat /\ Total(metrics'.outcomes["pipeline"]) = finished'
  <2>1. If("pipeline", X, 1) \in Nat /\ If("pipeline", Y, 1) \in Nat
    BY DEF If
  <2> DEFINE x == If("pipeline", X, 1)
             y == If("pipeline", Y, 1)
             T == Total(metrics.outcomes["pipeline"])
             T1 == Total(m.outcomes["pipeline"])
             T2 == Total(metrics'.outcomes["pipeline"])
  <2>2. /\ x \in Nat /\ y \in Nat /\ T = finished /\ T1 = T + x /\ T2 = T1 + y
        /\ finished' = finished + x + y /\ finished \in Nat
    BY <1>1, <1>2, <1>3
  <2> HIDE DEF x, y, T, T1, T2
  <2>3. finished' \in Nat /\ T2 = finished'
    BY ONLY <2>2
  <2>4. QED
    BY <2>3 DEF T2
<1>5. ASSUME NEW s \in Stages \ {"pipeline"}
      PROVE  Total(metrics'.outcomes[s]) + finished + Inside(Past[s], pc[t], 1)
               = Total(metrics.outcomes[s]) + finished' + Inside(Past[s], l, 1)
  <2> DEFINE x == If(s, X, 1)
             y == If(s, Y, 1)
             T == Total(metrics.outcomes[s])
             T1 == Total(m.outcomes[s])
             T2 == Total(metrics'.outcomes[s])
             i == Inside(Past[s], pc[t], 1)
             j == Inside(Past[s], l, 1)
             n == finished
             n2 == finished'
  <2>1. /\ x \in Nat /\ y \in Nat /\ T \in Nat /\ T1 = T + x /\ T2 = T1 + y
        /\ i \in Nat /\ j \in Nat /\ n \in Nat /\ n2 \in Nat
        /\ x + y + n + i = n2 + j
    BY <1>1, <1>2, <1>4
  <2> HIDE DEF x, y, T, T1, T2, i, j, n, n2
  <2>2. T2 + n + i = T + n2 + j
    BY ONLY <2>1
  <2>3. QED
    BY <2>2 DEF T, T2, i, j, n, n2
<1>6. Reported'
  BY <1>1, <1>4, <1>5, StepReported
<1>7. Bytes'
  <2> DEFINE one == [f \in Flows |-> Gain(f, X, in, out)]
             two == [f \in Flows |-> Gain(f, Y, in2, out2)]
             gain == [f \in Flows |-> one[f] + two[f]]
  <2>1. one \in [Flows -> Int] /\ two \in [Flows -> Int]
    BY DEF Gain, If
  <2>2. \A f \in Flows : Due(m, f) = Due(metrics, f) + one[f]
    BY <1>1, DueReports
  <2>3. \A f \in Flows : Due(metrics', f) = Due(m, f) + two[f]
    BY <1>1, DueReports
  <2>4. \A f \in Flows : Due(metrics, f) \in Int
    BY <1>1, DueType
  <2>5. \A f \in Flows : one[f] + two[f] + Inside(Where[f], pc[t], Load(f)[t])
                           = Inside(Where[f], l, Load(f)'[t])
    OBVIOUS
  <2> HIDE DEF one, two
  <2>6. gain \in [Flows -> Int]
    BY <2>1
  <2>7. ASSUME NEW f \in Flows PROVE Due(metrics', f) = Due(metrics, f) + gain[f]
    <3> DEFINE d == Due(metrics, f)
               d1 == Due(m, f)
               d2 == Due(metrics', f)
               x == one[f]
               y == two[f]
    <3>1. d \in Int /\ x \in Int /\ y \in Int /\ d1 = d + x /\ d2 = d1 + y
      BY <2>1, <2>2, <2>3, <2>4
    <3> HIDE DEF d, d1, d2, x, y
    <3>2. d2 = d + (x + y)
      BY ONLY <3>1
    <3>3. QED
      BY <3>2 DEF d, d2, x, y
  <2>8. \A f \in Flows : gain[f] + Inside(Where[f], pc[t], Load(f)[t])
                              = Inside(Where[f], l, Load(f)'[t])
    BY <2>5
  <2> HIDE DEF gain
  <2>9. QED
    BY <1>1, <2>6, <2>7, <2>8, StepBytes
<1>8. QED
  BY <1>6, <1>7

-----------------------------------------------------------------------------
\* What the cache may hold stays so while generations are added.
LEMMA HoldsOn ==
  ASSUME NEW h, NEW h2, NEW k, NEW v, Holds(h, k, v), generation \in Nat,
         generation' \in Nat, generation <= generation',
         \A g \in 1..generation : h2[g] = h[g]
  PROVE  Holds(h2, k, v)'
BY DEF Holds

\* Two requests share a key only if they have the same generation and are the
\* same to the stages.
LEMMA KeyIsInjective ==
  ASSUME NEW g, NEW r, NEW g2, NEW r2, DedupeKey(g, r) = DedupeKey(g2, r2)
  PROVE  g = g2 /\ r = r2
BY DEF DedupeKey

\* A request that no stage has seen is in no count.
LEMMA Early ==
  ASSUME NEW l \in {"idle", "dedupe", "waiting", "rtk"}
  PROVE  /\ \A s \in Stages : Inside(Past[s], l, 1) = 0
         /\ \A x : \A f \in Flows : Inside(Where[f], l, x) = 0
<1>1. \A x : \A f \in Flows : Inside(Where[f], l, x) = 0
  BY DEF Where, Flows, Past, Inside
<1>2. \A s \in Stages : Inside(Past[s], l, 1) = 0
  BY DEF Past, Inside, Stages, LocalStages
<1>3. QED
  BY <1>1, <1>2

\* A thread that goes on within the same counts changes none of them.
LEMMA Uncounted ==
  ASSUME IInv, NEW t \in Threads, NEW l \in Labels, Goes(t, l),
         UNCHANGED <<metrics, finished, refused>>,
         \A s \in Stages : Inside(Past[s], pc[t], 1) = Inside(Past[s], l, 1),
         \A f \in Flows :
           Inside(Where[f], pc[t], Load(f)[t]) = Inside(Where[f], l, Load(f)'[t])
  PROVE  Reported' /\ Bytes'
<1>1. /\ RequestTypes /\ Works /\ MetricsOK(metrics) /\ Reported /\ Bytes
      /\ metrics' = metrics /\ finished' = finished /\ refused' = refused
      /\ finished \in Nat
  BY DEF IInv, RequestTypes
<1>2. \A s \in Stages : Total(metrics.outcomes[s]) \in Nat
  BY <1>1 DEF MetricsOK, Total, Counters
<1>3. Reports(metrics, metrics, {}, 0, 0)
  <2>1. \A x \in Stages : metrics.input[x] \in Nat /\ metrics.output[x] \in Nat
    BY <1>1 DEF MetricsOK
  <2>2. QED
    BY <1>1, <1>2, <2>1 DEF Reports
<1>4. /\ finished' = finished + If("pipeline", {}, 1) + If("pipeline", {}, 1)
      /\ \A s \in Stages \ {"pipeline"} :
           If(s, {}, 1) + If(s, {}, 1) + finished + Inside(Past[s], pc[t], 1)
             = finished' + Inside(Past[s], l, 1)
  BY <1>1 DEF If, Inside
<1>5. \A f \in Flows :
        Gain(f, {}, 0, 0) + Gain(f, {}, 0, 0) + Inside(Where[f], pc[t], Load(f)[t])
          = Inside(Where[f], l, Load(f)'[t])
  <2>1. \A f : Gain(f, {}, 0, 0) = 0
    BY DEF Gain, If
  <2>2. \A f \in Flows : Inside(Where[f], l, Load(f)'[t]) \in Int
    <3>1. Goes(t, l)
      OBVIOUS
    <3>2. QED
      BY <3>1 DEF Goes, Inside, Load, WorkSize, BodySize, Where, Flows, Past
  <2>3. QED
    BY <2>1, <2>2
<1> DEFINE X == {}
<1>6. /\ IInv /\ l \in Labels /\ Goes(t, l) /\ refused' = refused
      /\ 0 \in Nat /\ Reports(metrics, metrics, X, 0, 0) /\ Reports(metrics, metrics', X, 0, 0)
      /\ finished' = finished + If("pipeline", X, 1) + If("pipeline", X, 1)
      /\ \A s \in Stages \ {"pipeline"} :
           If(s, X, 1) + If(s, X, 1) + finished + Inside(Past[s], pc[t], 1)
             = finished' + Inside(Past[s], l, 1)
      /\ \A f \in Flows :
           Gain(f, X, 0, 0) + Gain(f, X, 0, 0) + Inside(Where[f], pc[t], Load(f)[t])
             = Inside(Where[f], l, Load(f)'[t])
  BY <1>1, <1>3, <1>4, <1>5
<1> HIDE DEF X
<1>7. QED
  BY ONLY <1>6, Counting

\* Lookup joins, leads or bypasses: a thread that joins finds Running or a body
\* that another request with its key has had.
LEMMA LookupSafe ==
  ASSUME IInv, NEW t \in Threads, Lookup(t)
  PROVE  IInv'
<1> DEFINE k == DedupeKey(pinned[t].gen, req[t])
<1>0. /\ pc[t] = "dedupe" /\ role[t] = "idle" /\ metrics' = metrics
      /\ req[t] \in Requests /\ pinned[t].gen \in 1..generation
      /\ generation \in Nat
  BY PipelineAssumption DEF Lookup, IInv, RequestTypes, M!Join, M!Lead, M!Bypass,
                            M!Start
<1>1. PICK l \in {"waiting", "rtk"} :
        /\ Moved(t, l, work[t])
        /\ l = "waiting" => M!Join(t, k)
        /\ l = "rtk" => M!Lead(t, k) \/ M!Bypass(t, k)
  BY DEF Lookup, Moved, Goto, IInv, RequestTypes
<1>2. /\ ValidProviderShape(work[t], req[t].pair)
      /\ Stands(l, req[t], Held(t), work[t])
      /\ Size(work[t]) \in Nat
  BY <1>0, ValidSize DEF IInv, Works, Stands
<1>3. l \in Labels \ {"idle"}
  BY DEF Labels
<1>4. RequestTypes' /\ Works'
  BY <1>0, <1>1, <1>2, <1>3, MovedWorks DEF IInv
<1>5. /\ Goes(t, l) /\ l \in {"idle", "dedupe", "waiting", "rtk"}
      /\ pc[t] \in {"idle", "dedupe", "waiting", "rtk"} /\ l \in Labels
      /\ UNCHANGED <<metrics, finished, refused>>
  BY <1>0, <1>1, <1>2, PipelineAssumption DEF Goes, Moved, IInv, RequestTypes,
                                              Labels
<1>6. Reported' /\ Bytes'
  BY <1>5, Early, Uncounted
<1>8. /\ pc' = [pc EXCEPT ![t] = l] /\ req' = req /\ pinned' = pinned
      /\ generation' = generation /\ config' = config
  BY <1>1 DEF Moved
<1>9. CacheTypes'
  BY <1>1 DEF IInv, CacheTypes, M!Join, M!Lead, M!Bypass, M!Start, M!Without, M!With
<1>10. Roles'
  BY <1>0, <1>1, <1>8 DEF IInv, CacheTypes, RequestTypes, Roles, Held,
              M!Join, M!Lead, M!Bypass, M!Start
<1>11. Shared'
  <2>1. PICK h \in [1..MaxGenerations -> Configs] : History(h)
    BY DEF IInv, Shared
  <2>2. \A j, v : Holds(h, j, v) => Holds(h, j, v)'
    BY <1>0, <1>8, HoldsOn
  <2>3. Holds(h, k, M!Running)
    BY <1>0 DEF Holds
  <2>4. \A j \in DOMAIN memo' : Holds(h, j, memo'[j])
    <3>1. ASSUME NEW j \in DOMAIN memo'
          PROVE  \/ j \in DOMAIN memo /\ memo'[j] = memo[j]
                 \/ j = k /\ memo'[j] = M!Running
      <4>1. CASE l = "waiting"
        BY <1>1, <4>1 DEF M!Join, M!Without
      <4>2. CASE M!Lead(t, k)
        BY <4>2 DEF M!Lead, M!Without, M!With
      <4>3. CASE M!Bypass(t, k)
        BY <4>3 DEF M!Bypass, M!Without
      <4>4. QED
        BY <1>1, <4>1, <4>2, <4>3
    <3>2. \A j \in DOMAIN memo : Holds(h, j, memo[j])
      BY <2>1 DEF History
    <3>3. QED
      BY <2>3, <3>1, <3>2
  <2>5. ASSUME NEW u \in Threads,
               role'[u] = "waiting" PROVE Holds(h, key'[u], got'[u])
    <3>1. CASE u # t
      <4>1. role'[u] = role[u] /\ key'[u] = key[u] /\ got'[u] = got[u]
        BY <1>1, <3>1 DEF IInv, CacheTypes, M!Join, M!Lead, M!Bypass, M!Start
      <4>2. QED
        BY <2>1, <2>5, <4>1 DEF History
    <3>2. CASE u = t
      <4>1. key'[u] = k /\ k \in DOMAIN memo /\ got'[u] = memo[k]
        BY <1>1, <2>5, <3>2 DEF IInv, CacheTypes, M!Join, M!Lead, M!Bypass,
                                M!Start, M!Without
      <4>2. QED
        BY <2>1, <4>1 DEF History
    <3>3. QED
      BY <3>1, <3>2
  <2>6. \A u \in Threads : pc'[u] # "idle" => Held(u)' = h[pinned'[u].gen]
    BY <1>0, <1>3, <1>8, <2>1 DEF History, Held, IInv, RequestTypes
  <2>7. History(h)'
    BY <1>8, <2>1, <2>2, <2>4, <2>5, <2>6 DEF History
  <2>8. QED
    BY <2>1, <2>7 DEF Shared
<1>12. QED
  BY <1>0, <1>4, <1>6, <1>9, <1>10, <1>11 DEF IInv

\* Enter pins the active configuration, so the history tells it.
LEMMA EnterSafe ==
  ASSUME IInv, NEW t \in Threads, NEW r \in Requests, Enter(t, r)
  PROVE  IInv'
<1>0. /\ pc[t] = "idle" /\ metrics' = metrics
      /\ generation' = generation /\ config' = config
      /\ role' = role /\ key' = key /\ got' = got /\ memo' = memo
      /\ finished' = finished /\ refused' = refused
      /\ generation \in Nat /\ generation \in 1..generation
      /\ ValidProviderShape(r.body, r.pair)
  BY PipelineAssumption DEF Enter, IInv, RequestTypes, Admissible, memoVars
<1>1. PICK l \in {"dedupe", "rtk"} :
        /\ pc' = [pc EXCEPT ![t] = l]
        /\ l = "dedupe" <=> Through(r, config)
  BY DEF Enter, Goto, Through
<1>2. /\ req'[t] = r /\ work'[t] = r.body
      /\ pinned'[t] = [gen |-> generation, cfg |-> config]
      /\ pc'[t] = l
      /\ \A u \in Threads \ {t} : /\ pc'[u] = pc[u] /\ req'[u] = req[u]
                                  /\ work'[u] = work[u] /\ pinned'[u] = pinned[u]
      /\ pc' \in [Threads -> Labels]
      /\ req' = [u \in Threads |-> req'[u]]
      /\ work' = [u \in Threads |-> work'[u]]
      /\ pinned' = [u \in Threads |-> pinned'[u]]
  BY <1>1 DEF Enter, IInv, RequestTypes, Labels
<1>3. l \in Labels
  BY DEF Labels
<1>4. RequestTypes'
  BY <1>0, <1>2 DEF IInv, RequestTypes
<1>5. Works'
  <2>1. Stands(l, r, config, r.body)
    BY DEF Stands
  <2>2. QED
    BY <1>0, <1>2, <2>1 DEF IInv, Works, Held
<1>6. /\ Goes(t, l) /\ l \in {"idle", "dedupe", "waiting", "rtk"}
      /\ pc[t] \in {"idle", "dedupe", "waiting", "rtk"} /\ l \in Labels
      /\ UNCHANGED <<metrics, finished, refused>>
  BY <1>0, <1>1, <1>2, PipelineAssumption DEF Goes, Labels
<1>7. Reported' /\ Bytes'
  BY <1>6, Early, Uncounted
<1>9. CacheTypes'
  BY <1>0 DEF IInv, CacheTypes
<1>10. Roles'
  BY <1>0, <1>1, <1>2 DEF IInv, CacheTypes, Roles, Held
<1>11. Shared'
  <2>1. PICK h \in [1..MaxGenerations -> Configs] : History(h)
    BY DEF IInv, Shared
  <2>2. \A j, v : Holds(h, j, v) => Holds(h, j, v)'
    BY <1>0, HoldsOn
  <2>3. \A u \in Threads : pc'[u] # "idle" => Held(u)' = h[pinned'[u].gen]
    BY <1>0, <1>2, <2>1 DEF History, Held
  <2>4. History(h)'
    BY <1>0, <2>1, <2>2, <2>3 DEF History
  <2>5. QED
    BY <2>1, <2>4 DEF Shared
<1>12. QED
  BY <1>0, <1>4, <1>5, <1>7, <1>9, <1>10, <1>11 DEF IInv
-----------------------------------------------------------------------------
\* The steps that leave the cache and the other threads' requests alone keep
\* what the cache holds.
LEMMA SharedOn ==
  ASSUME IInv, UNCHANGED <<generation, config, pinned, memoVars>>,
         \A t \in Threads : pc'[t] # "idle" => pc[t] # "idle"
  PROVE  CacheTypes' /\ Shared'
<1>1. /\ generation' = generation /\ config' = config /\ pinned' = pinned
      /\ role' = role /\ key' = key /\ got' = got /\ memo' = memo
      /\ generation \in Nat
  BY PipelineAssumption DEF memoVars, IInv, RequestTypes
<1>2. CacheTypes'
  BY <1>1 DEF IInv, CacheTypes
<1>3. PICK h \in [1..MaxGenerations -> Configs] : History(h)
  BY DEF IInv, Shared
<1>4. \A j, v : Holds(h, j, v) => Holds(h, j, v)'
  BY <1>1, HoldsOn
<1>5. History(h)'
  BY <1>1, <1>3, <1>4 DEF History, Held
<1>6. QED
  BY <1>2, <1>3, <1>5 DEF Shared

\* Hit: what another request computed under this key is what this one could
\* have computed, since its key tells the generation, and that the configuration.
LEMMA HitSafe ==
  ASSUME IInv, NEW t \in Threads, Hit(t)
  PROVE  IInv'
<1> DEFINE w == got[t][2]
           n == Size(req[t].body)
           v == Size(w)
           m == Recorded(metrics, "rtk", "bypassed", n, n, req[t].pair)
<1>0. /\ pc[t] = "waiting" /\ role[t] = "waiting" /\ got[t] # M!Running
      /\ Moved(t, "caveman", w)
      /\ metrics' = Recorded(m, "headroom", "bypassed", v, v, req[t].pair)
      /\ memo' = memo /\ generation' = generation /\ config' = config
      /\ role' = [role EXCEPT ![t] = "idle"]
      /\ key' = [key EXCEPT ![t] = M!None]
      /\ got' = [got EXCEPT ![t] = M!None]
  BY DEF Hit, Moved, Goto, M!Receive, M!Leave
<1>1. /\ req[t] \in Requests /\ pinned[t].gen \in 1..generation
      /\ generation \in Nat /\ key[t] = DedupeKey(pinned[t].gen, req[t])
  BY <1>0, PipelineAssumption DEF IInv, RequestTypes, Roles
<1>2. PICK h \in [1..MaxGenerations -> Configs] : History(h)
  BY DEF IInv, Shared
<1>3. w \in Compressed(req[t], Held(t)) /\ ValidProviderShape(w, req[t].pair)
  <2>1. PICK g \in 1..generation, r \in Requests :
          /\ key[t] = DedupeKey(g, r)
          /\ \E x \in Compressed(r, h[g]) :
               got[t] = M!Ok(x) /\ ValidProviderShape(x, r.pair)
    BY <1>0, <1>2 DEF History, Holds
  <2>2. g = pinned[t].gen /\ r = req[t]
    <3>1. DedupeKey(g, r) = DedupeKey(pinned[t].gen, req[t])
      BY <1>1, <2>1
    <3>2. QED
      BY ONLY <3>1, KeyIsInjective
  <2>3. h[g] = Held(t)
    BY <1>0, <1>2, <2>2 DEF History
  <2>4. \A x : M!Ok(x)[2] = x
    BY DEF M!Ok
  <2>5. QED
    BY <2>1, <2>2, <2>3, <2>4
<1>4. n \in Nat /\ v \in Nat
  BY <1>1, <1>3, ValidSize, PipelineAssumption
<1>5. "caveman" \in Labels \ {"idle"} /\ Stands("caveman", req[t], Held(t), w)
  BY <1>3 DEF Stands, Labels
<1>6. RequestTypes' /\ Works'
  BY <1>0, <1>3, <1>5, MovedWorks DEF IInv
<1>7. Reports(metrics, m, {"rtk"}, n, n) /\ Reports(m, metrics', {"headroom"}, v, v)
  <2>1. "rtk" \in Stages /\ "headroom" \in Stages /\ "bypassed" \in Counters
    BY DEF Stages, LocalStages, Counters
  <2>2. Reports(metrics, m, {"rtk"}, n, n)
    BY <1>4, <2>1, RecordedReports DEF IInv
  <2>3. MetricsOK(m)
    BY <2>2 DEF Reports
  <2> HIDE DEF m, n, v
  <2>4. QED
    BY <1>0, <1>4, <2>1, <2>2, <2>3, RecordedReports
<1>8. /\ Goes(t, "caveman") /\ work'[t] = w /\ req'[t] = req[t]
      /\ finished' = finished /\ refused' = refused
  BY <1>0, <1>4 DEF Goes, Moved, IInv, RequestTypes
<1> HIDE DEF n, v, m, w
<1>9. /\ IInv /\ "caveman" \in Labels /\ finished \in Nat
      /\ finished' = finished + If("pipeline", {"rtk"}, 1) + If("pipeline", {"headroom"}, 1)
  BY <1>8 DEF IInv, RequestTypes, Labels, If
<1>10. /\ Reported' /\ Bytes'
  <2>1. ASSUME NEW s \in Stages \ {"pipeline"}
        PROVE  If(s, {"rtk"}, 1) + If(s, {"headroom"}, 1) + finished + Inside(Past[s], pc[t], 1)
                 = finished' + Inside(Past[s], "caveman", 1)
    BY <1>0, <1>8, <1>9 DEF If, Inside, Past, Stages, LocalStages
  <2>2. ASSUME NEW f \in Flows
        PROVE  Gain(f, {"rtk"}, n, n) + Gain(f, {"headroom"}, v, v)
                 + Inside(Where[f], pc[t], Load(f)[t]) = Inside(Where[f], "caveman", Load(f)'[t])
    <3>1. Gain(f, {"rtk"}, n, n) = (IF f = "request" THEN n ELSE 0)
      BY <1>4 DEF Gain, If, Flows
    <3>2. Gain(f, {"headroom"}, v, v) = (IF f = "caveman" THEN v ELSE 0)
      BY <1>4 DEF Gain, If, Flows
    <3>3. Inside(Where[f], "waiting", Load(f)[t]) = 0
      BY Early
    <3>4. Inside(Where[f], "caveman", Load(f)'[t])
            = IF f = "request" THEN n ELSE IF f = "caveman" THEN v ELSE 0
      BY <1>8 DEF Inside, Where, Past, Flows, Load, WorkSize, BodySize, n, v
    <3>5. QED
      BY <1>0, <1>4, <3>1, <3>2, <3>3, <3>4
  <2>3. QED
    BY <1>4, <1>7, <1>8, <1>9, <2>1, <2>2, Counting
<1>11. CacheTypes'
  BY <1>0 DEF IInv, CacheTypes
<1>12. Roles'
  BY <1>0 DEF IInv, CacheTypes, RequestTypes, Roles, Held, Moved
<1>13. Shared'
  <2>1. \A j, x : Holds(h, j, x) => Holds(h, j, x)'
    BY <1>0, <1>1, HoldsOn
  <2>2. \A u \in Threads : role'[u] = "waiting" =>
          role[u] = "waiting" /\ key'[u] = key[u] /\ got'[u] = got[u]
    BY <1>0 DEF IInv, CacheTypes
  <2>3. History(h)'
    BY <1>0, <1>2, <2>1, <2>2 DEF History, Held, Moved, IInv, RequestTypes
  <2>4. QED
    BY <1>2, <2>3 DEF Shared
<1>14. QED
  BY <1>6, <1>7, <1>9, <1>10, <1>11, <1>12, <1>13 DEF IInv, Reports
-----------------------------------------------------------------------------
\* Where a stage leads: Headroom is skipped, and counted, outside the cache.
Leads == {<<"rtk", "headroom">>, <<"rtk", "caveman">>, <<"headroom", "publish">>,
          <<"caveman", "ponytail">>, <<"ponytail", "final">>}

\* A stage that reports what it was given and what it gives keeps the counts.
LEMMA StageCounted ==
  ASSUME IInv, NEW t \in Threads, NEW l, <<pc[t], l>> \in Leads,
         NEW w, Moved(t, l, w), Size(w) \in Nat,
         NEW m, Reports(metrics, m, {pc[t]}, Size(work[t]), Size(w)),
         NEW Y, Y = (IF l = "caveman" THEN {"headroom"} ELSE {}),
         Reports(m, metrics', Y, Size(w), Size(w))
  PROVE  Reported' /\ Bytes'
<1> DEFINE k == pc[t]
           a == Size(work[t])
           b == Size(req[t].body)
           v == Size(w)
<1>1. /\ k \in {"rtk", "headroom", "caveman", "ponytail"} /\ l \in Labels
      /\ l \in {"headroom", "publish", "caveman", "ponytail", "final"}
  BY DEF Leads, Labels
<1>2. /\ a \in Nat /\ b \in Nat /\ v \in Nat
      /\ k = "rtk" => a = b
  BY <1>1, ValidSize, PipelineAssumption DEF IInv, RequestTypes, Works, Stands
<1>3. /\ Goes(t, l) /\ work'[t] = w /\ req'[t] = req[t]
      /\ finished' = finished /\ refused' = refused /\ finished \in Nat
  BY <1>1, <1>2 DEF Goes, Moved, IInv, RequestTypes
<1>4. \A f \in Flows : /\ Load(f)[t] = IF f = "request" THEN b ELSE a
                       /\ Load(f)'[t] = IF f = "request" THEN b ELSE v
  BY <1>3 DEF Load, WorkSize, BodySize
<1>5. <<k, l>> \in Leads /\ pc[t] = k
  OBVIOUS
<1>6. Reports(metrics, m, {k}, a, v) /\ Reports(m, metrics', Y, v, v)
  OBVIOUS
<1> HIDE DEF k, a, b, v
<1>7. finished' = finished + If("pipeline", {k}, 1) + If("pipeline", Y, 1)
  BY <1>1, <1>3 DEF If
<1>8. ASSUME NEW s \in Stages \ {"pipeline"}
      PROVE  If(s, {k}, 1) + If(s, Y, 1) + finished + Inside(Past[s], k, 1)
               = finished' + Inside(Past[s], l, 1)
  BY <1>3, <1>5 DEF If, Inside, Past, Stages, LocalStages, Leads
<1>9. ASSUME NEW f \in Flows
      PROVE  Gain(f, {k}, a, v) + Gain(f, Y, v, v) + Inside(Where[f], k, Load(f)[t])
               = Inside(Where[f], l, Load(f)'[t])
  <2> DEFINE x == Load(f)[t]
             y == Load(f)'[t]
  <2>1. /\ x = (IF f = "request" THEN b ELSE a)
        /\ y = (IF f = "request" THEN b ELSE v)
    BY <1>4
  <2> HIDE DEF x, y
  <2>2. Gain(f, {k}, a, v) + Gain(f, Y, v, v) + Inside(Where[f], k, x) = Inside(Where[f], l, y)
    <3>1. CASE f = "caveman"
      BY <1>2, <1>5, <2>1, <3>1 DEF Leads, Gain, If, Where, Inside
    <3>2. CASE f = "ponytail"
      BY <1>2, <1>5, <2>1, <3>2 DEF Leads, Gain, If, Where, Inside
    <3>3. CASE f = "result"
      BY <1>2, <1>5, <2>1, <3>3 DEF Leads, Gain, If, Where, Inside
    <3>4. CASE f = "request"
      BY <1>2, <1>5, <2>1, <3>4 DEF Leads, Gain, If, Where, Inside, Past
    <3>5. QED
      BY <3>1, <3>2, <3>3, <3>4 DEF Flows
  <2>3. QED
    BY <2>2 DEF x, y
<1> DEFINE X == {k}
<1>10. /\ IInv /\ l \in Labels /\ Goes(t, l) /\ refused' = refused
       /\ a \in Nat /\ v \in Nat /\ Reports(metrics, m, X, a, v) /\ Reports(m, metrics', Y, v, v)
       /\ finished' = finished + If("pipeline", X, 1) + If("pipeline", Y, 1)
       /\ \A s \in Stages \ {"pipeline"} :
            If(s, X, 1) + If(s, Y, 1) + finished + Inside(Past[s], pc[t], 1)
              = finished' + Inside(Past[s], l, 1)
       /\ \A f \in Flows :
            Gain(f, X, a, v) + Gain(f, Y, v, v) + Inside(Where[f], pc[t], Load(f)[t])
              = Inside(Where[f], l, Load(f)'[t])
  BY <1>1, <1>2, <1>3, <1>5, <1>6, <1>7, <1>8, <1>9
<1> HIDE DEF X
<1>11. QED
  BY ONLY <1>10, Counting

\* So it keeps all the rest when its output is what such a request may have.
LEMMA StageSafe ==
  ASSUME IInv, NEW t \in Threads, NEW l, <<pc[t], l>> \in Leads,
         l \in {"headroom", "publish"} <=> role[t] # "idle",
         NEW w, Moved(t, l, w), UNCHANGED memoVars,
         ValidProviderShape(w, req[t].pair), Stands(l, req[t], Held(t), w),
         NEW m, Reports(metrics, m, {pc[t]}, Size(work[t]), Size(w)),
         NEW Y, Y = (IF l = "caveman" THEN {"headroom"} ELSE {}),
         Reports(m, metrics', Y, Size(w), Size(w))
  PROVE  IInv'
<1>1. /\ pc[t] \in {"rtk", "headroom", "caveman", "ponytail"}
      /\ l \in {"headroom", "publish", "caveman", "ponytail", "final"}
      /\ l \in Labels \ {"idle"}
  BY DEF Leads, Labels
<1>2. RequestTypes' /\ Works'
  BY <1>1, MovedWorks DEF IInv
<1>3. Reported' /\ Bytes'
  BY StageCounted, ValidSize
<1>4. /\ generation' = generation /\ config' = config /\ pinned' = pinned
      /\ req' = req /\ role' = role /\ key' = key
      /\ pc' = [pc EXCEPT ![t] = l]
  BY DEF Moved, memoVars
<1>5. CacheTypes' /\ Shared'
  BY <1>1, <1>4, SharedOn DEF IInv, RequestTypes
<1>6. Roles'
  BY <1>1, <1>4 DEF IInv, CacheTypes, RequestTypes, Roles, Held
<1>7. QED
  BY <1>2, <1>3, <1>5, <1>6 DEF IInv, Reports

\* RTK, Caveman and Ponytail.
LEMMA LocalSafe ==
  ASSUME IInv, NEW t \in Threads, NEW s \in LocalStages,
         NEW r \in LocalResults(s, work[t], req[t].pair, pinned[t].cfg),
         RunLocalStage(t, s, r)
  PROVE  IInv'
<1> DEFINE l == AfterStage(t, s)
           w == r.body
           m == Recorded(metrics, s, r.outcome, Size(work[t]), Size(w), req[t].pair)
           Y == IF l = "caveman" THEN {"headroom"} ELSE {}
<1>1. /\ pc[t] = s /\ s \in {"rtk", "caveman", "ponytail"}
      /\ Moved(t, l, w) /\ UNCHANGED memoVars
      /\ metrics' = IF l = "caveman"
                    THEN Recorded(m, "headroom", "bypassed", Size(w), Size(w), req[t].pair)
                    ELSE m
  BY DEF RunLocalStage, Moved, Goto, LocalStages
<1>2. /\ <<pc[t], l>> \in Leads
      /\ l \in {"headroom", "publish"} <=> role[t] # "idle"
  BY <1>1 DEF Leads, AfterStage, IInv, Roles, CacheTypes
<1>3. /\ ValidProviderShape(work[t], req[t].pair)
      /\ Stands(s, req[t], Held(t), work[t])
  BY <1>1 DEF IInv, Works
<1>4. /\ r.outcome \in Counters
      /\ ValidProviderShape(w, req[t].pair)
      /\ \A B : work[t] \in B => w \in After(s, B, req[t].pair, Held(t))
  BY <1>3, LocalResult DEF Held
<1>5. Stands(l, req[t], Held(t), w)
  <2>1. CASE s = "rtk"
    <3>1. w \in After("rtk", {req[t].body}, req[t].pair, Held(t))
      BY <1>3, <1>4, <2>1 DEF Stands
    <3>2. CASE role[t] # "idle"
      BY <2>1, <3>1, <3>2 DEF AfterStage, Stands
    <3>3. CASE role[t] = "idle"
      <4>1. ~Through(req[t], Held(t))
        BY <1>1, <2>1, <3>3 DEF IInv, Roles
      <4>2. Size(req[t].body) \in Nat /\ MaxItem \in Nat
        BY <1>1, <2>1, PipelineAssumption, AdapterAssumption DEF IInv, RequestTypes
      <4>3. w \in Compressed(req[t], Held(t))
        BY <3>1, <4>1, <4>2 DEF Compressed, Through
      <4>4. QED
        BY <2>1, <3>3, <4>3 DEF AfterStage, Stands
    <3>4. QED
      BY <3>2, <3>3
  <2>2. CASE s = "caveman"
    BY <1>3, <1>4, <2>2 DEF AfterStage, Stands
  <2>3. CASE s = "ponytail"
    BY <1>3, <1>4, <2>3 DEF AfterStage, Stands, Alone
  <2>4. QED
    BY <1>1, <2>1, <2>2, <2>3
<1>6. Size(work[t]) \in Nat /\ Size(w) \in Nat
  BY <1>3, <1>4, ValidSize
<1>7. Reports(metrics, m, {pc[t]}, Size(work[t]), Size(w))
  BY <1>1, <1>4, <1>6, RecordedReports DEF IInv, Stages
<1>8. Reports(m, metrics', Y, Size(w), Size(w))
  <2>1. MetricsOK(m) /\ "headroom" \in Stages /\ "bypassed" \in Counters
    BY <1>7 DEF Reports, Stages, Counters
  <2> HIDE DEF m, l, w
  <2>2. CASE l = "caveman"
    BY <1>1, <1>6, <2>1, <2>2, RecordedReports
  <2>3. CASE l # "caveman"
    <3>1. \A x \in Stages : /\ m.input[x] \in Nat /\ m.output[x] \in Nat
                            /\ Total(m.outcomes[x]) \in Nat
      BY <2>1 DEF MetricsOK, Total, Counters
    <3>2. QED
      BY <1>1, <2>1, <2>3, <3>1 DEF Reports
  <2>4. QED
    BY <2>2, <2>3
<1> HIDE DEF l, w, m, Y
<1>9. QED
  BY <1>1, <1>2, <1>4, <1>5, <1>7, <1>8, StageSafe DEF Y

\* Headroom.
LEMMA HeadroomSafe ==
  ASSUME IInv, NEW t \in Threads, pc[t] = "headroom",
         NEW r \in HeadroomResults(work[t], req[t].pair[2]), RunHeadroomStage(t, r)
  PROVE  IInv'
<1> DEFINE b == work[t]
<1>1. PICK o \in Counters, w \in {b, r.body} :
        /\ metrics' = Recorded(metrics, "headroom", o, Size(b), Size(w), req[t].pair)
        /\ Moved(t, "publish", w) /\ UNCHANGED memoVars
        /\ w # b => ValidProviderShape(r.body, req[t].pair)
  <2> DEFINE oc == MetricForHeadroom(r.outcome, r.body # b)
             sound == ValidStage("headroom", b, r.body, req[t].pair, pinned[t].cfg)
             o == IF oc \in {"executed", "bypassed"} /\ ~sound THEN "fail_open" ELSE oc
             w == IF oc \in {"executed", "bypassed"} /\ sound THEN r.body ELSE b
  <2>1. o \in Counters
    BY HeadroomCounted DEF Counters
  <2>2. sound => ValidProviderShape(r.body, req[t].pair)
    BY DEF ValidStage
  <2>3. work' = [work EXCEPT ![t] = w] /\ work'[t] = w
    BY DEF RunHeadroomStage, IInv, RequestTypes
  <2>4. /\ metrics' = Recorded(metrics, "headroom", o, Size(b), Size(w), req[t].pair)
        /\ Moved(t, "publish", w) /\ UNCHANGED memoVars
    BY <2>3 DEF RunHeadroomStage, Record, Moved, Goto
  <2> HIDE DEF oc, sound
  <2>5. w \in {b, r.body} /\ (w # b => sound)
    OBVIOUS
  <2> HIDE DEF o, w
  <2>6. QED
    BY <2>1, <2>2, <2>4, <2>5
<1>2. /\ ValidProviderShape(b, req[t].pair)
      /\ b \in After("rtk", {req[t].body}, req[t].pair, Held(t))
      /\ role[t] # "idle" /\ Through(req[t], Held(t))
      /\ Size(req[t].body) \in Nat /\ MaxItem \in Nat
  BY PipelineAssumption, AdapterAssumption DEF IInv, Works, Stands, Roles,
                                               RequestTypes
<1>3. ValidProviderShape(w, req[t].pair)
  BY <1>1, <1>2
<1>4. w \in Compressed(req[t], Held(t))
  <2>1. ~(~Held(t).headroom \/ Size(req[t].body) > MaxItem)
    BY <1>2 DEF Through
  <2>2. w \in {b} \cup {x.body : x \in HeadroomResults(b, req[t].pair[2])}
    BY <1>1
  <2>3. QED
    BY <1>2, <2>1, <2>2 DEF Compressed
<1>5. Stands("publish", req[t], Held(t), w)
  BY <1>4 DEF Stands
<1>6. Size(b) \in Nat /\ Size(w) \in Nat
  BY <1>2, <1>3, ValidSize
<1>7. Reports(metrics, metrics', {pc[t]}, Size(b), Size(w))
  BY <1>1, <1>6, RecordedReports DEF IInv, Stages
<1>8. Reports(metrics', metrics', {}, Size(w), Size(w))
  <2>1. MetricsOK(metrics')
    BY <1>7 DEF Reports
  <2>2. \A x \in Stages : /\ metrics'.input[x] \in Nat /\ metrics'.output[x] \in Nat
                          /\ Total(metrics'.outcomes[x]) \in Nat
    BY <2>1 DEF MetricsOK, Total, Counters
  <2>3. QED
    BY <2>1, <2>2 DEF Reports
<1> DEFINE l == "publish"
           Y == {}
           m == metrics'
<1>9. /\ IInv /\ <<pc[t], l>> \in Leads
      /\ l \in {"headroom", "publish"} <=> role[t] # "idle"
      /\ Moved(t, l, w) /\ UNCHANGED memoVars
      /\ ValidProviderShape(w, req[t].pair) /\ Stands(l, req[t], Held(t), w)
      /\ Reports(metrics, m, {pc[t]}, Size(work[t]), Size(w))
      /\ Y = (IF l = "caveman" THEN {"headroom"} ELSE {})
      /\ Reports(m, metrics', Y, Size(w), Size(w))
  BY <1>1, <1>2, <1>3, <1>5, <1>7, <1>8 DEF Leads
<1> HIDE DEF l, Y, m
<1>10. QED
  BY ONLY <1>9, StageSafe
-----------------------------------------------------------------------------
\* Publish: a leader stores a body that it could have had alone.
LEMMA PublishSafe ==
  ASSUME IInv, NEW t \in Threads, Publish(t)
  PROVE  IInv'
<1> DEFINE w == work[t]
<1>1. /\ pc[t] = "publish" /\ metrics' = metrics
      /\ Moved(t, "caveman", w)
      /\ M!Finish(t, M!Ok(w)) \/ M!Return(t)
  BY DEF Publish, Moved, Goto, IInv, RequestTypes
<1>2. /\ ValidProviderShape(w, req[t].pair) /\ w \in Compressed(req[t], Held(t))
      /\ Stands("caveman", req[t], Held(t), w) /\ "caveman" \in Labels \ {"idle"}
      /\ Size(w) \in Nat
  BY <1>1, ValidSize DEF IInv, Works, Stands, Labels
<1>3. /\ req[t] \in Requests /\ pinned[t].gen \in 1..generation
      /\ generation \in Nat /\ key[t] = DedupeKey(pinned[t].gen, req[t])
      /\ Size(req[t].body) \in Nat
  BY <1>1, PipelineAssumption DEF IInv, RequestTypes, Roles
<1>4. RequestTypes' /\ Works'
  BY <1>1, <1>2, MovedWorks DEF IInv
<1>5. /\ generation' = generation /\ config' = config /\ req' = req /\ pinned' = pinned
      /\ finished' = finished /\ refused' = refused
      /\ pc' = [pc EXCEPT ![t] = "caveman"]
      /\ work' = [work EXCEPT ![t] = work[t]]
  BY <1>1 DEF Moved
<1>6. work' = work
  BY <1>5 DEF IInv, RequestTypes
<1>7. Reported' /\ Bytes'
  <2>1. Goes(t, "caveman")
    BY <1>2, <1>3, <1>5, <1>6 DEF Goes
  <2>2. \A s \in Stages : Inside(Past[s], pc[t], 1) = Inside(Past[s], "caveman", 1)
    BY <1>1 DEF Inside, Past, Stages, LocalStages
  <2>3. \A f \in Flows : \A x : Inside(Where[f], pc[t], x) = Inside(Where[f], "caveman", x)
    BY <1>1 DEF Inside, Where, Past, Flows
  <2>4. \A f \in Flows : Load(f)'[t] = Load(f)[t]
    BY <1>5, <1>6 DEF Load, WorkSize, BodySize
  <2>5. QED
    BY <1>1, <1>2, <1>5, <2>1, <2>2, <2>3, <2>4, Uncounted
<1>8. /\ role' = [role EXCEPT ![t] = "idle"] /\ key' = [key EXCEPT ![t] = M!None]
      /\ got' = [u \in Threads |-> got'[u]]
      /\ memo' = [k \in DOMAIN memo' |-> memo'[k]]
      /\ \A u \in Threads : \/ got'[u] = got[u]
                            \/ key[u] = key[t] /\ got'[u] = M!Ok(w)
      /\ \A k \in DOMAIN memo' : \/ k \in DOMAIN memo /\ memo'[k] = memo[k]
                                 \/ k = key[t] /\ memo'[k] = M!Ok(w)
  <2>1. CASE M!Finish(t, M!Ok(w))
    <3>1. \A u \in Threads : \/ got'[u] = got[u]
                             \/ key[u] = key[t] /\ got'[u] = M!Ok(w)
      BY <2>1 DEF M!Finish
    <3>2. /\ memo' = [k \in DOMAIN memo' |-> memo'[k]]
          /\ \A k \in DOMAIN memo' : \/ k \in DOMAIN memo /\ memo'[k] = memo[k]
                                     \/ k = key[t] /\ memo'[k] = M!Ok(w)
      BY <2>1 DEF M!Finish, M!Without, IInv, CacheTypes
    <3>3. QED
      BY <2>1, <3>1, <3>2 DEF M!Finish, M!Leave
  <2>2. CASE M!Return(t)
    BY <2>2 DEF M!Return, M!Leave, IInv, CacheTypes
  <2>3. QED
    BY <1>1, <2>1, <2>2
<1>9. CacheTypes'
  BY <1>8 DEF IInv, CacheTypes
<1>10. Roles'
  BY <1>1, <1>5, <1>8 DEF IInv, CacheTypes, RequestTypes, Roles, Held
<1>11. Shared'
  <2>1. PICK h \in [1..MaxGenerations -> Configs] : History(h)
    BY DEF IInv, Shared
  <2>2. \A j, v : Holds(h, j, v) => Holds(h, j, v)'
    BY <1>3, <1>5, HoldsOn
  <2>3. Holds(h, key[t], M!Ok(w))
    <3>1. Held(t) = h[pinned[t].gen]
      BY <1>1, <2>1 DEF History
    <3>2. QED
      BY <1>2, <1>3, <3>1 DEF Holds
  <2>4. \A k \in DOMAIN memo' : Holds(h, k, memo'[k])
    BY <1>8, <2>1, <2>3 DEF History
  <2>5. \A u \in Threads : role'[u] = "waiting" => Holds(h, key'[u], got'[u])
    <3>1. \A u \in Threads : role'[u] = "waiting" => role[u] = "waiting" /\ key'[u] = key[u]
      BY <1>8 DEF IInv, CacheTypes
    <3>2. QED
      BY <1>8, <2>1, <2>3, <3>1 DEF History
  <2>6. History(h)'
    BY <1>1, <1>5, <2>1, <2>2, <2>4, <2>5 DEF History, Held, IInv, RequestTypes
  <2>7. QED
    BY <2>1, <2>6 DEF Shared
<1>12. QED
  BY <1>1, <1>4, <1>7, <1>9, <1>10, <1>11 DEF IInv

\* Final: the request is counted by Normalize and leaves.
LEMMA FinalSafe ==
  ASSUME IInv, NEW t \in Threads, Final(t)
  PROVE  IInv'
<1> DEFINE a == Size(req[t].body)
           v == Size(work[t])
<1>1. /\ pc[t] = "final" /\ finished' = finished + 1 /\ refused' = refused
      /\ generation' = generation /\ config' = config /\ pc' = [pc EXCEPT ![t] = "idle"]
      /\ role' = role /\ key' = key /\ got' = got /\ memo' = memo
  BY DEF Final, Goto, memoVars
<1>2. /\ req' = [u \in Threads |-> req'[u]]
      /\ work' = [u \in Threads |-> work'[u]]
      /\ pinned' = [u \in Threads |-> pinned'[u]]
      /\ \A u \in Threads \ {t} : /\ req'[u] = req[u] /\ work'[u] = work[u]
                                  /\ pinned'[u] = pinned[u]
  BY DEF Final, IInv, RequestTypes
<1>3. ValidProviderShape(work[t], req[t].pair) /\ a \in Nat /\ v \in Nat
  BY <1>1, ValidSize, PipelineAssumption DEF IInv, Works, RequestTypes
<1>4. Reports(metrics, metrics', {"pipeline"}, a, v)
  <2>1. PICK o \in Counters : metrics' = Recorded(metrics, "pipeline", o, a, v, req[t].pair)
    BY <1>3 DEF Final, Record, Counters
  <2>2. "pipeline" \in Stages
    BY DEF Stages
  <2> HIDE DEF a, v
  <2>3. QED
    BY <1>3, <2>1, <2>2, RecordedReports DEF IInv
<1>5. RequestTypes'
  <2>1. /\ finished' \in Nat /\ refused' \in Nat
        /\ pc' \in [Threads -> Labels]
        /\ generation' \in 1..MaxGenerations /\ config' \in Configs
    BY <1>1 DEF IInv, RequestTypes, Labels
  <2>2. \A u \in Threads : pc'[u] # "idle" =>
          /\ req'[u] \in Requests
          /\ pinned'[u] \in [gen : 1..generation', cfg : Configs]
    BY <1>1, <1>2 DEF IInv, RequestTypes
  <2>3. QED
    BY <1>2, <2>1, <2>2 DEF RequestTypes
<1>6. Works'
  BY <1>1, <1>2 DEF IInv, RequestTypes, Works, Held
<1>7. Reported' /\ Bytes'
  <2> DEFINE X == {"pipeline"}
             Y == {}
             l == "idle"
             m == metrics'
  <2>1. Reports(m, metrics', Y, a, v)
    <3>1. MetricsOK(metrics')
      BY <1>4 DEF Reports
    <3>2. \A x \in Stages : /\ metrics'.input[x] \in Nat /\ metrics'.output[x] \in Nat
                            /\ Total(metrics'.outcomes[x]) \in Nat
      BY <3>1 DEF MetricsOK, Total, Counters
    <3>3. QED
      BY <3>1, <3>2 DEF Reports
  <2>2. Goes(t, l) /\ l \in Labels
    BY <1>1, <1>2 DEF Goes, Labels
  <2>3. finished \in Nat
    BY DEF IInv, RequestTypes
  <2>4. finished' = finished + If("pipeline", X, 1) + If("pipeline", Y, 1)
    BY <1>1, <2>3 DEF If
  <2>5. ASSUME NEW s \in Stages \ {"pipeline"}
        PROVE  If(s, X, 1) + If(s, Y, 1) + finished + Inside(Past[s], pc[t], 1)
                 = finished' + Inside(Past[s], l, 1)
    BY <1>1, <2>3 DEF If, Inside, Past, Stages, LocalStages
  <2>6. ASSUME NEW f \in Flows
        PROVE  Gain(f, X, a, v) + Gain(f, Y, a, v) + Inside(Where[f], pc[t], Load(f)[t])
                 = Inside(Where[f], l, Load(f)'[t])
    <3>1. /\ Load(f)[t] = (IF f = "request" THEN a ELSE v)
          /\ Gain(f, Y, a, v) = 0
      BY DEF Load, WorkSize, BodySize, Gain, If
    <3>2. Inside(Where[f], l, Load(f)'[t]) = 0
      BY Early
    <3> HIDE DEF a, v, l
    <3>3. Gain(f, X, a, v) + Inside(Where[f], "final", Load(f)[t]) = 0
      BY <1>3, <3>1 DEF Gain, If, Inside, Where, Past, Flows
    <3>4. QED
      <4>1. Gain(f, X, a, v) \in Int
        BY <1>3 DEF Gain, If
      <4>2. QED
        BY <1>1, <3>1, <3>2, <3>3, <4>1
  <2>7. /\ IInv /\ l \in Labels /\ Goes(t, l) /\ refused' = refused
        /\ a \in Nat /\ v \in Nat /\ Reports(metrics, m, X, a, v) /\ Reports(m, metrics', Y, a, v)
        /\ finished' = finished + If("pipeline", X, 1) + If("pipeline", Y, 1)
        /\ \A s \in Stages \ {"pipeline"} :
             If(s, X, 1) + If(s, Y, 1) + finished + Inside(Past[s], pc[t], 1)
               = finished' + Inside(Past[s], l, 1)
        /\ \A f \in Flows :
             Gain(f, X, a, v) + Gain(f, Y, a, v) + Inside(Where[f], pc[t], Load(f)[t])
               = Inside(Where[f], l, Load(f)'[t])
    BY <1>1, <1>3, <1>4, <2>1, <2>2, <2>4, <2>5, <2>6
  <2> HIDE DEF X, Y, l, m, a, v
  <2>8. QED
    BY ONLY <2>7, Counting
<1>8. CacheTypes'
  BY <1>1 DEF IInv, CacheTypes
<1>9. Roles'
  BY <1>1, <1>2 DEF IInv, CacheTypes, RequestTypes, Roles, Held
<1>10. Shared'
  <2>1. PICK h \in [1..MaxGenerations -> Configs] : History(h)
    BY DEF IInv, Shared
  <2>2. generation \in Nat
    BY PipelineAssumption DEF IInv, RequestTypes
  <2>3. \A j, x : Holds(h, j, x) => Holds(h, j, x)'
    BY <1>1, <2>2, HoldsOn
  <2>4. History(h)'
    BY <1>1, <1>2, <2>1, <2>3 DEF History, Held, IInv, RequestTypes
  <2>5. QED
    BY <2>1, <2>4 DEF Shared
<1>11. QED
  BY <1>4, <1>5, <1>6, <1>7, <1>8, <1>9, <1>10 DEF IInv, Reports
-----------------------------------------------------------------------------
\* What a request that takes no stage leaves as it is.
LEMMA NoneMoves ==
  ASSUME IInv, UNCHANGED <<generation, config, pc, req, pinned, work, memoVars>>,
         finished' = finished + 1, refused' \in Nat
  PROVE  /\ RequestTypes' /\ CacheTypes' /\ Roles' /\ Works' /\ Shared'
         /\ \A L : At(L)' = At(L)
         /\ BodySize' = BodySize /\ WorkSize' = WorkSize
<1>1. /\ generation' = generation /\ config' = config /\ pc' = pc /\ req' = req
      /\ pinned' = pinned /\ work' = work
      /\ role' = role /\ key' = key /\ got' = got /\ memo' = memo
  BY DEF memoVars
<1>2. RequestTypes' /\ Works'
  BY <1>1 DEF IInv, RequestTypes, Works, Held
<1>3. Roles'
  BY <1>1 DEF IInv, Roles, Held
<1>4. CacheTypes' /\ Shared'
  BY <1>1, SharedOn
<1>5. (\A L : At(L)' = At(L)) /\ BodySize' = BodySize /\ WorkSize' = WorkSize
  BY <1>1 DEF At, BodySize, WorkSize
<1>6. QED
  BY <1>2, <1>3, <1>4, <1>5

\* SafeOff: a request that is bypassed as a whole is counted by all the stages.
LEMMA SafeOffSafe ==
  ASSUME IInv, NEW r \in Requests, SafeOff(r)
  PROVE  IInv'
<1> DEFINE n == Size(r.body)
<1>1. /\ UNCHANGED <<generation, config, pc, req, pinned, work, memoVars>>
      /\ finished' = finished + 1 /\ refused' = refused /\ refused \in Nat /\ finished \in Nat
      /\ n \in Nat /\ metrics' = AllBypassed(metrics, n, r.pair)
      /\ MetricsOK(metrics) /\ Reported /\ Bytes
  BY PipelineAssumption DEF SafeOff, IInv, RequestTypes
<1>2. /\ RequestTypes' /\ CacheTypes' /\ Roles' /\ Works' /\ Shared'
      /\ \A L : At(L)' = At(L)
      /\ BodySize' = BodySize /\ WorkSize' = WorkSize
  BY <1>1, NoneMoves
<1> HIDE DEF n
<1>3. Reports(metrics, metrics', Stages, n, n)
  BY <1>1, AllBypassedReports
<1>4. Reported'
  <2>1. /\ \A s \in Stages : /\ Total(metrics'.outcomes[s]) = Total(metrics.outcomes[s]) + 1
                             /\ Total(metrics.outcomes[s]) \in Nat
        /\ "pipeline" \in Stages
    BY <1>1, <1>3 DEF Reports, Stages, MetricsOK, Total, Counters
  <2>2. ASSUME NEW s \in Stages \ {"pipeline"}
        PROVE  Total(metrics'.outcomes[s]) + refused' = finished' + Cardinality(At(Past[s])')
    <3> DEFINE T == Total(metrics.outcomes[s])
               T2 == Total(metrics'.outcomes[s])
               C == Cardinality(At(Past[s]))
               f2 == finished'
    <3>1. /\ T2 = T + 1 /\ T \in Nat /\ T + refused = finished + C
          /\ f2 = finished + 1 /\ refused \in Nat /\ finished \in Nat
          /\ Cardinality(At(Past[s])') = C /\ refused' = refused
      BY <1>1, <1>2, <2>1 DEF Reported
    <3>2. C \in Nat
      <4>1. IsFiniteSet(At(Past[s]))
        BY FS_Subset, PipelineAssumption DEF At
      <4>2. QED
        BY <4>1, FS_CardinalityType
    <3> HIDE DEF T, T2, C, f2
    <3>3. T2 + refused = f2 + C
      BY ONLY <3>1, <3>2
    <3>4. QED
      BY <3>1, <3>3 DEF T2, f2
  <2>3. QED
    BY <1>1, <2>1, <2>2 DEF Reported
<1>5. Bytes'
  <2>1. ASSUME NEW f \in Flows PROVE Due(metrics', f) = Due(metrics, f)
    <3>1. Gain(f, Stages, n, n) = 0
      BY <1>1 DEF Gain, If, Stages, LocalStages
    <3>2. Due(metrics, f) \in Int
      BY <1>1, DueType
    <3>3. Due(metrics', f) = Due(metrics, f) + Gain(f, Stages, n, n)
      BY <1>1, <1>3, DueReports
    <3>4. QED
      BY <3>1, <3>2, <3>3
  <2>2. QED
    BY <1>1, <1>2, <2>1 DEF Bytes, Load
<1>6. QED
  BY <1>2, <1>3, <1>4, <1>5 DEF IInv, Reports

\* Refuse: a request that is refused is counted by Normalize alone.
LEMMA RefuseSafe ==
  ASSUME IInv, NEW r \in Requests, Refuse(r)
  PROVE  IInv'
<1> DEFINE n == Size(r.body)
<1>1. /\ UNCHANGED <<generation, config, pc, req, pinned, work, memoVars>>
      /\ finished' = finished + 1 /\ refused' = refused + 1 /\ refused \in Nat /\ finished \in Nat
      /\ n \in Nat /\ metrics' = Recorded(metrics, "pipeline", "bypassed", n, n, r.pair)
      /\ MetricsOK(metrics) /\ Reported /\ Bytes
  BY PipelineAssumption DEF Refuse, IInv, RequestTypes
<1>2. /\ RequestTypes' /\ CacheTypes' /\ Roles' /\ Works' /\ Shared'
      /\ \A L : At(L)' = At(L)
      /\ BodySize' = BodySize /\ WorkSize' = WorkSize
  BY <1>1, NoneMoves
<1> HIDE DEF n
<1>3. Reports(metrics, metrics', {"pipeline"}, n, n)
  <2>1. "pipeline" \in Stages /\ "bypassed" \in Counters
    BY DEF Stages, Counters
  <2>2. QED
    BY <1>1, <2>1, RecordedReports
<1>4. Reported'
  <2>1. /\ \A s \in Stages : Total(metrics.outcomes[s]) \in Nat
        /\ Total(metrics'.outcomes["pipeline"]) = Total(metrics.outcomes["pipeline"]) + 1
        /\ \A s \in Stages \ {"pipeline"} : Total(metrics'.outcomes[s]) = Total(metrics.outcomes[s])
    <3>1. \A s \in Stages : Total(metrics.outcomes[s]) \in Nat
      BY <1>1 DEF MetricsOK, Total, Counters
    <3>2. QED
      BY <1>3, <3>1 DEF Reports, Stages
  <2>2. ASSUME NEW s \in Stages \ {"pipeline"}
        PROVE  Total(metrics'.outcomes[s]) + refused' = finished' + Cardinality(At(Past[s])')
    <3> DEFINE T == Total(metrics.outcomes[s])
               T2 == Total(metrics'.outcomes[s])
               C == Cardinality(At(Past[s]))
               f2 == finished'
               r2 == refused'
    <3>1. /\ T2 = T /\ T \in Nat /\ T + refused = finished + C
          /\ f2 = finished + 1 /\ r2 = refused + 1 /\ refused \in Nat /\ finished \in Nat
          /\ Cardinality(At(Past[s])') = C
      BY <1>1, <1>2, <2>1 DEF Reported
    <3>2. C \in Nat
      <4>1. IsFiniteSet(At(Past[s]))
        BY FS_Subset, PipelineAssumption DEF At
      <4>2. QED
        BY <4>1, FS_CardinalityType
    <3> HIDE DEF T, T2, C, f2, r2
    <3>3. T2 + r2 = f2 + C
      BY ONLY <3>1, <3>2
    <3>4. QED
      BY <3>1, <3>3 DEF T2, f2, r2
  <2>3. QED
    BY <1>1, <2>1, <2>2 DEF Reported
<1>5. Bytes'
  <2>1. ASSUME NEW f \in {"caveman", "ponytail"} PROVE Due(metrics', f) = Due(metrics, f)
    <3>1. Gain(f, {"pipeline"}, n, n) = 0
      BY <1>1 DEF Gain, If
    <3>2. Due(metrics, f) \in Int
      BY <1>1, DueType
    <3>3. Due(metrics', f) = Due(metrics, f) + Gain(f, {"pipeline"}, n, n)
      BY <1>1, <1>3, DueReports
    <3>4. QED
      BY <3>1, <3>2, <3>3
  <2>2. QED
    BY <1>1, <1>2, <2>1 DEF Bytes, Load
<1>6. QED
  BY <1>2, <1>3, <1>4, <1>5 DEF IInv, Reports
-----------------------------------------------------------------------------
\* The history of the configurations goes on with the new one.
LEMMA ReconfigureSafe ==
  ASSUME IInv, NEW c \in Configs, Reconfigure(c)
  PROVE  IInv'
<1>1. /\ generation < MaxGenerations /\ generation' = generation + 1 /\ config' = c
      /\ pc' = pc /\ req' = req /\ pinned' = pinned /\ work' = work
      /\ metrics' = metrics /\ finished' = finished /\ refused' = refused
      /\ role' = role /\ key' = key /\ got' = got /\ memo' = memo
      /\ generation \in Nat /\ generation \in 1..MaxGenerations /\ MaxGenerations \in Nat
  BY PipelineAssumption DEF Reconfigure, memoVars, IInv, RequestTypes
<1>2. RequestTypes'
  <2>1. generation' \in 1..MaxGenerations /\ 1..generation \subseteq 1..generation'
    BY <1>1
  <2>2. QED
    BY <1>1, <2>1 DEF IInv, RequestTypes
<1>3. Works' /\ Roles' /\ CacheTypes'
  BY <1>1 DEF IInv, Works, Roles, CacheTypes, Held
<1>4. Reported' /\ Bytes'
  BY <1>1 DEF IInv, Reported, Bytes, Load, At, WorkSize, BodySize
<1>5. Shared'
  <2>1. PICK h \in [1..MaxGenerations -> Configs] : History(h)
    BY DEF IInv, Shared
  <2>2. PICK h2 \in [1..MaxGenerations -> Configs] :
          /\ \A g \in 1..generation : h2[g] = h[g]
          /\ h2[generation'] = c
    <3> DEFINE f == [h EXCEPT ![generation + 1] = c]
    <3>1. /\ f \in [1..MaxGenerations -> Configs]
          /\ \A g \in 1..generation : f[g] = h[g]
          /\ f[generation'] = c
      BY <1>1
    <3> HIDE DEF f
    <3>2. QED
      BY <3>1
  <2>3. \A j, x : Holds(h, j, x) => Holds(h2, j, x)'
    BY <1>1, <2>2, HoldsOn
  <2>4. \A t \in Threads : pc[t] # "idle" => pinned[t].gen \in 1..generation
    BY DEF IInv, RequestTypes
  <2>5. History(h2)'
    BY <1>1, <2>1, <2>2, <2>3, <2>4 DEF History, Held
  <2>6. QED
    BY <2>2, <2>5 DEF Shared
<1>6. QED
  BY <1>1, <1>2, <1>3, <1>4, <1>5 DEF IInv
-----------------------------------------------------------------------------
\* Nothing is under way, cached or counted at first.
LEMMA InitSafe ==
  ASSUME Init
  PROVE  IInv
<1>1. /\ generation = 1 /\ config \in Configs /\ pc = [t \in Threads |-> "idle"]
      /\ req = [t \in Threads |-> NoRequest] /\ work = [t \in Threads |-> NoBody]
      /\ pinned = [t \in Threads |-> [gen |-> 0, cfg |-> config]]
      /\ metrics = NewMetrics /\ finished = 0 /\ refused = 0
      /\ role = [t \in Threads |-> "idle"] /\ key = [t \in Threads |-> M!None]
      /\ got = [t \in Threads |-> M!None] /\ memo = << >>
  BY DEF Init, M!Init
<1> HIDE DEF Init
<1>2. RequestTypes
  <2>1. 1 \in 1..MaxGenerations
    BY PipelineAssumption
  <2>2. \A t \in Threads : pc[t] = "idle"
    BY <1>1
  <2>3. QED
    BY <1>1, <2>1, <2>2 DEF RequestTypes, Labels
<1>3. CacheTypes
  BY <1>1 DEF CacheTypes
<1>4. Roles /\ Works
  BY <1>1 DEF Roles, Works
<1>5. Shared
  <2> DEFINE h == [g \in 1..MaxGenerations |-> config]
  <2>1. h \in [1..MaxGenerations -> Configs] /\ config = h[generation]
    BY <1>1, PipelineAssumption
  <2> HIDE DEF h
  <2>2. History(h)
    BY <1>1, <2>1 DEF History
  <2>3. QED
    BY <2>1, <2>2 DEF Shared
<1>6. MetricsOK(metrics)
  <2>1. /\ metrics.outcomes = [s \in Stages |-> NoOutcomes]
        /\ metrics.input = [s \in Stages |-> 0] /\ metrics.output = [s \in Stages |-> 0]
        /\ DOMAIN metrics.routes = {}
    BY <1>1 DEF NewMetrics
  <2>2. \A w : Weigh(w, {}) = 0
    BY FS_EmptySet, WeighMember
  <2>3. QED
    BY <2>1, <2>2, FS_EmptySet DEF MetricsOK, NoOutcomes
<1>7. \A L \in SUBSET (Labels \ {"idle"}) : At(L) = {}
  BY <1>1 DEF At
<1>8. Reported
  <2>1. \A s \in Stages : Total(metrics.outcomes[s]) = 0
    BY <1>1 DEF NewMetrics, NoOutcomes, Total, Counters
  <2>2. \A s \in Stages : Past[s] \in SUBSET (Labels \ {"idle"})
    BY DEF Past, Stages, LocalStages, Labels
  <2>3. QED
    BY <1>1, <1>7, <2>1, <2>2, FS_EmptySet DEF Reported, Stages
<1>9. Bytes
  <2>1. \A f \in Flows : Due(metrics, f) = 0
    BY <1>1 DEF Due, NewMetrics, Stages, LocalStages
  <2>2. \A f \in Flows : Where[f] \in SUBSET (Labels \ {"idle"})
    BY DEF Where, Past, Flows, Labels
  <2>3. \A w : Weigh(w, {}) = 0
    BY FS_EmptySet, WeighMember
  <2>4. QED
    BY <1>7, <2>1, <2>2, <2>3 DEF Bytes
<1>10. QED
  BY <1>2, <1>3, <1>4, <1>5, <1>6, <1>8, <1>9 DEF IInv

\* Every step keeps the invariant.
LEMMA StepSafe ==
  ASSUME IInv, [Next]_vars
  PROVE  IInv'
<1>1. CASE Arrive
  <2>1. PICK r \in Requests : SafeOff(r) \/ Refuse(r) \/ \E t \in Threads : Enter(t, r)
    BY <1>1 DEF Arrive
  <2>2. CASE SafeOff(r)
    BY <2>2, SafeOffSafe
  <2>3. CASE Refuse(r)
    BY <2>3, RefuseSafe
  <2>4. ASSUME NEW t \in Threads, Enter(t, r) PROVE IInv'
    BY <2>4, EnterSafe
  <2>5. QED
    BY <2>1, <2>2, <2>3, <2>4
<1>2. ASSUME NEW t \in Threads, Progress(t) PROVE IInv'
  <2>1. CASE Lookup(t)
    BY <2>1, LookupSafe
  <2>2. CASE Hit(t)
    BY <2>2, HitSafe
  <2>3. ASSUME NEW s \in {pc[t]} \cap LocalStages,
               NEW r \in LocalResults(s, work[t], req[t].pair, pinned[t].cfg),
               RunLocalStage(t, s, r)
        PROVE  IInv'
    <3>1. s \in LocalStages
      OBVIOUS
    <3>2. QED
      BY <2>3, <3>1, LocalSafe
  <2>4. ASSUME pc[t] = "headroom",
               NEW r \in HeadroomResults(work[t], req[t].pair[2]),
               RunHeadroomStage(t, r)
        PROVE  IInv'
    BY <2>4, HeadroomSafe
  <2>5. CASE Publish(t)
    BY <2>5, PublishSafe
  <2>6. CASE Final(t)
    BY <2>6, FinalSafe
  <2>7. QED
    BY <1>2, <2>1, <2>2, <2>3, <2>4, <2>5, <2>6 DEF Progress
<1>3. ASSUME NEW c \in Configs, Reconfigure(c) PROVE IInv'
  BY <1>3, ReconfigureSafe
<1>4. CASE UNCHANGED vars
  <2>1. /\ generation' = generation /\ config' = config /\ pc' = pc /\ req' = req
        /\ pinned' = pinned /\ work' = work /\ metrics' = metrics
        /\ finished' = finished /\ refused' = refused
        /\ role' = role /\ key' = key /\ got' = got /\ memo' = memo
    BY <1>4 DEF vars, memoVars
  <2>2. RequestTypes' /\ CacheTypes' /\ Roles' /\ Works'
    BY <2>1 DEF IInv, RequestTypes, CacheTypes, Roles, Works, Held
  <2>3. Shared'
    <3>1. PICK h \in [1..MaxGenerations -> Configs] : History(h)
      BY DEF IInv, Shared
    <3>2. \A j, x : Holds(h, j, x) => Holds(h, j, x)'
      BY <2>1 DEF Holds
    <3>3. History(h)'
      BY <2>1, <3>1, <3>2 DEF History, Held
    <3>4. QED
      BY <3>1, <3>3 DEF Shared
  <2>4. Reported' /\ Bytes'
    BY <2>1 DEF IInv, Reported, Bytes, Load, At, WorkSize, BodySize
  <2>5. QED
    BY <2>1, <2>2, <2>3, <2>4 DEF IInv
<1>5. QED
  BY <1>1, <1>2, <1>3, <1>4 DEF Next, Rest

\* The inductive invariant.
THEOREM Invariant == Spec => []IInv
<1>1. Init => IInv
  BY InitSafe
<1>2. IInv /\ [Next]_vars => IInv'
  BY StepSafe
<1>3. QED
  BY <1>1, <1>2, PTL DEF Spec

\* A request ends with a body that it could have had alone.
THEOREM OwnResults == Spec => []OwnResult
<1>1. IInv => OwnResult
  BY DEF IInv, Works, Stands, OwnResult, Held
<1>2. QED
  BY <1>1, Invariant, PTL

\* A stage that is off passes every body on; one that is on passes it on or
\* makes of it what Apply says.
LEMMA AfterStages ==
  ASSUME NEW s, NEW B, NEW pair, NEW c
  PROVE  /\ ~Enabled(s, c) => After(s, B, pair, c) = B
         /\ \A b : After(s, {b}, pair, c) \subseteq {b, Apply(s, b, pair, c)}
<1>1. ASSUME ~Enabled(s, c) PROVE After(s, B, pair, c) = B
  <2>1. \A b : {r.body : r \in LocalResults(s, b, pair, c)} = {b}
    BY <1>1 DEF LocalResults
  <2>2. QED
    BY <2>1 DEF After
<1>2. ASSUME NEW b PROVE After(s, {b}, pair, c) \subseteq {b, Apply(s, b, pair, c)}
  <2>1. \A r \in LocalResults(s, b, pair, c) : r.body \in {b, Apply(s, b, pair, c)}
    BY DEF LocalResults, Judged
  <2>2. QED
    BY <2>1 DEF After
<1>3. QED
  BY <1>1, <1>2

\* The request of t ends as its own body, or as what the one stage that its
\* generation has turned on makes of it.
OnlyStageOn ==
  \A t \in Threads : pc[t] = "final" =>
    LET r == req[t]
        c == pinned[t].cfg
    IN  /\ \A s \in LocalStages :
             ~c.headroom /\ (\A o \in LocalStages \ {s} : ~Enabled(o, c)) =>
               work[t] \in {r.body, Apply(s, r.body, r.pair, c)}
        /\ (\A s \in LocalStages : ~Enabled(s, c)) =>
             work[t] \in {r.body} \cup {h.body : h \in HeadroomResults(r.body, r.pair[2])}

\* A generation with one stage on gives that stage's result or the request's
\* own body, exactly, although its requests share the cache with requests of
\* generations that have other stages on.
THEOREM OneStageAlone == Spec => []OnlyStageOn
<1>1. ASSUME OwnResult, NEW t \in Threads, pc[t] = "final",
             NEW r, r = req[t], NEW c, c = pinned[t].cfg
      PROVE  /\ \A s \in LocalStages :
                  ~c.headroom /\ (\A o \in LocalStages \ {s} : ~Enabled(o, c)) =>
                    work[t] \in {r.body, Apply(s, r.body, r.pair, c)}
             /\ (\A s \in LocalStages : ~Enabled(s, c)) =>
                  work[t] \in {r.body} \cup {h.body : h \in HeadroomResults(r.body, r.pair[2])}
  <2> DEFINE R == After("rtk", {r.body}, r.pair, c)
             H == Compressed(r, c)
             C == After("caveman", H, r.pair, c)
             P == After("ponytail", C, r.pair, c)
  <2>1. work[t] \in P
    BY <1>1 DEF OwnResult, Alone
  <2>2. /\ ~Enabled("rtk", c) => R = {r.body}
        /\ ~Enabled("caveman", c) => C = H
        /\ ~Enabled("ponytail", c) => P = C
    BY AfterStages
  <2>3. ~c.headroom => H = R
    BY DEF Compressed
  <2>4. R = {r.body} => H \subseteq {r.body} \cup {h.body : h \in HeadroomResults(r.body, r.pair[2])}
    <3>1. H \subseteq R \cup UNION {{b} \cup {h.body : h \in HeadroomResults(b, r.pair[2])} : b \in R}
      BY DEF Compressed
    <3>2. QED
      BY <3>1
  <2>5. /\ R \subseteq {r.body, Apply("rtk", r.body, r.pair, c)}
        /\ H = {r.body} => C \subseteq {r.body, Apply("caveman", r.body, r.pair, c)}
        /\ C = {r.body} => P \subseteq {r.body, Apply("ponytail", r.body, r.pair, c)}
    BY AfterStages
  <2> HIDE DEF R, H, C, P
  <2>6. ASSUME NEW s \in LocalStages, ~c.headroom,
               \A o \in LocalStages \ {s} : ~Enabled(o, c)
        PROVE  work[t] \in {r.body, Apply(s, r.body, r.pair, c)}
    <3>1. CASE s = "rtk"
      BY <2>1, <2>2, <2>3, <2>5, <2>6, <3>1 DEF LocalStages
    <3>2. CASE s = "caveman"
      BY <2>1, <2>2, <2>3, <2>5, <2>6, <3>2 DEF LocalStages
    <3>3. CASE s = "ponytail"
      BY <2>1, <2>2, <2>3, <2>5, <2>6, <3>3 DEF LocalStages
    <3>4. QED
      BY <3>1, <3>2, <3>3 DEF LocalStages
  <2>7. ASSUME \A s \in LocalStages : ~Enabled(s, c)
        PROVE  work[t] \in {r.body} \cup {h.body : h \in HeadroomResults(r.body, r.pair[2])}
    BY <2>1, <2>2, <2>4, <2>7 DEF LocalStages
  <2>8. QED
    BY <2>6, <2>7
<1>2. OwnResult => OnlyStageOn
  BY <1>1 DEF OnlyStageOn
<1>3. QED
  BY <1>2, OwnResults, PTL

\* What Metrics sums over the routes is what Weigh does.
LEMMA ByRouteIsSum ==
  ASSUME NEW m, NEW s, NEW c
  PROVE  ByRoute(m, s, c) = Weigh(Routes(m, s, c), DOMAIN m.routes)
<1> DEFINE S == DOMAIN m.routes
           w == Routes(m, s, c)
           Body(g) == [x \in SUBSET S |-> IF x = {} THEN 0
                         ELSE m.routes[Picked(x)][s][c] + g[x \ {Picked(x)}]]
<1>1. ByRoute(m, s, c) = (CHOOSE g : g = Body(g))[S]
  BY DEF ByRoute, MapThenSumSet, MapThenFoldSet, Picked
<1>2. \A r \in S : w[r] = m.routes[r][s][c]
  BY DEF Routes
<1> HIDE DEF w
<1>3. ASSUME NEW g, NEW x \in SUBSET S
      PROVE  (IF x = {} THEN 0 ELSE m.routes[Picked(x)][s][c] + g[x \ {Picked(x)}])
               = (IF x = {} THEN 0 ELSE w[Picked(x)] + g[x \ {Picked(x)}])
  BY <1>2, PickedIn
<1>4. \A g : g = Body(g) <=> SumsUp(g, w, S)
  BY <1>3 DEF SumsUp
<1>5. (CHOOSE g : g = Body(g)) = (CHOOSE g : SumsUp(g, w, S))
  BY <1>4
<1>6. QED
  BY <1>1, <1>5 DEF Weigh, w

\* Every request is counted once by every stage, on its route too, and the
\* byte totals fit together, whenever no request is under way.
THEOREM AllCounted == Spec => []EveryRequestCounted
<1>1. ASSUME IInv, \A t \in Threads : pc[t] = "idle"
      PROVE  /\ Total(metrics.outcomes["pipeline"]) = finished
             /\ \A s \in Stages \ {"pipeline"} :
                  Total(metrics.outcomes[s]) = finished - refused
             /\ \A s \in Stages, c \in Counters :
                  ByRoute(metrics, s, c) = metrics.outcomes[s][c]
             /\ metrics.output["headroom"] = metrics.input["caveman"]
             /\ metrics.output["caveman"] = metrics.input["ponytail"]
             /\ refused = 0 => /\ metrics.output["ponytail"] = metrics.output["pipeline"]
                               /\ metrics.input["rtk"] = metrics.input["pipeline"]
  <2>1. /\ Reported /\ Bytes /\ MetricsOK(metrics) /\ finished \in Nat /\ refused \in Nat
    BY <1>1 DEF IInv, RequestTypes
  <2>2. \A L \in SUBSET (Labels \ {"idle"}) : At(L) = {}
    BY <1>1 DEF At
  <2>3. ASSUME NEW s \in Stages \ {"pipeline"}
        PROVE  Total(metrics.outcomes[s]) = finished - refused
    <3>1. Cardinality(At(Past[s])) = 0
      BY <2>2, FS_EmptySet DEF Past, Stages, LocalStages, Labels
    <3>2. Total(metrics.outcomes[s]) + refused = finished + 0
      BY <2>1, <3>1 DEF Reported
    <3>3. Total(metrics.outcomes[s]) \in Nat
      BY <2>1 DEF MetricsOK, Total, Counters
    <3>4. QED
      BY <2>1, <3>2, <3>3
  <2>4. \A s \in Stages, c \in Counters : ByRoute(metrics, s, c) = metrics.outcomes[s][c]
    BY <2>1, ByRouteIsSum DEF MetricsOK
  <2>5. ASSUME NEW f \in Flows, f \in {"caveman", "ponytail"} \/ refused = 0
        PROVE  Due(metrics, f) = 0
    <3>1. At(Where[f]) = {}
      BY <2>2 DEF Where, Past, Flows, Labels
    <3>2. Weigh(Load(f), {}) = 0
      BY FS_EmptySet, WeighMember
    <3>3. QED
      BY <2>1, <2>5, <3>1, <3>2 DEF Bytes
  <2>6. \A s \in Stages : metrics.input[s] \in Nat /\ metrics.output[s] \in Nat
    BY <2>1 DEF MetricsOK
  <2>7. /\ metrics.output["headroom"] = metrics.input["caveman"]
        /\ metrics.output["caveman"] = metrics.input["ponytail"]
    BY <2>5, <2>6 DEF Due, Flows, Stages, LocalStages
  <2>8. ASSUME refused = 0
        PROVE  /\ metrics.output["ponytail"] = metrics.output["pipeline"]
               /\ metrics.input["rtk"] = metrics.input["pipeline"]
    <3>1. Due(metrics, "result") = 0 /\ Due(metrics, "request") = 0
      BY <2>5, <2>8 DEF Flows
    <3>2. \A s \in {"rtk", "ponytail", "pipeline"} :
            metrics.input[s] \in Nat /\ metrics.output[s] \in Nat
      BY <2>6 DEF Stages, LocalStages
    <3>3. metrics.output["ponytail"] = metrics.output["pipeline"]
      <4> DEFINE x == metrics.output["ponytail"]
                 y == metrics.output["pipeline"]
      <4>1. x - y = 0 /\ x \in Nat /\ y \in Nat
        BY <3>1, <3>2 DEF Due
      <4> HIDE DEF x, y
      <4>2. x = y
        BY ONLY <4>1
      <4>3. QED
        BY <4>2 DEF x, y
    <3>4. metrics.input["rtk"] = metrics.input["pipeline"]
      BY <3>1, <3>2 DEF Due
    <3>5. QED
      BY <3>3, <3>4
  <2>9. QED
    BY <2>1, <2>3, <2>4, <2>7, <2>8 DEF Reported
<1>2. IInv => EveryRequestCounted
  BY <1>1 DEF EveryRequestCounted
<1>3. QED
  BY <1>2, Invariant, PTL

\* The keys the pipeline asks for, and what its work may give.
Keys == {DedupeKey(g, r) : g \in 1..MaxGenerations, r \in Requests}
Values == UNION {Compressed(r, c) : r \in Requests, c \in Configs}

\* The pipeline uses the cache as the cache's own specification has it.
THEOREM CacheUsed == Spec => M!Init /\ [][M!Next(Keys, Values)]_(M!vars)
<1>1. Init => M!Init
  BY DEF Init
<1>2. ASSUME IInv, [Next]_vars
      PROVE  M!Next(Keys, Values) \/ UNCHANGED M!vars
  <2>1. ASSUME NEW t \in Threads, pc[t] # "idle"
        PROVE  req[t] \in Requests /\ Held(t) \in Configs /\ pinned[t].gen \in 1..MaxGenerations
    BY <1>2, <2>1, PipelineAssumption DEF IInv, RequestTypes, Held
  <2>2. ASSUME NEW t \in Threads, Lookup(t) PROVE M!Next(Keys, Values)
    <3>1. DedupeKey(pinned[t].gen, req[t]) \in Keys
      BY <2>1, <2>2 DEF Lookup, Keys
    <3>2. QED
      BY <2>2, <3>1 DEF Lookup, M!Next
  <2>3. ASSUME NEW t \in Threads, Hit(t) PROVE M!Next(Keys, Values)
    BY <2>3 DEF Hit, M!Next
  <2>4. ASSUME NEW t \in Threads, Publish(t) PROVE M!Next(Keys, Values)
    <3>1. work[t] \in Values
      <4>1. work[t] \in Compressed(req[t], Held(t))
        BY <1>2, <2>4 DEF Publish, IInv, Works, Stands
      <4>2. QED
        BY <2>1, <2>4, <4>1 DEF Publish, Values
    <3>2. QED
      BY <2>4, <3>1 DEF Publish, M!Next
  <2>5. CASE UNCHANGED memoVars
    BY <2>5 DEF memoVars, M!vars
  <2>6. ASSUME NEW t \in Threads, Progress(t)
        PROVE  M!Next(Keys, Values) \/ UNCHANGED memoVars
    BY <2>2, <2>3, <2>4, <2>6 DEF Progress, RunLocalStage, RunHeadroomStage, Final
  <2>7. Arrive => UNCHANGED memoVars
    BY DEF Arrive, SafeOff, Refuse, Enter
  <2>8. QED
    BY <1>2, <2>5, <2>6, <2>7 DEF Next, Reconfigure, Rest, vars
<1>3. QED
  BY <1>1, <1>2, Invariant, PTL DEF Spec
=============================================================================
