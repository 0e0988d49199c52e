---------------------------- MODULE MCComponents ----------------------------
(***************************************************************************)
(* One instance of every component that shares no state with the others    *)
(* (or whose interface to them is a free choice), checked side by side: a  *)
(* behaviour picks a component and runs only that one.                     *)
(***************************************************************************)
EXTENDS RateLimiter, RustGateway, Admission, Disagg, Selection, Dag, Autoscale,
        RustRouting, Estimates, Access, Wire, Metrics, Benchmarks

CONSTANT Parts    \* the components of this run

VARIABLES part,
          rlim, rlNow, rlReq, rlCharged, rlDenied    \* those of RustLimiter

RL == INSTANCE RustLimiter WITH
        lim <- rlim, now <- rlNow, req <- rlReq, charged <- rlCharged, denied <- rlDenied

rlVars == <<rlim, rlNow, rlReq, rlCharged, rlDenied>>

(* Values of the constants *)
MCPayerOf == [c \in Calls |-> "t1"]
MCOne == [t \in Payers |-> 1]
MCTwo == [t \in Payers |-> 2]
MCThree == [t \in Payers |-> 3]
MCClientOf == [r \in RustReqs |-> IF r = 1 THEN "t1" ELSE "t2"]
MCFleets == [{1, 2} -> [inflight : 1 .. 3, kv : 0 .. 4]]
MCNodeRoles == <<{"prefill"}, {"decode"}, {}>>
MCNodeStates == [inflight : 0 .. 2, kvHigh : BOOLEAN, blocks : 0 .. 2]
MCParentLists == {<<>>, <<1>>, <<2>>, <<3>>, <<1, 1>>, <<1, 2>>, <<2, 3>>, <<9>>}
Plain == [tenant |-> "t1", topic |-> 1, adapter |-> "none",
          chunks |-> <<>>, media |-> <<>>, session |-> "none"]
MCShape ==
  << [Plain EXCEPT !.chunks = <<2, 1>>, !.session = "s1"],
     [Plain EXCEPT !.chunks = <<1, 2, 1>>, !.topic = 2, !.tenant = "t2"],
     [Plain EXCEPT !.media = <<"i">>, !.topic = 2, !.session = "s1"],
     [Plain EXCEPT !.adapter = "a1", !.topic = 3],
     [Plain EXCEPT !.chunks = <<3, 1>>] >>
MCAdapters == <<{"a1"}, {}>>
MCCaps == <<{"text"}, {"text", "image"}>>
MCMedia == [i |-> [modality |-> "image", width |-> 3000, height |-> 2900, detail |-> "high"]]
MCSimilarity == << <<100, 0, 0>>, <<0, 100, 90>>, <<0, 90, 100>> >>
MCSplitPools == {{}, {1}}
MCViews == [match : [Holders -> 0 .. 1], inflight : [Holders -> 0 .. 2], kvHigh : [Holders -> BOOLEAN]]
MCOrders == {<<"b2">>, <<"b1", "b2">>, <<"b2", "b1">>}
MCHashRuns == {<<>>, <<7>>, <<8, 9>>}
MCTexts == {<<"a">>, <<"a", "b">>, <<"a", "b", "a", "b">>, <<"b", "a", "a", "b", "a">>,
            <<"a", "b", "b", "a", "a", "b">>}
MCTenantIds == {<<"x">>, <<"y">>}
MCPredicts == <<4, -1>>
MCTokenIds ==
  (<<"a">> :> <<"1">>) @@ (<<"a", "b">> :> <<"3">>) @@ (<<"a", "b", "a", "b">> :> <<"3", "3">>)
  @@ (<<"b", "a", "a", "b", "a">> :> <<"2", "1", "3", "1">>)
  @@ (<<"a", "b", "b", "a", "a", "b">> :> <<"3", "2", "1", "3">>)
MCDigest == [k \in Keys |-> CASE k = "" -> "d0" [] k = "k1" -> "d1" [] k = "k2" -> "d2"
                             [] k = "k3" -> "d3" [] k = "k4" -> "d4" [] OTHER -> "dx"]
Pair(key, tid, tier) == [key |-> key, tid |-> tid, tier |-> tier]
Guarded == [spec |-> <<Pair("k1", "acme", "gold"), Pair("k2", "", "odd")>>, extra |-> {"", "k3"},
            hashed |-> {"d4"}, require |-> TRUE, token |-> "k4"]
MCPolicies ==
  {Guarded, [Guarded EXCEPT !.require = FALSE], [Guarded EXCEPT !.token = ""],
   [Guarded EXCEPT !.spec = <<>>, !.extra = {""}],
   [Guarded EXCEPT !.spec = <<Pair("k1", "acme", "gold"), Pair("k1", "beta", "silver")>>],
   [Guarded EXCEPT !.spec = <<Pair("", "acme", "gold"), Pair("k2", "acme", "bronze")>>,
                   !.require = FALSE],
   [Guarded EXCEPT !.extra = {"ky"}, !.token = "ky"]}
MCBounds == [ttft |-> <<1, 3>>, blocks |-> <<0, 4>>]
MCDocuments == << <<1, 2>>, <<3>>, <<4>> >>
MCReplayOrder == <<"b1", "b2">>
MCSystemBlocks == <<9>>
MCSetups == [gateways : {1, 2}, shared : BOOLEAN,
             strategy : {"prefix_tree", "round_robin", "session_affinity"}]
MCRuns == {<<1, 2>>, <<1, 3>>, <<1, 2, 4>>, <<5>>}

Others(p) ==
  /\ part' = part
  /\ p # "limiter" => UNCHANGED limiterVars
  /\ p # "rust_limiter" => UNCHANGED rlVars
  /\ p # "rust" => UNCHANGED rustVars
  /\ p # "admission" => UNCHANGED verdict
  /\ p # "disagg" => UNCHANGED placed
  /\ p # "selection" => UNCHANGED selVars
  /\ p # "dag" => UNCHANGED dagVars
  /\ p # "autoscale" => UNCHANGED scaleVars
  /\ p # "rust_tree" => UNCHANGED rtreeVars
  /\ p # "rust_router" => UNCHANGED routed
  /\ p # "cache" => UNCHANGED cacheVars
  /\ p # "predictor" => UNCHANGED predictorVars
  /\ p # "access" => UNCHANGED accessVars
  /\ p # "wire" => UNCHANGED wireVars
  /\ p # "metrics" => UNCHANGED metricsVars
  /\ p # "replay" => UNCHANGED replayVars
  /\ p # "load_bench" => UNCHANGED benchVars

PartsInit ==
  /\ part \in Parts
  /\ LimiterInit /\ RL!RLimiterInit /\ RustInit /\ AdmissionInit /\ DisaggInit
  /\ DagInit /\ RTreeInit /\ RustRouterInit /\ PredictorInit
  /\ WireInit /\ MetricsInit
  \* where Init has a choice, only the component that runs makes it
  /\ SelInit /\ (part # "selection" => split = {})
  /\ CacheInit /\ (part # "cache" => isolation = "tenant" /\ ~useBpe)
  /\ ScaleInit /\ (part # "autoscale" => size = Max(Sizes))
  /\ AccessInit /\ (part # "access" => policy = Guarded)
  /\ ReplayInit /\ (part # "replay" =>
                     setup = [gateways |-> 1, shared |-> FALSE, strategy |-> "round_robin"])
  /\ BenchInit /\ (part # "load_bench" => bench = "baseline")

PartsNext ==
  \/ part = "limiter" /\ LimiterNext /\ Others("limiter")
  \/ part = "rust_limiter" /\ RL!RLimiterNext /\ Others("rust_limiter")
  \/ part = "rust" /\ RustNext /\ Others("rust")
  \/ part = "admission" /\ AdmissionNext /\ Others("admission")
  \/ part = "disagg" /\ DisaggNext /\ Others("disagg")
  \/ part = "selection" /\ SelNext /\ Others("selection")
  \/ part = "dag" /\ DagNext /\ Others("dag")
  \/ part = "autoscale" /\ ScaleNext /\ Others("autoscale")
  \/ part = "rust_tree" /\ RTreeNext /\ Others("rust_tree")
  \/ part = "rust_router" /\ RustRouterNext /\ Others("rust_router")
  \/ part = "cache" /\ CacheNext /\ Others("cache")
  \/ part = "predictor" /\ PredictorNext /\ Others("predictor")
  \/ part = "access" /\ AccessNext /\ Others("access")
  \/ part = "wire" /\ WireNext /\ Others("wire")
  \/ part = "metrics" /\ MetricsNext /\ Others("metrics")
  \/ part = "replay" /\ ReplayNext /\ Others("replay")
  \/ part = "load_bench" /\ BenchNext /\ Others("load_bench")

partsVars == <<part, limiterVars, rlVars, rustVars, verdict, placed, selVars, dagVars,
               scaleVars, rtreeVars, routed, cacheVars, predictorVars,
               accessVars, wireVars, metricsVars, replayVars, benchVars>>

PartsSpec == PartsInit /\ [][PartsNext]_partsVars

\* RustLimiter's MirrorsPython for the instance of this run (tenancy.rs:1 "mirrors
\* gateway/tenancy.py"): it starts as the Python limiter does, and each of its steps is
\* one of that limiter's or none. Only its own part takes steps of it.
MirrorsPython ==
  /\ RL!Python!LimiterInit
  /\ [][part = "rust_limiter" =>
          [RL!Python!LimiterNext]_(RL!Python!limiterVars)]_partsVars

\* The gateway's edge: callers (auth.py, tenancy.py), peers (events.py) and the scraper of
\* /metrics (metrics.py) are told apart, understood and told the truth.
EdgeIsSound == AccessIsSound /\ WireIsFaithful /\ PagesAreCumulative

\* The benchmarks of bench/ report what happened to the policies they drive.
BenchesAreSound == ReplayIsSound /\ BenchIsSound
=============================================================================
