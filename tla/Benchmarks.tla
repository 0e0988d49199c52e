----------------------------- MODULE Benchmarks -----------------------------
(***************************************************************************)
(* The benchmarks of bench/.  The closed loops replay a stream of requests *)
(* through the real tree and router against independent models of the      *)
(* backends' caches (sim.py, matrix.py), through several gateways with and *)
(* without a shared tree (cluster_bench.py), and as agents' sessions       *)
(* (agentic_bench.py); a prompt is its run of blocks, the shared system    *)
(* blocks and those of one document.  The other two drive a policy tick by *)
(* tick and let each request occupy its node for a fixed number of ticks:  *)
(* admission under overload (admission_bench.py) and disaggregation under  *)
(* load (disagg_bench.py).  What they measure is only worth something if   *)
(* the books they keep are right.                                          *)
(***************************************************************************)
EXTENDS RadixTree, Router, Admission, Disagg

(* Replays                                                                 *)

CONSTANTS ReplayOrder,    \* BACKENDS
          Documents,      \* document -> its blocks
          SystemBlocks,   \* the blocks all prompts share
          Concurrency,    \* requests in flight per gateway
          Setups,         \* [gateways, shared, strategy]
          TurnBlocks, Sessions, Depth,   \* of the agents
          MaxReplay       \* bound: requests of a replay

ASSUME ReplayAssumption ==
  /\ ToSet(ReplayOrder) = Holders /\ Concurrency \in Nat /\ MaxReplay \in Nat
  /\ TurnBlocks \in Nat \ {0} /\ Sessions \in Nat /\ Depth \in Nat

VARIABLES setup,
          replayed,       \* requests so far
          gates,          \* gateway -> its tree, load, window and round-robin counter
          sims,           \* backend -> its real cache, least recently used first
          hitBlocks, totalBlocks,
          spread,         \* document -> backends it was sent to (doc_backends)
          agent           \* the agents' benchmark: both strategies, turn by turn

replayVars == <<setup, replayed, gates, sims, hitBlocks, totalBlocks, spread, agent>>

\* SimBackend.process: hits are the contiguous cached prefix; then the whole prompt is
\* cached, block by block, each beyond the capacity pushing out the oldest.
SimHits(cache, h) == Max({n \in 0 .. Len(h) : \A i \in 1 .. n : h[i] \in ToSet(cache)})

SimBackend(cache, h) ==
  LET one(c, x) == IF x \in ToSet(c) THEN Append(SelectSeq(c, LAMBDA y : y # x), x)
                   ELSE IF Len(c) = CacheBlocks THEN Append(Tail(c), x)
                   ELSE Append(c, x)
  IN  FoldLeft(one, cache, h)

\* make_workload: the unique question is shorter than a block and is dropped.
Prompt(d) == SystemBlocks \o Documents[d]

NewGate == [tree |-> EmptyTree, rr |-> 0, window |-> <<>>,
            inflight |-> [b \in Holders |-> 0]]

NewAgent == [sa |-> [b \in Holders |-> <<>>], rr |-> [b \in Holders |-> <<>>],
             pinned |-> <<>>, turns |-> 0, rrNext |-> 0, saHits |-> 0, rrHits |-> 0, total |-> 0]

ReplayInit ==
  /\ setup \in Setups
  /\ replayed = 0
  /\ gates = [i \in 0 .. setup.gateways - 1 |-> NewGate]
  /\ sims = [b \in Holders |-> <<>>]
  /\ hitBlocks = 0 /\ totalBlocks = 0
  /\ spread = [d \in DOMAIN Documents |-> {}]
  /\ agent = NewAgent

\* Mutant: a request that leaves the window keeps its place in the load.
CommitKeeps(g, h, b, rr) ==
  LET grown == Append(g.window, b)
  IN  [tree |-> insert(g.tree, h, b), rr |-> rr,
       window |-> IF Len(grown) > Concurrency THEN Tail(grown) ELSE grown,
       inflight |-> [g.inflight EXCEPT ![b] = @ + 1]]

\* The handling gateway: insert, on_dispatch, and the oldest request of a full window
\* completes.
Commit(g, h, b, rr) ==
  LET grown == Append(g.window, b)
      over == Len(grown) > Concurrency
      dispatched == [g.inflight EXCEPT ![b] = @ + 1]
  IN  [tree |-> insert(g.tree, h, b), rr |-> rr,
       window |-> IF over THEN Tail(grown) ELSE grown,
       inflight |-> IF over THEN [dispatched EXCEPT ![Head(grown)] = @ - 1] ELSE dispatched]

\* The trees of the other gateways, with and without the bus.
Replicated(g, h, b) == IF setup.shared THEN [g EXCEPT !.tree = insert(@, h, b)] ELSE g

\* One request of the stream: the gateways take turns.
ReplayRequest(d) ==
  LET h == Prompt(d)
      i == replayed % setup.gateways
      g == gates[i]
      view == [match |-> match(g.tree, h), inflight |-> g.inflight,
               kvHigh |-> [b \in Holders |-> FALSE], peerBad |-> [b \in Holders |-> FALSE]]
      c == choose(setup.strategy, view, h, ReplayOrder, g.rr)
      b == c.backend
  IN  /\ replayed < MaxReplay /\ replayed' = replayed + 1
      /\ hitBlocks' = hitBlocks + SimHits(sims[b], h)
      /\ totalBlocks' = totalBlocks + Len(h)
      /\ sims' = [sims EXCEPT ![b] = SimBackend(@, h)]
      /\ gates' = [j \in DOMAIN gates |->
                     IF j = i THEN Commit(g, h, b, c.rr) ELSE Replicated(gates[j], h, b)]
      /\ spread' = [spread EXCEPT ![d] = @ \cup {b}]
      /\ UNCHANGED <<setup, agent>>

---------------------------------------------------------------------------
(* Agents: session after session, turn after turn                          *)

\* _hashes_for_turn: every turn extends the session's prompt.
TurnHashes(s, t) ==
  SystemBlocks \o [i \in 1 .. (t + 1) * TurnBlocks |-> 1000 * (s + 1) + i]

\* run_strategy, for the two strategies side by side.
AgentTurn ==
  LET s == agent.turns \div (Depth + 1)
      h == TurnHashes(s, agent.turns % (Depth + 1))
      nth(n) == ReplayOrder[(n % Len(ReplayOrder)) + 1]
      pinned == IF Len(agent.pinned) > s THEN agent.pinned ELSE Append(agent.pinned, nth(s))
      mine == pinned[s + 1]
      next == nth(agent.rrNext)
  IN  /\ setup.strategy = "session_affinity"
      /\ agent.turns < Sessions * (Depth + 1)
      /\ agent' = [sa |-> [agent.sa EXCEPT ![mine] = SimBackend(@, h)],
                   rr |-> [agent.rr EXCEPT ![next] = SimBackend(@, h)],
                   pinned |-> pinned, turns |-> agent.turns + 1, rrNext |-> agent.rrNext + 1,
                   saHits |-> agent.saHits + SimHits(agent.sa[mine], h),
                   rrHits |-> agent.rrHits + SimHits(agent.rr[next], h),
                   total |-> agent.total + Len(h)]
      /\ UNCHANGED <<setup, replayed, gates, sims, hitBlocks, totalBlocks, spread>>

ReplayNext == AgentTurn \/ \E d \in DOMAIN Documents : setup.strategy # "session_affinity" /\ ReplayRequest(d)

ReplaySpec == ReplayInit /\ [][ReplayNext]_replayVars

---------------------------------------------------------------------------
\* sim.py:33 "sliding window modelling in-flight requests": the load a router sees is what
\* its window holds, never more than the concurrency.
LoadIsTheWindow ==
  \A i \in DOMAIN gates :
    /\ Len(gates[i].window) <= Concurrency
    /\ \A b \in Holders :
         gates[i].inflight[b] = Cardinality({k \in DOMAIN gates[i].window : gates[i].window[k] = b})

\* cluster_bench.py:13 "every replica converges on the same prefix->backend map".
SharedTreesAgree ==
  setup.shared => \A i, j \in DOMAIN gates : gates[i].tree = gates[j].tree

\* matrix.py:8 "it is the backend's OWN truth, not the gateway's belief": the two differ,
\* but a tree that hears of every insertion never credits a backend with more of a prompt
\* than its cache really has, although it evicts whole nodes, splits them for other
\* backends and keeps another order than the cache.
BeliefIsWithinTruth ==
  setup.shared \/ setup.gateways = 1 =>
    \A d \in DOMAIN Documents, b \in Holders :
      match(gates[0].tree, Prompt(d))[b] <= SimHits(sims[b], Prompt(d))

\* agentic_bench.py:9 "each new turn only prefills its small delta": a pinned session whose
\* prompt fits the cache prefills its own blocks once, and never does worse than the same
\* turns going round.
AffinityPrefillsDeltas ==
  Len(SystemBlocks) + (Depth + 1) * TurnBlocks <= CacheBlocks =>
    /\ agent.total - agent.saHits
         <= agent.turns * TurnBlocks + Len(agent.pinned) * Len(SystemBlocks)
    /\ agent.saHits >= agent.rrHits

\* What the benchmarks report is what happened.
ReplayIsSound ==
  /\ hitBlocks <= totalBlocks
  /\ LoadIsTheWindow /\ SharedTreesAgree /\ BeliefIsWithinTruth /\ AffinityPrefillsDeltas

---------------------------------------------------------------------------
(* Ticks: completions are drained, then requests offered; the mix and the  *)
(* number of offers are free choices.                                      *)

CONSTANTS ServiceWindow,               \* SERVICE_WINDOW, in ticks
          PrefillTicks, DecodeTicks,   \* PREFILL_TICKS, DECODE_TICKS
          QueuePenalty,                \* ms of TTFT per request ahead
          OffersPerTick,               \* bound on offers_per_tick
          LastTick                     \* bound on the ticks of a run

ASSUME LoadBenchAssumption ==
  /\ SatInflight > 0 /\ Quarters % SatInflight = 0
  /\ ServiceWindow \in Nat \ {0} /\ PrefillTicks \in Nat \ {0} /\ DecodeTicks \in Nat
  /\ QueuePenalty \in Nat /\ OffersPerTick \in Nat /\ LastTick \in Nat

VARIABLES bench,       \* which benchmark runs, under which policy
          tick, offers,
          occupied,    \* node -> requests on it
          due,         \* completions in the order they were scheduled: [at, node]
          outcome      \* admission: the last offer, what became of it, how many were ahead

benchVars == <<bench, tick, offers, occupied, due, outcome>>

TIER_MIX == {"gold", "silver", "bronze"}

AdmissionPolicies == {"baseline", "admission"}
DisaggPolicies == {"colocate", "split", "adaptive"}

BenchInit ==
  /\ bench \in AdmissionPolicies \cup DisaggPolicies
  /\ tick = 0 /\ offers = 0
  /\ occupied = [b \in Nodes |-> 0]
  /\ due = <<>>
  /\ outcome = [tier |-> "none"]

\* Mutant: a tick completes at most one request.
DrainedOne(t) == IF due # <<>> /\ due[1].at <= t THEN 1 ELSE 0

\* How many completions a tick pops: from the head of the queue, as far as they are due.
DrainedCount(t) == Max({n \in 0 .. Len(due) : \A i \in 1 .. n : due[i].at <= t})

\* The next tick: nodes get back what was drained.
BenchTick ==
  LET n == DrainedCount(tick + 1)
      back(b) == Cardinality({i \in 1 .. n : due[i].node = b})
  IN  /\ tick < LastTick
      /\ tick' = tick + 1 /\ offers' = 0
      /\ occupied' = [b \in Nodes |-> Max({0, occupied[b] - back(b)})]
      /\ due' = SubSeq(due, n + 1, Len(due))
      /\ UNCHANGED <<bench, outcome>>

Offered == offers < OffersPerTick /\ offers' = offers + 1

\* The first of the least occupied nodes of a pool, of another one than p if there is one.
_least_loaded(pool, p) ==
  LET cands == IF pool \subseteq p THEN pool ELSE pool \ p
  IN  Cheapest([b \in cands |-> occupied[b]])

Completion(node, ticks) == [at |-> tick + ticks, node |-> node]

---------------------------------------------------------------------------
(* Admission: KV usage follows occupancy                                   *)

BenchFleet == [b \in Nodes |-> [inflight |-> occupied[b], kv |-> occupied[b] * (Quarters \div SatInflight)]]

\* One offer of evaluate: what is not admitted leaves no trace but in the counts. The
\* TTFT an admitted one observes is its estimate and QueuePenalty for each one ahead.
OfferRequest(tier, ttft) ==
  LET target == _least_loaded(Nodes, {})
      admitted == bench = "baseline" \/ decide(ttft, tier, BenchFleet, 0).action = "admit"
  IN  /\ bench \in AdmissionPolicies /\ Offered
      /\ occupied' = IF admitted THEN [occupied EXCEPT ![target] = @ + 1] ELSE occupied
      /\ due' = IF admitted THEN Append(due, Completion(target, ServiceWindow)) ELSE due
      /\ outcome' = [tier |-> tier, ttft |-> ttft, admitted |-> admitted,
                     observed |-> ttft + occupied[target] * QueuePenalty]
      /\ UNCHANGED <<bench, tick>>

---------------------------------------------------------------------------
(* Disaggregation                                                          *)

BenchNodes == [b \in Nodes |-> [inflight |-> occupied[b], kvHigh |-> FALSE, blocks |-> 0]]

\* The nodes of the two phases under a policy; the same node for both is a co-location.
PhaseNodes ==
  CASE bench = "colocate" -> LET n == _least_loaded(colocatable, {}) IN <<n, n>>
    [] bench = "split" -> LET p == _least_loaded(prefill_pool, {})
                          IN  <<p, _least_loaded(decode_pool, {p})>>
    [] OTHER -> LET c == choose_disaggregated(BenchNodes) IN <<c.prefill, c.decode>>

\* One request of evaluate: a co-located one holds its node for both windows.
OfferPhases ==
  LET p == PhaseNodes[1]
      d == PhaseNodes[2]
  IN  /\ bench \in DisaggPolicies /\ Offered
      /\ IF p = d
         THEN /\ occupied' = [occupied EXCEPT ![p] = @ + 1]
              /\ due' = Append(due, Completion(p, PrefillTicks + DecodeTicks))
         ELSE /\ occupied' = [occupied EXCEPT ![p] = @ + 1, ![d] = @ + 1]
              /\ due' = due \o <<Completion(p, PrefillTicks), Completion(d, DecodeTicks)>>
      /\ UNCHANGED <<bench, tick, outcome>>

BenchNext ==
  \/ BenchTick
  \/ \E tier \in TIER_MIX, ttft \in SomeTtfts : OfferRequest(tier, ttft)
  \/ OfferPhases

BenchSpec == BenchInit /\ [][BenchNext]_benchVars

---------------------------------------------------------------------------
\* admission_bench.py and disagg_bench.py:120-124 "Drain completions scheduled for this
\* tick": what a node holds is what is still to complete on it, so it neither loses nor
\* keeps a place; and where every request has the same window (both policies of the first,
\* co-location of the second) nothing stays past its tick.  Where windows differ the queue
\* is not in the order of its ticks and a prefill waits behind a longer decode: the claim
\* is made of neither "split" nor "adaptive".
OccupancyIsReturned ==
  /\ \A b \in Nodes : occupied[b] = Cardinality({i \in DOMAIN due : due[i].node = b})
  /\ bench \notin {"split", "adaptive"} => \A i \in DOMAIN due : due[i].at > tick

\* admission_bench.py:9 "no admission control; every request is dispatched" against line
\* 12, "The admit floor rises with pressure": the baseline refuses nobody; the gate takes
\* gold whenever its estimate meets the SLO, and anyone else only where a node is below its
\* limit, so that only gold can come to observe more than the SLO and a full queue.
GateShedsFairly ==
  (bench \in AdmissionPolicies /\ outcome.tier # "none") =>
    /\ bench = "baseline" => outcome.admitted
    /\ (outcome.tier = "gold" /\ outcome.ttft <= TtftSlo) => outcome.admitted
    /\ (bench = "admission" /\ outcome.admitted /\ outcome.tier # "gold") =>
         outcome.observed <= TtftSlo + (SatInflight - 1) * QueuePenalty

BenchIsSound == OccupancyIsReturned /\ GateShedsFairly
=============================================================================
