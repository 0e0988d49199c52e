------------------------------- MODULE Disagg -------------------------------
(***************************************************************************)
(* Disaggregated prefill/decode routing (gateway/disagg/router.py with     *)
(* pools.py and kv_transfer.py).  Nodes are numbered in registry order,    *)
(* which decides ties.  A node state holds its in-flight count, whether    *)
(* its KV usage is over the cutoff and how many prompt blocks it caches.   *)
(***************************************************************************)
EXTENDS Integers, FiniteSets, FiniteSetsExt

CONSTANTS Nodes, NodeRoles,          \* node -> configured roles, {} if not listed
          PromptTokens, OutputTokens, NodeBlockTokens,
          PrefillTokenMs, DecodeTokenMs, PrefillQueueMs, DecodeQueueMs,
          TransferTokenMs,           \* kv_bytes_per_token over the link, 0 without a link
          NodeLimit, Margin,         \* max_inflight, disagg_margin_ms
          NodeStates                 \* inputs

BothRoles == {"prefill", "decode"}

ASSUME DisaggAssumption ==
  /\ Nodes \subseteq Nat /\ Nodes # {} /\ NodeRoles \in [Nodes -> SUBSET BothRoles]
  /\ PromptTokens \in Nat /\ OutputTokens \in Nat /\ NodeBlockTokens \in Nat
  /\ PrefillTokenMs \in Nat /\ DecodeTokenMs \in Nat /\ TransferTokenMs \in Nat
  /\ PrefillQueueMs \in Nat /\ DecodeQueueMs \in Nat /\ NodeLimit \in Nat /\ Margin \in Nat
  /\ NodeStates \subseteq [inflight : Nat, kvHigh : BOOLEAN, blocks : Nat]

\* PoolRegistry: a node without a valid role serves both phases.
roles(b) == IF NodeRoles[b] = {} THEN BothRoles ELSE NodeRoles[b]
prefill_pool == {b \in Nodes : "prefill" \in roles(b)}
decode_pool == {b \in Nodes : "decode" \in roles(b)}
colocatable == {b \in Nodes : BothRoles \subseteq roles(b)}

_prefill_ms(state, b) ==
  PrefillTokenMs * Max({0, PromptTokens - state[b].blocks * NodeBlockTokens})
    + state[b].inflight * PrefillQueueMs

_decode_ms(state, b) == DecodeTokenMs * OutputTokens + state[b].inflight * DecodeQueueMs

_eligible(state, b) == state[b].inflight <= NodeLimit /\ ~state[b].kvHigh

\* The unsaturated nodes of a pool, or all of it.
_candidates(pool, state) ==
  LET fit == {b \in pool : _eligible(state, b)} IN IF fit = {} THEN pool ELSE fit

\* An empty pool is replaced by the other one.
PrefillCands(state) ==
  LET own == _candidates(prefill_pool, state)
  IN  IF own = {} THEN _candidates(decode_pool, state) ELSE own
DecodeCands(state) ==
  LET own == _candidates(decode_pool, state)
  IN  IF own = {} THEN PrefillCands(state) ELSE own

\* The first node of the lowest cost.
Cheapest(cost) ==
  CHOOSE b \in DOMAIN cost :
    \A c \in DOMAIN cost : cost[b] < cost[c] \/ (cost[b] = cost[c] /\ b <= c)

kv_transfer_ms(tokens) == IF tokens <= 0 THEN 0 ELSE tokens * TransferTokenMs

Handoff(p, d) == IF p = d THEN 0 ELSE kv_transfer_ms(PromptTokens)

SplitTotal(state, p, d) == _prefill_ms(state, p) + Handoff(p, d) + _decode_ms(state, d)

\* Mutant: the transfer of the KV cache is forgotten when the split is weighed.
SplitWinsFree(state, p, d, coloc) ==
  /\ p # d
  /\ _prefill_ms(state, p) + _decode_ms(state, d) + Margin < SplitTotal(state, coloc, coloc)

\* The split must beat co-location by more than the margin.
SplitWins(state, p, d, coloc) ==
  /\ p # d
  /\ SplitTotal(state, p, d) + Margin < SplitTotal(state, coloc, coloc)

choose_disaggregated(state) ==
  LET p == Cheapest([b \in PrefillCands(state) |-> _prefill_ms(state, b)])
      d == Cheapest([b \in DecodeCands(state) |-> _decode_ms(state, b)])
      colocs == _candidates(colocatable, state)
      coloc == Cheapest([b \in colocs |-> SplitTotal(state, b, b)])
  IN  IF colocs = {} \/ SplitWins(state, p, d, coloc)
      THEN [prefill |-> p, decode |-> d, total |-> SplitTotal(state, p, d)]
      ELSE [prefill |-> coloc, decode |-> coloc, total |-> SplitTotal(state, coloc, coloc)]

---------------------------------------------------------------------------
VARIABLE placed    \* the state of the nodes and the decision for it

NotPlaced == [state |-> <<>>]

DisaggInit == placed = NotPlaced

\* One decision per behaviour: the router keeps no state of its own.
PlacePhases(state) ==
  /\ placed = NotPlaced
  /\ placed' = [state |-> state, decision |-> choose_disaggregated(state)]

DisaggNext == \E state \in [Nodes -> NodeStates] : PlacePhases(state)

DisaggSpec == DisaggInit /\ [][DisaggNext]_placed

\* What could serve the request: a prefill and a decode node, or one node for both.
Plans(state) ==
  (PrefillCands(state) \X DecodeCands(state))
    \cup {<<b, b>> : b \in _candidates(colocatable, state)}

\* router.py:123 compares one split with one co-location: the decision is within the
\* margin of the best of all plans, handoff included, though each phase was optimised
\* on its own.
WithinMarginOfBest ==
  placed # NotPlaced =>
    \A plan \in Plans(placed.state) :
      placed.decision.total <= SplitTotal(placed.state, plan[1], plan[2]) + Margin

\* pools.py:8 roles: each phase runs on a node of that role while one exists, also when
\* the pools are saturated or one of them is empty.
RolesRespected ==
  placed # NotPlaced =>
    /\ prefill_pool # {} => placed.decision.prefill \in prefill_pool
    /\ decode_pool # {} => placed.decision.decode \in decode_pool

\* router.py:72 "Prefer un-saturated nodes": a saturated node gets the prefill only if
\* its whole pool is saturated or it is chosen for both phases.
SaturatedOnlyIfForced ==
  placed # NotPlaced =>
    LET p == placed.decision.prefill
    IN  ~_eligible(placed.state, p) =>
          \/ \A b \in prefill_pool : ~_eligible(placed.state, b)
          \/ p = placed.decision.decode /\ \A b \in colocatable : ~_eligible(placed.state, b)

\* disagg/router.py: the cheapest admissible plan up to the margin, on nodes of the right
\* role, saturated ones only where there is no other.
PlacementIsSound == WithinMarginOfBest /\ RolesRespected /\ SaturatedOnlyIfForced
=============================================================================
