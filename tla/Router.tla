------------------------------ MODULE Router ------------------------------
(***************************************************************************)
(* gateway/router.py without the learned predictor.  A view holds what the *)
(* decision reads: the matched blocks, the effective in-flight count (this *)
(* replica's plus its peers'), whether the KV cache is over the cutoff and *)
(* whether a peer reported the backend unhealthy.  Candidates are a        *)
(* sequence: its order decides ties.                                       *)
(***************************************************************************)
EXTENDS Lists

CONSTANTS BlockTokens, PrefillMs, ServiceMs, Hysteresis, InflightLimit

ASSUME RouterAssumption ==
  /\ BlockTokens \in Nat /\ PrefillMs \in Nat /\ ServiceMs \in Nat
  /\ Hysteresis \in Nat /\ InflightLimit \in Nat

\* Guardrails: affinity yields to load.
Saturated(view, b) ==
  view.peerBad[b] \/ view.kvHigh[b] \/ view.inflight[b] > InflightLimit

_est_ttft(view, tokens, b) ==
  LET uncached == tokens - view.match[b] * BlockTokens
  IN  PrefillMs * (IF uncached > 0 THEN uncached ELSE 0) + view.inflight[b] * ServiceMs

\* The earliest of the candidates with the fewest requests in flight.
LeastLoaded(view, cands) ==
  LET least == Min({view.inflight[c] : c \in ToSet(cands)})
  IN  Where(cands, LAMBDA b : view.inflight[b] = least)

\* Mutant: affinity first, load never.
EquivalentByMatch(view, tokens, cands) ==
  LET most == Max({view.match[c] : c \in ToSet(cands)})
  IN  Where(cands, LAMBDA b : view.match[b] = most)

\* The unsaturated candidates whose estimate is within the hysteresis of the best.
Equivalent(view, tokens, cands) ==
  LET fit == Where(cands, LAMBDA b : ~Saturated(view, b))
      best == Min({_est_ttft(view, tokens, c) : c \in ToSet(fit)})
  IN  IF fit = <<>> THEN <<>>
      ELSE Where(fit, LAMBDA b : _est_ttft(view, tokens, b) <= best + Hysteresis)

\* The choice and the round-robin counter it leaves.
choose_round_robin(cands, rr) ==
  [backend |-> cands[(rr % Len(cands)) + 1], rr |-> rr + 1]

choose_consistent_hash(h, cands, rr) ==
  [backend |-> cands[((IF h = <<>> THEN 0 ELSE h[1]) % Len(cands)) + 1], rr |-> rr]

choose_prefix_tree(view, h, cands, rr) ==
  LET good == Equivalent(view, Len(h) * BlockTokens, cands)
      tied == LeastLoaded(view, good)
  IN  IF good = <<>> THEN [backend |-> LeastLoaded(view, cands)[1], rr |-> rr]
      ELSE [backend |-> tied[(rr % Len(tied)) + 1], rr |-> rr + 1]

choose(strategy, view, h, cands, rr) ==
  CASE strategy = "round_robin" -> choose_round_robin(cands, rr)
    [] strategy = "consistent_hash" -> choose_consistent_hash(h, cands, rr)
    [] OTHER -> choose_prefix_tree(view, h, cands, rr)
=============================================================================
