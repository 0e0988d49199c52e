----------------------------- MODULE Admission -----------------------------
(***************************************************************************)
(* SLO-aware admission: gateway/admission/policy.py, the branch of         *)
(* chat_completions that acts on it, and the Rust port of the policy       *)
(* (rust/src/admission.rs).  Pressure is a fraction; it is counted in      *)
(* units of 1/Full(fleet), with KV usage in quarters.  A fleet maps a      *)
(* backend to its in-flight count and KV usage.                            *)
(***************************************************************************)
EXTENDS Integers, FiniteSets, FiniteSetsExt

CONSTANTS Quarters,        \* KV usage is 0..4 quarters; the threshold too
          ShedQuarter,     \* shed_pressure in quarters
          SatInflight,     \* max_inflight_per_backend
          TtftSlo,         \* ttft_slo_ms
          QueueEnabled, QueueLimit,
          RetryBase, RetryMax,                     \* milliseconds
          SomeFleets, SomeTtfts, SomeDepths        \* inputs

ASSUME AdmissionAssumption ==
  /\ Quarters \in Nat \ {0} /\ ShedQuarter \in 0 .. Quarters /\ SatInflight \in Nat
  /\ TtftSlo \in Nat /\ QueueEnabled \in BOOLEAN /\ QueueLimit \in Nat
  /\ RetryBase \in Nat /\ RetryMax \in Nat

\* The handler judges only when a candidate remains (server.py:738), so no fleet is empty.
ASSUME FleetsAssumption ==
  /\ SomeTtfts \subseteq Nat
  /\ \A fleet \in SomeFleets :
       /\ IsFiniteSet(DOMAIN fleet) /\ DOMAIN fleet # {}
       /\ \A b \in DOMAIN fleet : fleet[b].inflight \in Nat /\ fleet[b].kv \in Nat

Tiers == {"gold", "silver", "bronze", "anonymous"}

tier_priority(tier) ==
  CASE tier = "gold" -> 3 [] tier = "silver" -> 2 [] tier = "bronze" -> 1 [] OTHER -> 0

\* KV usage summed over the fleet: the mean times the number of backends.
KvTotal(fleet) == MapThenSumSet(LAMBDA b : fleet[b].kv, DOMAIN fleet)

\* Pressure 1.0: every backend at full KV usage, or every backend saturated.
Full(fleet) == Quarters * Cardinality(DOMAIN fleet)

\* Mutant: only a backend exactly at its limit counts as saturated.
fleet_pressure_exact(fleet) ==
  LET kv == KvTotal(fleet)
      saturated == Cardinality({b \in DOMAIN fleet : fleet[b].inflight = SatInflight})
  IN  Min({Full(fleet), Max({0, kv, saturated * Quarters})})

\* The worse of mean KV usage and the share of saturated backends.
fleet_pressure(fleet) ==
  LET kv == KvTotal(fleet)
      saturated == Cardinality({b \in DOMAIN fleet : fleet[b].inflight >= SatInflight})
  IN  Min({Full(fleet), Max({0, kv, saturated * Quarters})})

\* shed_pressure in units of 1/Full.
Shed(fleet) == ShedQuarter * Cardinality(DOMAIN fleet)

\* priority >= 1 + 2 (p - shed) / (1 - shed), without the division; a span of 0 counts
\* as 1e-9, and p = shed = 1 then gives the floor 1.
ClearsFloor(tier, p, fleet) ==
  LET span == Full(fleet) - Shed(fleet)
      above == p - Shed(fleet)
  IN  IF span = 0 THEN tier_priority(tier) >= 1
      ELSE (tier_priority(tier) - 1) * span >= 2 * above

\* Base times (1 + pressure) in whole milliseconds, at least the overshoot, at most the limit.
retry_after(p, fleet, overshoot) ==
  LET base == RetryBase + (RetryBase * p) \div Full(fleet)
  IN  Min({RetryMax, Max({base, overshoot})})

decide(ttft, tier, fleet, depth) ==
  LET p == fleet_pressure(fleet)
  IN  CASE ttft > TtftSlo ->
             [action |-> "reject", retry |-> retry_after(p, fleet, ttft - TtftSlo)]
        [] ttft <= TtftSlo /\ (p < Shed(fleet) \/ ClearsFloor(tier, p, fleet)) ->
             [action |-> "admit", retry |-> 0]
        [] OTHER ->
             [action |-> IF QueueEnabled /\ depth < QueueLimit THEN "queue" ELSE "reject",
              retry |-> retry_after(p, fleet, 0)]

\* The 503 branch of the handler: seconds, rounded up, at least one.
RetryAfterHeader(d) == Max({1, (d.retry + 999) \div 1000})

---------------------------------------------------------------------------
(* The Rust port.                                                          *)

rust_fleet_pressure(fleet) ==
  LET kv == KvTotal(fleet)
      saturated == Cardinality({b \in DOMAIN fleet : fleet[b].inflight >= SatInflight})
      worse == IF kv >= saturated * Quarters THEN kv ELSE saturated * Quarters
  IN  IF worse > Full(fleet) THEN Full(fleet) ELSE worse

\* The floor times the span: (1 + 2t) * span, t clamped to [0, 1].
rust_floor_times_span(p, fleet) ==
  LET span == Full(fleet) - Shed(fleet)
  IN  span + 2 * Min({span, Max({0, p - Shed(fleet)})})

rust_retry_after(p, fleet, overshoot) ==
  LET ms == RetryBase + (RetryBase * p) \div Full(fleet)
      longer == IF ms >= overshoot THEN ms ELSE overshoot
  IN  IF longer <= RetryMax THEN longer ELSE RetryMax

rust_decide(ttft, tier, fleet, depth) ==
  LET p == rust_fleet_pressure(fleet)
      span == Full(fleet) - Shed(fleet)
      clears == IF span = 0 THEN tier_priority(tier) >= 1
                ELSE tier_priority(tier) * span >= rust_floor_times_span(p, fleet)
  IN  IF ttft > TtftSlo THEN
        [action |-> "reject", retry |-> rust_retry_after(p, fleet, ttft - TtftSlo)]
      ELSE IF p < Shed(fleet) \/ clears THEN [action |-> "admit", retry |-> 0]
      ELSE IF QueueEnabled /\ depth < QueueLimit THEN
        [action |-> "queue", retry |-> rust_retry_after(p, fleet, 0)]
      ELSE [action |-> "reject", retry |-> rust_retry_after(p, fleet, 0)]

---------------------------------------------------------------------------
VARIABLE verdict    \* the last input decided on and what both policies say

NoVerdict == [fleet |-> <<>>]

AdmissionInit == verdict = NoVerdict

\* One decision per behaviour: the policy has no state.
Judge(ttft, tier, fleet, depth) ==
  /\ verdict = NoVerdict
  /\ verdict' = [fleet |-> fleet, ttft |-> ttft, tier |-> tier, depth |-> depth,
                 python |-> decide(ttft, tier, fleet, depth),
                 rust |-> rust_decide(ttft, tier, fleet, depth)]

AdmissionNext ==
  \E ttft \in SomeTtfts, tier \in Tiers, fleet \in SomeFleets, depth \in SomeDepths :
    Judge(ttft, tier, fleet, depth)

AdmissionSpec == AdmissionInit /\ [][AdmissionNext]_verdict

\* Every backend of f is at least as busy as in g.
BusierThan(f, g) ==
  DOMAIN f = DOMAIN g
  /\ \A b \in DOMAIN f : f[b].inflight >= g[b].inflight /\ f[b].kv >= g[b].kv

\* policy.py:30 "higher survives longer under shedding": who is admitted would also be
\* admitted under a higher tier, a shorter TTFT or a less busy fleet; no threshold,
\* rounding or clamp turns the order around.
SheddingIsMonotone ==
  (verdict # NoVerdict /\ verdict.python.action = "admit") =>
    \A ttft \in SomeTtfts, tier \in Tiers, fleet \in SomeFleets :
      (/\ ttft <= verdict.ttft /\ tier_priority(tier) >= tier_priority(verdict.tier)
       /\ BusierThan(verdict.fleet, fleet)) =>
        decide(ttft, tier, fleet, verdict.depth).action = "admit"

\* policy.py:81 "1.0 (floor 3: gold only)" and "floor 1: shed only anonymous": gold that
\* can meet its deadline is admitted at any pressure, nobody who cannot is.
GoldIsProtected ==
  verdict # NoVerdict =>
    /\ (verdict.tier = "gold" /\ verdict.ttft <= TtftSlo) => verdict.python.action = "admit"
    /\ verdict.ttft > TtftSlo => verdict.python.action = "reject"
    /\ (/\ fleet_pressure(verdict.fleet) = Shed(verdict.fleet)
        /\ verdict.tier = "bronze" /\ verdict.ttft <= TtftSlo) => verdict.python.action = "admit"

\* The Rust port decides as the Python policy does, the hint for the retry included
\* (admission.rs:119), and a refusal always asks for at least a second (server.py:753).
RustPolicyAgrees ==
  verdict # NoVerdict =>
    /\ verdict.rust = verdict.python
    /\ RetryAfterHeader(verdict.python) * 1000 >= verdict.python.retry

\* admission/policy.py and its port: who is shed follows pressure, tier and estimate, in
\* both languages alike.
AdmissionIsFair == SheddingIsMonotone /\ GoldIsProtected /\ RustPolicyAgrees
=============================================================================
