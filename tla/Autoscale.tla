----------------------------- MODULE Autoscale -----------------------------
(***************************************************************************)
(* The autoscaler (gateway/autoscale/planner.py, queueing.py) as the       *)
(* health scrape loop of server.py drives it: every request is counted,    *)
(* every round of the loop turns the requests since the last round into a  *)
(* rate and the rate into a recommendation.  Time is in seconds, and a     *)
(* probability is a fraction, a pair of numbers (the code's are floats).   *)
(* Nothing in the gateway acts on a recommendation; the number of healthy  *)
(* backends changes freely.                                                *)
(***************************************************************************)
EXTENDS Integers, FiniteSetsExt

CONSTANTS MinReplicas, MaxReplicas,
          ServiceRate,        \* service_rate_per_replica_rps, per second
          UtilPercent,        \* target_utilization
          WaitSlo,            \* target_wait_ms
          UpCooldown, DownCooldown, ScaleStep, Deadband,
          Gaps,               \* seconds a round of the loop may take
          Sizes,              \* how many backends may be healthy
          Burst,              \* bound: requests between two rounds
          LastRound           \* bound on the clock

ASSUME AutoscaleAssumption ==
  /\ MinReplicas \in Nat /\ MaxReplicas \in Nat /\ MinReplicas <= MaxReplicas
  /\ ServiceRate \in Nat /\ UtilPercent \in Nat /\ WaitSlo \in Nat
  /\ UpCooldown \in Nat /\ DownCooldown \in Nat /\ ScaleStep \in Nat /\ Deadband \in Nat
  /\ Gaps \subseteq Nat \ {0} /\ Sizes \subseteq Nat

VARIABLES
  scaleClock, size,           \* the time, the number of healthy backends
  count, snapshot,            \* _autoscale_request_count, _autoscale_last_snapshot
  lastUp, lastDown,           \* time of the last recommendation, Never before it
  decision,                   \* _autoscale_last_decision
  \* history
  lost, measured,             \* requests before the first round; requests used in a rate
  ups, downs                  \* when "up" and "down" were recommended

scaleVars == <<scaleClock, size, count, snapshot, lastUp, lastDown, decision,
               lost, measured, ups, downs>>

Never == -1000   \* float("-inf"): further back than any cooldown
Undecided == [direction |-> "none"]

\* time.monotonic() is positive when the gateway starts.
ScaleInit ==
  /\ scaleClock = 1 /\ size \in Sizes
  /\ count = 0 /\ snapshot = [t |-> 0, c |-> 0]
  /\ lastUp = Never /\ lastDown = Never
  /\ decision = Undecided
  /\ lost = 0 /\ measured = 0 /\ ups = {} /\ downs = {}

RoundedUp(a, b) == (a + b - 1) \div b

\* Requests n in the given time: enough replicas for the target utilization.
_util_replicas(n, time) ==
  IF n = 0 \/ ServiceRate = 0 THEN 0
  ELSE IF UtilPercent = 0 THEN 1
  ELSE RoundedUp(100 * n, time * ServiceRate * UtilPercent)

(* Queueing: the offered load is p / q Erlangs                             *)

\* erlang_b, by the recursion B(k) = a B(k-1) / (k + a B(k-1)).
erlang_b(c, p, q) ==
  LET b[k \in 0 .. c] ==
        IF k = 0 THEN <<1, 1>>
        ELSE <<p * b[k - 1][1], k * q * b[k - 1][2] + p * b[k - 1][1]>>
  IN  b[c]

\* erlang_c of a stable queue: B / (1 - rho (1 - B)).
erlang_c(c, p, q) ==
  LET b == erlang_b(c, p, q)
  IN  <<b[1] * c * q, c * q * b[2] - p * (b[2] - b[1])>>

\* expected_wait_s of n requests in the given time is infinite when c replicas are not
\* enough, else erlang_c / (c mu - lambda) seconds; compared with the SLO.
WaitsWithin(c, n, time) ==
  LET q == time * ServiceRate
      e == erlang_c(c, n, q)
  IN  n = 0 \/ (c * q > n /\ 1000 * e[1] * time <= WaitSlo * e[2] * (c * q - n))

\* The climb from the smallest stable size; MaxReplicas is returned untested.
min_replicas_for_wait_slo(n, time) ==
  LET stable == Max({1, (n \div (time * ServiceRate)) + 1})
  IN  IF n = 0 \/ ServiceRate = 0 THEN 0
      ELSE Min({MaxReplicas} \cup {c \in stable .. MaxReplicas : WaitsWithin(c, n, time)})

Clamped(slo, util) == Max({MinReplicas, Min({MaxReplicas, Max({slo, util})})})

\* plan: n requests in the given time, cur replicas.
autoscale_plan(n, time, cur, now) ==
  LET slo == min_replicas_for_wait_slo(n, time)
      target == Clamped(slo, _util_replicas(n, time))
      scaled(direction, desired) ==
        [direction |-> direction, desired |-> desired, cur |-> cur, slo |-> slo, n |-> n, time |-> time]
      hold == scaled("hold", cur)
  IN  CASE target > cur ->
             IF now - lastUp < UpCooldown THEN hold ELSE scaled("up", Min({target, cur + ScaleStep}))
        [] target <= cur - Deadband ->
             IF now - lastDown < DownCooldown THEN hold ELSE scaled("down", Max({target, cur - ScaleStep}))
        [] OTHER -> hold

---------------------------------------------------------------------------
\* A request arrives: counted before any early return.
CountRequest ==
  /\ count - snapshot.c < Burst
  /\ count' = count + 1
  /\ UNCHANGED <<scaleClock, size, snapshot, lastUp, lastDown, decision, lost, measured, ups, downs>>

\* Backends come, go, fail and recover.
FleetResizes(n) ==
  /\ size' = n
  /\ UNCHANGED <<scaleClock, count, snapshot, lastUp, lastDown, decision, lost, measured, ups, downs>>

NextSnapshot(now) == [t |-> now, c |-> count]

\* Mutant: the first recommendation is stamped, later ones are not.
StampedOnce(last, now) == IF last = Never THEN now ELSE last

Stamped(last, now) == now

\* One round of scrape_loop, gap seconds after the one before.
ScaleRound(gap) ==
  LET now == scaleClock + gap
      elapsed == IF snapshot.t > 0 THEN now - snapshot.t ELSE 0
      n == IF elapsed > 0 THEN count - snapshot.c ELSE 0
      cur == Max({1, size})
  IN  /\ now <= LastRound
      /\ decision' = autoscale_plan(n, Max({1, elapsed}), cur, now)
      /\ snapshot' = NextSnapshot(now)
      /\ lastUp' = IF decision'.direction = "up" THEN Stamped(lastUp, now) ELSE lastUp
      /\ lastDown' = IF decision'.direction = "down" THEN Stamped(lastDown, now) ELSE lastDown
      /\ scaleClock' = now
      /\ lost' = IF elapsed > 0 THEN lost ELSE lost + count
      /\ measured' = measured + n
      /\ ups' = IF decision'.direction = "up" THEN ups \cup {now} ELSE ups
      /\ downs' = IF decision'.direction = "down" THEN downs \cup {now} ELSE downs
      /\ UNCHANGED <<size, count>>

ScaleNext ==
  \/ CountRequest
  \/ \E n \in Sizes : FleetResizes(n)
  \/ \E gap \in Gaps : ScaleRound(gap)

ScaleSpec == ScaleInit /\ [][ScaleNext]_scaleVars

---------------------------------------------------------------------------
\* planner.py:13 "rate-limited ... gated by separate up/down cooldowns": any two
\* recommendations of the same direction are a cooldown apart, whatever the rounds
\* between them said.
RecommendationsAreSpaced ==
  /\ \A s, t \in ups : s < t => t - s >= UpCooldown
  /\ \A s, t \in downs : s < t => t - s >= DownCooldown

\* planner.py:12 "clamped to [min, max], rate-limited to max_scale_step per tick", for
\* every size of the fleet, one outside the bounds too: a recommendation moves towards
\* them, by at most a step.
RecommendationIsBounded ==
  /\ decision.direction = "up" =>
       /\ decision.desired > decision.cur \/ ScaleStep = 0
       /\ decision.desired <= MaxReplicas /\ decision.desired - decision.cur <= ScaleStep
  /\ decision.direction = "down" =>
       /\ decision.desired < decision.cur \/ Deadband = 0 \/ ScaleStep = 0
       /\ decision.desired >= MinReplicas /\ decision.cur - decision.desired <= ScaleStep

\* server.py:590: a request counts in the rate of exactly one round, but for those
\* before the first round, which is the one that has no rate.
CountedOnce == measured + lost + (count - snapshot.c) = count

\* queueing.py:63 "Fewest replicas whose expected queue wait is within slo_s": against the
\* closed form of Erlang B, a^c/c! over the sum of a^k/k!, which the recursion avoids: no
\* smaller size would do, every larger one does too (or the fleet may not grow further),
\* and a queue is never found shorter with fewer replicas.
FewestReplicas ==
  LET n == decision.n
      q == decision.time * ServiceRate
      power(x, k) == FoldSet(LAMBDA i, y : x * y, 1, 1 .. k)
      ratio(c, k) == FoldSet(LAMBDA i, y : i * y, 1, k + 1 .. c)     \* c! / k!
      closed(c) == MapThenSumSet(LAMBDA k : power(n, k) * power(q, c - k) * ratio(c, k), 0 .. c)
      sizes == 1 .. MaxReplicas
  IN  decision.direction # "none" /\ n > 0 =>
        /\ \A c \in sizes :
             LET b == erlang_b(c, n, q) IN b[1] * closed(c) = b[2] * power(n, c)
        /\ \A c, d \in sizes : c < d /\ WaitsWithin(c, n, decision.time) => WaitsWithin(d, n, decision.time)
        /\ \A c \in sizes : c < decision.slo => ~WaitsWithin(c, n, decision.time)
        /\ decision.slo = MaxReplicas \/ WaitsWithin(decision.slo, n, decision.time)

\* planner.py as the scrape loop drives it: spaced, bounded, from every request once, and
\* no more than the SLO asks for.
RecommendationsAreSound ==
  RecommendationsAreSpaced /\ RecommendationIsBounded /\ CountedOnce /\ FewestReplicas
=============================================================================
