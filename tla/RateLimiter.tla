---------------------------- MODULE RateLimiter ----------------------------
(***************************************************************************)
(* Per-tenant quotas: the lazily refilled token buckets, the in-flight cap *)
(* and the admit/release pair the chat handler wraps around a request      *)
(* (gateway/tenancy.py, gateway/server.py).  Time is an integer and every  *)
(* bucket refills by whole tokens, so that Retry-After is exact.           *)
(***************************************************************************)
EXTENDS Integers, FiniteSets

CONSTANTS Calls, Payers, PayerOf,          \* requests, tenants, request -> tenant
          Rps, Tps, InflightCap,           \* tenant -> quota of its tier
          InputTokens, AskedTokens,        \* prompt lengths; max_tokens, 0 if absent
          DefaultOutput, MaxOutput,        \* cfg.default_/max_output_tokens
          MaxActual, MaxTime               \* bounds: streamed tokens, clock

ASSUME LimiterAssumption ==
  /\ PayerOf \in [Calls -> Payers]
  /\ Rps \in [Payers -> Nat] /\ Tps \in [Payers -> Nat]
  /\ InflightCap \in [Payers -> Nat]
  /\ InputTokens \subseteq Nat /\ AskedTokens \subseteq Nat
  /\ DefaultOutput \in Nat /\ MaxOutput \in Nat /\ MaxActual \in Nat /\ MaxTime \in Nat

VARIABLES
  clock,       \* time.monotonic()
  rpsB, tpsB,  \* RateLimiter._rps, _tps: tenant -> bucket
  open,        \* RateLimiter.inflight: tenant -> count
  call,        \* request -> phase and reserved output
  spent,       \* history: tokens charged minus tokens refunded, per tenant
  refusal      \* history: the last TPS refusal nothing has interfered with

limiterVars == <<clock, rpsB, tpsB, open, call, spent, refusal>>

Lower(a, b) == IF a <= b THEN a ELSE b
Higher(a, b) == IF a >= b THEN a ELSE b

---------------------------------------------------------------------------
\* A bucket starts full with ts = 0.
TokenBucket(capacity, refill) ==
  [capacity |-> capacity, refill |-> refill, tokens |-> capacity, ts |-> 0]

\* Mutant: ts is not advanced, so the same time refills twice.
ReplenishAgain(b, now) ==
  [b EXCEPT !.tokens = Lower(b.capacity, b.tokens + (now - b.ts) * b.refill)]

Replenish(b, now) ==
  IF now > b.ts
  THEN [b EXCEPT !.tokens = Lower(b.capacity, b.tokens + (now - b.ts) * b.refill),
                 !.ts = now]
  ELSE b

CanConsume(b, n, now) == Replenish(b, now).tokens >= n

Consume(b, n, now) == [Replenish(b, now) EXCEPT !.tokens = @ - n]

Adjust(b, delta) == [b EXCEPT !.tokens = Lower(b.capacity, b.tokens + delta)]

\* deficit_seconds in whole seconds; -1 stands for infinity.
DeficitSeconds(b, n, now) ==
  LET missing == n - Replenish(b, now).tokens
  IN  IF missing <= 0 THEN 0
      ELSE IF b.refill <= 0 THEN -1
      ELSE (missing + b.refill - 1) \div b.refill

\* The Retry-After header, in whole seconds and at least one.
RetryAfter(wait) == Higher(1, wait)

ReservedOutput(asked) ==
  Lower(IF asked = 0 THEN DefaultOutput ELSE asked, MaxOutput)

---------------------------------------------------------------------------
NoRefusal == [cost |-> 0, due |-> 0]

LimiterInit ==
  /\ clock = 0
  /\ rpsB = [t \in Payers |-> TokenBucket(Higher(1, Rps[t]), Rps[t])]
  /\ tpsB = [t \in Payers |-> TokenBucket(Tps[t], Tps[t])]
  /\ open = [t \in Payers |-> 0]
  /\ call = [c \in Calls |-> [phase |-> "new", reserved |-> 0]]
  /\ spent = [t \in Payers |-> 0]
  /\ refusal = [t \in Payers |-> NoRefusal]

\* The first check of admit; the buckets are not even replenished.
InflightFull(t) == open[t] >= InflightCap[t]

\* admit: TPS is consumed first, then RPS.
Admit(c, input, asked) ==
  LET t == PayerOf[c]
      reserved == ReservedOutput(asked)
      cost == input + reserved
  IN  /\ call[c].phase = "new"
      /\ ~InflightFull(t)
      /\ CanConsume(tpsB[t], cost, clock)
      /\ CanConsume(rpsB[t], 1, clock)
      /\ tpsB' = [tpsB EXCEPT ![t] = Consume(@, cost, clock)]
      /\ rpsB' = [rpsB EXCEPT ![t] = Consume(@, 1, clock)]
      /\ open' = [open EXCEPT ![t] = @ + 1]
      /\ call' = [call EXCEPT ![c] = [phase |-> "live", reserved |-> reserved]]
      /\ spent' = [spent EXCEPT ![t] = @ + cost]
      /\ refusal' = [refusal EXCEPT ![t] = NoRefusal]
      /\ UNCHANGED clock

\* 429 for the token rate: Retry-After tells when to come back.
RefuseTps(c, input, asked) ==
  LET t == PayerOf[c]
      cost == input + ReservedOutput(asked)
      wait == DeficitSeconds(tpsB[t], cost, clock)
  IN  /\ call[c].phase = "new"
      /\ ~InflightFull(t)
      /\ ~CanConsume(tpsB[t], cost, clock)
      /\ tpsB' = [tpsB EXCEPT ![t] = Replenish(@, clock)]
      /\ refusal' = [refusal EXCEPT ![t] =
                       IF wait < 0 THEN NoRefusal
                       ELSE [cost |-> cost, due |-> clock + RetryAfter(wait)]]
      /\ UNCHANGED <<clock, rpsB, open, call, spent>>

\* Mutant: the reservation is kept although the request is refused.
Unreserved(b, cost) == Consume(b, cost, clock)

\* The reservation made before the request bucket refused, given back.
Refunded(b, cost) == Adjust(Consume(b, cost, clock), cost)

\* 429 for the request rate: the tokens just consumed are given back.
RefuseRps(c, input, asked) ==
  LET t == PayerOf[c]
      cost == input + ReservedOutput(asked)
  IN  /\ call[c].phase = "new"
      /\ ~InflightFull(t)
      /\ CanConsume(tpsB[t], cost, clock)
      /\ ~CanConsume(rpsB[t], 1, clock)
      /\ tpsB' = [tpsB EXCEPT ![t] = Refunded(@, cost)]
      /\ rpsB' = [rpsB EXCEPT ![t] = Replenish(@, clock)]
      /\ UNCHANGED <<clock, open, call, spent, refusal>>

\* release: 0 on the early returns, the streamed tokens at the end of a stream.
Release(c, actual) ==
  LET t == PayerOf[c]
      delta == call[c].reserved - actual
  IN  /\ call[c].phase = "live"
      /\ open' = [open EXCEPT ![t] = Higher(0, @ - 1)]
      /\ tpsB' = [tpsB EXCEPT ![t] = Adjust(@, delta)]
      /\ call' = [call EXCEPT ![c] = [phase |-> "done", reserved |-> 0]]
      /\ spent' = [spent EXCEPT ![t] = @ - delta]
      /\ refusal' = [refusal EXCEPT ![t] = IF delta < 0 THEN NoRefusal ELSE @]
      /\ UNCHANGED <<clock, rpsB>>

Tick ==
  /\ clock < MaxTime
  /\ clock' = clock + 1
  /\ UNCHANGED <<rpsB, tpsB, open, call, spent, refusal>>

LimiterNext ==
  \/ Tick
  \/ \E c \in Calls :
       \/ \E i \in InputTokens, a \in AskedTokens :
            Admit(c, i, a) \/ RefuseTps(c, i, a) \/ RefuseRps(c, i, a)
       \/ \E n \in 0..MaxActual : Release(c, n)

LimiterSpec == LimiterInit /\ [][LimiterNext]_limiterVars

---------------------------------------------------------------------------
\* A tenant is never charged more than a full bucket plus what time refilled, whatever
\* the order of reservations, refunds and late reconciliations (tenancy.py:60, 81).
ThroughputBound ==
  \A t \in Payers : spent[t] + tpsB[t].tokens <= Tps[t] + Tps[t] * clock

\* A client that waits for Retry-After seconds finds the tokens it was refused, unless
\* its tenant spent them meanwhile or the request never fits the bucket
\* (tenancy.py:73-79; for cost > capacity the promised time is wrong).
RetryAfterSuffices ==
  \A t \in Payers :
    (refusal[t] # NoRefusal /\ clock >= refusal[t].due /\ refusal[t].cost <= Tps[t])
      => CanConsume(tpsB[t], refusal[t].cost, clock)

\* A refused request costs nothing: what the tenant could spend now, it still can.
\* The two buckets are consumed one after the other, so the second refusal has to
\* undo the first consumption (tenancy.py:152).
RefusalTakesNothing ==
  \A t \in Payers :
    (spent'[t] = spent[t] /\ call' = call /\ clock' = clock) =>
      /\ Replenish(tpsB[t], clock).tokens = Replenish(tpsB'[t], clock).tokens
      /\ Replenish(rpsB[t], clock).tokens = Replenish(rpsB'[t], clock).tokens

\* tenancy.py:142-162, 181-203: whatever the limiter does, a refusal takes nothing from
\* the tenant, and after every step the waits it has named are long enough.
RefusalsAreHonest == [][RefusalTakesNothing /\ RetryAfterSuffices']_limiterVars
=============================================================================
