---------------------------- MODULE RustLimiter ----------------------------
(***************************************************************************)
(* The Rust rate limiter (rust/src/tenancy.rs) as the Rust chat handler    *)
(* uses it: buckets made on a tenant's first request, admit as one call    *)
(* under the limiter's mutex, and a release that never learns how much was *)
(* streamed.  It implements RateLimiter, the model of the Python limiter   *)
(* it mirrors.  The constants are those of RateLimiter; an explicit        *)
(* max_tokens of 0 is left out, for which Rust reserves nothing and Python *)
(* the default.  Every refill rate is positive, as in the tiers.           *)
(***************************************************************************)
EXTENDS Integers

CONSTANTS Calls, Payers, PayerOf, Rps, Tps, InflightCap, InputTokens, AskedTokens,
          DefaultOutput, MaxOutput, MaxActual, MaxTime

VARIABLES
  lim,        \* RateLimiter: the maps rps, tps and inflight
  now,        \* state.clock
  req,        \* request -> phase and reserved output
  charged,    \* history: tokens charged minus refunded, per tenant
  denied      \* history: the last TPS refusal nothing has interfered with

rlimiterVars == <<lim, now, req, charged, denied>>

AtMost(a, b) == IF a < b THEN a ELSE b

\* TokenBucket::new.
NewBucket(capacity, refill) ==
  [capacity |-> capacity, refill |-> refill, tokens |-> capacity, ts |-> 0]

replenish(b, t) ==
  IF t > b.ts
  THEN [b EXCEPT !.tokens = AtMost(b.tokens + (t - b.ts) * b.refill, b.capacity), !.ts = t]
  ELSE b

\* The bucket after try_consume, and whether it had the tokens.
try_consume(b, n, t) ==
  LET r == replenish(b, t)
  IN  IF r.tokens >= n THEN [ok |-> TRUE, bucket |-> [r EXCEPT !.tokens = @ - n]]
      ELSE [ok |-> FALSE, bucket |-> r]

\* In whole seconds, as ratelimit_response rounds it.
deficit_seconds(b, n) ==
  IF b.tokens >= n THEN 0 ELSE (n - b.tokens + b.refill - 1) \div b.refill

\* Mutant: the reserved tokens stay consumed.
adjust_never(b, delta) == b

adjust(b, delta) == [b EXCEPT !.tokens = AtMost(b.tokens + delta, b.capacity)]

\* Retry-After: at least a second.
ratelimit_response(wait) == IF wait > 1 THEN wait ELSE 1

FullRps(t) == NewBucket(IF Rps[t] > 1 THEN Rps[t] ELSE 1, Rps[t])

FullTps(t) == NewBucket(Tps[t], Tps[t])

\* HashMap::insert.
insert(map, t, v) == [x \in DOMAIN map \cup {t} |-> IF x = t THEN v ELSE map[x]]

ensure(l, t) ==
  IF t \in DOMAIN l.rps THEN l
  ELSE [l EXCEPT !.rps = insert(@, t, FullRps(t)), !.tps = insert(@, t, FullTps(t))]

Open(l, t) == IF t \in DOMAIN l.inflight THEN l.inflight[t] ELSE 0

\* The limiter after admit, the reason of a refusal and the time to wait.
admit(l0, t, cost) ==
  LET l == ensure(l0, t)
      tps == try_consume(l.tps[t], cost, now)
      rps == try_consume(l.rps[t], 1, now)
  IN  IF Open(l, t) >= InflightCap[t] THEN [lim |-> l, reason |-> "inflight", wait |-> 1]
      ELSE IF ~tps.ok
      THEN [lim |-> [l EXCEPT !.tps[t] = tps.bucket], reason |-> "tps",
            wait |-> deficit_seconds(tps.bucket, cost)]
      ELSE IF ~rps.ok
      THEN [lim |-> [l EXCEPT !.tps[t] = adjust(tps.bucket, cost), !.rps[t] = rps.bucket],
            reason |-> "rps", wait |-> deficit_seconds(rps.bucket, 1)]
      ELSE [lim |-> [l EXCEPT !.tps[t] = tps.bucket, !.rps[t] = rps.bucket,
                              !.inflight = insert(@, t, Open(l, t) + 1)],
            reason |-> "", wait |-> 0]

release(l, t, reserved, actual) ==
  [l EXCEPT !.inflight = insert(@, t, IF Open(l, t) > 0 THEN Open(l, t) - 1 ELSE 0),
            !.tps = IF t \in DOMAIN @ THEN insert(@, t, adjust(l.tps[t], reserved - actual)) ELSE @]

---------------------------------------------------------------------------
NoDenial == [cost |-> 0, due |-> 0]

Nothing == [t \in {} |-> 0]

RLimiterInit ==
  /\ lim = [rps |-> Nothing, tps |-> Nothing, inflight |-> Nothing]
  /\ now = 0
  /\ req = [c \in Calls |-> [phase |-> "new", reserved |-> 0]]
  /\ charged = [t \in Payers |-> 0]
  /\ denied = [t \in Payers |-> NoDenial]

\* The reservation of the handler; 0 stands for an absent max_tokens.
ReserveOutput(asked) == AtMost(IF asked = 0 THEN DefaultOutput ELSE asked, MaxOutput)

\* The admission of the handler: the request goes on, or is answered 429.
RustEnters(c, input, asked) ==
  LET t == PayerOf[c]
      reserved == ReserveOutput(asked)
      cost == input + reserved
      a == admit(lim, t, cost)
  IN  /\ req[c].phase = "new"
      /\ lim' = a.lim
      /\ req' = IF a.reason = "" THEN [req EXCEPT ![c] = [phase |-> "live", reserved |-> reserved]]
                ELSE req
      /\ charged' = [charged EXCEPT ![t] = IF a.reason = "" THEN @ + cost ELSE @]
      /\ denied' = [denied EXCEPT ![t] =
           CASE a.reason = "" -> NoDenial
             [] a.reason = "tps" -> [cost |-> cost, due |-> now + ratelimit_response(a.wait)]
             [] OTHER -> @]
      /\ UNCHANGED now

\* The end of a stream releases what was reserved as if it had been streamed; 503 and
\* 502 give the reservation back.
RustLeaves(c, answered) ==
  LET t == PayerOf[c]
      actual == IF answered THEN req[c].reserved ELSE 0
  IN  /\ req[c].phase = "live"
      /\ lim' = release(lim, t, req[c].reserved, actual)
      /\ req' = [req EXCEPT ![c] = [phase |-> "done", reserved |-> 0]]
      /\ charged' = [charged EXCEPT ![t] = @ - (req[c].reserved - actual)]
      /\ UNCHANGED <<now, denied>>

ClockTicks ==
  /\ now < MaxTime
  /\ now' = now + 1
  /\ UNCHANGED <<lim, req, charged, denied>>

RLimiterNext ==
  \/ \E c \in Calls :
       \/ \E i \in InputTokens, a \in AskedTokens : RustEnters(c, i, a)
       \/ \E answered \in BOOLEAN : RustLeaves(c, answered)
  \/ ClockTicks

RLimiterSpec == RLimiterInit /\ [][RLimiterNext]_rlimiterVars

---------------------------------------------------------------------------
\* A limiter as the Python one sees it: a bucket that does not exist yet is a full one
\* that was never used.
RpsOf(l) == [t \in Payers |-> IF t \in DOMAIN l.rps THEN l.rps[t] ELSE FullRps(t)]
TpsOf(l) == [t \in Payers |-> IF t \in DOMAIN l.tps THEN l.tps[t] ELSE FullTps(t)]
OpenOf(l) == [t \in Payers |-> Open(l, t)]

Python == INSTANCE RateLimiter WITH
  clock <- now, rpsB <- RpsOf(lim), tpsB <- TpsOf(lim), open <- OpenOf(lim),
  call <- req, spent <- charged, refusal <- denied

\* The Rust limiter "mirrors gateway/tenancy.py" (tenancy.rs:1): every step of it, lazy
\* creation, refund and missing reconciliation included, is one the Python limiter can
\* take, so the quotas proved and checked for that one hold here.
MirrorsPython == Python!LimiterSpec
=============================================================================
