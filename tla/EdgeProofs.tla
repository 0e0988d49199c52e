----------------------------- MODULE EdgeProofs -----------------------------
(***************************************************************************)
(* Proofs about the Rust gateway and about what surrounds a routing        *)
(* decision in the Python one, for every set of requests, backends,        *)
(* tenants, tiers and configurations.  The Rust limiter implements the     *)
(* model of the Python one, so what is proved of that holds for it;        *)
(* whatever the threads interleave, the shared counters agree with the     *)
(* requests.  In Python: who may call and as whom (gateway/auth.py), what  *)
(* the metrics page shows (gateway/metrics.py), the block hashes on both   *)
(* sides of the wire (gateway/hashing.py, gateway/extensions/              *)
(* bpe_hashing.py, mock_backend/app.py) and the learned estimate the       *)
(* router blends in (gateway/extensions/ttft_predictor.py).                *)
(***************************************************************************)
EXTENDS RustLimiter, RustGateway, Access, Metrics, Estimates, FiniteSetTheorems, TLAPS

-----------------------------------------------------------------------------
(* The limiter                                                             *)

\* The tiers of tenancy.rs: rates are positive.  A stream may bring as many tokens as were
\* reserved.
TiersAreSet ==
  /\ PayerOf \in [Calls -> Payers]
  /\ Rps \in [Payers -> Nat \ {0}] /\ Tps \in [Payers -> Nat \ {0}]
  /\ InflightCap \in [Payers -> Nat]
  /\ InputTokens \subseteq Nat /\ AskedTokens \subseteq Nat
  /\ DefaultOutput \in Nat /\ MaxOutput \in Nat /\ MaxActual \in Nat /\ MaxTime \in Nat
  /\ MaxOutput <= MaxActual

Bucket == [capacity : Int, refill : Nat \ {0}, tokens : Int, ts : Int]

-----------------------------------------------------------------------------
(* Buckets                                                                 *)

LEMMA SameReplenish ==
  ASSUME NEW b \in Bucket, NEW x \in Int
  PROVE  replenish(b, x) = Python!Replenish(b, x) /\ replenish(b, x) \in Bucket
<1>1. b.tokens \in Int /\ b.capacity \in Int /\ b.ts \in Int /\ b.refill \in Nat \ {0}
  BY DEF Bucket
<1>2. PICK v \in Int : v = b.tokens + (x - b.ts) * b.refill
  BY <1>1
<1>3. AtMost(v, b.capacity) = Python!Lower(b.capacity, v) /\ AtMost(v, b.capacity) \in Int
  BY <1>1, <1>2 DEF AtMost, Python!Lower
<1>4. PICK m \in Int : m = AtMost(v, b.capacity)
  BY <1>3
<1>5. [b EXCEPT !.tokens = m, !.ts = x] \in Bucket
  BY DEF Bucket
<1>6. replenish(b, x) = IF x > b.ts THEN [b EXCEPT !.tokens = m, !.ts = x] ELSE b
  BY <1>2, <1>4 DEF replenish
<1>7. Python!Replenish(b, x) = IF x > b.ts THEN [b EXCEPT !.tokens = m, !.ts = x] ELSE b
  BY <1>2, <1>3, <1>4 DEF Python!Replenish
<1>8. QED
  BY <1>5, <1>6, <1>7

LEMMA SameConsume ==
  ASSUME NEW b \in Bucket, NEW n \in Int, NEW x \in Int
  PROVE  /\ Python!CanConsume(b, n, x) =>
              try_consume(b, n, x) = [ok |-> TRUE, bucket |-> Python!Consume(b, n, x)]
         /\ ~Python!CanConsume(b, n, x) =>
              try_consume(b, n, x) = [ok |-> FALSE, bucket |-> Python!Replenish(b, x)]
         /\ Python!Consume(b, n, x) \in Bucket /\ Python!Replenish(b, x) \in Bucket
<1>1. PICK r \in Bucket : r = replenish(b, x) /\ r = Python!Replenish(b, x)
  BY SameReplenish
<1>2. try_consume(b, n, x) = IF r.tokens >= n
                             THEN [ok |-> TRUE, bucket |-> [r EXCEPT !.tokens = r.tokens - n]]
                             ELSE [ok |-> FALSE, bucket |-> r]
  BY <1>1 DEF try_consume
<1>3. [r EXCEPT !.tokens = r.tokens - n] \in Bucket
  BY DEF Bucket
<1>4. Python!CanConsume(b, n, x) <=> r.tokens >= n
  BY <1>1 DEF Python!CanConsume
<1>5. Python!Consume(b, n, x) = [r EXCEPT !.tokens = r.tokens - n]
  BY <1>1 DEF Python!Consume
<1>6. QED
  BY <1>1, <1>2, <1>3, <1>4, <1>5

LEMMA SameAdjust ==
  ASSUME NEW b \in Bucket, NEW d \in Int
  PROVE  adjust(b, d) = Python!Adjust(b, d) /\ adjust(b, d) \in Bucket
<1>1. b.tokens \in Int /\ b.capacity \in Int
  BY DEF Bucket
<1>2. PICK m \in Int : m = AtMost(b.tokens + d, b.capacity) /\ m = Python!Lower(b.capacity, b.tokens + d)
  BY <1>1 DEF AtMost, Python!Lower
<1>3. adjust(b, d) = [b EXCEPT !.tokens = m] /\ Python!Adjust(b, d) = [b EXCEPT !.tokens = m]
  BY <1>2 DEF adjust, Python!Adjust
<1>4. [b EXCEPT !.tokens = m] \in Bucket
  BY DEF Bucket
<1>5. QED
  BY <1>3, <1>4

(* The wait of a refusal, and the header made of it.                       *)
LEMMA SameWait ==
  ASSUME NEW b \in Bucket, NEW n \in Int, NEW x \in Int, ~Python!CanConsume(b, n, x)
  PROVE  /\ deficit_seconds(Python!Replenish(b, x), n) = Python!DeficitSeconds(b, n, x)
         /\ Python!DeficitSeconds(b, n, x) \in Nat
         /\ ratelimit_response(Python!DeficitSeconds(b, n, x))
              = Python!RetryAfter(Python!DeficitSeconds(b, n, x))
<1>1. PICK r \in Bucket : r = replenish(b, x) /\ r = Python!Replenish(b, x)
  BY SameReplenish
<1>2. r.tokens < n /\ r.tokens \in Int
  BY <1>1 DEF Python!CanConsume, Bucket
<1>3. r.refill = b.refill /\ b.refill \in Nat \ {0}
  <2>1. b.refill \in Nat \ {0}
    BY DEF Bucket
  <2>2. [b EXCEPT !.tokens = AtMost(b.tokens + (x - b.ts) * b.refill, b.capacity), !.ts = x].refill = b.refill
    BY DEF Bucket
  <2>3. QED
    BY <1>1, <2>1, <2>2 DEF replenish
<1>4. PICK w \in Nat : w = (n - r.tokens + b.refill - 1) \div b.refill
  <2>1. PICK a \in Nat, d \in Nat \ {0} : a = n - r.tokens + b.refill - 1 /\ d = b.refill
    BY <1>2, <1>3
  <2>2. a \div d \in Nat
    BY <2>1
  <2>3. QED
    BY <2>1, <2>2
<1>5. deficit_seconds(r, n) = w
  BY <1>2, <1>3, <1>4 DEF deficit_seconds
<1>6. Python!DeficitSeconds(b, n, x) = w
  BY <1>1, <1>2, <1>3, <1>4 DEF Python!DeficitSeconds
<1>7. ratelimit_response(w) = Python!RetryAfter(w)
  BY DEF ratelimit_response, Python!RetryAfter, Python!Higher
<1>8. QED
  BY <1>1, <1>5, <1>6, <1>7

-----------------------------------------------------------------------------
(* The maps                                                                *)

Maps(V) == UNION {[S -> V] : S \in SUBSET Payers}

Inserted(V, m, t, v, r) ==
  /\ r \in Maps(V) /\ DOMAIN r = DOMAIN m \cup {t} /\ r[t] = v
  /\ \A x \in DOMAIN m : x # t => r[x] = m[x]

LEMMA MapFacts ==
  ASSUME NEW V, NEW m \in Maps(V), NEW t \in Payers, NEW v \in V
  PROVE  /\ DOMAIN m \subseteq Payers /\ \A x \in DOMAIN m : m[x] \in V
         /\ Inserted(V, m, t, v, insert(m, t, v))
         /\ [m EXCEPT ![t] = v] \in Maps(V)
<1>1. PICK S \in SUBSET Payers : m \in [S -> V]
  BY DEF Maps
<1>2. insert(m, t, v) \in [S \cup {t} -> V] /\ S \cup {t} \in SUBSET Payers
  BY <1>1 DEF insert
<1>3. [m EXCEPT ![t] = v] \in [S -> V]
  BY <1>1
<1>4. QED
  BY <1>1, <1>2, <1>3 DEF Maps, insert, Inserted

Limiters ==
  {l \in [rps : Maps(Bucket), tps : Maps(Bucket), inflight : Maps(Nat)] : DOMAIN l.rps = DOMAIN l.tps}

LEMMA FullBuckets ==
  ASSUME TiersAreSet, NEW t \in Payers
  PROVE  FullRps(t) \in Bucket /\ FullTps(t) \in Bucket
BY DEF TiersAreSet, FullRps, FullTps, NewBucket, Bucket

LEMMA OpenNat == ASSUME NEW l \in Limiters, NEW t \in Payers PROVE Open(l, t) \in Nat
<1>1. l.inflight \in Maps(Nat)
  BY DEF Limiters
<1>2. \A x \in DOMAIN l.inflight : l.inflight[x] \in Nat
  BY <1>1, MapFacts
<1>3. QED
  BY <1>2 DEF Open

(* Creating the buckets of a tenant is not visible.                        *)
LEMMA EnsureInvisible ==
  ASSUME TiersAreSet, NEW l \in Limiters, NEW t \in Payers
  PROVE  /\ ensure(l, t) \in Limiters
         /\ DOMAIN ensure(l, t).tps = DOMAIN l.tps \cup {t}
         /\ RpsOf(ensure(l, t)) = RpsOf(l) /\ TpsOf(ensure(l, t)) = TpsOf(l)
         /\ OpenOf(ensure(l, t)) = OpenOf(l)
         /\ ensure(l, t).rps[t] = RpsOf(l)[t] /\ ensure(l, t).tps[t] = TpsOf(l)[t]
<1>1. /\ l \in [rps : Maps(Bucket), tps : Maps(Bucket), inflight : Maps(Nat)]
      /\ DOMAIN l.rps = DOMAIN l.tps
  BY DEF Limiters
<1>2. CASE t \in DOMAIN l.rps
  <2>1. ensure(l, t) = l
    BY <1>2 DEF ensure
  <2>2. QED
    BY <1>1, <1>2, <2>1 DEF RpsOf, TpsOf
<1>3. CASE t \notin DOMAIN l.rps
  <2> DEFINE m == ensure(l, t)
  <2>1. m = [l EXCEPT !.rps = insert(l.rps, t, FullRps(t)), !.tps = insert(l.tps, t, FullTps(t))]
    BY <1>3 DEF ensure
  <2>2. FullRps(t) \in Bucket /\ FullTps(t) \in Bucket
    BY FullBuckets
  <2>3. /\ m.rps = insert(l.rps, t, FullRps(t)) /\ m.tps = insert(l.tps, t, FullTps(t))
        /\ m.inflight = l.inflight
    BY <1>1, <2>1
  <2>4. /\ m.rps \in Maps(Bucket) /\ DOMAIN m.rps = DOMAIN l.rps \cup {t} /\ m.rps[t] = FullRps(t)
        /\ \A x \in DOMAIN l.rps : x # t => m.rps[x] = l.rps[x]
    <3>1. Inserted(Bucket, l.rps, t, FullRps(t), insert(l.rps, t, FullRps(t)))
      BY <1>1, <2>2, MapFacts
    <3>2. QED
      BY <2>3, <3>1 DEF Inserted
  <2>5. /\ m.tps \in Maps(Bucket) /\ DOMAIN m.tps = DOMAIN l.tps \cup {t} /\ m.tps[t] = FullTps(t)
        /\ \A x \in DOMAIN l.tps : x # t => m.tps[x] = l.tps[x]
    <3>1. Inserted(Bucket, l.tps, t, FullTps(t), insert(l.tps, t, FullTps(t)))
      BY <1>1, <2>2, MapFacts
    <3>2. QED
      BY <2>3, <3>1 DEF Inserted
  <2>6. m \in Limiters
    <3>1. m = [rps |-> m.rps, tps |-> m.tps, inflight |-> m.inflight]
      BY <1>1, <2>1
    <3>2. l.inflight \in Maps(Nat)
      BY <1>1
    <3>3. m \in [rps : Maps(Bucket), tps : Maps(Bucket), inflight : Maps(Nat)]
      BY <2>3, <2>4, <2>5, <3>1, <3>2
    <3>4. QED
      BY <1>1, <2>4, <2>5, <3>3 DEF Limiters
  <2> HIDE DEF m
  <2>7. RpsOf(m) = RpsOf(l) /\ TpsOf(m) = TpsOf(l)
    <3>1. ASSUME NEW x \in Payers
          PROVE  /\ (IF x \in DOMAIN m.rps THEN m.rps[x] ELSE FullRps(x))
                      = IF x \in DOMAIN l.rps THEN l.rps[x] ELSE FullRps(x)
                 /\ (IF x \in DOMAIN m.tps THEN m.tps[x] ELSE FullTps(x))
                      = IF x \in DOMAIN l.tps THEN l.tps[x] ELSE FullTps(x)
      BY <1>1, <1>3, <2>4, <2>5
    <3>2. QED
      BY <3>1 DEF RpsOf, TpsOf
  <2>8. OpenOf(m) = OpenOf(l)
    BY <2>3 DEF OpenOf, Open
  <2>9. m.rps[t] = RpsOf(l)[t] /\ m.tps[t] = TpsOf(l)[t]
    BY <1>1, <1>3, <2>4, <2>5 DEF RpsOf, TpsOf
  <2>10. QED
    BY <2>5, <2>6, <2>7, <2>8, <2>9 DEF m
<1>4. QED
  BY <1>2, <1>3

Written(l, t, p, q, m) ==
  /\ m \in Limiters /\ DOMAIN m.tps = DOMAIN l.tps
  /\ RpsOf(m) = [RpsOf(l) EXCEPT ![t] = p] /\ TpsOf(m) = [TpsOf(l) EXCEPT ![t] = q]
  /\ OpenOf(m) = OpenOf(l)

(* Writing a tenant's buckets is the same in both views,                   *)
LEMMA WriteVisible ==
  ASSUME NEW l \in Limiters, NEW t \in DOMAIN l.tps, NEW p \in Bucket, NEW q \in Bucket,
         NEW m, m = [rps |-> [l.rps EXCEPT ![t] = p], tps |-> [l.tps EXCEPT ![t] = q],
                     inflight |-> l.inflight]
  PROVE  Written(l, t, p, q, m)
<1>1. /\ l.rps \in Maps(Bucket) /\ l.tps \in Maps(Bucket) /\ l.inflight \in Maps(Nat)
      /\ DOMAIN l.rps = DOMAIN l.tps
  BY DEF Limiters
<1>2. t \in Payers
  BY <1>1 DEF Maps
<1>3. /\ m.rps = [l.rps EXCEPT ![t] = p] /\ m.tps = [l.tps EXCEPT ![t] = q]
      /\ m.inflight = l.inflight
  OBVIOUS
<1>4. m.rps \in Maps(Bucket) /\ m.tps \in Maps(Bucket)
  BY <1>1, <1>2, <1>3, MapFacts
<1>5. DOMAIN m.rps = DOMAIN l.rps /\ DOMAIN m.tps = DOMAIN l.tps
  BY <1>3
<1>6. m \in Limiters
  <2>1. m = [rps |-> m.rps, tps |-> m.tps, inflight |-> m.inflight]
    OBVIOUS
  <2>2. m \in [rps : Maps(Bucket), tps : Maps(Bucket), inflight : Maps(Nat)]
    BY <1>1, <1>3, <1>4, <2>1
  <2>3. QED
    BY <1>1, <1>5, <2>2 DEF Limiters
<1>7. RpsOf(m) = [RpsOf(l) EXCEPT ![t] = p] /\ TpsOf(m) = [TpsOf(l) EXCEPT ![t] = q]
  BY <1>1, <1>2, <1>3, <1>5 DEF RpsOf, TpsOf
<1>8. OpenOf(m) = OpenOf(l)
  BY <1>3 DEF OpenOf, Open
<1>9. QED
  BY <1>5, <1>6, <1>7, <1>8 DEF Written

Tallied(l, t, n, m) ==
  /\ m \in Limiters /\ DOMAIN m.tps = DOMAIN l.tps
  /\ RpsOf(m) = RpsOf(l) /\ TpsOf(m) = TpsOf(l)
  /\ OpenOf(m) = [OpenOf(l) EXCEPT ![t] = n]

(* and so is writing its count.                                            *)
LEMMA CountVisible ==
  ASSUME NEW l \in Limiters, NEW t \in Payers, NEW n \in Nat,
         NEW m, m = [rps |-> l.rps, tps |-> l.tps, inflight |-> insert(l.inflight, t, n)]
  PROVE  Tallied(l, t, n, m)
<1>1. /\ l.rps \in Maps(Bucket) /\ l.tps \in Maps(Bucket) /\ l.inflight \in Maps(Nat)
      /\ DOMAIN l.rps = DOMAIN l.tps
  BY DEF Limiters
<1>2. m.rps = l.rps /\ m.tps = l.tps /\ m.inflight = insert(l.inflight, t, n)
  OBVIOUS
<1>3. /\ m.inflight \in Maps(Nat) /\ DOMAIN m.inflight = DOMAIN l.inflight \cup {t}
      /\ m.inflight[t] = n /\ \A x \in DOMAIN l.inflight : x # t => m.inflight[x] = l.inflight[x]
  <2>1. Inserted(Nat, l.inflight, t, n, insert(l.inflight, t, n))
    BY <1>1, MapFacts
  <2>2. QED
    BY <1>2, <2>1 DEF Inserted
<1>4. m \in Limiters
  <2>1. m \in [rps : Maps(Bucket), tps : Maps(Bucket), inflight : Maps(Nat)]
    BY <1>1, <1>2, <1>3
  <2>2. QED
    BY <1>1, <1>2, <2>1 DEF Limiters
<1>5. RpsOf(m) = RpsOf(l) /\ TpsOf(m) = TpsOf(l)
  BY <1>2 DEF RpsOf, TpsOf
<1>6. OpenOf(m) = [OpenOf(l) EXCEPT ![t] = n]
  BY <1>3 DEF OpenOf, Open
<1>7. QED
  BY <1>2, <1>4, <1>5, <1>6 DEF Tallied

LEMMA ViewTypes ==
  ASSUME TiersAreSet, NEW l \in Limiters, NEW t \in Payers
  PROVE  /\ RpsOf(l)[t] \in Bucket /\ TpsOf(l)[t] \in Bucket
         /\ OpenOf(l)[t] = Open(l, t) /\ Open(l, t) \in Nat
<1>1. l.rps \in Maps(Bucket) /\ l.tps \in Maps(Bucket)
  BY DEF Limiters
<1>2. /\ \A x \in DOMAIN l.rps : l.rps[x] \in Bucket
      /\ \A x \in DOMAIN l.tps : l.tps[x] \in Bucket
  BY <1>1 DEF Maps
<1>3. QED
  BY <1>2, FullBuckets, OpenNat DEF RpsOf, TpsOf, OpenOf

-----------------------------------------------------------------------------
(* The calls                                                               *)

\* What admit answers and leaves behind, in the words of the Python limiter.
Refused(l, t, cost, a) ==
  /\ ~Python!CanConsume(TpsOf(l)[t], cost, now)
  /\ a.reason = "tps" /\ a.wait = Python!DeficitSeconds(TpsOf(l)[t], cost, now)
  /\ TpsOf(a.lim) = [TpsOf(l) EXCEPT ![t] = Python!Replenish(TpsOf(l)[t], now)]
  /\ RpsOf(a.lim) = RpsOf(l) /\ OpenOf(a.lim) = OpenOf(l)

Refunding(l, t, cost, a) ==
  /\ Python!CanConsume(TpsOf(l)[t], cost, now)
  /\ ~Python!CanConsume(RpsOf(l)[t], 1, now)
  /\ a.reason = "rps"
  /\ TpsOf(a.lim) = [TpsOf(l) EXCEPT ![t] =
                       Python!Adjust(Python!Consume(TpsOf(l)[t], cost, now), cost)]
  /\ RpsOf(a.lim) = [RpsOf(l) EXCEPT ![t] = Python!Replenish(RpsOf(l)[t], now)]
  /\ OpenOf(a.lim) = OpenOf(l)

Admitted(l, t, cost, a) ==
  /\ Python!CanConsume(TpsOf(l)[t], cost, now)
  /\ Python!CanConsume(RpsOf(l)[t], 1, now)
  /\ a.reason = ""
  /\ TpsOf(a.lim) = [TpsOf(l) EXCEPT ![t] = Python!Consume(TpsOf(l)[t], cost, now)]
  /\ RpsOf(a.lim) = [RpsOf(l) EXCEPT ![t] = Python!Consume(RpsOf(l)[t], 1, now)]
  /\ OpenOf(a.lim) = [OpenOf(l) EXCEPT ![t] = OpenOf(l)[t] + 1]

AdmitAnswers(l, t, cost, a) ==
  /\ a.lim \in Limiters
  /\ DOMAIN a.lim.tps = DOMAIN l.tps \cup {t}
  /\ \/ /\ OpenOf(l)[t] >= InflightCap[t]
        /\ a.reason = "inflight"
        /\ TpsOf(a.lim) = TpsOf(l) /\ RpsOf(a.lim) = RpsOf(l) /\ OpenOf(a.lim) = OpenOf(l)
     \/ /\ ~(OpenOf(l)[t] >= InflightCap[t])
        /\ Refused(l, t, cost, a) \/ Refunding(l, t, cost, a) \/ Admitted(l, t, cost, a)

LEMMA AdmitOutcome ==
  ASSUME TiersAreSet, NEW l0 \in Limiters, NEW t \in Payers, NEW cost \in Nat, now \in Nat
  PROVE  AdmitAnswers(l0, t, cost, admit(l0, t, cost))
<1>1. PICK l \in Limiters : l = ensure(l0, t)
  BY EnsureInvisible
<1>2. /\ DOMAIN l.tps = DOMAIN l0.tps \cup {t}
      /\ RpsOf(l) = RpsOf(l0) /\ TpsOf(l) = TpsOf(l0) /\ OpenOf(l) = OpenOf(l0)
      /\ l.rps[t] = RpsOf(l0)[t] /\ l.tps[t] = TpsOf(l0)[t]
  BY <1>1, EnsureInvisible
<1>3. PICK p \in Bucket, q \in Bucket : p = TpsOf(l0)[t] /\ q = RpsOf(l0)[t]
  BY ViewTypes
<1>4. l.rps[t] = q /\ l.tps[t] = p /\ Open(l, t) = OpenOf(l0)[t] /\ Open(l, t) \in Nat
  BY <1>2, <1>3, ViewTypes
<1>5. /\ DOMAIN l.rps = DOMAIN l.tps /\ t \in DOMAIN l.tps
      /\ l \in [rps : Maps(Bucket), tps : Maps(Bucket), inflight : Maps(Nat)]
      /\ \E S \in SUBSET Payers : l.rps \in [S -> Bucket]
  BY <1>2 DEF Limiters, Maps
<1> DEFINE tc == try_consume(p, cost, now)
           rc == try_consume(q, 1, now)
<1>6. admit(l0, t, cost) =
        IF Open(l, t) >= InflightCap[t] THEN [lim |-> l, reason |-> "inflight", wait |-> 1]
        ELSE IF ~tc.ok
        THEN [lim |-> [l EXCEPT !.tps[t] = tc.bucket], reason |-> "tps",
              wait |-> deficit_seconds(tc.bucket, cost)]
        ELSE IF ~rc.ok
        THEN [lim |-> [l EXCEPT !.tps[t] = adjust(tc.bucket, cost), !.rps[t] = rc.bucket],
              reason |-> "rps", wait |-> deficit_seconds(rc.bucket, 1)]
        ELSE [lim |-> [l EXCEPT !.tps[t] = tc.bucket, !.rps[t] = rc.bucket,
                                !.inflight = insert(l.inflight, t, Open(l, t) + 1)],
              reason |-> "", wait |-> 0]
  BY <1>1, <1>4 DEF admit
<1> HIDE DEF tc, rc
<1>7. PICK a : a = admit(l0, t, cost)
  OBVIOUS
<1>8. CASE Open(l, t) >= InflightCap[t]
  <2>1. a = [lim |-> l, reason |-> "inflight", wait |-> 1]
    BY <1>6, <1>7, <1>8
  <2>2. AdmitAnswers(l0, t, cost, a)
    BY <1>2, <1>4, <1>8, <2>1 DEF AdmitAnswers
  <2>3. QED
    BY <1>7, <2>2
<1>9. CASE ~(Open(l, t) >= InflightCap[t]) /\ ~Python!CanConsume(p, cost, now)
  <2>1. PICK r \in Bucket : r = Python!Replenish(p, now) /\ tc = [ok |-> FALSE, bucket |-> r]
    BY <1>9, SameConsume DEF tc
  <2>2. a.lim = [l EXCEPT !.tps[t] = r] /\ a.reason = "tps" /\ a.wait = deficit_seconds(r, cost)
    BY <1>6, <1>7, <1>9, <2>1
  <2>3. a.lim = [rps |-> [l.rps EXCEPT ![t] = q], tps |-> [l.tps EXCEPT ![t] = r],
                 inflight |-> l.inflight]
    <3>1. [l.rps EXCEPT ![t] = q] = l.rps
      BY <1>4, <1>5
    <3>2. QED
      BY <1>5, <2>2, <3>1
  <2>4. /\ a.lim \in Limiters /\ DOMAIN a.lim.tps = DOMAIN l.tps
        /\ RpsOf(a.lim) = [RpsOf(l) EXCEPT ![t] = q]
        /\ TpsOf(a.lim) = [TpsOf(l) EXCEPT ![t] = r]
        /\ OpenOf(a.lim) = OpenOf(l)
    <3>1. Written(l, t, q, r, a.lim)
      BY <1>5, <2>3, WriteVisible
    <3>2. QED
      BY <3>1 DEF Written
  <2>5. [RpsOf(l) EXCEPT ![t] = q] = RpsOf(l0)
    BY <1>2, <1>3 DEF RpsOf
  <2>6. a.wait = Python!DeficitSeconds(p, cost, now)
    BY <1>9, <2>1, <2>2, SameWait
  <2>7. Refused(l0, t, cost, a)
    BY <1>2, <1>3, <1>9, <2>1, <2>2, <2>4, <2>5, <2>6 DEF Refused
  <2>8. AdmitAnswers(l0, t, cost, a)
    BY <1>2, <1>4, <1>9, <2>4, <2>7 DEF AdmitAnswers
  <2>9. QED
    BY <1>7, <2>8
<1>10. CASE /\ ~(Open(l, t) >= InflightCap[t])
            /\ Python!CanConsume(p, cost, now) /\ ~Python!CanConsume(q, 1, now)
  <2>1. PICK u \in Bucket : u = Python!Consume(p, cost, now) /\ tc = [ok |-> TRUE, bucket |-> u]
    BY <1>10, SameConsume DEF tc
  <2>2. PICK r \in Bucket : r = Python!Replenish(q, now) /\ rc = [ok |-> FALSE, bucket |-> r]
    BY <1>10, SameConsume DEF rc
  <2>3. PICK v \in Bucket : v = adjust(u, cost) /\ v = Python!Adjust(u, cost)
    BY SameAdjust
  <2>4. a.lim = [l EXCEPT !.tps[t] = v, !.rps[t] = r] /\ a.reason = "rps"
    <3>1. tc.ok = TRUE /\ tc.bucket = u /\ rc.ok = FALSE /\ rc.bucket = r
      BY <2>1, <2>2
    <3>2. a = [lim |-> [l EXCEPT !.tps[t] = v, !.rps[t] = r], reason |-> "rps",
               wait |-> deficit_seconds(r, 1)]
      BY <1>6, <1>7, <1>10, <2>3, <3>1
    <3>3. QED
      BY <3>2
  <2>5. a.lim = [rps |-> [l.rps EXCEPT ![t] = r], tps |-> [l.tps EXCEPT ![t] = v],
                 inflight |-> l.inflight]
    BY <1>5, <2>4
  <2>6. /\ a.lim \in Limiters /\ DOMAIN a.lim.tps = DOMAIN l.tps
        /\ RpsOf(a.lim) = [RpsOf(l) EXCEPT ![t] = r]
        /\ TpsOf(a.lim) = [TpsOf(l) EXCEPT ![t] = v]
        /\ OpenOf(a.lim) = OpenOf(l)
    <3>1. Written(l, t, r, v, a.lim)
      BY <1>5, <2>5, WriteVisible
    <3>2. QED
      BY <3>1 DEF Written
  <2>7. Refunding(l0, t, cost, a)
    BY <1>2, <1>3, <1>10, <2>1, <2>2, <2>3, <2>4, <2>6 DEF Refunding
  <2>8. AdmitAnswers(l0, t, cost, a)
    BY <1>2, <1>4, <1>10, <2>6, <2>7 DEF AdmitAnswers
  <2>9. QED
    BY <1>7, <2>8
<1>11. CASE /\ ~(Open(l, t) >= InflightCap[t])
            /\ Python!CanConsume(p, cost, now) /\ Python!CanConsume(q, 1, now)
  <2>1. PICK u \in Bucket : u = Python!Consume(p, cost, now) /\ tc = [ok |-> TRUE, bucket |-> u]
    BY <1>11, SameConsume DEF tc
  <2>2. PICK r \in Bucket : r = Python!Consume(q, 1, now) /\ rc = [ok |-> TRUE, bucket |-> r]
    BY <1>11, SameConsume DEF rc
  <2>3. PICK n \in Nat : n = Open(l, t) + 1
    BY <1>4
  <2>4. /\ a.lim = [l EXCEPT !.tps[t] = u, !.rps[t] = r, !.inflight = insert(l.inflight, t, n)]
        /\ a.reason = ""
    <3>1. tc.ok = TRUE /\ tc.bucket = u /\ rc.ok = TRUE /\ rc.bucket = r
      BY <2>1, <2>2
    <3>2. a = [lim |-> [l EXCEPT !.tps[t] = u, !.rps[t] = r, !.inflight = insert(l.inflight, t, n)],
               reason |-> "", wait |-> 0]
      BY <1>6, <1>7, <1>11, <2>3, <3>1
    <3>3. QED
      BY <3>2
  <2>5. PICK k : k = [rps |-> [l.rps EXCEPT ![t] = r], tps |-> [l.tps EXCEPT ![t] = u],
                      inflight |-> l.inflight]
    OBVIOUS
  <2>6. a.lim = [rps |-> k.rps, tps |-> k.tps, inflight |-> insert(k.inflight, t, n)]
    BY <1>5, <2>4, <2>5
  <2>7. /\ k \in Limiters /\ DOMAIN k.tps = DOMAIN l.tps
        /\ RpsOf(k) = [RpsOf(l) EXCEPT ![t] = r] /\ TpsOf(k) = [TpsOf(l) EXCEPT ![t] = u]
        /\ OpenOf(k) = OpenOf(l)
    <3>1. Written(l, t, r, u, k)
      BY <1>5, <2>5, WriteVisible
    <3>2. QED
      BY <3>1 DEF Written
  <2>8. /\ a.lim \in Limiters /\ DOMAIN a.lim.tps = DOMAIN k.tps
        /\ RpsOf(a.lim) = RpsOf(k) /\ TpsOf(a.lim) = TpsOf(k)
        /\ OpenOf(a.lim) = [OpenOf(k) EXCEPT ![t] = n]
    <3>1. Tallied(k, t, n, a.lim)
      BY <2>6, <2>7, CountVisible
    <3>2. QED
      BY <3>1 DEF Tallied
  <2>9. Admitted(l0, t, cost, a)
    BY <1>2, <1>3, <1>4, <1>11, <2>1, <2>2, <2>3, <2>4, <2>7, <2>8 DEF Admitted
  <2>10. AdmitAnswers(l0, t, cost, a)
    BY <1>2, <1>4, <1>11, <2>7, <2>8, <2>9 DEF AdmitAnswers
  <2>11. QED
    BY <1>7, <2>10
<1>12. QED
  BY <1>8, <1>9, <1>10, <1>11

ReleaseLeaves(l, t, delta, m) ==
  /\ m \in Limiters /\ DOMAIN m.tps = DOMAIN l.tps
  /\ TpsOf(m) = [TpsOf(l) EXCEPT ![t] = Python!Adjust(TpsOf(l)[t], delta)]
  /\ RpsOf(m) = RpsOf(l)
  /\ OpenOf(m) = [OpenOf(l) EXCEPT ![t] = Python!Higher(0, OpenOf(l)[t] - 1)]

LEMMA ReleaseOutcome ==
  ASSUME TiersAreSet, NEW l \in Limiters, NEW t \in Payers, t \in DOMAIN l.tps,
         NEW reserved \in Nat, NEW actual \in Nat
  PROVE  ReleaseLeaves(l, t, reserved - actual, release(l, t, reserved, actual))
<1>1. /\ l \in [rps : Maps(Bucket), tps : Maps(Bucket), inflight : Maps(Nat)]
      /\ DOMAIN l.rps = DOMAIN l.tps
      /\ \E S \in SUBSET Payers : l.rps \in [S -> Bucket]
      /\ \E S \in SUBSET Payers : l.tps \in [S -> Bucket]
  BY DEF Limiters, Maps
<1>2. PICK p \in Bucket, q \in Bucket :
        p = l.tps[t] /\ q = l.rps[t] /\ p = TpsOf(l)[t] /\ q = RpsOf(l)[t]
  BY <1>1 DEF TpsOf, RpsOf
<1>3. PICK d \in Int : d = reserved - actual
  OBVIOUS
<1>4. PICK v \in Bucket : v = adjust(p, d) /\ v = Python!Adjust(p, d)
  BY SameAdjust
<1>5. PICK n \in Nat : /\ n = IF Open(l, t) > 0 THEN Open(l, t) - 1 ELSE 0
                       /\ n = Python!Higher(0, OpenOf(l)[t] - 1)
  BY ViewTypes DEF Python!Higher
<1>6. PICK k : k = [rps |-> [l.rps EXCEPT ![t] = q], tps |-> [l.tps EXCEPT ![t] = v],
                    inflight |-> l.inflight]
  OBVIOUS
<1>7. PICK m : m = release(l, t, reserved, actual)
  OBVIOUS
<1>8. m = [rps |-> k.rps, tps |-> k.tps, inflight |-> insert(k.inflight, t, n)]
  <2>1. m = [l EXCEPT !.inflight = insert(l.inflight, t, n), !.tps = [l.tps EXCEPT ![t] = v]]
    <3>1. release(l, t, reserved, actual) =
            [l EXCEPT !.inflight = insert(l.inflight, t, IF Open(l, t) > 0 THEN Open(l, t) - 1 ELSE 0),
                      !.tps = IF t \in DOMAIN l.tps
                              THEN insert(l.tps, t, adjust(l.tps[t], reserved - actual))
                              ELSE l.tps]
      BY <1>1 DEF release
    <3>2. insert(l.inflight, t, IF Open(l, t) > 0 THEN Open(l, t) - 1 ELSE 0)
            = insert(l.inflight, t, n)
      BY <1>5
    <3>3. (IF t \in DOMAIN l.tps THEN insert(l.tps, t, adjust(l.tps[t], reserved - actual))
           ELSE l.tps) = [l.tps EXCEPT ![t] = v]
      BY <1>1, <1>2, <1>3, <1>4 DEF insert
    <3>4. QED
      BY <1>7, <3>1, <3>2, <3>3
  <2>2. [l.rps EXCEPT ![t] = q] = l.rps
    BY <1>1, <1>2
  <2>3. QED
    BY <1>1, <1>6, <2>1, <2>2
<1>9. Written(l, t, q, v, k)
  BY <1>6, WriteVisible
<1>10. Tallied(k, t, n, m)
  <2>1. k \in Limiters
    BY <1>9 DEF Written
  <2>2. QED
    BY <1>8, <2>1, CountVisible
<1>11. [RpsOf(l) EXCEPT ![t] = q] = RpsOf(l)
  BY <1>2 DEF RpsOf
<1>12. ReleaseLeaves(l, t, d, m)
  BY <1>2, <1>4, <1>5, <1>9, <1>10, <1>11 DEF ReleaseLeaves, Written, Tallied
<1>13. QED
  BY <1>3, <1>7, <1>12

-----------------------------------------------------------------------------
(* The refinement                                                          *)

\* The buckets of a tenant with a live request exist: release finds them.
RInv ==
  /\ lim \in Limiters
  /\ now \in Nat
  /\ req \in [Calls -> [phase : {"new", "live", "done"}, reserved : 0..MaxOutput]]
  /\ charged \in [Payers -> Int]
  /\ denied \in [Payers -> [cost : Int, due : Int]]
  /\ \A c \in Calls : req[c].phase = "live" => PayerOf[c] \in DOMAIN lim.tps

LEMMA RInvInit ==
  ASSUME TiersAreSet, RLimiterInit
  PROVE  RInv /\ Python!LimiterInit
<1>1. Nothing \in Maps(Bucket) /\ Nothing \in Maps(Nat) /\ DOMAIN Nothing = {}
  <2>1. Nothing \in [{} -> Bucket] /\ Nothing \in [{} -> Nat] /\ {} \in SUBSET Payers
    BY DEF Nothing
  <2>2. QED
    BY <2>1 DEF Maps
<1>2. lim \in Limiters /\ lim.rps = Nothing /\ lim.tps = Nothing /\ lim.inflight = Nothing
  <2>1. lim = [rps |-> Nothing, tps |-> Nothing, inflight |-> Nothing]
    BY DEF RLimiterInit
  <2>2. lim \in [rps : Maps(Bucket), tps : Maps(Bucket), inflight : Maps(Nat)]
    BY <1>1, <2>1
  <2>3. QED
    BY <2>1, <2>2 DEF Limiters
<1>3. RInv
  <2>1. 0 \in 0..MaxOutput
    BY DEF TiersAreSet
  <2>2. QED
    BY <1>2, <2>1 DEF RInv, RLimiterInit, NoDenial
<1>4. ASSUME NEW t \in Payers
      PROVE  /\ FullRps(t) = Python!TokenBucket(Python!Higher(1, Rps[t]), Rps[t])
             /\ FullTps(t) = Python!TokenBucket(Tps[t], Tps[t])
  <2>1. Rps[t] \in Nat
    BY DEF TiersAreSet
  <2>2. (IF Rps[t] > 1 THEN Rps[t] ELSE 1) = Python!Higher(1, Rps[t])
    BY <2>1 DEF Python!Higher
  <2>3. QED
    BY <2>2 DEF FullRps, FullTps, NewBucket, Python!TokenBucket
<1>5. /\ RpsOf(lim) = [t \in Payers |-> Python!TokenBucket(Python!Higher(1, Rps[t]), Rps[t])]
      /\ TpsOf(lim) = [t \in Payers |-> Python!TokenBucket(Tps[t], Tps[t])]
      /\ OpenOf(lim) = [t \in Payers |-> 0]
  BY <1>1, <1>2, <1>4 DEF RpsOf, TpsOf, OpenOf, Open
<1>6. Python!LimiterInit
  BY <1>5 DEF RLimiterInit, Python!LimiterInit, NoDenial, Python!NoRefusal
<1>7. QED
  BY <1>3, <1>6

LEMMA EnterStep ==
  ASSUME TiersAreSet, RInv, NEW c \in Calls, NEW i \in InputTokens, NEW k \in AskedTokens,
         RustEnters(c, i, k)
  PROVE  RInv' /\ [Python!LimiterNext]_(Python!limiterVars)
<1> DEFINE t == PayerOf[c]
           reserved == ReserveOutput(k)
           cost == i + reserved
<1>1. /\ t \in Payers /\ reserved \in 0..MaxOutput /\ reserved = Python!ReservedOutput(k)
      /\ cost \in Nat /\ now \in Nat /\ lim \in Limiters
  BY DEF TiersAreSet, RInv, ReserveOutput, AtMost, Python!ReservedOutput, Python!Lower
<1>2. PICK a : a = admit(lim, t, cost)
  OBVIOUS
<1>3. AdmitAnswers(lim, t, cost, a)
  BY <1>1, <1>2, AdmitOutcome
<1>4. /\ req[c].phase = "new" /\ lim' = a.lim /\ now' = now
      /\ req' = IF a.reason = "" THEN [req EXCEPT ![c] = [phase |-> "live", reserved |-> reserved]]
                ELSE req
      /\ charged' = [charged EXCEPT ![t] = IF a.reason = "" THEN charged[t] + cost ELSE charged[t]]
      /\ denied' = [denied EXCEPT ![t] =
           CASE a.reason = "" -> NoDenial
             [] a.reason = "tps" -> [cost |-> cost, due |-> now + ratelimit_response(a.wait)]
             [] OTHER -> denied[t]]
  BY <1>2 DEF RustEnters
<1> HIDE DEF t, reserved, cost
<1>5. lim' \in Limiters /\ DOMAIN lim'.tps = DOMAIN lim.tps \cup {t}
  BY <1>3, <1>4 DEF AdmitAnswers
<1>6. /\ now' \in Nat
      /\ \A b \in Calls : req'[b].phase = "live" => PayerOf[b] \in DOMAIN lim'.tps
      /\ req' \in [Calls -> [phase : {"new", "live", "done"}, reserved : 0..MaxOutput]]
      /\ charged' \in [Payers -> Int]
  <2>1. \A b \in Calls : b # c => req'[b] = req[b]
    BY <1>4 DEF RInv
  <2>2. \A b \in Calls : req'[b].phase = "live" => PayerOf[b] \in DOMAIN lim'.tps
    BY <1>5, <2>1 DEF RInv, t
  <2>3. [phase |-> "live", reserved |-> reserved] \in [phase : {"new", "live", "done"}, reserved : 0..MaxOutput]
    BY <1>1
  <2>4. req' \in [Calls -> [phase : {"new", "live", "done"}, reserved : 0..MaxOutput]]
    BY <1>4, <2>3 DEF RInv
  <2>5. charged[t] \in Int /\ charged[t] + cost \in Int
    BY <1>1 DEF RInv
  <2>6. charged' \in [Payers -> Int]
    BY <1>4, <2>5 DEF RInv
  <2>7. QED
    BY <1>1, <1>4, <2>2, <2>4, <2>6
<1>7. CASE a.reason = "inflight"
  <2>1. /\ TpsOf(a.lim) = TpsOf(lim) /\ RpsOf(a.lim) = RpsOf(lim) /\ OpenOf(a.lim) = OpenOf(lim)
    BY <1>3, <1>7 DEF AdmitAnswers, Refused, Refunding, Admitted
  <2>2. req' = req /\ charged' = charged /\ denied' = denied
    BY <1>1, <1>4, <1>7 DEF RInv
  <2>3. UNCHANGED Python!limiterVars
    BY <1>4, <2>1, <2>2 DEF Python!limiterVars
  <2>4. RInv'
    BY <1>5, <1>6, <2>2 DEF RInv
  <2>5. QED
    BY <2>3, <2>4
<1>8. CASE a.reason = "tps"
  <2>1. ~(OpenOf(lim)[t] >= InflightCap[t]) /\ Refused(lim, t, cost, a)
    BY <1>3, <1>8 DEF AdmitAnswers, Refused, Refunding, Admitted
  <2>2. req' = req /\ charged' = charged
    BY <1>1, <1>4, <1>8 DEF RInv
  <2>3. PICK w \in Nat : w = Python!DeficitSeconds(TpsOf(lim)[t], cost, now) /\ w = a.wait
    BY <1>1, <2>1, ViewTypes, SameWait DEF Refused
  <2>4. PICK u \in Nat : u = ratelimit_response(w) /\ u = Python!RetryAfter(w)
    BY DEF ratelimit_response, Python!RetryAfter, Python!Higher
  <2>5. denied' = [denied EXCEPT ![t] = [cost |-> cost, due |-> now + u]]
    BY <1>4, <1>8, <2>3, <2>4
  <2>6. RInv'
    <3>1. [cost |-> cost, due |-> now + u] \in [cost : Int, due : Int]
      BY <1>1
    <3>2. denied' \in [Payers -> [cost : Int, due : Int]]
      BY <2>5, <3>1 DEF RInv
    <3>3. QED
      BY <1>5, <1>6, <3>2 DEF RInv
  <2>7. Python!RefuseTps(c, i, k)
    <3>1. denied' = [denied EXCEPT ![t] = IF w < 0 THEN Python!NoRefusal
                                          ELSE [cost |-> cost, due |-> now + Python!RetryAfter(w)]]
      <4>1. (IF w < 0 THEN Python!NoRefusal ELSE [cost |-> cost, due |-> now + Python!RetryAfter(w)])
              = [cost |-> cost, due |-> now + u]
        BY <2>4
      <4>2. QED
        BY <2>5, <4>1
    <3>2. cost = i + Python!ReservedOutput(k)
      BY <1>1 DEF cost
    <3>3. /\ TpsOf(lim)' = [TpsOf(lim) EXCEPT ![t] = Python!Replenish(TpsOf(lim)[t], now)]
          /\ RpsOf(lim)' = RpsOf(lim) /\ OpenOf(lim)' = OpenOf(lim)
      BY <1>4, <2>1 DEF Refused
    <3>4. QED
      BY <1>4, <2>1, <2>2, <2>3, <3>1, <3>2, <3>3
         DEF Python!RefuseTps, Refused, Python!InflightFull, t
  <2>8. QED
    BY <2>6, <2>7 DEF Python!LimiterNext
<1>9. CASE a.reason = "rps"
  <2>1. ~(OpenOf(lim)[t] >= InflightCap[t]) /\ Refunding(lim, t, cost, a)
    BY <1>3, <1>9 DEF AdmitAnswers, Refused, Refunding, Admitted
  <2>2. req' = req /\ charged' = charged /\ denied' = denied
    BY <1>1, <1>4, <1>9 DEF RInv
  <2>3. RInv'
    BY <1>5, <1>6, <2>2 DEF RInv
  <2>4. Python!RefuseRps(c, i, k)
    BY <1>1, <1>4, <2>1, <2>2
       DEF Python!RefuseRps, Python!Refunded, Refunding, Python!InflightFull, t, cost
  <2>5. QED
    BY <2>3, <2>4 DEF Python!LimiterNext
<1>10. CASE a.reason = ""
  <2>1. ~(OpenOf(lim)[t] >= InflightCap[t]) /\ Admitted(lim, t, cost, a)
    BY <1>3, <1>10 DEF AdmitAnswers, Refused, Refunding, Admitted
  <2>2. /\ req' = [req EXCEPT ![c] = [phase |-> "live", reserved |-> reserved]]
        /\ charged' = [charged EXCEPT ![t] = charged[t] + cost]
        /\ denied' = [denied EXCEPT ![t] = Python!NoRefusal]
    BY <1>4, <1>10 DEF NoDenial, Python!NoRefusal
  <2>3. RInv'
    BY <1>1, <1>5, <1>6, <2>2 DEF RInv, Python!NoRefusal
  <2>4. Python!Admit(c, i, k)
    BY <1>1, <1>4, <2>1, <2>2
       DEF Python!Admit, Admitted, Python!InflightFull, t, cost
  <2>5. QED
    BY <2>3, <2>4 DEF Python!LimiterNext
<1>11. QED
  BY <1>3, <1>7, <1>8, <1>9, <1>10 DEF AdmitAnswers, Refused, Refunding, Admitted

LEMMA LeaveStep ==
  ASSUME TiersAreSet, RInv, NEW c \in Calls, NEW answered \in BOOLEAN, RustLeaves(c, answered)
  PROVE  RInv' /\ [Python!LimiterNext]_(Python!limiterVars)
<1> DEFINE t == PayerOf[c]
<1>1. t \in Payers /\ t \in DOMAIN lim.tps /\ lim \in Limiters
  BY DEF TiersAreSet, RInv, RustLeaves
<1>2. PICK r \in 0..MaxOutput : r = req[c].reserved
  BY DEF RInv
<1>3. PICK n \in 0..MaxActual : n = (IF answered THEN r ELSE 0) /\ n <= r
  BY <1>2 DEF TiersAreSet
<1>4. PICK m : m = release(lim, t, r, n)
  OBVIOUS
<1>5. /\ req[c].phase = "live" /\ lim' = m
      /\ req' = [req EXCEPT ![c] = [phase |-> "done", reserved |-> 0]]
      /\ charged' = [charged EXCEPT ![t] = charged[t] - (r - n)]
      /\ now' = now /\ denied' = denied
  BY <1>2, <1>3, <1>4 DEF RustLeaves
<1>6. r \in Nat /\ n \in Nat
  BY <1>2, <1>3 DEF TiersAreSet
<1> HIDE DEF t
<1>7. ReleaseLeaves(lim, t, r - n, m)
  BY <1>1, <1>4, <1>6, ReleaseOutcome
<1>8. RInv'
  <2>1. lim' \in Limiters /\ DOMAIN lim'.tps = DOMAIN lim.tps
    BY <1>5, <1>7 DEF ReleaseLeaves
  <2>2. 0 \in 0..MaxOutput /\ charged[t] - (r - n) \in Int
    BY <1>1, <1>2, <1>6 DEF RInv, TiersAreSet
  <2>3. /\ req' \in [Calls -> [phase : {"new", "live", "done"}, reserved : 0..MaxOutput]]
        /\ charged' \in [Payers -> Int]
    BY <1>1, <1>5, <2>2 DEF RInv
  <2>4. \A b \in Calls : req'[b].phase = "live" => PayerOf[b] \in DOMAIN lim'.tps
    BY <1>5, <2>1 DEF RInv
  <2>5. QED
    BY <1>5, <2>1, <2>3, <2>4 DEF RInv
<1>9. denied' = [denied EXCEPT ![t] = IF r - n < 0 THEN Python!NoRefusal ELSE denied[t]]
  BY <1>1, <1>3, <1>5, <1>6 DEF RInv
<1>10. Python!Release(c, n)
  BY <1>2, <1>5, <1>7, <1>9 DEF Python!Release, ReleaseLeaves, t
<1>11. QED
  BY <1>8, <1>10 DEF Python!LimiterNext

\* Whatever a Rust limiter does, the Python limiter it mirrors (tenancy.rs:1) could have
\* done: buckets made late, the refund of a refused request and the release that never
\* learns what was streamed included.  So the bounds proved of tenancy.py, on what a
\* tenant spends and on the honesty of a refusal, hold for the Rust gateway.
THEOREM RustMirrorsPython == ASSUME TiersAreSet PROVE RLimiterSpec => MirrorsPython
<1>1. RLimiterInit => RInv /\ Python!LimiterInit
  BY RInvInit
<1>2. RInv /\ [RLimiterNext]_rlimiterVars => RInv' /\ [Python!LimiterNext]_(Python!limiterVars)
  <2>1. SUFFICES ASSUME RInv, [RLimiterNext]_rlimiterVars
                 PROVE  RInv' /\ [Python!LimiterNext]_(Python!limiterVars)
    OBVIOUS
  <2>2. ASSUME NEW c \in Calls, NEW i \in InputTokens, NEW k \in AskedTokens, RustEnters(c, i, k)
        PROVE  RInv' /\ [Python!LimiterNext]_(Python!limiterVars)
    BY <2>1, <2>2, EnterStep
  <2>3. ASSUME NEW c \in Calls, NEW answered \in BOOLEAN, RustLeaves(c, answered)
        PROVE  RInv' /\ [Python!LimiterNext]_(Python!limiterVars)
    BY <2>1, <2>3, LeaveStep
  <2>4. CASE ClockTicks
    <3>1. RInv'
      BY <2>1, <2>4 DEF RInv, ClockTicks
    <3>2. Python!Tick
      BY <2>4 DEF ClockTicks, Python!Tick
    <3>3. QED
      BY <3>1, <3>2 DEF Python!LimiterNext
  <2>5. CASE UNCHANGED rlimiterVars
    <3>1. RInv'
      BY <2>1, <2>5 DEF RInv, rlimiterVars
    <3>2. UNCHANGED Python!limiterVars
      BY <2>5 DEF rlimiterVars, Python!limiterVars
    <3>3. QED
      BY <3>1, <3>2
  <2>6. QED
    BY <2>1, <2>2, <2>3, <2>4, <2>5 DEF RLimiterNext
<1>3. QED
  BY <1>1, <1>2, PTL DEF RLimiterSpec, MirrorsPython, Python!LimiterSpec

PythonP == INSTANCE RateLimiterProofs WITH
  clock <- now, rpsB <- RpsOf(lim), tpsB <- TpsOf(lim), open <- OpenOf(lim),
  call <- req, spent <- charged, refusal <- denied

\* In the Rust gateway, too, a tenant is never charged more than a full bucket and what
\* time refilled, and a refusal takes nothing and names a wait that suffices
\* (tenancy.rs:58-88, 171-227).
COROLLARY RustQuotasHold ==
  ASSUME TiersAreSet
  PROVE  RLimiterSpec => []Python!ThroughputBound /\ Python!RefusalsAreHonest
<1>1. PythonP!LimiterAssumption
  BY DEF TiersAreSet, PythonP!LimiterAssumption
<1>2. PythonP!LimiterSpec => []PythonP!ThroughputBound
  BY <1>1, PythonP!TenantThroughputIsBounded
<1>3. PythonP!LimiterSpec => PythonP!RefusalsAreHonest
  BY <1>1, PythonP!RefusalsAreAlwaysHonest
<1>4. Python!LimiterInit => PythonP!LimiterInit
  BY DEF Python!LimiterInit, PythonP!LimiterInit, Python!TokenBucket,
         PythonP!TokenBucket, Python!Higher, PythonP!Higher, Python!NoRefusal,
         PythonP!NoRefusal
<1>5. Python!limiterVars = PythonP!limiterVars /\ Python!limiterVars' = PythonP!limiterVars'
  BY SMTT(20) DEF Python!limiterVars, PythonP!limiterVars
<1>6. [Python!LimiterNext]_(Python!limiterVars) => [PythonP!LimiterNext]_(PythonP!limiterVars)
  BY <1>5
     DEF Python!LimiterNext, PythonP!LimiterNext, Python!Tick, PythonP!Tick,
         Python!Admit, PythonP!Admit, Python!RefuseTps, PythonP!RefuseTps,
         Python!RefuseRps, PythonP!RefuseRps, Python!Release, PythonP!Release,
         Python!TokenBucket, PythonP!TokenBucket, Python!Replenish,
         PythonP!Replenish, Python!CanConsume, PythonP!CanConsume, Python!Consume,
         PythonP!Consume, Python!Adjust, PythonP!Adjust, Python!DeficitSeconds,
         PythonP!DeficitSeconds, Python!RetryAfter, PythonP!RetryAfter,
         Python!ReservedOutput, PythonP!ReservedOutput, Python!Lower, PythonP!Lower,
         Python!Higher, PythonP!Higher, Python!NoRefusal, PythonP!NoRefusal,
         Python!InflightFull, PythonP!InflightFull, Python!Refunded, PythonP!Refunded
<1>7. PythonP!ThroughputBound => Python!ThroughputBound
  BY DEF PythonP!ThroughputBound, Python!ThroughputBound
<1>8. [PythonP!RefusalTakesNothing /\ PythonP!RetryAfterSuffices']_(PythonP!limiterVars)
        => [Python!RefusalTakesNothing /\ Python!RetryAfterSuffices']_(Python!limiterVars)
  BY <1>5
     DEF Python!RefusalTakesNothing, PythonP!RefusalTakesNothing,
         Python!RetryAfterSuffices, PythonP!RetryAfterSuffices, Python!CanConsume,
         PythonP!CanConsume, Python!Replenish, PythonP!Replenish, Python!Lower,
         PythonP!Lower, Python!NoRefusal, PythonP!NoRefusal
<1>9. RLimiterSpec => MirrorsPython
  BY RustMirrorsPython
<1>10. QED
  BY <1>2, <1>3, <1>4, <1>6, <1>7, <1>8, <1>9, PTL
     DEF MirrorsPython, Python!LimiterSpec, PythonP!LimiterSpec,
         Python!RefusalsAreHonest, PythonP!RefusalsAreHonest

-----------------------------------------------------------------------------
(* The shared counters                                                     *)

Request == [phase : {"new", "admitted", "routed", "sending", "failing", "streaming", "dropped",
                     "abandoned", "done"},
            cands : SUBSET RustBackends, tries : Nat, backend : RustBackends \cup {""}]

\* A request that was sent knows where.
Placed(q) == q.phase \in {"sending", "failing", "streaming"} => q.backend \in RustBackends

Counts(b, q) == q.backend = b /\ q.phase \in {"sending", "streaming", "abandoned"}

Holds(q) == q.phase \notin {"new", "done"}

\* What the counters really hold: a request that was dropped while connecting stays in
\* them.
LoadCounted ==
  \A b \in RustBackends :
    rload[b] = Cardinality(On(b, {"sending", "streaming", "abandoned"}))

QuotaCounted ==
  \A t \in Clients :
    /\ rlimit[t] = Cardinality({r \in RustReqs : ClientOf[r] = t /\ rq[r].phase \notin {"new", "done"}})
    /\ rlimit[t] <= ClientCap

CircuitsOK ==
  /\ rfails \in [RustBackends -> 0..FailLimit] /\ streak \in [RustBackends -> 0..FailLimit]
  /\ rcircuit \in [RustBackends -> {"closed", "open", "half_open"}]
  /\ \A b \in RustBackends : /\ rfails[b] = streak[b]
                             /\ rcircuit[b] # "closed" <=> streak[b] = FailLimit

\* The inductive invariant.
RustInv ==
  /\ rq \in [RustReqs -> Request] /\ \A r \in RustReqs : Placed(rq[r])
  /\ rload \in [RustBackends -> Nat] /\ rlimit \in [Clients -> Nat]
  /\ LoadCounted /\ QuotaCounted /\ CircuitsOK

One(P) == IF P THEN 1 ELSE 0

-----------------------------------------------------------------------------
(* Counting: a set that changes at one request.                            *)
LEMMA CountOne ==
  ASSUME NEW r \in RustReqs, NEW S \in SUBSET RustReqs, NEW T \in SUBSET RustReqs, S \ {r} = T \ {r}
  PROVE  /\ Cardinality(S) \in Nat /\ Cardinality(T) \in Nat
         /\ Cardinality(T) = Cardinality(S) + One(r \in T) - One(r \in S)
         /\ One(r \in S) <= Cardinality(S) /\ One(r \in T) <= Cardinality(T)
<1> DEFINE U == S \ {r}
<1>1. IsFiniteSet(S) /\ IsFiniteSet(T) /\ IsFiniteSet(U)
  BY RustAssumption, FS_Subset
<1>2. Cardinality(U) \in Nat
  BY <1>1, FS_CardinalityType
<1>3. Cardinality(S) = Cardinality(U) + One(r \in S)
  <2>1. CASE r \in S
    <3>1. S = U \cup {r} /\ r \notin U
      BY <2>1
    <3>2. Cardinality(S) = Cardinality(U) + 1
      BY <1>1, <3>1, FS_AddElement
    <3>3. QED
      BY <2>1, <3>2 DEF One
  <2>2. CASE r \notin S
    <3>1. S = U
      BY <2>2
    <3>2. QED
      BY <1>2, <2>2, <3>1 DEF One
  <2>3. QED
    BY <2>1, <2>2
<1>4. Cardinality(T) = Cardinality(U) + One(r \in T)
  <2>1. CASE r \in T
    <3>1. T = U \cup {r} /\ r \notin U
      BY <2>1
    <3>2. Cardinality(T) = Cardinality(U) + 1
      BY <1>1, <3>1, FS_AddElement
    <3>3. QED
      BY <2>1, <3>2 DEF One
  <2>2. CASE r \notin T
    <3>1. T = U
      BY <2>2
    <3>2. QED
      BY <1>2, <2>2, <3>1 DEF One
  <2>3. QED
    BY <2>1, <2>2
<1> HIDE DEF U
<1>5. QED
  BY <1>2, <1>3, <1>4 DEF One

(* Somebody who is counted is counted at least once.                       *)
LEMMA HeldIsPositive ==
  ASSUME RustInv, NEW r \in RustReqs
  PROVE  /\ \A b \in RustBackends : rload[b] \in Nat /\ One(Counts(b, rq[r])) <= rload[b]
         /\ rlimit[ClientOf[r]] \in Nat /\ One(Holds(rq[r])) <= rlimit[ClientOf[r]]
         /\ ClientOf[r] \in Clients
<1>1. ASSUME NEW b \in RustBackends PROVE rload[b] \in Nat /\ One(Counts(b, rq[r])) <= rload[b]
  <2>1. PICK S \in SUBSET RustReqs : S = On(b, {"sending", "streaming", "abandoned"})
    BY DEF On
  <2>2. r \in S <=> Counts(b, rq[r])
    BY <2>1 DEF On, Counts
  <2>3. One(r \in S) <= Cardinality(S)
    BY CountOne
  <2>4. rload[b] \in Nat /\ rload[b] = Cardinality(S)
    BY <2>1 DEF RustInv, LoadCounted
  <2>5. QED
    BY <2>2, <2>3, <2>4 DEF One
<1>2. ClientOf[r] \in Clients
  BY RustAssumption
<1>3. rlimit[ClientOf[r]] \in Nat /\ One(Holds(rq[r])) <= rlimit[ClientOf[r]]
  <2>1. PICK S \in SUBSET RustReqs :
          S = {q \in RustReqs : ClientOf[q] = ClientOf[r] /\ rq[q].phase \notin {"new", "done"}}
    OBVIOUS
  <2>2. r \in S <=> Holds(rq[r])
    BY <2>1 DEF Holds
  <2>3. One(r \in S) <= Cardinality(S)
    BY CountOne
  <2>4. rlimit[ClientOf[r]] \in Nat /\ rlimit[ClientOf[r]] = Cardinality(S)
    BY <1>2, <2>1 DEF RustInv, QuotaCounted
  <2>5. QED
    BY <2>2, <2>3, <2>4 DEF One
<1>4. QED
  BY <1>1, <1>2, <1>3

\* Request r becomes q, and the counters move with it.
Steps(r, q) ==
  /\ q \in Request /\ Placed(q) /\ rq' = [rq EXCEPT ![r] = q]
  /\ rload' \in [RustBackends -> Nat]
  /\ \A b \in RustBackends : rload'[b] = rload[b] + One(Counts(b, q)) - One(Counts(b, rq[r]))
  /\ rlimit' \in [Clients -> Nat]
  /\ \A t \in Clients : t # ClientOf[r] => rlimit'[t] = rlimit[t]
  /\ rlimit'[ClientOf[r]] = rlimit[ClientOf[r]] + One(Holds(q)) - One(Holds(rq[r]))
  /\ rlimit'[ClientOf[r]] <= ClientCap

LEMMA CountersFollow ==
  ASSUME RustInv, NEW r \in RustReqs, NEW q, Steps(r, q), CircuitsOK'
  PROVE  RustInv'
<1>1. /\ rq' \in [RustReqs -> Request] /\ rq'[r] = q /\ \A p \in RustReqs : p # r => rq'[p] = rq[p]
      /\ \A p \in RustReqs : Placed(rq'[p])
  BY DEF Steps, RustInv
<1>2. LoadCounted'
  <2>1. ASSUME NEW b \in RustBackends
        PROVE  rload'[b] = Cardinality(On(b, {"sending", "streaming", "abandoned"})')
    <3>1. PICK S \in SUBSET RustReqs : S = On(b, {"sending", "streaming", "abandoned"})
      BY DEF On
    <3>2. PICK T \in SUBSET RustReqs : T = On(b, {"sending", "streaming", "abandoned"})'
      BY DEF On
    <3>3. (r \in S <=> Counts(b, rq[r])) /\ (r \in T <=> Counts(b, q)) /\ S \ {r} = T \ {r}
      BY <1>1, <3>1, <3>2 DEF On, Counts
    <3>4. /\ Cardinality(S) \in Nat /\ Cardinality(T) \in Nat
          /\ Cardinality(T) = Cardinality(S) + One(r \in T) - One(r \in S)
      BY <3>3, CountOne
    <3>5. rload[b] = Cardinality(S)
      BY <3>1 DEF RustInv, LoadCounted
    <3>6. rload'[b] = rload[b] + One(Counts(b, q)) - One(Counts(b, rq[r]))
      BY DEF Steps
    <3>7. rload'[b] = Cardinality(T)
      BY <3>3, <3>4, <3>5, <3>6 DEF One
    <3>8. QED
      BY <3>2, <3>7
  <2>2. QED
    BY <2>1 DEF LoadCounted
<1>3. QuotaCounted'
  <2>1. ASSUME NEW t \in Clients
        PROVE  /\ rlimit'[t] = Cardinality({p \in RustReqs : ClientOf[p] = t /\ rq'[p].phase \notin {"new", "done"}})
               /\ rlimit'[t] <= ClientCap
    <3>1. PICK S \in SUBSET RustReqs :
            S = {p \in RustReqs : ClientOf[p] = t /\ rq[p].phase \notin {"new", "done"}}
      OBVIOUS
    <3>2. PICK T \in SUBSET RustReqs :
            T = {p \in RustReqs : ClientOf[p] = t /\ rq'[p].phase \notin {"new", "done"}}
      OBVIOUS
    <3>3. rlimit[t] = Cardinality(S) /\ rlimit[t] <= ClientCap
      BY <3>1 DEF RustInv, QuotaCounted
    <3>4. S \ {r} = T \ {r}
      BY <1>1, <3>1, <3>2
    <3>5. CASE t # ClientOf[r]
      <4>1. S = T
        BY <3>1, <3>2, <3>4, <3>5
      <4>2. rlimit'[t] = rlimit[t]
        BY <3>5 DEF Steps
      <4>3. QED
        BY <3>2, <3>3, <4>1, <4>2
    <3>6. CASE t = ClientOf[r]
      <4>1. (r \in S <=> Holds(rq[r])) /\ (r \in T <=> Holds(q))
        BY <1>1, <3>1, <3>2, <3>6 DEF Holds
      <4>2. /\ Cardinality(S) \in Nat /\ Cardinality(T) \in Nat
            /\ Cardinality(T) = Cardinality(S) + One(r \in T) - One(r \in S)
        BY <3>4, CountOne
      <4>3. /\ rlimit'[t] = rlimit[t] + One(Holds(q)) - One(Holds(rq[r]))
            /\ rlimit'[t] <= ClientCap
        BY <3>6 DEF Steps
      <4>4. rlimit'[t] = Cardinality(T)
        BY <3>3, <4>1, <4>2, <4>3 DEF One
      <4>5. QED
        BY <3>2, <4>3, <4>4
    <3>7. QED
      BY <3>5, <3>6
  <2>2. QED
    BY <2>1 DEF QuotaCounted
<1>4. QED
  BY <1>1, <1>2, <1>3 DEF RustInv, Steps

-----------------------------------------------------------------------------
(* The ways in which the counters may follow a request.                    *)
LEMMA QuotaUnmoved ==
  ASSUME RustInv, NEW r \in RustReqs, NEW q, q \in Request, Placed(q), rq' = [rq EXCEPT ![r] = q],
         rlimit' = rlimit, Holds(q) <=> Holds(rq[r]),
         rload' \in [RustBackends -> Nat],
         \A b \in RustBackends : rload'[b] = rload[b] + One(Counts(b, q)) - One(Counts(b, rq[r]))
  PROVE  Steps(r, q)
<1>1. rlimit[ClientOf[r]] \in Nat /\ ClientOf[r] \in Clients /\ rlimit \in [Clients -> Nat]
  BY HeldIsPositive DEF RustInv
<1>2. rlimit[ClientOf[r]] <= ClientCap
  BY <1>1 DEF RustInv, QuotaCounted
<1>3. rlimit'[ClientOf[r]] = rlimit[ClientOf[r]] + One(Holds(q)) - One(Holds(rq[r]))
  BY <1>1 DEF One
<1>4. QED
  BY <1>1, <1>2, <1>3 DEF Steps

LEMMA LoadUnmoved ==
  ASSUME RustInv, NEW r \in RustReqs, NEW q, rload' = rload,
         \A b \in RustBackends : Counts(b, q) <=> Counts(b, rq[r])
  PROVE  /\ rload' \in [RustBackends -> Nat]
         /\ \A b \in RustBackends : rload'[b] = rload[b] + One(Counts(b, q)) - One(Counts(b, rq[r]))
<1>1. \A b \in RustBackends : rload[b] \in Nat
  BY DEF RustInv
<1>2. QED
  BY <1>1 DEF One, RustInv

LEMMA QuotaMoved ==
  ASSUME RustInv, NEW r \in RustReqs, NEW q, q \in Request, Placed(q), rq' = [rq EXCEPT ![r] = q],
         rload' = rload, \A b \in RustBackends : ~Counts(b, q) /\ ~Counts(b, rq[r]),
         \/ /\ ~Holds(rq[r]) /\ Holds(q) /\ rlimit[ClientOf[r]] < ClientCap
            /\ rlimit' = [rlimit EXCEPT ![ClientOf[r]] = rlimit[ClientOf[r]] + 1]
         \/ Holds(rq[r]) /\ ~Holds(q) /\ release_inflight(ClientOf[r])
  PROVE  Steps(r, q)
<1>1. PICK t \in Clients : t = ClientOf[r]
  BY HeldIsPositive
<1>2. rlimit[t] \in Nat /\ One(Holds(rq[r])) <= rlimit[t] /\ rlimit[t] <= ClientCap
  BY <1>1, HeldIsPositive DEF RustInv, QuotaCounted
<1>3. PICK n \in Nat : n = rlimit[t] + One(Holds(q)) - One(Holds(rq[r])) /\ n <= ClientCap
                       /\ rlimit' = [rlimit EXCEPT ![t] = n]
  <2>1. CASE ~Holds(rq[r]) /\ Holds(q)
    BY <1>1, <1>2, <2>1, RustAssumption DEF One
  <2>2. CASE Holds(rq[r]) /\ ~Holds(q)
    BY <1>1, <1>2, <2>2, RustAssumption DEF One, release_inflight, Minus1
  <2>3. QED
    BY <2>1, <2>2
<1>4. /\ rlimit' \in [Clients -> Nat] /\ rlimit'[t] = n
      /\ \A u \in Clients : u # t => rlimit'[u] = rlimit[u]
  BY <1>3 DEF RustInv
<1>5. /\ rload' \in [RustBackends -> Nat]
      /\ \A b \in RustBackends : rload'[b] = rload[b] + One(Counts(b, q)) - One(Counts(b, rq[r]))
  BY LoadUnmoved
<1>6. QED
  BY <1>1, <1>3, <1>4, <1>5 DEF Steps

(* on_complete at the backend of a counted request.                        *)
LEMMA LoadReturned ==
  ASSUME RustInv, NEW r \in RustReqs, NEW q, NEW c \in RustBackends, rq[r].backend = c,
         Counts(c, rq[r]), \A b \in RustBackends : ~Counts(b, q), on_complete(c)
  PROVE  /\ rload' \in [RustBackends -> Nat]
         /\ \A b \in RustBackends : rload'[b] = rload[b] + One(Counts(b, q)) - One(Counts(b, rq[r]))
<1>1. rload[c] \in Nat /\ 1 <= rload[c]
  BY HeldIsPositive DEF One
<1>2. PICK n \in Nat : n = rload[c] - 1 /\ rload' = [rload EXCEPT ![c] = n]
  <2>1. PICK n \in Nat : n = rload[c] - 1 /\ n = Minus1(rload[c])
    BY <1>1 DEF Minus1
  <2>2. rload' = [rload EXCEPT ![c] = n]
    BY <2>1 DEF on_complete
  <2>3. QED
    BY <2>1, <2>2
<1>3. /\ rload' \in [RustBackends -> Nat] /\ rload'[c] = n
      /\ \A b \in RustBackends : b # c => rload'[b] = rload[b]
  BY <1>2 DEF RustInv
<1>4. ASSUME NEW b \in RustBackends
      PROVE  rload'[b] = rload[b] + One(Counts(b, q)) - One(Counts(b, rq[r]))
  <2>1. CASE b = c
    BY <1>1, <1>2, <1>3, <2>1 DEF One
  <2>2. CASE b # c
    <3>1. ~Counts(b, rq[r]) /\ rload[b] \in Nat
      BY <2>2 DEF Counts, RustInv
    <3>2. QED
      BY <1>3, <2>2, <3>1 DEF One
  <2>3. QED
    BY <2>1, <2>2
<1>5. QED
  BY <1>3, <1>4

-----------------------------------------------------------------------------
(* The circuits                                                            *)

LEMMA LowerIsMin == ASSUME NEW a \in Int, NEW b \in Int PROVE Min({a, b}) = IF a <= b THEN a ELSE b
<1>1. \A x \in {a, b} : (\A y \in {a, b} : x <= y) => x = IF a <= b THEN a ELSE b
  OBVIOUS
<1>2. \E x \in {a, b} : \A y \in {a, b} : x <= y
  OBVIOUS
<1>3. QED
  BY <1>1, <1>2 DEF Min

LEMMA SuccessRecorded ==
  ASSUME CircuitsOK, NEW b \in RustBackends, record_success(b), streak' = [streak EXCEPT ![b] = 0]
  PROVE  CircuitsOK'
<1>1. 0 \in 0..FailLimit /\ FailLimit # 0
  BY RustAssumption
<1>2. QED
  BY <1>1 DEF CircuitsOK, record_success

LEMMA FailureRecorded ==
  ASSUME CircuitsOK, NEW b \in RustBackends, record_failure(b),
         streak' = [streak EXCEPT ![b] = Min({FailLimit, streak[b] + 1})]
  PROVE  CircuitsOK'
<1>1. /\ FailLimit \in Nat /\ rfails[b] \in 0..FailLimit /\ rfails[b] = streak[b]
      /\ rcircuit[b] # "closed" <=> streak[b] = FailLimit
  BY RustAssumption DEF CircuitsOK
<1>2. PICK n \in 0..FailLimit : n = Min({FailLimit, streak[b] + 1})
  BY <1>1, LowerIsMin
<1>3. n = IF FailLimit <= streak[b] + 1 THEN FailLimit ELSE streak[b] + 1
  BY <1>1, <1>2, LowerIsMin
<1>4. rfails' = [rfails EXCEPT ![b] = n]
  <2>1. CASE rcircuit[b] = "half_open"
    <3>1. n = FailLimit
      BY <1>1, <1>3, <2>1
    <3>2. QED
      BY <2>1, <3>1 DEF record_failure
  <2>2. CASE rcircuit[b] # "half_open"
    BY <1>1, <1>2, <2>2 DEF record_failure
  <2>3. QED
    BY <2>1, <2>2
<1>5. rcircuit' = [rcircuit EXCEPT ![b] = IF n = FailLimit THEN "open" ELSE rcircuit[b]]
  <2>1. CASE rcircuit[b] = "half_open"
    <3>1. n = FailLimit
      BY <1>1, <1>3, <2>1
    <3>2. QED
      BY <2>1, <3>1 DEF record_failure
  <2>2. CASE rcircuit[b] # "half_open"
    BY <1>1, <1>2, <2>2 DEF record_failure
  <2>3. QED
    BY <2>1, <2>2
<1>6. streak' = [streak EXCEPT ![b] = n]
  BY <1>2
<1>7. n # FailLimit => streak[b] # FailLimit
  BY <1>1, <1>3
<1>8. QED
  BY <1>1, <1>4, <1>5, <1>6, <1>7 DEF CircuitsOK

-----------------------------------------------------------------------------
(* The steps of a request                                                  *)

LEMMA RequestStep ==
  ASSUME RustInv, NEW r \in RustReqs, RustStep(r)
  PROVE  RustInv'
<1>0. PICK p \in Request : p = rq[r] /\ Placed(p)
  BY DEF RustInv
<1>1. p.cands \in SUBSET RustBackends /\ p.tries \in Nat /\ p.backend \in RustBackends \cup {""}
  BY DEF Request
<1>2. CircuitsOK /\ RustInv /\ rq \in [RustReqs -> Request]
  BY DEF RustInv
<1>3. ASSUME NEW phase, rq' = [rq EXCEPT ![r].phase = phase]
      PROVE  rq' = [rq EXCEPT ![r] = [p EXCEPT !.phase = phase]]
  BY <1>0, <1>2, <1>3
<1>4. /\ Ended \in Request /\ Placed(Ended) /\ Ended.phase = "done"
  BY DEF Ended, Idle, Request, Placed
<1>5. CASE RustAdmit(r)
  <2> DEFINE q == [p EXCEPT !.phase = "admitted"]
  <2>1. q \in Request /\ q.phase = "admitted" /\ p.phase = "new"
    BY <1>0, <1>5 DEF Request, RustAdmit
  <2>2. rq' = [rq EXCEPT ![r] = q]
    BY <1>3, <1>5 DEF RustAdmit, Goto
  <2> HIDE DEF q
  <2>3. Placed(q) /\ Holds(q) /\ ~Holds(rq[r]) /\ \A b \in RustBackends : ~Counts(b, q) /\ ~Counts(b, rq[r])
    BY <1>0, <2>1 DEF Placed, Holds, Counts
  <2>4. Steps(r, q)
    BY <1>2, <1>5, <2>1, <2>2, <2>3, QuotaMoved DEF RustAdmit
  <2>5. CircuitsOK'
    BY <1>2, <1>5 DEF RustAdmit, CircuitsOK
  <2>6. QED
    BY <1>2, <2>4, <2>5, CountersFollow
<1>6. CASE RustRefuse(r)
  <2>1. p.phase = "new" /\ rq' = [rq EXCEPT ![r] = Ended]
    BY <1>0, <1>6 DEF RustRefuse
  <2>2. /\ Holds(Ended) <=> Holds(rq[r])
        /\ \A b \in RustBackends : Counts(b, Ended) <=> Counts(b, rq[r])
    BY <1>0, <1>4, <2>1 DEF Holds, Counts
  <2>3. Steps(r, Ended)
    BY <1>2, <1>4, <1>6, <2>1, <2>2, QuotaUnmoved, LoadUnmoved DEF RustRefuse
  <2>4. CircuitsOK'
    BY <1>2, <1>6 DEF RustRefuse, CircuitsOK
  <2>5. QED
    BY <1>2, <2>3, <2>4, CountersFollow
<1>7. CASE RustFilter(r)
  <2>1. PICK C \in SUBSET RustBackends :
          rq' = [rq EXCEPT ![r] = [phase |-> "routed", tries |-> 0, backend |-> "", cands |-> C]]
    BY <1>7 DEF RustFilter
  <2>2. PICK q : q = [phase |-> "routed", tries |-> 0, backend |-> "", cands |-> C]
    OBVIOUS
  <2>3. q \in Request /\ q.phase = "routed" /\ p.phase = "admitted"
    BY <1>0, <1>7, <2>2 DEF Request, RustFilter
  <2>4. Placed(q) /\ (Holds(q) <=> Holds(rq[r])) /\ \A b \in RustBackends : Counts(b, q) <=> Counts(b, rq[r])
    BY <1>0, <2>3 DEF Placed, Holds, Counts
  <2>5. Steps(r, q)
    BY <1>2, <1>7, <2>1, <2>2, <2>3, <2>4, QuotaUnmoved, LoadUnmoved, ZenonT(30) DEF RustFilter
  <2>6. CircuitsOK'
    BY <1>2, <1>7 DEF RustFilter, CircuitsOK
  <2>7. QED
    BY <1>2, <2>5, <2>6, CountersFollow
<1>8. ASSUME NEW c \in RustBackends, RustChoose(r, c) PROVE RustInv'
  <2>1. PICK n \in Nat : n = rq[r].tries + 1
    <3>1. rq[r].tries \in Nat
      BY <1>0 DEF Request
    <3>2. QED
      BY <3>1
  <2> DEFINE q == [p EXCEPT !.phase = "sending", !.backend = c, !.tries = n]
  <2>2. rq' = [rq EXCEPT ![r] = q]
    <3>1. rq' = [rq EXCEPT ![r] = [rq[r] EXCEPT !.phase = "sending", !.backend = c, !.tries = rq[r].tries + 1]]
      BY <1>2, <1>8 DEF RustChoose
    <3>2. QED
      BY <1>0, <2>1, <3>1
  <2>3. q \in Request /\ q.phase = "sending" /\ q.backend = c /\ p.phase = "routed"
    BY <1>0, <1>8 DEF Request, RustChoose
  <2> HIDE DEF q
  <2>4. /\ Placed(q) /\ (Holds(q) <=> Holds(rq[r]))
        /\ \A b \in RustBackends : (Counts(b, q) <=> b = c) /\ ~Counts(b, rq[r])
    BY <1>0, <2>3 DEF Placed, Holds, Counts
  <2>5. /\ rload' \in [RustBackends -> Nat]
        /\ \A b \in RustBackends : rload'[b] = rload[b] + One(Counts(b, q)) - One(Counts(b, rq[r]))
    <3>1. rload \in [RustBackends -> Nat] /\ rload' = [rload EXCEPT ![c] = rload[c] + 1]
      BY <1>2, <1>8 DEF RustChoose, on_dispatch, RustInv
    <3>2. QED
      BY <2>4, <3>1 DEF One
  <2>6. Steps(r, q)
    BY <1>2, <1>8, <2>2, <2>3, <2>4, <2>5, QuotaUnmoved DEF RustChoose
  <2>7. CircuitsOK'
    BY <1>2, <1>8 DEF RustChoose, CircuitsOK
  <2>8. QED
    BY <1>2, <2>6, <2>7, CountersFollow
<1>9. CASE RustAnswered(r)
  <2> DEFINE q == [p EXCEPT !.phase = "streaming"]
  <2>1. /\ q \in Request /\ q.phase = "streaming" /\ q.backend = p.backend /\ p.phase = "sending"
    BY <1>0, <1>9 DEF Request, RustAnswered
  <2>2. rq' = [rq EXCEPT ![r] = q]
    BY <1>3, <1>9 DEF RustAnswered, Goto
  <2> HIDE DEF q
  <2>3. /\ Placed(q) /\ (Holds(q) <=> Holds(rq[r])) /\ p.backend \in RustBackends
        /\ \A b \in RustBackends : Counts(b, q) <=> Counts(b, rq[r])
    BY <1>0, <2>1 DEF Placed, Holds, Counts
  <2>4. Steps(r, q)
    BY <1>2, <1>9, <2>1, <2>2, <2>3, QuotaUnmoved, LoadUnmoved DEF RustAnswered
  <2>5. CircuitsOK'
    BY <1>0, <1>2, <1>9, <2>3, SuccessRecorded DEF RustAnswered
  <2>6. QED
    BY <1>2, <2>4, <2>5, CountersFollow
<1>10. CASE RustFailed(r)
  <2> DEFINE q == [p EXCEPT !.phase = "failing"]
  <2>1. /\ q \in Request /\ q.phase = "failing" /\ q.backend = p.backend /\ p.phase = "sending"
    BY <1>0, <1>10 DEF Request, RustFailed
  <2>2. rq' = [rq EXCEPT ![r] = q]
    BY <1>3, <1>10 DEF RustFailed, Goto
  <2> HIDE DEF q
  <2>3. /\ Placed(q) /\ (Holds(q) <=> Holds(rq[r])) /\ p.backend \in RustBackends
        /\ Counts(p.backend, rq[r]) /\ \A b \in RustBackends : ~Counts(b, q)
    BY <1>0, <2>1 DEF Placed, Holds, Counts
  <2>4. /\ rload' \in [RustBackends -> Nat]
        /\ \A b \in RustBackends : rload'[b] = rload[b] + One(Counts(b, q)) - One(Counts(b, rq[r]))
    BY <1>0, <1>2, <1>10, <2>3, LoadReturned DEF RustFailed
  <2>5. Steps(r, q)
    BY <1>2, <1>10, <2>1, <2>2, <2>3, <2>4, QuotaUnmoved DEF RustFailed
  <2>6. CircuitsOK'
    BY <1>2, <1>10 DEF RustFailed, CircuitsOK
  <2>7. QED
    BY <1>2, <2>5, <2>6, CountersFollow
<1>11. CASE RustRecord(r)
  <2> DEFINE q == [p EXCEPT !.phase = "routed", !.cands = p.cands \ {p.backend}, !.backend = ""]
  <2>2. rq' = [rq EXCEPT ![r] = q]
    <3>1. rq' = [rq EXCEPT ![r] = [rq[r] EXCEPT !.phase = "routed", !.cands = rq[r].cands \ {rq[r].backend},
                                                !.backend = ""]]
      BY <1>2, <1>11 DEF RustRecord
    <3>2. QED
      BY <1>0, <3>1
  <2>3. q \in Request /\ q.phase = "routed" /\ p.phase = "failing"
    <3>1. p.cands \ {p.backend} \in SUBSET RustBackends
      BY <1>1
    <3>2. QED
      BY <1>0, <1>11, <3>1 DEF Request, RustRecord
  <2> HIDE DEF q
  <2>4. /\ Placed(q) /\ (Holds(q) <=> Holds(rq[r])) /\ p.backend \in RustBackends
        /\ \A b \in RustBackends : Counts(b, q) <=> Counts(b, rq[r])
    BY <1>0, <2>3 DEF Placed, Holds, Counts
  <2>5. Steps(r, q)
    <3>1. rload' = rload /\ rlimit' = rlimit
      BY <1>11 DEF RustRecord
    <3>2. /\ rload' \in [RustBackends -> Nat]
          /\ \A b \in RustBackends : rload'[b] = rload[b] + One(Counts(b, q)) - One(Counts(b, rq[r]))
      BY <1>2, <2>4, <3>1, LoadUnmoved
    <3>3. QED
      BY <1>2, <2>2, <2>3, <2>4, <3>1, <3>2, QuotaUnmoved
  <2>6. CircuitsOK'
    BY <1>0, <1>2, <1>11, <2>4, FailureRecorded DEF RustRecord
  <2>7. QED
    BY <1>2, <2>5, <2>6, CountersFollow
<1>12. CASE RustGiveUp(r) \/ RustDropTenant(r)
  <2>1. p.phase \in {"routed", "dropped"} /\ rq' = [rq EXCEPT ![r] = Ended]
    BY <1>0, <1>12 DEF RustGiveUp, RustDropTenant
  <2>2. /\ ~Holds(Ended) /\ Holds(rq[r])
        /\ \A b \in RustBackends : ~Counts(b, Ended) /\ ~Counts(b, rq[r])
    BY <1>0, <1>4, <2>1 DEF Holds, Counts
  <2>3. Steps(r, Ended)
    BY <1>2, <1>4, <1>12, <2>1, <2>2, QuotaMoved DEF RustGiveUp, RustDropTenant
  <2>4. CircuitsOK'
    BY <1>2, <1>12 DEF RustGiveUp, RustDropTenant, CircuitsOK
  <2>5. QED
    BY <1>2, <2>3, <2>4, CountersFollow
<1>13. CASE RustDropLoad(r)
  <2> DEFINE q == [p EXCEPT !.phase = "dropped"]
  <2>1. /\ q \in Request /\ q.phase = "dropped" /\ q.backend = p.backend /\ p.phase = "streaming"
    BY <1>0, <1>13 DEF Request, RustDropLoad
  <2>2. rq' = [rq EXCEPT ![r] = q]
    BY <1>3, <1>13 DEF RustDropLoad, Goto
  <2> HIDE DEF q
  <2>3. /\ Placed(q) /\ (Holds(q) <=> Holds(rq[r])) /\ p.backend \in RustBackends
        /\ Counts(p.backend, rq[r]) /\ \A b \in RustBackends : ~Counts(b, q)
    BY <1>0, <2>1 DEF Placed, Holds, Counts
  <2>4. /\ rload' \in [RustBackends -> Nat]
        /\ \A b \in RustBackends : rload'[b] = rload[b] + One(Counts(b, q)) - One(Counts(b, rq[r]))
    BY <1>0, <1>2, <1>13, <2>3, LoadReturned DEF RustDropLoad
  <2>5. Steps(r, q)
    BY <1>2, <1>13, <2>1, <2>2, <2>3, <2>4, QuotaUnmoved DEF RustDropLoad
  <2>6. CircuitsOK'
    BY <1>2, <1>13 DEF RustDropLoad, CircuitsOK
  <2>7. QED
    BY <1>2, <2>5, <2>6, CountersFollow
<1>14. CASE RustAbandoned(r)
  <2> DEFINE q == [p EXCEPT !.phase = "abandoned"]
  <2>1. /\ q \in Request /\ q.phase = "abandoned" /\ q.backend = p.backend /\ p.phase = "sending"
    BY <1>0, <1>14 DEF Request, RustAbandoned
  <2>2. rq' = [rq EXCEPT ![r] = q]
    BY <1>3, <1>14 DEF RustAbandoned, Goto
  <2> HIDE DEF q
  <2>3. /\ Placed(q) /\ (Holds(q) <=> Holds(rq[r]))
        /\ \A b \in RustBackends : Counts(b, q) <=> Counts(b, rq[r])
    BY <1>0, <2>1 DEF Placed, Holds, Counts
  <2>4. Steps(r, q)
    BY <1>2, <1>14, <2>1, <2>2, <2>3, QuotaUnmoved, LoadUnmoved DEF RustAbandoned
  <2>5. CircuitsOK'
    BY <1>2, <1>14 DEF RustAbandoned, CircuitsOK
  <2>6. QED
    BY <1>2, <2>4, <2>5, CountersFollow
<1>15. QED
  BY <1>5, <1>6, <1>7, <1>8, <1>9, <1>10, <1>11, <1>12, <1>13, <1>14 DEF RustStep

(* Steps that leave requests and counters alone.                           *)
LEMMA OtherSteps ==
  ASSUME RustInv, UNCHANGED <<rq, rload, rlimit>>, CircuitsOK'
  PROVE  RustInv'
<1>1. LoadCounted'
  BY DEF RustInv, LoadCounted, On
<1>2. QuotaCounted'
  BY DEF RustInv, QuotaCounted
<1>3. QED
  BY <1>1, <1>2 DEF RustInv

LEMMA RustInvInit == RustInit => RustInv
<1> SUFFICES ASSUME RustInit PROVE RustInv
  OBVIOUS
<1>1. Idle \in Request /\ Placed(Idle) /\ Idle.phase = "new"
  BY DEF Idle, Request, Placed
<1>2. rq = [r \in RustReqs |-> Idle] /\ rload = [b \in RustBackends |-> 0] /\ rlimit = [t \in Clients |-> 0]
  BY DEF RustInit
<1>3. LoadCounted
  <2>1. \A b \in RustBackends : On(b, {"sending", "streaming", "abandoned"}) = {}
    BY <1>1, <1>2 DEF On
  <2>2. QED
    BY <1>2, <2>1, FS_EmptySet DEF LoadCounted
<1>4. QuotaCounted
  <2>1. \A t \in Clients : {r \in RustReqs : ClientOf[r] = t /\ rq[r].phase \notin {"new", "done"}} = {}
    BY <1>1, <1>2
  <2>2. QED
    <3>1. \A t \in Clients : rlimit[t] = 0 /\ 0 <= ClientCap
      BY <1>2, RustAssumption
    <3>2. Cardinality({}) = 0
      BY FS_EmptySet
    <3>3. QED
      BY <2>1, <3>1, <3>2 DEF QuotaCounted
<1>5. CircuitsOK
  BY RustAssumption DEF RustInit, CircuitsOK
<1>6. QED
  BY <1>1, <1>2, <1>3, <1>4, <1>5 DEF RustInv

\* The counters hold at least the live requests, and only them where none was lost.
LEMMA LoadCountedIsExact == ASSUME RustInv PROVE RustLoadExact
<1> SUFFICES ASSUME NEW b \in RustBackends
             PROVE  /\ rload[b] >= Cardinality(On(b, {"sending", "streaming"}))
                    /\ ~LostOn(b) => rload[b] = Cardinality(On(b, {"sending", "streaming"}))
  BY DEF RustLoadExact
<1>1. PICK S \in SUBSET RustReqs : S = On(b, {"sending", "streaming", "abandoned"})
  BY DEF On
<1>2. PICK L \in SUBSET RustReqs : L = On(b, {"sending", "streaming"})
  BY DEF On
<1>3. rload[b] = Cardinality(S)
  BY <1>1 DEF RustInv, LoadCounted
<1>4. IsFiniteSet(S) /\ L \subseteq S
  BY <1>1, <1>2, RustAssumption, FS_Subset DEF On
<1>5. Cardinality(L) \in Nat /\ Cardinality(S) \in Nat /\ Cardinality(L) <= Cardinality(S)
  BY <1>4, FS_Subset, FS_CardinalityType
<1>6. ~LostOn(b) => L = S
  BY <1>1, <1>2 DEF LostOn, On
<1>7. QED
  BY <1>2, <1>3, <1>5, <1>6

LEMMA QuotaCountedIsExact == ASSUME RustInv PROVE RustQuotaExact
<1> SUFFICES ASSUME NEW t \in Clients
             PROVE  /\ Cardinality(Serving(t)) <= rlimit[t] /\ rlimit[t] <= ClientCap
                    /\ ~LostBy(t) => rlimit[t] = Cardinality(Serving(t))
  BY DEF RustQuotaExact
<1>1. PICK S \in SUBSET RustReqs :
        S = {r \in RustReqs : ClientOf[r] = t /\ rq[r].phase \notin {"new", "done"}}
  OBVIOUS
<1>2. PICK L \in SUBSET RustReqs : L = Serving(t)
  BY DEF Serving
<1>3. rlimit[t] = Cardinality(S) /\ rlimit[t] <= ClientCap
  BY <1>1 DEF RustInv, QuotaCounted
<1>4. IsFiniteSet(S) /\ L \subseteq S
  BY <1>1, <1>2, RustAssumption, FS_Subset DEF Serving
<1>5. Cardinality(L) \in Nat /\ Cardinality(S) \in Nat /\ Cardinality(L) <= Cardinality(S)
  BY <1>4, FS_Subset, FS_CardinalityType
<1>6. ~LostBy(t) => L = S
  BY <1>1, <1>2 DEF LostBy, Serving
<1>7. QED
  BY <1>2, <1>3, <1>5, <1>6

(* server.rs with load.rs, tenancy.rs and circuit.rs: in every state that  *)
(* the threads of the Rust gateway can reach together, the load of a       *)
(* backend and the places of a tenant are exactly what the live requests   *)
(* make them, failed attempts, broken streams and drops included, unless a *)
(* client of that backend or tenant went away while connecting; then they  *)
(* are not less.  The circuits are always what the outcomes made them.     *)
THEOREM RustBooksAlwaysBalance == RustSpec => []RustBooksBalance
<1>1. RustInv /\ [RustNext]_rustVars => RustInv'
  <2> SUFFICES ASSUME RustInv, [RustNext]_rustVars PROVE RustInv'
    OBVIOUS
  <2>1. CASE \E r \in RustReqs : RustStep(r)
    BY <2>1, RequestStep
  <2>2. ASSUME NEW b \in RustBackends, Cooldown(b) PROVE RustInv'
    <3>1. CircuitsOK'
      BY <2>2 DEF RustInv, Cooldown, CircuitsOK
    <3>2. QED
      BY <2>2, <3>1, OtherSteps DEF Cooldown
  <2>3. CASE MetricsLocks \/ MetricsRenders \/ UNCHANGED rustVars
    <3>1. CircuitsOK' /\ UNCHANGED <<rq, rload, rlimit>>
      BY <2>3 DEF RustInv, MetricsLocks, MetricsRenders, rustVars, CircuitsOK
    <3>2. QED
      BY <3>1, OtherSteps
  <2>4. QED
    BY <2>1, <2>2, <2>3 DEF RustNext
<1>2. RustInv => RustBooksBalance
  <2> SUFFICES ASSUME RustInv PROVE RustBooksBalance
    OBVIOUS
  <2>1. RustLoadExact
    BY LoadCountedIsExact
  <2>2. RustQuotaExact
    BY QuotaCountedIsExact
  <2>3. QED
    BY <2>1, <2>2 DEF RustInv, RustBooksBalance, CircuitsOK, CircuitCountsConsecutive
<1>3. QED
  BY <1>1, <1>2, RustInvInit, PTL DEF RustSpec

-----------------------------------------------------------------------------
(* The tenants of a configuration                                          *)
Pairs == [key : STRING, tid : STRING, tier : STRING]

TenantRecs == [id : STRING, tier : KnownTiers]

KeyMaps == UNION {[S -> TenantRecs] : S \in SUBSET STRING}

Added(map, pair) == Put(map, pair.key, from_tier(pair))

LEMMA AddedIsMap ==
  ASSUME NEW map \in KeyMaps, NEW pair \in Pairs
  PROVE  Added(map, pair) \in KeyMaps
<1>1. PICK S \in SUBSET STRING : map \in [S -> TenantRecs]
  BY DEF KeyMaps
<1>2. PICK t : t = from_tier(pair)
  OBVIOUS
<1>3. pair.key \in STRING /\ t \in TenantRecs
  <2>1. pair.key \in STRING /\ pair.tid \in STRING /\ "bronze" \in KnownTiers
    BY DEF Pairs, KnownTiers
  <2>2. PICK i \in STRING : i = IF pair.tid = "" THEN pair.key ELSE pair.tid
    BY <2>1
  <2>3. PICK k \in KnownTiers : k = IF pair.tier \in KnownTiers THEN pair.tier ELSE "bronze"
    BY <2>1
  <2>4. t = [id |-> i, tier |-> k]
    BY <1>2, <2>2, <2>3 DEF from_tier
  <2>5. QED
    BY <2>1, <2>4 DEF TenantRecs
<1>4. PICK R \in SUBSET STRING : R = S \cup {pair.key}
  BY <1>3
<1>5. Added(map, pair) \in [R -> TenantRecs]
  BY <1>1, <1>2, <1>3, <1>4 DEF Added, Put
<1>6. QED
  BY <1>5 DEF KeyMaps

(* After k pairs, a key maps to the last of them that names it.            *)
NamesLast(map, s, k) ==
  /\ DOMAIN map = {s[i].key : i \in 1 .. k}
  /\ \A x \in DOMAIN map :
       \E i \in 1 .. k : /\ s[i].key = x /\ map[x] = from_tier(s[i])
                         /\ \A j \in 1 .. k : s[j].key = x => j <= i

LEMMA AddedNamesLast ==
  ASSUME NEW s \in Seq(Pairs), NEW k \in 1 .. Len(s), NEW map, NamesLast(map, s, k - 1)
  PROVE  NamesLast(Added(map, s[k]), s, k)
<1>1. PICK new, p, t : new = Added(map, s[k]) /\ p = s[k].key /\ t = from_tier(s[k])
  OBVIOUS
<1>2. /\ DOMAIN new = DOMAIN map \cup {p} /\ new[p] = t
      /\ \A x \in DOMAIN map : x # p => new[x] = map[x]
  BY <1>1 DEF Added, Put
<1>3. k \in Nat /\ k \in 1 .. k /\ \A i : i \in 1 .. k <=> i \in 1 .. (k - 1) \/ i = k
  OBVIOUS
<1>4. DOMAIN new = {s[i].key : i \in 1 .. k}
  <2>1. \A x : x \in DOMAIN new <=> \E i \in 1 .. k : x = s[i].key
    BY <1>1, <1>2, <1>3 DEF NamesLast
  <2>2. QED
    BY <2>1
<1>5. ASSUME NEW x \in DOMAIN new
      PROVE  \E i \in 1 .. k : /\ s[i].key = x /\ new[x] = from_tier(s[i])
                               /\ \A j \in 1 .. k : s[j].key = x => j <= i
  <2>1. CASE x = p
    <3>1. \A j \in 1 .. k : j <= k
      OBVIOUS
    <3>2. QED
      BY <2>1, <3>1, <1>1, <1>2, <1>3
  <2>2. CASE x # p
    <3>1. x \in DOMAIN map
      BY <1>2, <2>2
    <3>2. PICK i \in 1 .. (k - 1) : /\ s[i].key = x /\ map[x] = from_tier(s[i])
                                    /\ \A j \in 1 .. (k - 1) : s[j].key = x => j <= i
      BY <3>1 DEF NamesLast
    <3>3. \A j \in 1 .. k : s[j].key = x => j <= i
      BY <1>1, <1>3, <2>2, <3>2
    <3>4. QED
      BY <1>2, <1>3, <2>2, <3>1, <3>2, <3>3
  <2>3. QED
    BY <2>1, <2>2
<1>6. QED
  BY <1>1, <1>4, <1>5 DEF NamesLast

(* by_key is what the loop over the pairs leaves.                          *)
LEMMA ByKeyNamesLast ==
  ASSUME NEW s \in Seq(Pairs)
  PROVE  NamesLast(by_key(s), s, Len(s))
<1> DEFINE F == [x \in KeyMaps \X Pairs |-> Added(x[1], x[2])]
           Loop(g) == g = [S \in SUBSET DOMAIN s |->
                             IF S = {} THEN <<>> ELSE Added(g[S \ {Max(S)}], s[Max(S)])]
<1>0. <<>> \in KeyMaps
  <2>1. <<>> \in [{} -> TenantRecs] /\ {} \in SUBSET STRING
    OBVIOUS
  <2>2. QED
    BY <2>1 DEF KeyMaps
<1>1. F \in [KeyMaps \X Pairs -> KeyMaps] /\ \A x \in KeyMaps, b \in Pairs : F[<<x, b>>] = Added(x, b)
  BY AddedIsMap
<1>2. by_key(s) = (CHOOSE g : Loop(g))[DOMAIN s]
  BY DEF by_key, FoldLeft, MapThenFoldSet, Added
<1> HIDE DEF F
<1>3. \E g : Loop(g)
  <2>1. PICK g \in [SUBSET DOMAIN s -> KeyMaps] : IsFold(g, F, <<>>, s)
    BY <1>0, <1>1, FoldExists
  <2>2. ASSUME NEW S \in SUBSET DOMAIN s, S # {}
        PROVE  F[<<g[S \ {Max(S)}], s[Max(S)]>>] = Added(g[S \ {Max(S)}], s[Max(S)])
    <3>1. PICK m : m = Max(S)
      OBVIOUS
    <3>2. m \in DOMAIN s
      <4>1. DOMAIN s = 1 .. Len(s) /\ Len(s) \in Nat /\ S \in SUBSET (0 .. Len(s))
        OBVIOUS
      <4>2. QED
        BY <2>2, <3>1, <4>1, MaxIsGreatest
    <3>3. g[S \ {m}] \in KeyMaps /\ s[m] \in Pairs
      BY <3>2
    <3>4. QED
      BY <1>1, <3>1, <3>3
  <2>3. Loop(g)
    BY <2>1, <2>2 DEF IsFold
  <2>4. QED
    BY <2>3
<1>4. PICK g : g = CHOOSE x : Loop(x)
  OBVIOUS
<1> HIDE DEF Loop
<1>5. Loop(g)
  BY <1>3, <1>4
<1> DEFINE T == {k \in 0 .. Len(s) : NamesLast(g[1 .. k], s, k)}
<1>6. Len(s) \in Nat /\ 0 \in 0 .. Len(s) /\ Len(s) \in 0 .. Len(s)
  OBVIOUS
<1>7. 0 \in T
  <2>1. 1 .. 0 = {} /\ {} \in SUBSET DOMAIN s
    OBVIOUS
  <2>2. g[1 .. 0] = <<>>
    BY <1>5, <2>1 DEF Loop
  <2>3. DOMAIN <<>> = {}
    OBVIOUS
  <2>4. NamesLast(<<>>, s, 0)
    BY <2>1, <2>3 DEF NamesLast
  <2>5. QED
    BY <1>6, <2>2, <2>4
<1>8. ASSUME NEW k \in 1 .. Len(s), k - 1 \in T PROVE k \in T
  <2>1. 1 .. k \in SUBSET DOMAIN s /\ k \in Nat /\ k > 0 /\ k \in 0 .. Len(s)
    OBVIOUS
  <2>2. 1 .. k # {} /\ Max(1 .. k) = k /\ (1 .. k) \ {k} = 1 .. (k - 1)
    BY <2>1, LastPosition
  <2>3. g[1 .. k] = Added(g[1 .. (k - 1)], s[k])
    BY <1>5, <2>1, <2>2 DEF Loop
  <2>4. NamesLast(Added(g[1 .. (k - 1)], s[k]), s, k)
    BY <1>8, AddedNamesLast
  <2>5. QED
    BY <2>1, <2>3, <2>4
<1>9. \A k \in 0 .. Len(s) : k \in T
  BY <1>6, <1>7, <1>8, UpToN
<1>10. by_key(s) = g[1 .. Len(s)]
  <2>1. DOMAIN s = 1 .. Len(s)
    OBVIOUS
  <2>2. QED
    BY <1>2, <1>4, <2>1
<1>11. QED
  BY <1>6, <1>9, <1>10

(* resolve gives a bearer what the configuration grants its key.           *)
LEMMA ResolveGrants ==
  ASSUME policy \in Policies, NEW header \in Headers
  PROVE  resolve(header) = IF header.scheme = "bearer" THEN Grant(header.key) ELSE Anonymous
<1>1. PICK s : s = policy.spec
  OBVIOUS
<1>2. PICK map : map = by_key(s)
  OBVIOUS
<1>3. s \in Seq(Pairs)
  BY <1>1, AccessAssumption DEF Pairs
<1>4. PICK n \in Nat : n = Len(s) /\ DOMAIN s = 1 .. n
  BY <1>3
<1>5. NamesLast(map, s, n)
  BY <1>2, <1>3, <1>4, ByKeyNamesLast
<1>6. PICK x : x = header.key
  OBVIOUS
<1>7. PICK named : named = {i \in DOMAIN s : s[i].key = x}
  OBVIOUS
<1>8. Grant(x) = IF named = {} THEN Anonymous ELSE from_tier(s[Max(named)])
  BY <1>1, <1>7 DEF Grant
<1>9. named = {} <=> x \notin DOMAIN map
  BY <1>4, <1>5, <1>7 DEF NamesLast
<1>10. ASSUME x \in DOMAIN map PROVE map[x] = from_tier(s[Max(named)])
  <2>1. PICK i \in 1 .. n : /\ s[i].key = x /\ map[x] = from_tier(s[i])
                            /\ \A j \in 1 .. n : s[j].key = x => j <= i
    BY <1>5, <1>10 DEF NamesLast
  <2>2. named \in SUBSET (0 .. n) /\ i \in named /\ \A j \in named : j <= i
    BY <1>4, <1>7, <2>1
  <2>3. Max(named) \in named /\ \A j \in named : j <= Max(named)
    BY <1>4, <2>2, MaxIsGreatest
  <2>4. Max(named) = i
    <3>1. PICK m : m = Max(named)
      OBVIOUS
    <3>2. m \in 0 .. n /\ m <= i /\ i <= m
      BY <2>2, <2>3, <3>1
    <3>3. QED
      BY <3>1, <3>2
  <2>5. QED
    BY <2>1, <2>4
<1>11. resolve(header) = IF header.scheme = "bearer" /\ x \in DOMAIN map THEN map[x] ELSE Anonymous
  BY <1>1, <1>2, <1>6 DEF resolve
<1>12. QED
  BY <1>6, <1>8, <1>9, <1>10, <1>11

-----------------------------------------------------------------------------
(* Counters over all their labels                                          *)

(* The equation of the sum over sets of labels.                            *)
CountStep(g, c, s) ==
  IF s = {} THEN 0 ELSE c[CHOOSE x \in s : TRUE] + g[s \ {CHOOSE x \in s : TRUE}]

CountsUp(g, c, D) == g = [s \in SUBSET D |-> CountStep(g, c, s)]

CountsUpTo(g, c, D, n) == \A s \in SUBSET D : Cardinality(s) <= n => g[s] = CountStep(g, c, s)

(* Removing a label leaves one less.                                       *)
LEMMA LabelLess ==
  ASSUME NEW D, IsFiniteSet(D), NEW s \in SUBSET D
  PROVE  /\ IsFiniteSet(s) /\ Cardinality(s) \in Nat /\ Cardinality(s) <= Cardinality(D)
         /\ Cardinality(s) = 0 <=> s = {}
         /\ \A x \in s : s \ {x} \in SUBSET D /\ Cardinality(s \ {x}) = Cardinality(s) - 1
         /\ s # {} => (CHOOSE x \in s : TRUE) \in s
<1>1. IsFiniteSet(s) /\ Cardinality(s) <= Cardinality(D)
  BY FS_Subset
<1>2. Cardinality(s) \in Nat /\ (Cardinality(s) = 0 <=> s = {})
  BY <1>1, FS_CardinalityType, FS_EmptySet
<1>3. \A x \in s : Cardinality(s \ {x}) = Cardinality(s) - 1
  BY <1>1, FS_RemoveElement
<1>4. QED
  BY <1>1, <1>2, <1>3

(* The sum exists on every finite set of labels.                           *)
LEMMA CountExists ==
  ASSUME NEW c, NEW D, IsFiniteSet(D)
  PROVE  \E g : CountsUp(g, c, D)
<1> DEFINE Reached(n) == \E g : g = [s \in SUBSET D |-> g[s]] /\ CountsUpTo(g, c, D, n)
           Missing == {n \in Nat : ~Reached(n)}
<1> HIDE DEF Reached
<1>0. \A s \in SUBSET D : Cardinality(s) \in Nat /\ (Cardinality(s) = 0 <=> s = {})
  BY LabelLess
<1>1. Missing = {}
  <2> SUFFICES ASSUME Missing # {} PROVE FALSE
    OBVIOUS
  <2>1. PICK m \in Missing : \A k \in Missing : m <= k
    BY LeastNat
  <2>2. m # 0
    <3>1. PICK z : z = [s \in SUBSET D |-> 0]
      OBVIOUS
    <3>2. CountsUpTo(z, c, D, 0)
      BY <1>0, <3>1 DEF CountsUpTo, CountStep
    <3>3. Reached(0)
      BY <3>1, <3>2 DEF Reached
    <3>4. QED
      BY <2>1, <3>3
  <2>3. m - 1 \in Nat /\ m - 1 \notin Missing
    BY <2>1, <2>2
  <2>4. PICK g : CountsUpTo(g, c, D, m - 1)
    BY <2>3 DEF Reached
  <2>5. PICK h : h = [s \in SUBSET D |-> CountStep(g, c, s)]
    OBVIOUS
  <2>6. ASSUME NEW s \in SUBSET D, Cardinality(s) <= m PROVE h[s] = CountStep(h, c, s)
    <3>1. CASE s = {}
      BY <2>5, <3>1 DEF CountStep
    <3>2. CASE s # {}
      <4>1. PICK x : x = CHOOSE y \in s : TRUE
        OBVIOUS
      <4>2. s \ {x} \in SUBSET D /\ Cardinality(s) \in Nat /\ Cardinality(s \ {x}) = Cardinality(s) - 1
        BY <3>2, <4>1, LabelLess
      <4>3. Cardinality(s \ {x}) <= m - 1
        BY <2>1, <2>6, <4>2
      <4>4. g[s \ {x}] = CountStep(g, c, s \ {x})
        BY <2>4, <4>2, <4>3 DEF CountsUpTo
      <4>5. h[s \ {x}] = g[s \ {x}]
        BY <2>5, <4>2, <4>4
      <4>6. h[s] = c[x] + g[s \ {x}]
        BY <2>5, <3>2, <4>1 DEF CountStep
      <4>7. QED
        BY <3>2, <4>1, <4>5, <4>6 DEF CountStep
    <3>3. QED
      BY <3>1, <3>2
  <2>7. CountsUpTo(h, c, D, m)
    BY <2>6 DEF CountsUpTo
  <2>8. Reached(m)
    BY <2>5, <2>7 DEF Reached
  <2>9. QED
    BY <2>1, <2>8
<1>2. PICK n \in Nat : n = Cardinality(D)
  BY FS_CardinalityType
<1>3. PICK g : g = [s \in SUBSET D |-> g[s]] /\ CountsUpTo(g, c, D, n)
  BY <1>1, <1>2 DEF Reached
<1>4. \A s \in SUBSET D : g[s] = CountStep(g, c, s)
  <2>1. ASSUME NEW s \in SUBSET D PROVE Cardinality(s) <= n
    BY <1>2, LabelLess
  <2>2. QED
    BY <1>3, <2>1 DEF CountsUpTo
<1>5. g = [s \in SUBSET D |-> CountStep(g, c, s)]
  BY <1>3, <1>4
<1>6. QED
  BY <1>5 DEF CountsUp

LEMMA CallsInCounts ==
  ASSUME NEW c, IsFiniteSet(DOMAIN c)
  PROVE  \E g : CountsUp(g, c, DOMAIN c) /\ CallsIn(c) = g[DOMAIN c]
<1>1. CallsIn(c) = (CHOOSE g : CountsUp(g, c, DOMAIN c))[DOMAIN c]
  BY DEF CallsIn, MapThenSumSet, MapThenFoldSet, CountsUp, CountStep
<1>2. \E g : CountsUp(g, c, DOMAIN c)
  BY CountExists
<1>3. QED
  BY <1>1, <1>2

(* Any label may be taken out of a sum first.                              *)
AnyFirst(g, c, D) == \A s \in SUBSET D : g[s] \in Nat /\ \A x \in s : g[s] = c[x] + g[s \ {x}]

LEMMA AnyLabelFirst ==
  ASSUME NEW D, IsFiniteSet(D), NEW c, \A x \in D : c[x] \in Nat, NEW g, CountsUp(g, c, D)
  PROVE  AnyFirst(g, c, D)
<1>1. \A s \in SUBSET D : g[s] = CountStep(g, c, s)
  BY DEF CountsUp
<1> DEFINE Right(s) == g[s] \in Nat /\ \A x \in s : g[s] = c[x] + g[s \ {x}]
           Wrong == {n \in Nat : \E s \in SUBSET D : Cardinality(s) = n /\ ~Right(s)}
<1>2. Wrong = {}
  <2> SUFFICES ASSUME Wrong # {} PROVE FALSE
    OBVIOUS
  <2>1. PICK m \in Wrong : \A k \in Wrong : m <= k
    BY LeastNat
  <2>2. PICK s \in SUBSET D : Cardinality(s) = m /\ ~Right(s)
    BY <2>1
  <2>3. s # {}
    BY <1>1, <2>2 DEF CountStep
  <2>4. PICK f : f = CHOOSE x \in s : TRUE
    OBVIOUS
  <2>5. f \in s /\ m \in Nat
    BY <2>3, <2>4, <2>1
  <2>6. g[s] = c[f] + g[s \ {f}]
    BY <1>1, <2>3, <2>4 DEF CountStep
  <2>7. ASSUME NEW x \in s PROVE s \ {x} \in SUBSET D /\ Right(s \ {x})
    <3>1. s \ {x} \in SUBSET D /\ Cardinality(s \ {x}) = m - 1
      BY <2>2, LabelLess
    <3>2. m - 1 \in Nat
      BY <3>1, LabelLess
    <3>3. m - 1 \notin Wrong
      BY <2>1, <2>5, <3>2
    <3>4. QED
      <4> HIDE DEF Right
      <4>1. QED
        BY <3>1, <3>2, <3>3
  <2>8. g[s] \in Nat
    <3>1. g[s \ {f}] \in Nat /\ c[f] \in Nat
      BY <2>5, <2>7
    <3>2. QED
      BY <2>6, <3>1
  <2>9. ASSUME NEW x \in s PROVE g[s] = c[x] + g[s \ {x}]
    <3>1. CASE x = f
      BY <2>6, <3>1
    <3>2. CASE x # f
      <4>1. PICK r : r = s \ {x, f}
        OBVIOUS
      <4>2. (s \ {f}) \ {x} = r /\ (s \ {x}) \ {f} = r /\ x \in s \ {f} /\ f \in s \ {x}
        BY <2>5, <3>2, <4>1
      <4>3. g[s \ {f}] = c[x] + g[r] /\ g[s \ {x}] = c[f] + g[r]
        BY <2>5, <2>7, <4>2
      <4>4. r \in SUBSET D /\ g[r] \in Nat
        <5>1. r \in SUBSET D /\ Cardinality(r) \in Nat
          BY <4>1, LabelLess
        <5>2. Cardinality(r) < m
          <6>1. s \ {f} \in SUBSET D /\ Cardinality(s \ {f}) = m - 1
            BY <2>2, <2>5, LabelLess
          <6>2. Cardinality(r) = Cardinality(s \ {f}) - 1
            <7>1. PICK q \in SUBSET D : q = s \ {f}
              BY <6>1
            <7>2. x \in q /\ q \ {x} = r
              BY <4>2, <7>1
            <7>3. Cardinality(q \ {x}) = Cardinality(q) - 1
              BY <7>2, LabelLess
            <7>4. QED
              BY <7>1, <7>2, <7>3
          <6>3. QED
            BY <2>5, <6>1, <6>2
        <5>3. Right(r)
          BY <2>1, <2>5, <5>1, <5>2
        <5>4. QED
          BY <5>1, <5>3
      <4>5. c[x] \in Nat /\ c[f] \in Nat
        BY <2>5
      <4>6. QED
        BY <2>6, <4>3, <4>4, <4>5
    <3>3. QED
      BY <3>1, <3>2
  <2>10. QED
    BY <2>2, <2>8, <2>9
<1>3. \A s \in SUBSET D : Cardinality(s) \in Nat
  BY LabelLess
<1>4. QED
  BY <1>2, <1>3 DEF AnyFirst

(* Sums over the same labels with the same counts are the same.            *)
LEMMA SameCounts ==
  ASSUME NEW D, IsFiniteSet(D), NEW c, NEW g, CountsUp(g, c, D),
         NEW E, IsFiniteSet(E), NEW e, NEW h, CountsUp(h, e, E)
  PROVE  \A s \in SUBSET (D \cap E) : (\A x \in s : c[x] = e[x]) => g[s] = h[s]
<1>1. \A s \in SUBSET (D \cap E) : g[s] = CountStep(g, c, s) /\ h[s] = CountStep(h, e, s)
  BY DEF CountsUp
<1> DEFINE Same(s) == (\A x \in s : c[x] = e[x]) => g[s] = h[s]
           Wrong == {n \in Nat : \E s \in SUBSET (D \cap E) : Cardinality(s) = n /\ ~Same(s)}
<1>2. \A s \in SUBSET (D \cap E) : s \in SUBSET D
  OBVIOUS
<1>3. Wrong = {}
  <2> SUFFICES ASSUME Wrong # {} PROVE FALSE
    OBVIOUS
  <2>1. PICK m \in Wrong : \A k \in Wrong : m <= k
    BY LeastNat
  <2>2. PICK s \in SUBSET (D \cap E) : Cardinality(s) = m /\ ~Same(s)
    BY <2>1
  <2>3. s # {}
    BY <1>1, <2>2 DEF CountStep
  <2>4. PICK f : f = CHOOSE x \in s : TRUE
    OBVIOUS
  <2>5. f \in s
    BY <2>3, <2>4
  <2>6. g[s] = c[f] + g[s \ {f}] /\ h[s] = e[f] + h[s \ {f}]
    BY <1>1, <2>3, <2>4 DEF CountStep
  <2>7. s \ {f} \in SUBSET (D \cap E) /\ Cardinality(s \ {f}) = m - 1 /\ m - 1 \in Nat /\ m - 1 < m
    <3>1. s \in SUBSET D /\ s \ {f} \in SUBSET D /\ m \in Nat
      BY <2>1
    <3>2. Cardinality(s \ {f}) = m - 1
      BY <2>2, <2>5, <3>1, LabelLess
    <3>3. m - 1 \in Nat
      BY <3>1, <3>2, LabelLess, SMTT(20)
    <3>4. QED
      BY <3>1, <3>2, <3>3
  <2>8. Same(s \ {f})
    BY <2>1, <2>7
  <2>9. QED
    BY <2>2, <2>5, <2>6, <2>8
<1>4. \A s \in SUBSET (D \cap E) : Cardinality(s) \in Nat
  BY <1>2, LabelLess
<1>5. QED
  BY <1>3, <1>4

CounterOK(c) == IsFiniteSet(DOMAIN c) /\ \A x \in DOMAIN c : c[x] \in Nat

(* Counting a call adds one to the total.                                  *)
LEMMA CountedAddsOne ==
  ASSUME NEW c, CounterOK(c), NEW label
  PROVE  CounterOK(Counted(c, label)) /\ CallsIn(c) \in Nat /\ CallsIn(Counted(c, label)) = CallsIn(c) + 1
<1>1. PICK D : D = DOMAIN c
  OBVIOUS
<1>2. PICK e : e = Counted(c, label)
  OBVIOUS
<1>3. PICK E : E = DOMAIN e
  OBVIOUS
<1>4. /\ E = D \cup {label} /\ e[label] = (IF label \in D THEN c[label] + 1 ELSE 1)
      /\ \A x \in D : x # label => e[x] = c[x]
  BY <1>1, <1>2, <1>3 DEF Counted, Put
<1>5. /\ IsFiniteSet(D) /\ IsFiniteSet(E) /\ \A x \in D : c[x] \in Nat
  <2>1. IsFiniteSet(D) /\ \A x \in D : c[x] \in Nat
    BY <1>1 DEF CounterOK
  <2>2. IsFiniteSet(E)
    BY <1>4, <2>1, FS_AddElement
  <2>3. QED
    BY <2>1, <2>2
<1>6. \A x \in E : e[x] \in Nat
  BY <1>4, <1>5
<1>7. PICK g : CountsUp(g, c, D) /\ CallsIn(c) = g[D]
  BY <1>1, <1>5, CallsInCounts
<1>8. PICK h : CountsUp(h, e, E) /\ CallsIn(e) = h[E]
  BY <1>3, <1>5, CallsInCounts
<1>9. PICK s : s = D \ {label}
  OBVIOUS
<1>10. s \in SUBSET D /\ s \in SUBSET E /\ s \in SUBSET (D \cap E) /\ E \ {label} = s /\ label \in E
  BY <1>4, <1>9
<1>11. g[s] = h[s]
  BY <1>4, <1>5, <1>7, <1>8, <1>9, <1>10, SameCounts
<1>12. h[E] = e[label] + h[s] /\ h[s] \in Nat
  <2>1. \A q \in SUBSET E : h[q] \in Nat /\ \A x \in q : h[q] = e[x] + h[q \ {x}]
    <3>1. AnyFirst(h, e, E)
      BY <1>5, <1>6, <1>8, AnyLabelFirst
    <3>2. QED
      BY <3>1 DEF AnyFirst
  <2>2. E \in SUBSET E
    OBVIOUS
  <2>3. h[E] = e[label] + h[E \ {label}]
    BY <1>10, <2>1, <2>2
  <2>4. QED
    BY <1>10, <2>1, <2>3
<1>13. g[D] \in Nat /\ (label \in D => g[D] = c[label] + g[s])
  <2>1. \A q \in SUBSET D : g[q] \in Nat /\ \A x \in q : g[q] = c[x] + g[q \ {x}]
    <3>1. AnyFirst(g, c, D)
      BY <1>5, <1>7, AnyLabelFirst
    <3>2. QED
      BY <3>1 DEF AnyFirst
  <2>2. D \in SUBSET D
    OBVIOUS
  <2>3. label \in D => g[D] = c[label] + g[D \ {label}]
    BY <2>1, <2>2
  <2>4. QED
    BY <1>9, <2>1, <2>2, <2>3
<1>14. h[E] = g[D] + 1
  <2>1. CASE label \in D
    <3>1. c[label] \in Nat
      BY <1>5, <2>1
    <3>2. QED
      BY <1>4, <1>11, <1>12, <1>13, <2>1, <3>1
  <2>2. CASE label \notin D
    <3>1. s = D
      BY <1>9, <2>2
    <3>2. QED
      BY <1>4, <1>11, <1>12, <2>2, <3>1
  <2>3. QED
    BY <2>1, <2>2
<1>15. CounterOK(e)
  BY <1>3, <1>5, <1>6 DEF CounterOK
<1>16. QED
  BY <1>2, <1>7, <1>8, <1>13, <1>14, <1>15

LEMMA NothingCounted == CounterOK(<<>>) /\ CallsIn(<<>>) = 0
<1>1. DOMAIN <<>> = {}
  OBVIOUS
<1>2. IsFiniteSet({})
  BY FS_EmptySet
<1>3. PICK g : CountsUp(g, <<>>, {}) /\ CallsIn(<<>>) = g[{}]
  BY <1>1, <1>2, CallsInCounts
<1>4. g[{}] = 0
  BY <1>3 DEF CountsUp, CountStep
<1>5. QED
  BY <1>1, <1>2, <1>3, <1>4 DEF CounterOK

-----------------------------------------------------------------------------
(* Who may call                                                            *)

AccessInv ==
  /\ policy \in Policies /\ accesses \in Nat /\ raised \in Nat
  /\ CounterOK(servedAs) /\ CounterOK(turnedAway)
  /\ CallersAreWhoTheySay /\ AccessIsCounted

(* check answers as documented wherever compare_digest takes its strings.  *)
LEMMA CheckAnswers ==
  ASSUME NEW header \in Headers, policy.require
  PROVE  /\ check(header) = "ok" => Presented(header) # {} /\ Configured(header.key)
         /\ AllAscii(header.key) =>
              check(header) = IF Presented(header) = {} THEN "missing_api_key"
                              ELSE IF Configured(header.key) THEN "ok" ELSE "invalid_api_key"
<1>1. extract_bearer(header) = Presented(header)
  BY DEF extract_bearer, Presented
<1>2. PICK x \in Keys : x = header.key
  BY DEF Headers
<1>3. PICK d : d = sha256_hex(x) /\ d \notin Foreigners
  BY AccessAssumption DEF sha256_hex
<1>4. AllAscii(x) => Comparable(x, ClearKeys) /\ Comparable(d, policy.hashed)
  BY <1>3 DEF AllAscii, Comparable
<1>5. Presented(header) # {} => (Configured(x) <=> x \in ClearKeys \/ d \in policy.hashed)
  BY <1>2, <1>3 DEF Presented, Configured, ClearKeys
<1>6. check(header) = IF Presented(header) = {} THEN "missing_api_key" ELSE is_valid(x)
  BY <1>1, <1>2 DEF check
<1>7. /\ is_valid(x) = "ok" => x \in ClearKeys \/ d \in policy.hashed
      /\ AllAscii(x) =>
           is_valid(x) = IF x \in ClearKeys \/ d \in policy.hashed THEN "ok" ELSE "invalid_api_key"
  BY <1>3, <1>4 DEF is_valid
<1>8. QED
  BY <1>2, <1>5, <1>6, <1>7

LEMMA ChatIsWho ==
  ASSUME policy \in Policies, NEW header \in Headers, ChatAccess(header)
  PROVE  CallersAreWhoTheySay'
<1>1. PICK outcome, tenant : outcome = check(header) /\ tenant = resolve(header)
  OBVIOUS
<1>2. /\ lastCall' = [call |-> "chat", header |-> header, outcome |-> outcome, tenant |-> tenant]
      /\ policy' = policy
  BY <1>1 DEF ChatAccess
<1>3. /\ lastCall'.call = "chat" /\ lastCall'.header = header /\ lastCall'.outcome = outcome
      /\ lastCall'.tenant = tenant
  BY <1>2
<1>4. tenant = IF header.scheme = "bearer" THEN Grant(header.key) ELSE Anonymous
  BY <1>1, ResolveGrants
<1>5. keys' = keys /\ Grant(header.key)' = Grant(header.key)
  BY <1>2 DEF keys, Grant
<1>6. AllAscii(header.key)' = AllAscii(header.key) /\ Configured(header.key)' = Configured(header.key)
  BY <1>2, <1>5 DEF AllAscii, Configured, ClearKeys
<1>7. Presented(header) # {} \/ "" \notin keys =>
        tenant = IF Presented(header) = {} THEN Anonymous ELSE Grant(header.key)
  <2>1. header.scheme # "bearer" => Presented(header) = {} /\ tenant = Anonymous
    BY <1>4 DEF Presented
  <2>2. header.scheme = "bearer" /\ header.key # "" => Presented(header) # {} /\ tenant = Grant(header.key)
    BY <1>4 DEF Presented
  <2>3. header.scheme = "bearer" /\ header.key = "" /\ "" \notin keys =>
          Presented(header) = {} /\ tenant = Anonymous
    BY <1>1 DEF Presented, resolve, keys
  <2>4. header.scheme = "bearer" /\ header.key = "" => Presented(header) = {}
    BY DEF Presented
  <2>5. QED
    BY <2>1, <2>2, <2>3, <2>4
<1>8. policy.require =>
        /\ outcome = "ok" => Presented(header) # {} /\ Configured(header.key)
        /\ AllAscii(header.key) =>
             outcome = IF Presented(header) = {} THEN "missing_api_key"
                       ELSE IF Configured(header.key) THEN "ok" ELSE "invalid_api_key"
  BY <1>1, CheckAnswers
<1>9. QED
  BY <1>2, <1>3, <1>5, <1>6, <1>7, <1>8 DEF CallersAreWhoTheySay

LEMMA AdminIsWho ==
  ASSUME NEW header \in Headers, NEW adminKey \in Keys, AdminAccess(adminKey, header)
  PROVE  CallersAreWhoTheySay'
<1>1. PICK outcome : outcome = admin_authorized(adminKey, header)
  OBVIOUS
<1>2. /\ lastCall' = [call |-> "admin", adminKey |-> adminKey, header |-> header, outcome |-> outcome]
      /\ policy' = policy
  BY <1>1 DEF AdminAccess
<1>3. /\ lastCall'.call = "admin" /\ lastCall'.header = header /\ lastCall'.outcome = outcome
      /\ lastCall'.adminKey = adminKey
  BY <1>2
<1>4. header = [scheme |-> header.scheme, key |-> header.key]
  BY DEF Headers
<1>5. outcome = "ok" =>
        /\ policy.token # ""
        /\ adminKey = policy.token
           \/ (adminKey = "" /\ header.scheme = "bearer" /\ header.key = policy.token)
  BY <1>1 DEF admin_authorized, extract_bearer
<1>6. QED
  BY <1>2, <1>3, <1>4, <1>5 DEF CallersAreWhoTheySay

\* No string that auth compares is foreign, whoever calls.
AsciiOnly == (Keys \cup ClearKeys \cup policy.hashed) \cap Foreigners = {}

LEMMA ChatIsCounted ==
  ASSUME AccessInv, NEW header \in Headers, ChatAccess(header)
  PROVE  /\ CounterOK(servedAs)' /\ CounterOK(turnedAway)' /\ AccessIsCounted'
         /\ accesses' \in Nat /\ raised' \in Nat /\ policy' = policy
<1>1. PICK outcome : outcome = check(header)
  OBVIOUS
<1>2. PICK id : id = resolve(header).id
  OBVIOUS
<1>3. /\ accesses' = accesses + 1 /\ policy' = policy
      /\ servedAs' = IF outcome = "ok" THEN Counted(servedAs, id) ELSE servedAs
      /\ turnedAway' = IF outcome \in {"missing_api_key", "invalid_api_key"}
                       THEN Counted(turnedAway, outcome) ELSE turnedAway
      /\ raised' = IF outcome = "raises" THEN raised + 1 ELSE raised
  BY <1>1, <1>2 DEF ChatAccess
<1>4. /\ ~policy.require => outcome = "ok"
      /\ outcome \in {"ok", "missing_api_key", "invalid_api_key", "raises"}
  BY <1>1 DEF check, is_valid
<1>5. AsciiOnly => outcome # "raises"
  <2>1. AsciiOnly => AllAscii(header.key)
    BY DEF AsciiOnly, AllAscii, Headers
  <2>2. QED
    BY <1>1, <1>4, <2>1, CheckAnswers
<1>6. PICK a, b, n, e : a = CallsIn(servedAs) /\ b = CallsIn(turnedAway) /\ n = accesses /\ e = raised
  OBVIOUS
<1>7. /\ n \in Nat /\ a \in Nat /\ b \in Nat /\ e \in Nat /\ a + b + e = n
      /\ CounterOK(servedAs) /\ CounterOK(turnedAway)
      /\ ~policy.require => a = n
      /\ AsciiOnly => e = 0
  <2>1. CounterOK(servedAs) /\ CounterOK(turnedAway) /\ n \in Nat /\ e \in Nat
    BY <1>6 DEF AccessInv
  <2>2. a \in Nat /\ b \in Nat
    BY <1>6, <2>1, CountedAddsOne
  <2>3. QED
    BY <1>6, <2>1, <2>2 DEF AccessInv, AccessIsCounted, AsciiOnly
<1>8. AsciiOnly' <=> AsciiOnly
  BY <1>3 DEF AsciiOnly, ClearKeys, keys
<1>9. CASE outcome = "ok"
  <2>1. CounterOK(servedAs') /\ CallsIn(servedAs') = a + 1 /\ turnedAway' = turnedAway /\ raised' = e
    BY <1>3, <1>6, <1>7, <1>9, CountedAddsOne
  <2>2. CallsIn(turnedAway') = b
    BY <1>6, <2>1
  <2>3. QED
    BY <1>3, <1>6, <1>7, <1>8, <2>1, <2>2 DEF AccessIsCounted, CounterOK, AsciiOnly
<1>10. CASE outcome \in {"missing_api_key", "invalid_api_key"}
  <2>1. /\ CounterOK(turnedAway') /\ CallsIn(turnedAway') = b + 1 /\ servedAs' = servedAs
        /\ policy.require /\ raised' = e
    BY <1>3, <1>4, <1>6, <1>7, <1>10, CountedAddsOne
  <2>2. CallsIn(servedAs') = a
    BY <1>6, <2>1
  <2>3. QED
    BY <1>3, <1>6, <1>7, <1>8, <2>1, <2>2 DEF AccessIsCounted, CounterOK, AsciiOnly
<1>11. CASE outcome = "raises"
  <2>1. turnedAway' = turnedAway /\ servedAs' = servedAs /\ policy.require /\ raised' = e + 1 /\ ~AsciiOnly
    BY <1>3, <1>4, <1>5, <1>6, <1>11
  <2>2. CallsIn(servedAs') = a /\ CallsIn(turnedAway') = b
    BY <1>6, <2>1
  <2>3. QED
    BY <1>3, <1>6, <1>7, <1>8, <2>1, <2>2 DEF AccessIsCounted, CounterOK, AsciiOnly
<1>12. QED
  BY <1>4, <1>9, <1>10, <1>11

\* Whatever is configured and in whatever order calls come (auth.py:5-9, server.py:590-612):
\* with keys required nobody is served without a configured key; a call whose strings
\* compare_digest takes, the configured ones included, gets the documented answer; a caller
\* is served as the tenant of the last pair that names its key; only the token opens the
\* admin calls; and each call is counted once, as served, turned away or raised, of which
\* the last needs a string that is not ASCII.
THEOREM AccessAlwaysSound == AccessSpec => []AccessIsSound
<1>1. AccessInit => AccessInv
  <2> SUFFICES ASSUME AccessInit PROVE AccessInv
    OBVIOUS
  <2>1. CounterOK(servedAs) /\ CounterOK(turnedAway) /\ CallsIn(servedAs) = 0 /\ CallsIn(turnedAway) = 0
    BY NothingCounted DEF AccessInit
  <2>2. lastCall.call = "none" /\ accesses = 0 /\ raised = 0 /\ policy \in Policies
    BY DEF AccessInit
  <2>3. QED
    BY <2>1, <2>2 DEF AccessInv, AccessIsCounted, CallersAreWhoTheySay
<1>2. AccessInv /\ [AccessNext]_accessVars => AccessInv'
  <2> SUFFICES ASSUME AccessInv, [AccessNext]_accessVars PROVE AccessInv'
    OBVIOUS
  <2>1. ASSUME NEW header \in Headers, ChatAccess(header) PROVE AccessInv'
    <3>1. CallersAreWhoTheySay'
      BY <2>1, ChatIsWho DEF AccessInv
    <3>2. QED
      BY <2>1, <3>1, ChatIsCounted DEF AccessInv
  <2>2. ASSUME NEW header \in Headers, NEW adminKey \in Keys, AdminAccess(adminKey, header) PROVE AccessInv'
    <3>1. CallersAreWhoTheySay'
      BY <2>2, AdminIsWho
    <3>2. UNCHANGED <<policy, servedAs, turnedAway, accesses, raised>>
      BY <2>2 DEF AdminAccess
    <3>3. QED
      BY <3>1, <3>2 DEF AccessInv, AccessIsCounted, CounterOK, ClearKeys, keys
  <2>3. CASE UNCHANGED accessVars
    <3>1. UNCHANGED <<policy, servedAs, turnedAway, accesses, raised, lastCall>>
      BY <2>3 DEF accessVars
    <3>2. CallersAreWhoTheySay'
      BY <3>1 DEF AccessInv, CallersAreWhoTheySay, keys, Grant, AllAscii, Configured, ClearKeys
    <3>3. QED
      BY <3>1, <3>2 DEF AccessInv, AccessIsCounted, CounterOK, ClearKeys, keys
  <2>4. QED
    BY <2>1, <2>2, <2>3 DEF AccessNext
<1>3. AccessInv => AccessIsSound
  BY DEF AccessInv, AccessIsSound
<1>4. QED
  BY <1>1, <1>2, <1>3, PTL DEF AccessSpec

-----------------------------------------------------------------------------
(* The metrics page                                                        *)

(* Observations that are not above a bound.                                *)
LEMMA AtMostIs ==
  ASSUME NEW seq \in Seq(Nat), NEW bound \in Nat
  PROVE  /\ Within(seq, bound) \in Nat /\ Within(seq, bound) <= Len(seq)
         /\ \A b2 \in Nat : bound <= b2 => Within(seq, bound) <= Within(seq, b2)
<1> DEFINE In(b) == {i \in DOMAIN seq : seq[i] <= b}
<1>1. DOMAIN seq = 1 .. Len(seq) /\ Len(seq) \in Nat /\ IsFiniteSet(DOMAIN seq)
      /\ Cardinality(DOMAIN seq) = Len(seq)
  <2>1. DOMAIN seq = 1 .. Len(seq) /\ Len(seq) \in Nat
    OBVIOUS
  <2>2. PICK n \in Nat : n = Len(seq)
    BY <2>1
  <2>3. IsFiniteSet(1 .. n) /\ Cardinality(1 .. n) = n
    <3>1. IsFiniteSet(1 .. n) /\ Cardinality(1 .. n) = IF 1 > n THEN 0 ELSE n - 1 + 1
      BY FS_Interval
    <3>2. QED
      BY <3>1
  <2>4. QED
    BY <2>1, <2>2, <2>3
<1>2. \A b \in Nat : IsFiniteSet(In(b)) /\ Cardinality(In(b)) \in Nat /\ Cardinality(In(b)) <= Len(seq)
  BY <1>1, FS_Subset, FS_CardinalityType
<1>3. ASSUME NEW b2 \in Nat, bound <= b2 PROVE Cardinality(In(bound)) <= Cardinality(In(b2))
  <2>1. In(bound) \subseteq In(b2)
    BY <1>3
  <2>2. QED
    BY <2>1, <1>2, FS_Subset
<1>4. QED
  BY <1>2, <1>3 DEF Within

(* One more observation.                                                   *)
LEMMA AtMostAppend ==
  ASSUME NEW seq \in Seq(Nat), NEW bound \in Nat, NEW v \in Nat
  PROVE  Within(Append(seq, v), bound) = Within(seq, bound) + IF v <= bound THEN 1 ELSE 0
<1>1. PICK n, new :
        /\ n \in Nat /\ n = Len(seq) /\ new = Append(seq, v) /\ DOMAIN seq = 1 .. n /\ DOMAIN new = 1 .. n + 1
        /\ new[n + 1] = v /\ \A i \in 1 .. n : new[i] = seq[i]
  <2>0. PICK n \in Nat : n = Len(seq)
    OBVIOUS
  <2>1. PICK new : n = Len(seq) /\ new = Append(seq, v)
    BY <2>0
  <2>2. /\ DOMAIN seq = 1 .. n /\ DOMAIN new = 1 .. n + 1
        /\ new[n + 1] = v /\ \A i \in 1 .. n : new[i] = seq[i]
    BY <2>1
  <2>3. QED
    BY <2>1, <2>2
<1> DEFINE A == {i \in DOMAIN seq : seq[i] <= bound}
           B == {i \in DOMAIN new : new[i] <= bound}
<1>2. B = IF v <= bound THEN A \cup {n + 1} ELSE A
  <2>1. \A i : i \in 1 .. n + 1 <=> i \in 1 .. n \/ i = n + 1
    BY <1>1
  <2>2. \A i : i \in B <=> i \in A \/ (i = n + 1 /\ v <= bound)
    BY <1>1, <2>1
  <2>3. QED
    BY <2>2
<1>3. IsFiniteSet(A) /\ n + 1 \notin A
  <2>1. IsFiniteSet(1 .. n)
    BY <1>1, FS_Interval
  <2>2. QED
    BY <1>1, <2>1, FS_Subset
<1>4. Cardinality(A) \in Nat
  BY <1>3, FS_CardinalityType
<1>5. Cardinality(A \cup {n + 1}) = Cardinality(A) + 1
  BY <1>3, FS_AddElement
<1>6. Within(seq, bound) = Cardinality(A) /\ Within(new, bound) = Cardinality(B)
  BY DEF Within
<1>7. Cardinality(B) = Cardinality(A) + IF v <= bound THEN 1 ELSE 0
  <2> HIDE DEF A, B
  <2>1. QED
    BY <1>2, <1>4, <1>5
<1>8. QED
  BY <1>1, <1>6, <1>7

HistRecs(s) == [counts : [DOMAIN Bounds[s] -> Nat], sum : Nat, count : Nat]

(* A page shows buckets that do not decrease and are not ahead of the      *)
(* collector.                                                              *)
Shown(le, h, n) ==
  /\ le \in [1 .. n + 1 -> Nat]
  /\ \A i \in 1 .. n : le[i] <= le[i + 1] /\ le[i] <= h.counts[i]

CollectorInv ==
  /\ samples \in [DOMAIN Bounds -> Seq(Nat)]
  /\ DOMAIN hist \subseteq DOMAIN Bounds
  /\ \A s \in DOMAIN hist :
       /\ hist[s] \in HistRecs(s)
       /\ hist[s].count = Len(samples[s])
       /\ \A i \in DOMAIN Bounds[s] : hist[s].counts[i] = Within(samples[s], Bounds[s][i])
  /\ \A s \in DOMAIN Bounds : s \notin DOMAIN hist => samples[s] = <<>>
  /\ \A s \in DOMAIN counters : counters[s] \in Nat

PageInv ==
  /\ DOMAIN page.hist \subseteq DOMAIN hist
  /\ \A s \in DOMAIN page.hist :
       /\ Shown(page.hist[s].le, hist[s], Len(Bounds[s]))
       /\ page.hist[s].sum \in Nat /\ page.hist[s].sum <= hist[s].sum
  /\ DOMAIN page.counters \subseteq DOMAIN counters
  /\ \A s \in DOMAIN page.counters : page.counters[s] \in Nat /\ page.counters[s] <= counters[s]

MetricsInv == CollectorInv /\ PageInv

LEMMA BoundsAre ==
  ASSUME NEW s \in DOMAIN Bounds
  PROVE  /\ Len(Bounds[s]) \in Nat /\ DOMAIN Bounds[s] = 1 .. Len(Bounds[s])
         /\ \A i \in DOMAIN Bounds[s] : Bounds[s][i] \in Nat
         /\ \A i, k \in DOMAIN Bounds[s] : i < k => Bounds[s][i] < Bounds[s][k]
BY MetricsAssumption

LEMMA MetricsInitInv == MetricsInit => MetricsInv
<1>1. DOMAIN <<>> = {} /\ <<>> \in Seq(Nat)
  OBVIOUS
<1>2. QED
  BY <1>1 DEF MetricsInit, MetricsInv, CollectorInv, PageInv, NoPage

LEMMA ObservedKeeps ==
  ASSUME MetricsInv, NEW s \in DOMAIN Bounds, NEW value \in Samples, Observed(s, value)
  PROVE  MetricsInv'
<1>1. value \in Nat
  BY MetricsAssumption
<1>2. PICK h : h = Known(hist, s, [counts |-> [i \in DOMAIN Bounds[s] |-> 0], sum |-> 0, count |-> 0])
  OBVIOUS
<1>3. /\ h \in HistRecs(s) /\ h.count = Len(samples[s])
      /\ \A i \in DOMAIN Bounds[s] : h.counts[i] = Within(samples[s], Bounds[s][i])
      /\ s \in DOMAIN hist => h = hist[s]
  <2>1. CASE s \in DOMAIN hist
    BY <1>2, <2>1 DEF Known, MetricsInv, CollectorInv
  <2>2. CASE s \notin DOMAIN hist
    <3>1. h = [counts |-> [i \in DOMAIN Bounds[s] |-> 0], sum |-> 0, count |-> 0]
      BY <1>2, <2>2 DEF Known
    <3>2. samples[s] = <<>>
      BY <2>2 DEF MetricsInv, CollectorInv
    <3>3. \A b \in Nat : Within(samples[s], b) = 0
      <4>1. samples[s] \in Seq(Nat) /\ Len(samples[s]) = 0
        BY <3>2
      <4>2. \A b \in Nat : Within(samples[s], b) <= Len(samples[s]) /\ Within(samples[s], b) \in Nat
        BY <4>1, AtMostIs
      <4>3. QED
        BY <4>1, <4>2
    <3>4. QED
      BY <3>1, <3>2, <3>3, <2>2, BoundsAre DEF HistRecs
  <2>3. QED
    BY <2>1, <2>2
<1>4. PICK new : new = [counts |-> [i \in DOMAIN Bounds[s] |->
                                     h.counts[i] + IF Fits(Bounds[s], i, value) THEN 1 ELSE 0],
                        sum |-> h.sum + value, count |-> h.count + 1]
  OBVIOUS
<1>5. hist' = Put(hist, s, new)
  BY <1>2, <1>4 DEF Observed, observe
<1>6. samples' = [samples EXCEPT ![s] = Append(samples[s], value)] /\ samples[s] \in Seq(Nat)
      /\ counters' = counters /\ page' = page
  BY DEF Observed, MetricsInv, CollectorInv
<1>7. /\ new \in HistRecs(s) /\ new.count = Len(Append(samples[s], value))
      /\ \A i \in DOMAIN Bounds[s] : /\ new.counts[i] = Within(Append(samples[s], value), Bounds[s][i])
                                     /\ h.counts[i] <= new.counts[i]
      /\ h.sum <= new.sum
  <2>1. \A i \in DOMAIN Bounds[s] :
          Within(Append(samples[s], value), Bounds[s][i])
            = Within(samples[s], Bounds[s][i]) + IF value <= Bounds[s][i] THEN 1 ELSE 0
    BY <1>1, <1>6, AtMostAppend, BoundsAre
  <2>2. \A i \in DOMAIN Bounds[s] : h.counts[i] \in Nat
    BY <1>3 DEF HistRecs
  <2>3. h.sum \in Nat /\ h.count \in Nat
    BY <1>3 DEF HistRecs
  <2>4. \A i \in DOMAIN Bounds[s] :
          new.counts[i] = h.counts[i] + IF value <= Bounds[s][i] THEN 1 ELSE 0
    BY <1>4 DEF Fits
  <2>5. new.counts \in [DOMAIN Bounds[s] -> Nat]
    BY <1>4, <2>2
  <2>6. new.sum = h.sum + value /\ new.count = h.count + 1
    BY <1>4
  <2>7. new \in HistRecs(s)
    BY <1>1, <1>4, <2>3, <2>5 DEF HistRecs
  <2>8. QED
    BY <1>1, <1>3, <1>6, <2>1, <2>2, <2>3, <2>4, <2>6, <2>7
<1>8. /\ DOMAIN hist' = DOMAIN hist \cup {s} /\ hist'[s] = new
      /\ \A x \in DOMAIN hist : x # s => hist'[x] = hist[x]
  BY <1>5 DEF Put
<1>9. /\ samples' \in [DOMAIN Bounds -> Seq(Nat)] /\ samples'[s] = Append(samples[s], value)
      /\ \A x \in DOMAIN Bounds : x # s => samples'[x] = samples[x]
  BY <1>1, <1>6 DEF MetricsInv, CollectorInv
<1>10. CollectorInv'
  BY <1>6, <1>7, <1>8, <1>9 DEF MetricsInv, CollectorInv
<1>11. PageInv'
  <2>1. ASSUME NEW x \in DOMAIN page.hist
        PROVE  /\ Shown(page.hist[x].le, hist'[x], Len(Bounds[x]))
               /\ page.hist[x].sum \in Nat /\ page.hist[x].sum <= hist'[x].sum
    <3>1. /\ x \in DOMAIN hist /\ x \in DOMAIN Bounds /\ Shown(page.hist[x].le, hist[x], Len(Bounds[x]))
          /\ page.hist[x].sum \in Nat /\ page.hist[x].sum <= hist[x].sum /\ hist[x] \in HistRecs(x)
      BY <2>1 DEF MetricsInv, CollectorInv, PageInv
    <3>2. CASE x # s
      BY <3>1, <3>2, <1>8
    <3>3. CASE x = s
      <4>1. hist[x] = h /\ hist'[x] = new
        BY <3>1, <3>3, <1>3, <1>8
      <4>2. \A i \in 1 .. Len(Bounds[x]) : h.counts[i] \in Nat /\ new.counts[i] \in Nat /\ h.counts[i] <= new.counts[i]
        BY <3>1, <3>3, <1>3, <1>7, BoundsAre DEF HistRecs
      <4>3. h.sum \in Nat /\ new.sum \in Nat /\ h.sum <= new.sum
        BY <1>3, <1>7 DEF HistRecs
      <4>4. Shown(page.hist[x].le, new, Len(Bounds[x]))
        <5>0. PICK n \in Nat : n = Len(Bounds[x])
          BY <3>1, BoundsAre
        <5>1. PICK le : n = Len(Bounds[x]) /\ le = page.hist[x].le
          BY <5>0
        <5>2. le \in [1 .. n + 1 -> Nat] /\ \A i \in 1 .. n : le[i] <= le[i + 1] /\ le[i] <= h.counts[i]
          BY <5>1, <3>1, <4>1 DEF Shown
        <5>3. ASSUME NEW i \in 1 .. n PROVE le[i] <= new.counts[i]
          <6>1. PICK a, b : a = h.counts[i] /\ b = new.counts[i]
            OBVIOUS
          <6>2. a \in Nat /\ b \in Nat /\ a <= b
            BY <6>1, <5>1, <4>2
          <6>3. le[i] \in Nat /\ le[i] <= a
            <7>1. i \in 1 .. n + 1
              OBVIOUS
            <7>2. QED
              BY <7>1, <6>1, <5>2
          <6>4. QED
            BY <6>1, <6>2, <6>3
        <5>4. QED
          BY <5>1, <5>2, <5>3 DEF Shown
      <4>5. QED
        BY <3>1, <4>1, <4>3, <4>4
    <3>4. QED
      BY <3>2, <3>3
  <2>2. QED
    BY <1>6, <1>8, <2>1 DEF MetricsInv, PageInv
<1>12. QED
  BY <1>10, <1>11 DEF MetricsInv

LEMMA IncrementsKeeps ==
  ASSUME MetricsInv, NEW s \in DOMAIN Bounds, Increments(s)
  PROVE  MetricsInv'
<1>1. PICK v : v = Known(counters, s, 0)
  OBVIOUS
<1>2. v \in Nat /\ (s \in DOMAIN counters => v = counters[s])
  BY <1>1 DEF Known, MetricsInv, CollectorInv
<1>3. counters' = Put(counters, s, v + 1) /\ hist' = hist /\ samples' = samples /\ page' = page
  BY <1>1 DEF Increments, inc_counter
<1>4. /\ DOMAIN counters' = DOMAIN counters \cup {s} /\ counters'[s] = v + 1
      /\ \A x \in DOMAIN counters : x # s => counters'[x] = counters[x]
  BY <1>3 DEF Put
<1>5. \A x \in DOMAIN counters : counters[x] \in Nat /\ counters[x] <= counters'[x] /\ counters'[x] \in Nat
  BY <1>2, <1>4 DEF MetricsInv, CollectorInv
<1>6. CollectorInv'
  BY <1>2, <1>3, <1>4, <1>5 DEF MetricsInv, CollectorInv
<1>7. PageInv'
  BY <1>3, <1>4, <1>5 DEF MetricsInv, PageInv
<1>8. QED
  BY <1>6, <1>7 DEF MetricsInv

LEMMA PageKeeps ==
  ASSUME MetricsInv, metrics_endpoint
  PROVE  MetricsInv'
<1>1. hist' = hist /\ samples' = samples /\ counters' = counters
  BY DEF metrics_endpoint
<1>2. /\ page'.counters = counters /\ DOMAIN page'.hist = DOMAIN hist
      /\ \A s \in DOMAIN hist : page'.hist[s].le = Append(hist[s].counts, hist[s].count)
                                /\ page'.hist[s].sum = hist[s].sum
  BY DEF metrics_endpoint, render
<1>3. CollectorInv'
  BY <1>1 DEF MetricsInv, CollectorInv
<1>4. ASSUME NEW s \in DOMAIN hist
      PROVE  Shown(Append(hist[s].counts, hist[s].count), hist[s], Len(Bounds[s])) /\ hist[s].sum \in Nat
  <2>0. s \in DOMAIN Bounds
    BY <1>4 DEF MetricsInv, CollectorInv
  <2>1. PICK n \in Nat : n = Len(Bounds[s])
    BY <2>0, BoundsAre
  <2>1a. PICK B, c, k, seq :
           B = Bounds[s] /\ c = hist[s].counts /\ k = hist[s].count /\ seq = samples[s]
    OBVIOUS
  <2>2. /\ c \in [1 .. n -> Nat] /\ k = Len(seq) /\ seq \in Seq(Nat) /\ hist[s].sum \in Nat
        /\ \A i \in 1 .. n : c[i] = Within(seq, B[i]) /\ B[i] \in Nat
        /\ \A i, j \in 1 .. n : i < j => B[i] < B[j]
    BY <2>0, <2>1, <2>1a, <1>4, BoundsAre DEF MetricsInv, CollectorInv, HistRecs
  <2>3. \A i \in 1 .. n : c[i] <= k /\ \A j \in 1 .. n : i < j => c[i] <= c[j]
    <3>1. \A i \in 1 .. n : Within(seq, B[i]) <= Len(seq)
      BY <2>2, AtMostIs
    <3>2. ASSUME NEW i \in 1 .. n, NEW j \in 1 .. n, i < j PROVE Within(seq, B[i]) <= Within(seq, B[j])
      <4>1. B[i] \in Nat /\ B[j] \in Nat /\ B[i] <= B[j]
        BY <2>2, <3>2
      <4>2. QED
        BY <4>1, <2>2, AtMostIs
    <3>3. QED
      BY <3>1, <3>2, <2>2
  <2>4. k \in Nat /\ c \in Seq(Nat) /\ Len(c) = n
    BY <2>2
  <2>5. PICK le : le = Append(c, k)
    OBVIOUS
  <2>6. le \in [1 .. n + 1 -> Nat] /\ le[n + 1] = k /\ \A i \in 1 .. n : le[i] = c[i]
    <3>1. Len(Append(c, k)) = n + 1 /\ Append(c, k) \in Seq(Nat)
      BY <2>4
    <3>2. DOMAIN c = 1 .. n /\ Append(c, k)[n + 1] = k /\ \A i \in 1 .. n : Append(c, k)[i] = c[i]
      BY <2>2, <2>4
    <3>3. le \in Seq(Nat) /\ Len(le) = n + 1 /\ n + 1 \in Nat
      BY <3>1, <2>5
    <3>4. le \in [1 .. n + 1 -> Nat]
      <4>1. PICK m \in Nat : m = n + 1
        OBVIOUS
      <4>2. le \in [1 .. m -> Nat]
        BY <4>1, <3>3
      <4>3. QED
        BY <4>1, <4>2
    <3>5. QED
      BY <3>2, <3>4, <2>5
  <2>7. \A i \in 1 .. n : le[i] <= le[i + 1] /\ le[i] <= c[i]
    <3>1. ASSUME NEW i \in 1 .. n PROVE le[i] <= le[i + 1] /\ le[i] <= c[i]
      <4>1. CASE i = n
        BY <4>1, <2>2, <2>3, <2>6
      <4>2. CASE i # n
        <5>1. i + 1 \in 1 .. n /\ i < i + 1
          BY <4>2
        <5>2. le[i] = c[i] /\ le[i + 1] = c[i + 1] /\ c[i] <= c[i + 1] /\ c[i] \in Nat
          BY <5>1, <2>2, <2>3, <2>6
        <5>3. QED
          BY <5>2
      <4>3. QED
        BY <4>1, <4>2
    <3>2. QED
      BY <3>1
  <2>8. QED
    BY <2>1, <2>1a, <2>2, <2>5, <2>6, <2>7 DEF Shown
<1>5. PageInv'
  <2>1. \A s \in DOMAIN hist : hist[s].sum <= hist[s].sum
    BY <1>4
  <2>2. \A s \in DOMAIN counters : counters[s] \in Nat
    BY DEF MetricsInv, CollectorInv
  <2>3. DOMAIN page'.hist \subseteq DOMAIN hist' /\ DOMAIN page'.counters \subseteq DOMAIN counters'
    BY <1>1, <1>2
  <2>4. ASSUME NEW s \in DOMAIN page'.hist
        PROVE  /\ Shown(page'.hist[s].le, hist'[s], Len(Bounds[s]))
               /\ page'.hist[s].sum \in Nat /\ page'.hist[s].sum <= hist'[s].sum
    <3>1. s \in DOMAIN hist
      BY <1>2
    <3>2. QED
      BY <3>1, <1>1, <1>2, <1>4, <2>1
  <2>5. \A s \in DOMAIN page'.counters : page'.counters[s] \in Nat /\ page'.counters[s] <= counters'[s]
    BY <1>1, <1>2, <2>2
  <2>6. QED
    BY <2>3, <2>4, <2>5 DEF PageInv
<1>6. QED
  BY <1>3, <1>5 DEF MetricsInv

\* A bucket counts the observations up to its bound, and a page scraped earlier is never
\* ahead of the series it was made from (metrics.py:51-92).
THEOREM MetricsInvHolds == MetricsSpec => []MetricsInv
<1>1. MetricsInv /\ [MetricsNext]_metricsVars => MetricsInv'
  <2> SUFFICES ASSUME MetricsInv, [MetricsNext]_metricsVars PROVE MetricsInv'
    OBVIOUS
  <2>1. CASE \E s \in DOMAIN Bounds : Increments(s)
    BY <2>1, IncrementsKeeps
  <2>2. CASE \E s \in DOMAIN Bounds, value \in Samples : Observed(s, value)
    BY <2>2, ObservedKeeps
  <2>3. CASE UNCHANGED <<counters, gauges, hist, page, samples>>
    BY <2>3 DEF MetricsInv, CollectorInv, PageInv
  <2>4. CASE metrics_endpoint
    BY <2>4, PageKeeps
  <2>5. CASE UNCHANGED metricsVars
    BY <2>3, <2>5 DEF metricsVars
  <2>6. QED
    BY <2>1, <2>2, <2>3, <2>4, <2>5 DEF MetricsNext, FleetLoses, FleetMoves
<1>2. QED
  BY <1>1, MetricsInitInv, PTL DEF MetricsSpec

\* Whatever the bounds, and however observations, scrapes and changes of the fleet
\* interleave, the buckets of a page never decrease with their bound and no series runs
\* backwards from one page to the next (metrics.py:66).
THEOREM PagesAlwaysCumulative == MetricsSpec => []PagesAreCumulative
<1>1. MetricsInv => PagesAreCumulative
  BY DEF MetricsInv, CollectorInv, PageInv, Shown, PagesAreCumulative
<1>2. QED
  BY <1>1, MetricsInvHolds, PTL

-----------------------------------------------------------------------------
(* The learned estimate                                                    *)

(* A mean with weights that add up to 100 percent lies between its parts.  *)
LEMMA BlendIsBetween ==
  ASSUME NEW w \in 0 .. 100, NEW a \in Nat, NEW b \in Nat, a <= b
  PROVE  /\ 100 * a <= (100 - w) * a + w * b /\ (100 - w) * a + w * b <= 100 * b
         /\ 100 * a <= (100 - w) * b + w * a /\ (100 - w) * b + w * a <= 100 * b
<1>1. PICK d \in Nat : b = a + d
  <2>1. b - a \in Nat /\ b = a + (b - a)
    OBVIOUS
  <2>2. QED
    BY <2>1
<1>2. PICK v \in Nat : v = 100 - w
  OBVIOUS
<1>3. w * d \in Nat /\ v * d \in Nat /\ w * a \in Nat /\ v * a \in Nat
  BY <1>2
<1>4. v * a + w * a = 100 * a /\ v * d + w * d = 100 * d
  BY <1>2
<1>5. w * b = w * a + w * d /\ v * b = v * a + v * d /\ 100 * b = 100 * a + 100 * d
  BY <1>1
<1>6. QED
  BY <1>2, <1>3, <1>4, <1>5

(* A model that is loaded is one that was trained; the last estimate lies  *)
(* between the static one and the prediction it was made from.             *)
PredictorInv ==
  /\ disk \in [model : Weights \cup {NoModel}, whole : BOOLEAN, mtime : Nat]
  /\ model \in Weights \cup {NoModel} /\ mtime \in Nat
  /\ EstimateIsBetween

LEMMA ScoreIsBetween ==
  ASSUME PredictorInv, NEW ms \in StaticMs, Score(ms)
  PROVE  EstimateIsBetween'
<1>1. PICK w \in 0 .. 100 : w = IF BlendPercent < 0 THEN 0 ELSE IF BlendPercent > 100 THEN 100 ELSE BlendPercent
  BY PredictorAssumption
<1>2. PICK p : p = Predicted
  OBVIOUS
<1>3. p \in Nat \cup {-1}
  BY <1>2, PredictorAssumption DEF PredictorInv, Predicted, NoModel
<1>4. ms \in Nat
  BY PredictorAssumption
<1>5. PICK v : v = blended_ttft(ms, p)
  OBVIOUS
<1>6. v = IF p < 0 THEN 100 * ms ELSE (100 - w) * ms + w * p
  BY <1>1, <1>5 DEF blended_ttft
<1>7. estimate'.static = ms /\ estimate'.predicted = p /\ estimate'.value = v
  BY <1>2, <1>5 DEF Score
<1>8. CASE p < 0
  BY <1>4, <1>6, <1>7, <1>8 DEF EstimateIsBetween
<1>9. CASE ~(p < 0)
  <2>1. p \in Nat /\ v = (100 - w) * ms + w * p
    BY <1>3, <1>6, <1>9
  <2>2. (100 * ms <= v /\ v <= 100 * p) \/ (100 * p <= v /\ v <= 100 * ms)
    <3>1. CASE ms <= p
      BY <1>4, <2>1, <3>1, BlendIsBetween
    <3>2. CASE p <= ms
      BY <1>4, <2>1, <3>2, BlendIsBetween
    <3>3. QED
      BY <1>4, <2>1, <3>1, <3>2
  <2>3. QED
    BY <1>7, <1>9, <2>2 DEF EstimateIsBetween
<1>10. QED
  BY <1>8, <1>9

\* Whatever weight is configured and whatever the model predicts or fails to, the estimate
\* the router compares lies between the static one and the prediction
\* (ttft_predictor.py:144-154).
THEOREM EstimatesStayBetween == PredictorSpec => []EstimateIsBetween
<1>1. PredictorInit => PredictorInv
  BY DEF PredictorInit, PredictorInv, EstimateIsBetween, NoModel
<1>2. PredictorInv /\ [PredictorNext]_predictorVars => PredictorInv'
  <2> SUFFICES ASSUME PredictorInv, [PredictorNext]_predictorVars PROVE PredictorInv'
    OBVIOUS
  <2>0. /\ disk \in [model : Weights \cup {NoModel}, whole : BOOLEAN, mtime : Nat]
        /\ model \in Weights \cup {NoModel} /\ mtime \in Nat
    BY DEF PredictorInv
  <2>1. ASSUME UNCHANGED estimate PROVE EstimateIsBetween'
    BY <2>1 DEF PredictorInv, EstimateIsBetween
  <2>2. ASSUME NEW w \in Weights, TrainOpens(w) PROVE PredictorInv'
    <3>1. disk' \in [model : Weights \cup {NoModel}, whole : BOOLEAN, mtime : Nat]
      BY <2>0, <2>2 DEF TrainOpens
    <3>2. model' = model /\ mtime' = mtime /\ EstimateIsBetween'
      BY <2>1, <2>2 DEF TrainOpens
    <3>3. QED
      BY <2>0, <3>1, <3>2 DEF PredictorInv
  <2>3. CASE TrainCloses
    <3>1. disk' \in [model : Weights \cup {NoModel}, whole : BOOLEAN, mtime : Nat]
      <4>1. disk' = [model |-> disk.model, whole |-> TRUE, mtime |-> disk.mtime + 1]
        BY <2>0, <2>3 DEF TrainCloses
      <4>2. disk.model \in Weights \cup {NoModel} /\ disk.mtime + 1 \in Nat
        BY <2>0
      <4>3. QED
        BY <4>1, <4>2
    <3>2. model' = model /\ mtime' = mtime /\ EstimateIsBetween'
      BY <2>1, <2>3 DEF TrainCloses
    <3>3. QED
      BY <2>0, <3>1, <3>2 DEF PredictorInv
  <2>4. CASE Boot
    <3>1. model' \in Weights \cup {NoModel} /\ mtime' \in Nat
      BY <2>0, <2>4 DEF Boot, Reloaded, NoModel
    <3>2. disk' = disk /\ EstimateIsBetween'
      BY <2>1, <2>4 DEF Boot
    <3>3. QED
      BY <2>0, <3>1, <3>2 DEF PredictorInv
  <2>5. ASSUME NEW ms \in StaticMs, Score(ms) PROVE PredictorInv'
    <3>1. EstimateIsBetween' /\ disk' = disk /\ model' = model /\ mtime' = mtime
      BY <2>5, ScoreIsBetween DEF Score
    <3>2. QED
      BY <2>0, <3>1 DEF PredictorInv
  <2>6. CASE UNCHANGED predictorVars
    <3>1. EstimateIsBetween' /\ disk' = disk /\ model' = model /\ mtime' = mtime
      BY <2>1, <2>6 DEF predictorVars
    <3>2. QED
      BY <2>0, <3>1 DEF PredictorInv
  <2>7. QED
    BY <2>2, <2>3, <2>4, <2>5, <2>6 DEF PredictorNext
<1>3. PredictorInv => EstimateIsBetween
  BY DEF PredictorInv
<1>4. QED
  BY <1>1, <1>2, <1>3, PTL DEF PredictorSpec

-----------------------------------------------------------------------------
(* Blocks and chains                                                       *)

Units == Seq(STRING)
Chains == Seq(Units)

(* i blocks of d units are there if i is no more than the quotient.        *)
LEMMA QuotientIs ==
  ASSUME NEW n \in Nat, NEW d \in Nat \ {0}
  PROVE  n \div d \in Nat /\ \A i \in Nat : i <= n \div d <=> i * d <= n
<1>1. n \div d \in Nat /\ (n \div d) * d <= n /\ n < (n \div d) * d + d
  OBVIOUS
<1>2. PICK m \in Nat : m = n \div d /\ m * d <= n /\ n < m * d + d
  BY <1>1
<1>3. ASSUME NEW i \in Nat, i <= m PROVE i * d <= n
  <2>1. PICK e \in Nat : m = i + e
    <3>1. m - i \in Nat /\ m = i + (m - i)
      BY <1>3
    <3>2. QED
      BY <3>1
  <2>2. m * d = i * d + e * d /\ e * d \in Nat /\ i * d \in Nat
    BY <2>1
  <2>3. QED
    BY <1>2, <2>2
<1>4. ASSUME NEW i \in Nat, i * d <= n PROVE i <= m
  <2>1. SUFFICES ASSUME i > m PROVE FALSE
    OBVIOUS
  <2>2. PICK e \in Nat : i = m + 1 + e
    <3>1. i - m - 1 \in Nat /\ i = m + 1 + (i - m - 1)
      BY <2>1
    <3>2. QED
      BY <3>1
  <2>3. i * d = m * d + d + e * d /\ e * d \in Nat /\ m * d \in Nat
    BY <2>2
  <2>4. QED
    BY <1>2, <1>4, <2>3
<1>5. QED
  BY <1>2, <1>3, <1>4

(* The number of full blocks of a prompt, up to the cutoff.                *)
Full(n, size) == Min({n \div size, Cutoff})

LEMMA FullIs ==
  ASSUME NEW n \in Nat, NEW d \in Nat \ {0}
  PROVE  /\ Full(n, d) \in Nat
         /\ \A i \in Nat : i <= Full(n, d) <=> i <= Cutoff /\ i * d <= n
         /\ Full(n, d) = Min({Cutoff, n \div d})
<1>1. PICK m \in Nat : m = n \div d /\ \A i \in Nat : i <= m <=> i * d <= n
  BY QuotientIs
<1>2. Cutoff \in Nat
  BY CacheAssumption
<1>3. PICK T \in SUBSET Nat : T = {m, Cutoff} /\ T # {} /\ T = {Cutoff, m}
  BY <1>2
<1>4. Min(T) \in T /\ \A y \in T : Min(T) <= y
  BY <1>3, MinIsLeast
<1>5. PICK f \in Nat : f = Full(n, d) /\ f = Min(T)
  BY <1>1, <1>3, <1>4 DEF Full
<1>6. \A i \in Nat : i <= f <=> i <= Cutoff /\ i <= m
  BY <1>2, <1>3, <1>4, <1>5
<1>7. QED
  BY <1>1, <1>3, <1>5, <1>6

(* The units of a block.                                                   *)
LEMMA ChunkIs ==
  ASSUME NEW u \in Units, NEW d \in Nat \ {0}, NEW i \in Nat \ {0}, i * d <= Len(u)
  PROVE  /\ Chunk(u, d, i) \in Units /\ Len(Chunk(u, d, i)) = d
         /\ \A k \in 1 .. d : Chunk(u, d, i)[k] = u[(i - 1) * d + k]
         /\ \A k \in 1 .. d : (i - 1) * d + k \in 1 .. Len(u)
<1>1. PICK a \in Nat : a = (i - 1) * d /\ i * d = a + d
  <2>1. PICK j \in Nat : j = i - 1 /\ i = j + 1
    OBVIOUS
  <2>2. j * d \in Nat /\ (j + 1) * d = j * d + d
    OBVIOUS
  <2>3. QED
    BY <2>1, <2>2
<1>2. Chunk(u, d, i) = SubSeq(u, a + 1, a + d)
  BY <1>1 DEF Chunk
<1>3. a + d <= Len(u) /\ Len(u) \in Nat
  BY <1>1 DEF Units
<1>4. PICK c : c = SubSeq(u, a + 1, a + d)
  OBVIOUS
<1>5. c \in Seq(STRING) /\ Len(c) = d /\ \A k \in 1 .. d : c[k] = u[a + k]
  BY <1>3, <1>4 DEF Units
<1>6. Chunk(u, d, i) = c /\ (i - 1) * d = a
  BY <1>1, <1>2, <1>4
<1>7. \A k \in 1 .. d : a + k \in 1 .. Len(u)
  BY <1>3
<1>8. QED
  BY <1>5, <1>6, <1>7 DEF Units

(* The chain of the first i blocks, behind the seed.                       *)
ChainTo(u, d, seed, i) ==
  [k \in 1 .. Len(seed) + i |-> IF k <= Len(seed) THEN seed[k] ELSE Chunk(u, d, k - Len(seed))]

LEMMA ChainGrows ==
  ASSUME NEW u \in Units, NEW d \in Nat \ {0}, NEW seed \in Chains
  PROVE  /\ ChainTo(u, d, seed, 0) = seed
         /\ \A i \in 1 .. Full(Len(u), d) :
              ChainTo(u, d, seed, i) = Append(ChainTo(u, d, seed, i - 1), Chunk(u, d, i))
         /\ \A i \in 0 .. Full(Len(u), d) :
              ChainTo(u, d, seed, i) \in Chains /\ Len(ChainTo(u, d, seed, i)) = Len(seed) + i
<1>1. PICK s \in Nat : s = Len(seed) /\ seed \in Seq(Units) /\ \A k \in 1 .. s : seed[k] \in Units
  BY DEF Chains
<1>2. PICK n \in Nat : n = Full(Len(u), d) /\ \A i \in Nat : i <= n => i * d <= Len(u)
  <2>1. Len(u) \in Nat
    BY DEF Units
  <2>2. QED
    BY <2>1, FullIs
<1>3. \A i \in 1 .. n : Chunk(u, d, i) \in Units
  BY <1>2, ChunkIs
<1>4. ASSUME NEW i \in 0 .. n
      PROVE  ChainTo(u, d, seed, i) \in Seq(Units) /\ Len(ChainTo(u, d, seed, i)) = s + i
  <2>1. \A k \in 1 .. s + i : k <= s \/ k - s \in 1 .. n
    OBVIOUS
  <2>2. ChainTo(u, d, seed, i) \in [1 .. s + i -> Units]
    BY <1>1, <1>3, <2>1 DEF ChainTo
  <2>3. s + i \in Nat
    OBVIOUS
  <2>4. QED
    BY <2>2, <2>3
<1>5. ChainTo(u, d, seed, 0) = seed
  <2>1. PICK c : c = ChainTo(u, d, seed, 0) /\ c \in Seq(Units) /\ Len(c) = s
    BY <1>2, <1>4
  <2>2. \A k \in 1 .. s : c[k] = seed[k]
    BY <1>1, <2>1 DEF ChainTo
  <2>3. QED
    BY <1>1, <2>1, <2>2
<1>6. ASSUME NEW i \in 1 .. n
      PROVE  ChainTo(u, d, seed, i) = Append(ChainTo(u, d, seed, i - 1), Chunk(u, d, i))
  <2>1. i - 1 \in 0 .. n /\ i \in 0 .. n
    OBVIOUS
  <2>2. PICK b, c, x : /\ c = ChainTo(u, d, seed, i) /\ c \in Seq(Units) /\ Len(c) = s + i
                       /\ b = ChainTo(u, d, seed, i - 1) /\ b \in Seq(Units) /\ Len(b) = s + i - 1
                       /\ x = Chunk(u, d, i) /\ x \in Units
    <3>1. Len(ChainTo(u, d, seed, i - 1)) = s + (i - 1) /\ s + (i - 1) = s + i - 1
      BY <1>4, <2>1
    <3>2. QED
      BY <1>3, <1>4, <2>1, <3>1
  <2>3. \A k \in 1 .. s + i - 1 : c[k] = b[k]
    BY <1>1, <2>2 DEF ChainTo
  <2>4. c[s + i] = x
    <3>1. s + i \in 1 .. s + i /\ ~(s + i <= s) /\ (s + i) - s = i
      OBVIOUS
    <3>2. QED
      BY <1>1, <2>2, <3>1 DEF ChainTo
  <2>5. QED
    BY <2>2, <2>3, <2>4
<1>7. QED
  BY <1>1, <1>2, <1>4, <1>5, <1>6 DEF Chains

(* Hash i is the chain of the first i blocks.                              *)
LEMMA HashesAre ==
  ASSUME NEW u \in Units, NEW d \in Nat \ {0}, NEW seed \in Chains
  PROVE  /\ chained_hashes(u, d, seed) \in Seq(Chains)
         /\ Len(chained_hashes(u, d, seed)) = Full(Len(u), d)
         /\ \A i \in 1 .. Full(Len(u), d) : chained_hashes(u, d, seed)[i] = ChainTo(u, d, seed, i)
<1>1. PICK n \in Nat : n = Full(Len(u), d)
  <2>1. Len(u) \in Nat
    BY DEF Units
  <2>2. QED
    BY <2>1, FullIs
<1> DEFINE C(i) == ChainTo(u, d, seed, i)
           Loop(f) == f = [i \in 0 .. n |-> IF i = 0 THEN seed ELSE Chain(f[i - 1], Chunk(u, d, i))]
<1>2. chained_hashes(u, d, seed) = [i \in 1 .. n |-> (CHOOSE f : Loop(f))[i]]
  BY <1>1 DEF chained_hashes, Full
<1>3. /\ C(0) = seed
      /\ \A i \in 1 .. n : C(i) = Append(C(i - 1), Chunk(u, d, i))
      /\ \A i \in 0 .. n : C(i) \in Chains
  BY <1>1, ChainGrows
<1> HIDE DEF C
<1>4. \E f : Loop(f)
  <2>1. PICK f : f = [i \in 0 .. n |-> C(i)]
    OBVIOUS
  <2>2. \A i \in 1 .. n : i - 1 \in 0 .. n /\ i # 0
    OBVIOUS
  <2>3. \A i \in 0 .. n : C(i) = IF i = 0 THEN seed ELSE Chain(f[i - 1], Chunk(u, d, i))
    <3>1. ASSUME NEW i \in 0 .. n, i # 0 PROVE C(i) = Chain(f[i - 1], Chunk(u, d, i))
      <4>1. i \in 1 .. n
        BY <3>1
      <4>2. QED
        BY <1>3, <2>1, <2>2, <4>1 DEF Chain
    <3>2. QED
      BY <1>3, <3>1
  <2>4. Loop(f)
    BY <2>1, <2>3
  <2>5. QED
    BY <2>4
<1>5. PICK g : g = CHOOSE f : Loop(f)
  OBVIOUS
<1>6. Loop(g)
  BY <1>4, <1>5
<1> DEFINE T == {k \in 0 .. n : g[k] = C(k)}
<1>7. 0 \in T
  BY <1>3, <1>6
<1>8. ASSUME NEW k \in 1 .. n, k - 1 \in T PROVE k \in T
  <2>1. k \in 0 .. n /\ k # 0
    OBVIOUS
  <2>2. g[k] = Chain(g[k - 1], Chunk(u, d, k))
    BY <1>6, <2>1
  <2>3. QED
    BY <1>3, <1>8, <2>1, <2>2 DEF Chain
<1>9. T \in SUBSET (0 .. n)
  OBVIOUS
<1>10. \A k \in 0 .. n : k \in T
  <2> HIDE DEF T
  <2>1. QED
    BY <1>7, <1>8, <1>9, UpToN
<1>11. PICK h : h = chained_hashes(u, d, seed)
  OBVIOUS
<1>12. h = [i \in 1 .. n |-> g[i]] /\ \A i \in 1 .. n : g[i] = C(i) /\ C(i) \in Chains
  <2>1. \A i \in 1 .. n : i \in 0 .. n
    OBVIOUS
  <2>2. h = [i \in 1 .. n |-> g[i]]
    BY <1>2, <1>5, <1>11
  <2>3. QED
    BY <1>3, <1>10, <2>1, <2>2
<1>13. h \in Seq(Chains) /\ Len(h) = n /\ \A i \in 1 .. n : h[i] = C(i)
  <2>1. h \in [1 .. n -> Chains]
    BY <1>12
  <2>2. QED
    BY <1>12, <2>1
<1>14. QED
  BY <1>1, <1>11, <1>13 DEF C

(* The first m elements are common.                                        *)
Common(a, b, m) == m <= Len(a) /\ m <= Len(b) /\ \A k \in 1 .. m : a[k] = b[k]

LEMMA PrefixOfBoth ==
  ASSUME NEW E, NEW a \in Seq(E), NEW b \in Seq(E)
  PROVE  /\ \A x \in CommonPrefixes({a, b}) : Len(x) \in Nat /\ Common(a, b, Len(x))
         /\ \A m \in Nat : Common(a, b, m) => \E x \in CommonPrefixes({a, b}) : Len(x) = m
<1>1. PICK S : S = {a, b} /\ \A t \in S : t \in Seq(E)
  OBVIOUS
<1>2. Len(a) \in Nat /\ Len(b) \in Nat
  OBVIOUS
<1>3. ASSUME NEW x \in CommonPrefixes({a, b}) PROVE Len(x) \in Nat /\ Common(a, b, Len(x))
  <2>1. PICK t \in S : x \in Prefixes(t)
    BY <1>1, <1>3 DEF CommonPrefixes
  <2>2. PICK l \in 0 .. Len(t) : x = SubSeq(t, 1, l)
    BY <2>1 DEF Prefixes
  <2>3. x \in Seq(E) /\ Len(x) = l /\ l \in Nat
    BY <1>1, <2>2
  <2>4. IsPrefix(x, a) /\ IsPrefix(x, b)
    BY <1>1, <1>3 DEF CommonPrefixes
  <2>5. l <= Len(a) /\ l <= Len(b) /\ SubSeq(x, 1, l) = SubSeq(a, 1, l) /\ SubSeq(x, 1, l) = SubSeq(b, 1, l)
    BY <2>3, <2>4 DEF IsPrefix
  <2>6. ASSUME NEW k \in 1 .. l PROVE a[k] = b[k]
    <3>1. SubSeq(a, 1, l)[k] = a[k] /\ SubSeq(b, 1, l)[k] = b[k]
      BY <1>2, <2>3, <2>5
    <3>2. QED
      BY <2>5, <3>1
  <2>7. QED
    BY <2>3, <2>5, <2>6 DEF Common
<1>4. ASSUME NEW m \in Nat, Common(a, b, m) PROVE \E x \in CommonPrefixes({a, b}) : Len(x) = m
  <2>1. m \in 0 .. Len(a) /\ m <= Len(b) /\ \A k \in 1 .. m : a[k] = b[k]
    BY <1>2, <1>4 DEF Common
  <2>2. PICK x : x = SubSeq(a, 1, m)
    OBVIOUS
  <2>3. x \in Seq(E) /\ Len(x) = m /\ \A k \in 1 .. m : x[k] = a[k]
    BY <2>1, <2>2
  <2>4. ASSUME NEW t \in S PROVE IsPrefix(x, t)
    <3>1. t \in Seq(E) /\ m <= Len(t) /\ \A k \in 1 .. m : t[k] = x[k]
      BY <1>1, <2>1, <2>3, <2>4
    <3>2. PICK y : y = SubSeq(t, 1, m)
      OBVIOUS
    <3>3. y \in Seq(E) /\ Len(y) = m /\ \A k \in 1 .. m : y[k] = t[k]
      BY <3>1, <3>2
    <3>4. PICK z : z = SubSeq(x, 1, m)
      OBVIOUS
    <3>5. z \in Seq(E) /\ Len(z) = m /\ \A k \in 1 .. m : z[k] = x[k]
      BY <2>3, <3>4
    <3>6. y = z
      BY <3>1, <3>3, <3>5
    <3>7. QED
      BY <2>3, <3>1, <3>2, <3>4, <3>6 DEF IsPrefix
  <2>5. x \in Prefixes(a)
    BY <2>1, <2>2 DEF Prefixes
  <2>6. x \in CommonPrefixes({a, b})
    BY <1>1, <2>4, <2>5 DEF CommonPrefixes
  <2>7. QED
    BY <2>3, <2>6
<1>5. QED
  BY <1>3, <1>4

(* The longest common prefix is the greatest such m.                       *)
LEMMA LongestIs ==
  ASSUME NEW E, NEW a \in Seq(E), NEW b \in Seq(E)
  PROVE  /\ Len(LongestCommonPrefix({a, b})) \in Nat
         /\ \A m \in Nat : Common(a, b, m) <=> m <= Len(LongestCommonPrefix({a, b}))
<1>1. PICK P : P = CommonPrefixes({a, b})
  OBVIOUS
<1>2. /\ \A x \in P : Len(x) \in Nat /\ Common(a, b, Len(x))
      /\ \A m \in Nat : Common(a, b, m) => \E x \in P : Len(x) = m
  BY <1>1, PrefixOfBoth
<1>3. PICK n \in Nat : n = Len(a)
  OBVIOUS
<1>4. PICK T \in SUBSET (0 .. n) : T = {Len(x) : x \in P} /\ T # {}
  <2>1. \A x \in P : Len(x) \in 0 .. n
    BY <1>2, <1>3 DEF Common
  <2>2. Common(a, b, 0)
    BY DEF Common
  <2>3. P # {}
    BY <1>2, <2>2
  <2>4. {Len(x) : x \in P} \in SUBSET (0 .. n) /\ {Len(x) : x \in P} # {}
    BY <2>1, <2>3
  <2>5. QED
    BY <2>4
<1>5. Max(T) \in T /\ \A y \in T : y <= Max(T)
  BY <1>3, <1>4, MaxIsGreatest
<1>6. \E x \in P : \A y \in P : Len(y) <= Len(x)
  BY <1>4, <1>5
<1>7. PICK x \in P : x = LongestCommonPrefix({a, b}) /\ \A y \in P : Len(y) <= Len(x)
  BY <1>1, <1>6 DEF LongestCommonPrefix
<1>8. ASSUME NEW m \in Nat, Common(a, b, m) PROVE m <= Len(x)
  BY <1>2, <1>7, <1>8
<1>9. ASSUME NEW m \in Nat, m <= Len(x) PROVE Common(a, b, m)
  <2>1. Len(x) \in Nat /\ Common(a, b, Len(x)) /\ Len(a) \in Nat /\ Len(b) \in Nat
    BY <1>2, <1>7
  <2>2. QED
    BY <1>9, <2>1 DEF Common
<1>10. QED
  BY <1>2, <1>7, <1>8, <1>9

(* Two chains are equal exactly if seeds and blocks are.                   *)
LEMMA ChainsAgree ==
  ASSUME NEW u \in Units, NEW v \in Units, NEW d \in Nat \ {0}, NEW s \in Chains, NEW t \in Chains,
         Len(s) = Len(t), NEW i \in Nat \ {0}, i <= Full(Len(u), d), i <= Full(Len(v), d)
  PROVE  ChainTo(u, d, s, i) = ChainTo(v, d, t, i) <=> s = t /\ Common(u, v, i * d)
<1>0. PICK l \in Nat : l = Len(s) /\ l = Len(t) /\ s \in Seq(Units) /\ t \in Seq(Units)
  BY DEF Chains
<1>1. /\ Len(u) \in Nat /\ Len(v) \in Nat /\ i * d \in Nat
      /\ \A j \in 1 .. i : j <= Full(Len(u), d) /\ j <= Full(Len(v), d)
  <2>1. Len(u) \in Nat /\ Len(v) \in Nat
    BY DEF Units
  <2>2. Full(Len(u), d) \in Nat /\ Full(Len(v), d) \in Nat
    BY <2>1, FullIs
  <2>3. QED
    BY <2>1, <2>2
<1>2. \A j \in 1 .. i : j * d <= Len(u) /\ j * d <= Len(v)
  <2>1. \A j \in Nat : /\ j <= Full(Len(u), d) => j * d <= Len(u)
                       /\ j <= Full(Len(v), d) => j * d <= Len(v)
    BY <1>1, FullIs
  <2>2. \A j \in 1 .. i : j \in Nat
    OBVIOUS
  <2>3. QED
    BY <1>1, <2>1, <2>2
<1>3. \A j \in 1 .. i : /\ Chunk(u, d, j) \in Units /\ Chunk(v, d, j) \in Units
                        /\ Len(Chunk(u, d, j)) = d /\ Len(Chunk(v, d, j)) = d
                        /\ \A k \in 1 .. d : /\ Chunk(u, d, j)[k] = u[(j - 1) * d + k]
                                             /\ Chunk(v, d, j)[k] = v[(j - 1) * d + k]
  <2>1. ASSUME NEW w \in Units, NEW j \in 1 .. i, j * d <= Len(w)
        PROVE  /\ Chunk(w, d, j) \in Units /\ Len(Chunk(w, d, j)) = d
               /\ \A k \in 1 .. d : Chunk(w, d, j)[k] = w[(j - 1) * d + k]
    <3>1. j \in Nat \ {0}
      OBVIOUS
    <3>2. QED
      BY <2>1, <3>1, ChunkIs
  <2>2. QED
    BY <1>2, <2>1
<1>4. PICK a, b : /\ a = ChainTo(u, d, s, i) /\ b = ChainTo(v, d, t, i)
                  /\ a = [k \in 1 .. l + i |-> IF k <= l THEN s[k] ELSE Chunk(u, d, k - l)]
                  /\ b = [k \in 1 .. l + i |-> IF k <= l THEN t[k] ELSE Chunk(v, d, k - l)]
  BY <1>0 DEF ChainTo
<1>5. ASSUME a = b PROVE s = t /\ Common(u, v, i * d)
  <2>1. \A k \in 1 .. l : s[k] = t[k]
    <3>1. ASSUME NEW k \in 1 .. l PROVE s[k] = t[k]
      <4>1. k \in 1 .. l + i /\ k <= l
        OBVIOUS
      <4>2. QED
        BY <1>4, <1>5, <4>1
    <3>2. QED
      BY <3>1
  <2>2. s = t
    BY <1>0, <2>1
  <2>3. ASSUME NEW j \in 1 .. i PROVE Chunk(u, d, j) = Chunk(v, d, j)
    <3>1. l + j \in 1 .. l + i /\ ~(l + j <= l) /\ (l + j) - l = j
      OBVIOUS
    <3>2. QED
      BY <1>4, <1>5, <3>1
  <2>4. ASSUME NEW q \in 1 .. i * d PROVE u[q] = v[q]
    <3>1. PICK j \in Nat : j = (q - 1) \div d /\ j * d <= q - 1 /\ q - 1 < j * d + d
      <4>1. PICK n \in Nat : n = q - 1
        OBVIOUS
      <4>2. n \div d \in Nat /\ (n \div d) * d <= n /\ n < (n \div d) * d + d
        OBVIOUS
      <4>3. QED
        BY <4>1, <4>2
    <3>2. PICK k \in 1 .. d : q = j * d + k
      <4>1. j * d \in Nat
        OBVIOUS
      <4>2. q - j * d \in 1 .. d /\ q = j * d + (q - j * d)
        BY <3>1, <4>1
      <4>3. QED
        BY <4>2
    <3>3. j + 1 <= i
      <4>1. SUFFICES ASSUME j >= i PROVE FALSE
        BY <3>1
      <4>2. PICK e \in Nat : j = i + e
        <5>1. j - i \in Nat /\ j = i + (j - i)
          BY <4>1
        <5>2. QED
          BY <5>1
      <4>3. j * d = i * d + e * d /\ e * d \in Nat
        BY <4>2
      <4>4. QED
        BY <1>1, <3>1, <4>3
    <3>4. j + 1 \in 1 .. i /\ (j + 1) - 1 = j
      BY <3>3
    <3>5. Chunk(u, d, j + 1)[k] = u[j * d + k] /\ Chunk(v, d, j + 1)[k] = v[j * d + k]
      BY <1>3, <3>4
    <3>6. QED
      BY <2>3, <3>2, <3>4, <3>5
  <2>5. i \in 1 .. i
    OBVIOUS
  <2>6. QED
    BY <1>2, <2>2, <2>4, <2>5 DEF Common
<1>6. ASSUME s = t, Common(u, v, i * d) PROVE a = b
  <2>1. ASSUME NEW j \in 1 .. i PROVE Chunk(u, d, j) = Chunk(v, d, j)
    <3>1. ASSUME NEW k \in 1 .. d PROVE u[(j - 1) * d + k] = v[(j - 1) * d + k]
      <4>1. PICK x \in Nat : x = (j - 1) * d
        <5>1. j - 1 \in Nat
          OBVIOUS
        <5>2. QED
          BY <5>1
      <4>2. x + d <= i * d
        <5>1. PICK e \in Nat : i = j + e
          <6>1. i - j \in Nat /\ i = j + (i - j)
            OBVIOUS
          <6>2. QED
            BY <6>1
        <5>2. i * d = j * d + e * d /\ e * d \in Nat
          BY <5>1
        <5>3. x + d = j * d
          BY <4>1
        <5>4. QED
          BY <5>2, <5>3
      <4>3. x + k \in 1 .. i * d
        BY <1>1, <4>2
      <4>4. QED
        BY <1>6, <4>1, <4>3 DEF Common
    <3>2. PICK x, y : /\ x = Chunk(u, d, j) /\ y = Chunk(v, d, j)
                      /\ x \in Seq(STRING) /\ y \in Seq(STRING) /\ Len(x) = d /\ Len(y) = d
      BY <1>3 DEF Units
    <3>3. \A k \in 1 .. d : x[k] = y[k]
      BY <1>3, <3>1, <3>2
    <3>4. x = y
      BY <3>2, <3>3
    <3>5. QED
      BY <3>2, <3>4
  <2>2. \A k \in 1 .. l + i : k <= l \/ k - l \in 1 .. i
    OBVIOUS
  <2>3. \A k \in 1 .. l + i : (IF k <= l THEN s[k] ELSE Chunk(u, d, k - l)) = IF k <= l THEN t[k] ELSE Chunk(v, d, k - l)
    BY <1>6, <2>1, <2>2
  <2>4. QED
    BY <1>4, <2>3
<1>7. QED
  BY <1>4, <1>5, <1>6

(* How many leading blocks two prompts share.                              *)
Shared(u, v, d) == Full(Len(LongestCommonPrefix({u, v})), d)

(* Equal hashes are at the same position, among the first f, and have the  *)
(* same seed; and if the seeds are the same, the first f are equal.        *)
Meet(h, g, s, t, f) ==
  /\ f \in Nat
  /\ \A i \in 1 .. Len(h) : \A k \in 1 .. Len(g) : h[i] = g[k] => i = k /\ s = t /\ i <= f
  /\ s = t => \A i \in 1 .. f : i <= Len(h) /\ i <= Len(g) /\ h[i] = g[i]

(* A hash names its position, its seed and everything before it.           *)
LEMMA HashesMeet ==
  ASSUME NEW u \in Units, NEW v \in Units, NEW d \in Nat \ {0}, NEW s \in Chains, NEW t \in Chains,
         Len(s) = Len(t), NEW h, h = chained_hashes(u, d, s), NEW g, g = chained_hashes(v, d, t)
  PROVE  Meet(h, g, s, t, Shared(u, v, d))
<1>0. PICK nu \in Nat, nv \in Nat, l \in Nat :
        nu = Full(Len(u), d) /\ nv = Full(Len(v), d) /\ l = Len(LongestCommonPrefix({u, v}))
  <2>1. Len(u) \in Nat /\ Len(v) \in Nat /\ u \in Seq(STRING) /\ v \in Seq(STRING)
    BY DEF Units
  <2>2. Len(LongestCommonPrefix({u, v})) \in Nat
    BY <2>1, LongestIs
  <2>3. QED
    BY <2>1, <2>2, FullIs
<1>1. /\ Len(h) = nu /\ Len(g) = nv
      /\ \A i \in 1 .. nu : h[i] = ChainTo(u, d, s, i)
      /\ \A i \in 1 .. nv : g[i] = ChainTo(v, d, t, i)
  BY <1>0, HashesAre
<1>2. PICK f \in Nat : f = Shared(u, v, d) /\ \A i \in Nat : i <= f <=> i <= Cutoff /\ i * d <= l
  BY <1>0, FullIs DEF Shared
<1>3. Len(u) \in Nat /\ Len(v) \in Nat /\ u \in Seq(STRING) /\ v \in Seq(STRING) /\ Cutoff \in Nat
  BY CacheAssumption DEF Units
<1>4. \A i \in Nat : /\ i <= nu <=> i <= Cutoff /\ i * d <= Len(u)
                     /\ i <= nv <=> i <= Cutoff /\ i * d <= Len(v)
  BY <1>0, <1>3, FullIs
<1>5. \A m \in Nat : Common(u, v, m) <=> m <= l
  BY <1>0, <1>3, LongestIs
<1>6. ASSUME NEW i \in 1 .. nu, i <= nv
      PROVE  h[i] = g[i] <=> s = t /\ i <= f
  <2>1. i \in Nat \ {0} /\ i \in 1 .. nv /\ i * d \in Nat
    BY <1>6
  <2>2. h[i] = g[i] <=> s = t /\ Common(u, v, i * d)
    BY <1>0, <1>1, <1>6, <2>1, ChainsAgree
  <2>3. Common(u, v, i * d) <=> i <= f
    BY <1>2, <1>4, <1>5, <1>6, <2>1
  <2>4. QED
    BY <2>2, <2>3
<1>7. ASSUME NEW i \in 1 .. nu, NEW k \in 1 .. nv, h[i] = g[k] PROVE i = k /\ s = t /\ i <= f
  <2>1. Len(h[i]) = Len(s) + i
    <3>1. i \in 0 .. nu
      OBVIOUS
    <3>2. \A j \in 0 .. nu : Len(ChainTo(u, d, s, j)) = Len(s) + j
      BY <1>0, ChainGrows
    <3>3. QED
      BY <1>1, <3>1, <3>2
  <2>2. Len(g[k]) = Len(t) + k
    <3>1. k \in 0 .. nv
      OBVIOUS
    <3>2. \A j \in 0 .. nv : Len(ChainTo(v, d, t, j)) = Len(t) + j
      BY <1>0, ChainGrows
    <3>3. QED
      BY <1>1, <3>1, <3>2
  <2>3. Len(s) \in Nat
    BY DEF Chains
  <2>4. i = k
    BY <1>7, <2>1, <2>2, <2>3
  <2>5. QED
    BY <1>6, <1>7, <2>4
<1>8. ASSUME s = t, NEW i \in 1 .. f PROVE i <= nu /\ i <= nv /\ h[i] = g[i]
  <2>1. i \in Nat /\ i <= Cutoff /\ i * d <= l
    BY <1>2
  <2>2. l <= Len(u) /\ l <= Len(v)
    <3>1. Common(u, v, l)
      <4>1. l <= l
        OBVIOUS
      <4>2. QED
        BY <1>5, <4>1
    <3>2. QED
      BY <3>1 DEF Common
  <2>3. i <= nu /\ i <= nv
    <3>1. PICK x \in Nat : x = i * d
      BY <2>1
    <3>2. x <= Len(u) /\ x <= Len(v)
      BY <1>0, <1>3, <2>1, <2>2, <3>1
    <3>3. QED
      BY <1>4, <2>1, <3>1, <3>2
  <2>4. i \in 1 .. nu
    BY <2>3
  <2>5. QED
    BY <1>6, <1>8, <2>3, <2>4
<1>9. QED
  BY <1>1, <1>2, <1>7, <1>8 DEF Meet

(* Two lists of hashes have as many leading hashes in common as their      *)
(* prompts have blocks, if their seeds are the same, and none otherwise.   *)
LEMMA AgreementIs ==
  ASSUME NEW u \in Units, NEW v \in Units, NEW d \in Nat \ {0}, NEW s \in Chains, NEW t \in Chains,
         Len(s) = Len(t)
  PROVE  Len(LongestCommonPrefix({chained_hashes(u, d, s), chained_hashes(v, d, t)}))
           = IF s = t THEN Shared(u, v, d) ELSE 0
<1>1. PICK h, g : h = chained_hashes(u, d, s) /\ g = chained_hashes(v, d, t)
  OBVIOUS
<1>2. h \in Seq(Chains) /\ g \in Seq(Chains) /\ Len(h) \in Nat /\ Len(g) \in Nat
  BY <1>1, HashesAre
<1>3. PICK f : f = Shared(u, v, d) /\ Meet(h, g, s, t, f)
  BY <1>1, HashesMeet
<1>4. PICK a \in Nat : a = Len(LongestCommonPrefix({h, g})) /\ \A m \in Nat : Common(h, g, m) <=> m <= a
  BY <1>2, LongestIs
<1>5. ASSUME a > 0 PROVE s = t /\ a <= f
  <2>1. Common(h, g, a)
    BY <1>4
  <2>2. a \in 1 .. Len(h) /\ a \in 1 .. Len(g) /\ h[a] = g[a]
    BY <1>2, <1>5, <2>1 DEF Common
  <2>3. QED
    BY <1>3, <2>2 DEF Meet
<1>6. ASSUME s = t PROVE f <= a
  <2>1. CASE f = 0
    BY <2>1
  <2>2. CASE f # 0
    <3>1. f \in 1 .. f
      BY <1>3, <2>2 DEF Meet
    <3>2. Common(h, g, f)
      BY <1>3, <1>6, <3>1 DEF Common, Meet
    <3>3. QED
      BY <1>3, <1>4, <3>2 DEF Meet
  <2>3. QED
    BY <2>1, <2>2
<1>7. a = IF s = t THEN f ELSE 0
  BY <1>3, <1>5, <1>6 DEF Meet
<1>8. QED
  BY <1>1, <1>3, <1>4, <1>7

(* Blocks of characters and blocks of token ids have no hash in common.    *)
LEMMA UnitsTellApart ==
  ASSUME NEW u \in Units, NEW v \in Units, NEW d \in Nat \ {0}, NEW e \in Nat \ {0},
         NEW s \in Chains, NEW t \in Chains, Len(s) = Len(t), ToSet(u) \cap ToSet(v) = {}
  PROVE  Len(LongestCommonPrefix({chained_hashes(u, d, s), chained_hashes(v, e, t)})) = 0
<1>0. Len(u) \in Nat /\ Len(v) \in Nat /\ u \in Seq(STRING) /\ v \in Seq(STRING)
  BY DEF Units
<1>1. PICK h, g : h = chained_hashes(u, d, s) /\ g = chained_hashes(v, e, t)
  OBVIOUS
<1>2. /\ h \in Seq(Chains) /\ g \in Seq(Chains) /\ Len(h) = Full(Len(u), d) /\ Len(g) = Full(Len(v), e)
      /\ Len(h) \in Nat /\ Len(g) \in Nat
      /\ \A i \in 1 .. Full(Len(u), d) : h[i] = ChainTo(u, d, s, i)
      /\ \A i \in 1 .. Full(Len(v), e) : g[i] = ChainTo(v, e, t, i)
  <2>1. /\ h \in Seq(Chains) /\ Len(h) = Full(Len(u), d)
        /\ \A i \in 1 .. Full(Len(u), d) : h[i] = ChainTo(u, d, s, i)
    BY <1>1, HashesAre
  <2>2. /\ g \in Seq(Chains) /\ Len(g) = Full(Len(v), e)
        /\ \A i \in 1 .. Full(Len(v), e) : g[i] = ChainTo(v, e, t, i)
    BY <1>1, HashesAre
  <2>3. Len(h) \in Nat /\ Len(g) \in Nat
    BY <2>1, <2>2
  <2>4. QED
    BY <2>1, <2>2, <2>3
<1>3. PICK a \in Nat : a = Len(LongestCommonPrefix({h, g})) /\ \A m \in Nat : Common(h, g, m) <=> m <= a
  BY <1>2, LongestIs
<1>4. SUFFICES ASSUME a # 0 PROVE FALSE
  BY <1>1, <1>3
<1>5. Common(h, g, 1)
  <2>1. 1 \in Nat /\ 1 <= a
    BY <1>4
  <2>2. QED
    BY <1>3, <2>1
<1>6. 1 <= Len(h) /\ 1 <= Len(g) /\ h[1] = g[1]
  BY <1>5 DEF Common
<1>7. h[1] = ChainTo(u, d, s, 1) /\ g[1] = ChainTo(v, e, t, 1)
  BY <1>2, <1>6
<1>8. Chunk(u, d, 1) = Chunk(v, e, 1)
  <2>1. PICK l \in Nat : l = Len(s) /\ l = Len(t)
    BY DEF Chains
  <2>2. l + 1 \in 1 .. l + 1 /\ ~(l + 1 <= l) /\ (l + 1) - l = 1
    OBVIOUS
  <2>3. h[1][l + 1] = Chunk(u, d, 1) /\ g[1][l + 1] = Chunk(v, e, 1)
    BY <1>7, <2>1, <2>2 DEF ChainTo
  <2>4. QED
    BY <1>6, <2>3
<1>9. 1 * d <= Len(u) /\ 1 * e <= Len(v)
  <2>1. 1 \in Nat
    OBVIOUS
  <2>2. QED
    BY <1>0, <1>2, <1>6, <2>1, FullIs
<1>10. ASSUME NEW w \in Units, NEW x \in Nat \ {0}, 1 * x <= Len(w) PROVE Chunk(w, x, 1)[1] = w[1] /\ 1 \in DOMAIN w
  <2>1. 1 \in Nat \ {0} /\ 1 \in 1 .. x /\ (1 - 1) * x + 1 = 1
    OBVIOUS
  <2>2. Chunk(w, x, 1)[1] = w[(1 - 1) * x + 1] /\ (1 - 1) * x + 1 \in 1 .. Len(w)
    BY <1>10, <2>1, ChunkIs
  <2>3. QED
    BY <2>1, <2>2 DEF Units
<1>11. u[1] = v[1] /\ 1 \in DOMAIN u /\ 1 \in DOMAIN v
  BY <1>8, <1>9, <1>10
<1>12. QED
  BY <1>11 DEF ToSet

-----------------------------------------------------------------------------
(* The backend's cache                                                     *)

(* A cache lists every block once, and no more than fit.                   *)
KvOK(c) ==
  /\ c \in Seq(Chains) /\ Len(c) <= KvBlocks
  /\ \A i, k \in DOMAIN c : c[i] = c[k] => i = k

LEMMA OnceEach ==
  ASSUME NEW c \in Seq(Chains), \A i, k \in DOMAIN c : c[i] = c[k] => i = k
  PROVE  IsFiniteSet(ToSet(c)) /\ Cardinality(ToSet(c)) = Len(c)
<1>1. PICK n \in Nat : n = Len(c) /\ DOMAIN c = 1 .. n
  OBVIOUS
<1>2. IsFiniteSet(1 .. n) /\ Cardinality(1 .. n) = n
  BY FS_Interval
<1>3. c \in Bijection(1 .. n, ToSet(c))
  <2>1. c \in [1 .. n -> ToSet(c)]
    BY <1>1 DEF ToSet
  <2>2. \A y \in ToSet(c) : \E i \in 1 .. n : c[i] = y
    BY <1>1 DEF ToSet
  <2>3. QED
    BY <1>1, <2>1, <2>2 DEF Bijection, Injection, Surjection, IsInjective
<1>4. ExistsBijection(1 .. n, ToSet(c))
  BY <1>3 DEF ExistsBijection
<1>5. QED
  BY <1>1, <1>2, <1>4, FS_Bijection

LEMMA AppendOnce ==
  ASSUME NEW w \in Seq(Chains), \A i, k \in DOMAIN w : w[i] = w[k] => i = k,
         NEW x \in Chains, x \notin ToSet(w)
  PROVE  /\ Append(w, x) \in Seq(Chains) /\ Len(Append(w, x)) = Len(w) + 1
         /\ \A i, k \in DOMAIN Append(w, x) : Append(w, x)[i] = Append(w, x)[k] => i = k
         /\ ToSet(Append(w, x)) = ToSet(w) \cup {x}
<1>0. PICK n \in Nat : n = Len(w) /\ DOMAIN w = 1 .. n
  OBVIOUS
<1>1. PICK d : n = Len(w) /\ DOMAIN w = 1 .. n /\ d = Append(w, x)
  BY <1>0
<1>2. /\ d \in Seq(Chains) /\ Len(d) = n + 1 /\ DOMAIN d = 1 .. n + 1 /\ d[n + 1] = x
      /\ \A i \in 1 .. n : d[i] = w[i]
  BY <1>1
<1>3. \A i \in 1 .. n + 1 : i \in 1 .. n \/ i = n + 1
  OBVIOUS
<1>4. \A i \in 1 .. n : w[i] # x
  BY <1>1 DEF ToSet
<1>5. \A i, k \in DOMAIN d : d[i] = d[k] => i = k
  BY <1>1, <1>2, <1>3, <1>4
<1>6. ToSet(d) = ToSet(w) \cup {x}
  <2>1. \A y : y \in ToSet(d) <=> \E i \in 1 .. n + 1 : y = d[i]
    BY <1>2 DEF ToSet
  <2>2. \A y : y \in ToSet(w) <=> \E i \in 1 .. n : y = w[i]
    BY <1>1 DEF ToSet
  <2>3. n + 1 \in 1 .. n + 1 /\ \A i \in 1 .. n : i \in 1 .. n + 1
    OBVIOUS
  <2>4. QED
    BY <1>2, <1>3, <2>1, <2>2, <2>3
<1>7. QED
  BY <1>1, <1>2, <1>5, <1>6

LEMMA TouchIs ==
  ASSUME NEW c, KvOK(c), NEW x \in Chains
  PROVE  /\ KvOK(Touch(c, x)) /\ Len(c) <= Len(Touch(c, x))
         /\ ToSet(Touch(c, x)) \subseteq ToSet(c) \cup {x}
         /\ Len(Touch(c, x)) < KvBlocks => ToSet(Touch(c, x)) = ToSet(c) \cup {x}
<1>0. KvBlocks \in Nat \ {0}
  BY CacheAssumption
<1>1. /\ c \in Seq(Chains) /\ Len(c) <= KvBlocks /\ Len(c) \in Nat /\ DOMAIN c = 1 .. Len(c)
      /\ \A i, k \in DOMAIN c : c[i] = c[k] => i = k
  BY DEF KvOK
<1>2. PICK d : d = Touch(c, x)
  OBVIOUS
<1>3. CASE x \in ToSet(c)
  <2>1. PICK I, w : I = {i \in DOMAIN c : c[i] # x} /\ w = Kept(c, I)
    OBVIOUS
  <2>2. d = Append(w, x)
    BY <1>2, <1>3, <2>1 DEF Touch, Where
  <2>3. PICK f : w \in Seq(Chains) /\ Embedding(f, w, c, Len(c), I)
    BY <1>1, <2>1, KeptInOrder
  <2>4. ToSet(w) = {c[k] : k \in I \cap DOMAIN c}
    BY <1>1, <2>1, KeptRange
  <2>5. x \notin ToSet(w) /\ ToSet(w) \cup {x} = ToSet(c)
    BY <1>3, <2>1, <2>4 DEF ToSet
  <2>6. ASSUME NEW i \in DOMAIN w, NEW k \in DOMAIN w, w[i] = w[k] PROVE i = k
    <3>1. f[i] \in 1 .. Len(c) /\ f[k] \in 1 .. Len(c) /\ w[i] = c[f[i]] /\ w[k] = c[f[k]]
      BY <2>3 DEF Embedding
    <3>2. f[i] = f[k]
      BY <1>1, <2>6, <3>1
    <3>3. i \in Nat /\ k \in Nat /\ (i < k => f[i] < f[k]) /\ (k < i => f[k] < f[i])
      BY <2>3 DEF Embedding
    <3>4. QED
      BY <3>1, <3>2, <3>3
  <2>7. /\ d \in Seq(Chains) /\ ToSet(d) = ToSet(c)
        /\ \A i, k \in DOMAIN d : d[i] = d[k] => i = k
    BY <2>2, <2>3, <2>5, <2>6, AppendOnce
  <2>8. Len(d) = Len(c)
    BY <1>1, <2>7, OnceEach
  <2>9. QED
    BY <1>1, <1>2, <1>3, <2>7, <2>8 DEF KvOK
<1>4. CASE x \notin ToSet(c) /\ Len(c) = KvBlocks
  <2>1. PICK w : w = Tail(c)
    OBVIOUS
  <2>2. d = Append(w, x)
    BY <1>2, <1>4, <2>1 DEF Touch
  <2>3. /\ w \in Seq(Chains) /\ Len(w) = Len(c) - 1 /\ DOMAIN w = 1 .. Len(c) - 1
        /\ \A i \in 1 .. Len(c) - 1 : w[i] = c[i + 1]
    BY <1>0, <1>1, <1>4, <2>1
  <2>4. \A i \in DOMAIN w : i + 1 \in DOMAIN c /\ w[i] = c[i + 1]
    BY <1>1, <2>3
  <2>5. ToSet(w) \subseteq ToSet(c)
    BY <2>4 DEF ToSet
  <2>6. ASSUME NEW i \in DOMAIN w, NEW k \in DOMAIN w, w[i] = w[k] PROVE i = k
    <3>1. i + 1 = k + 1
      BY <1>1, <2>4, <2>6
    <3>2. QED
      BY <1>1, <2>3, <3>1
  <2>7. /\ d \in Seq(Chains) /\ ToSet(d) \subseteq ToSet(c) \cup {x} /\ Len(d) = Len(c)
        /\ \A i, k \in DOMAIN d : d[i] = d[k] => i = k
    <3>1. x \notin ToSet(w)
      BY <1>4, <2>5
    <3>2. /\ d \in Seq(Chains) /\ ToSet(d) = ToSet(w) \cup {x} /\ Len(d) = Len(w) + 1
          /\ \A i, k \in DOMAIN d : d[i] = d[k] => i = k
      BY <2>2, <2>3, <2>6, <3>1, AppendOnce
    <3>3. Len(d) = Len(c)
      BY <1>1, <2>3, <3>2
    <3>4. QED
      BY <2>5, <3>2, <3>3
  <2>8. ~(Len(d) < KvBlocks) /\ Len(c) <= Len(d) /\ Len(d) <= KvBlocks
    BY <1>0, <1>4, <2>7
  <2>9. QED
    BY <1>2, <2>7, <2>8 DEF KvOK
<1>5. CASE x \notin ToSet(c) /\ Len(c) # KvBlocks
  <2>1. d = Append(c, x)
    BY <1>2, <1>5 DEF Touch
  <2>2. /\ d \in Seq(Chains) /\ ToSet(d) = ToSet(c) \cup {x} /\ Len(d) = Len(c) + 1
        /\ \A i, k \in DOMAIN d : d[i] = d[k] => i = k
    <3>1. x \notin ToSet(c)
      BY <1>5
    <3>2. QED
      BY <1>1, <2>1, <3>1, AppendOnce
  <2>3. Len(d) <= KvBlocks /\ Len(c) <= Len(d)
    <3>1. /\ Len(c) \in Nat /\ KvBlocks \in Nat /\ Len(c) <= KvBlocks /\ Len(c) # KvBlocks
          /\ Len(d) = Len(c) + 1
      BY <1>0, <1>1, <1>5, <2>2, Zenon
    <3>2. \A i, k \in Nat : i <= k /\ i # k => i + 1 <= k /\ i <= i + 1
      OBVIOUS
    <3>3. QED
      BY <3>1, <3>2, Zenon
  <2>4. QED
    BY <1>2, <2>2, <2>3 DEF KvOK
<1>6. QED
  BY <1>3, <1>4, <1>5

(* What touching the first k hashes made of a cache.                       *)
Touched(c, d, h, k) ==
  /\ KvOK(d) /\ Len(c) <= Len(d)
  /\ ToSet(d) \subseteq ToSet(c) \cup {h[i] : i \in 1 .. k}
  /\ Len(d) < KvBlocks => ToSet(c) \cup {h[i] : i \in 1 .. k} \subseteq ToSet(d)

LEMMA TouchedNext ==
  ASSUME NEW c, NEW d, NEW h \in Seq(Chains), NEW k \in 1 .. Len(h), KvOK(c), Touched(c, d, h, k - 1)
  PROVE  Touched(c, Touch(d, h[k]), h, k)
<1>1. PICK x \in Chains : x = h[k]
  OBVIOUS
<1>2. PICK e : e = Touch(d, x)
  OBVIOUS
<1>3. /\ KvOK(d) /\ Len(c) <= Len(d)
      /\ ToSet(d) \subseteq ToSet(c) \cup {h[i] : i \in 1 .. k - 1}
      /\ Len(d) < KvBlocks => ToSet(c) \cup {h[i] : i \in 1 .. k - 1} \subseteq ToSet(d)
  BY DEF Touched
<1>4. /\ KvOK(e) /\ Len(d) <= Len(e) /\ ToSet(e) \subseteq ToSet(d) \cup {x}
      /\ Len(e) < KvBlocks => ToSet(e) = ToSet(d) \cup {x}
  BY <1>2, <1>3, TouchIs
<1>5. {h[i] : i \in 1 .. k} = {h[i] : i \in 1 .. k - 1} \cup {x}
  <2>1. \A i : i \in 1 .. k <=> i \in 1 .. k - 1 \/ i = k
    OBVIOUS
  <2>2. QED
    BY <1>1, <2>1
<1>6. Len(c) \in Nat /\ Len(d) \in Nat /\ Len(e) \in Nat /\ KvBlocks \in Nat
  BY <1>3, <1>4, CacheAssumption DEF KvOK
<1>7. Len(c) <= Len(e) /\ (Len(e) < KvBlocks => Len(d) < KvBlocks)
  BY <1>3, <1>4, <1>6
<1>8. Touched(c, e, h, k)
  BY <1>3, <1>4, <1>5, <1>7 DEF Touched
<1>9. QED
  BY <1>1, <1>2, <1>8

Caches == {c \in Seq(Chains) : KvOK(c)}

(* The cache after a request.                                              *)
LEMMA ProcessIs ==
  ASSUME NEW c \in Caches, NEW h \in Seq(Chains)
  PROVE  Touched(c, Process(c, h), h, Len(h))
<1> DEFINE F == [x \in Caches \X Chains |-> Touch(x[1], x[2])]
           Loop(g) == g = [S \in SUBSET DOMAIN h |->
                             IF S = {} THEN c ELSE Touch(g[S \ {Max(S)}], h[Max(S)])]
<1>1. F \in [Caches \X Chains -> Caches] /\ \A d \in Caches, b \in Chains : F[<<d, b>>] = Touch(d, b)
  <2>1. ASSUME NEW d \in Caches, NEW b \in Chains PROVE Touch(d, b) \in Caches
    <3>1. KvOK(Touch(d, b))
      BY TouchIs DEF Caches
    <3>2. QED
      BY <3>1 DEF Caches, KvOK
  <2>2. QED
    BY <2>1
<1>2. Process(c, h) = (CHOOSE g : Loop(g))[DOMAIN h]
  BY DEF Process, FoldLeft, MapThenFoldSet
<1> HIDE DEF F
<1>3. \E g : Loop(g)
  <2>1. PICK g \in [SUBSET DOMAIN h -> Caches] : IsFold(g, F, c, h)
    BY <1>1, FoldExists
  <2>2. ASSUME NEW S \in SUBSET DOMAIN h, S # {}
        PROVE  F[<<g[S \ {Max(S)}], h[Max(S)]>>] = Touch(g[S \ {Max(S)}], h[Max(S)])
    <3>1. PICK m : m = Max(S)
      OBVIOUS
    <3>2. m \in DOMAIN h
      <4>1. DOMAIN h = 1 .. Len(h) /\ Len(h) \in Nat /\ S \in SUBSET (0 .. Len(h))
        OBVIOUS
      <4>2. QED
        BY <2>2, <3>1, <4>1, MaxIsGreatest
    <3>3. g[S \ {m}] \in Caches /\ h[m] \in Chains
      BY <3>2
    <3>4. QED
      BY <1>1, <3>1, <3>3
  <2>3. Loop(g)
    BY <2>1, <2>2 DEF IsFold
  <2>4. QED
    BY <2>3
<1>4. PICK g : g = CHOOSE x : Loop(x)
  OBVIOUS
<1>5. Loop(g)
  BY <1>3, <1>4
<1>6. Len(h) \in Nat /\ DOMAIN h = 1 .. Len(h) /\ 0 \in 0 .. Len(h) /\ Len(h) \in 0 .. Len(h) /\ KvOK(c)
  BY DEF Caches
<1> DEFINE T == {k \in 0 .. Len(h) : Touched(c, g[1 .. k], h, k)}
<1>7. 0 \in T
  <2>1. 1 .. 0 = {} /\ {} \in SUBSET DOMAIN h /\ {h[i] : i \in 1 .. 0} = {}
    OBVIOUS
  <2>2. g[{}] = c
    BY <1>5, <2>1
  <2>3. Len(c) <= Len(c)
    BY <1>6 DEF KvOK
  <2>4. Touched(c, c, h, 0)
    BY <1>6, <2>1, <2>3 DEF Touched
  <2>5. QED
    BY <1>6, <2>1, <2>2, <2>4
<1>8. ASSUME NEW k \in 1 .. Len(h), k - 1 \in T PROVE k \in T
  <2>1. 1 .. k # {} /\ Max(1 .. k) = k /\ (1 .. k) \ {k} = 1 .. (k - 1)
    BY LastPosition
  <2>2. 1 .. k \in SUBSET DOMAIN h
    BY <1>6
  <2>3. g[1 .. k] = Touch(g[1 .. (k - 1)], h[k])
    BY <1>5, <2>1, <2>2
  <2>4. Touched(c, Touch(g[1 .. (k - 1)], h[k]), h, k)
    BY <1>6, <1>8, TouchedNext
  <2>5. QED
    BY <2>3, <2>4
<1>9. \A k \in 0 .. Len(h) : k \in T
  <2>1. T \in SUBSET (0 .. Len(h))
    OBVIOUS
  <2> HIDE DEF T
  <2>2. QED
    BY <1>6, <1>7, <1>8, <2>1, UpToN
<1>10. QED
  BY <1>2, <1>4, <1>6, <1>9

-----------------------------------------------------------------------------
(* Requests                                                                *)

Requests ==
  [tenant : TenantIds, prompt : Texts, mode : {"bpe", "char"}, hashes : Seq(Chains), tokens : Nat \ {0}]

SeedOf(iso, t) == IF iso = "tenant" THEN stable_seed(t) ELSE <<>>

(* The blocks the backend caches for a request.                            *)
Blocks(iso, r) == block_hashes(r.prompt, SeedOf(iso, r.tenant))

LEMMA SeedsAre ==
  ASSUME NEW iso \in {"tenant", "global"}, NEW t \in TenantIds, NEW q \in TenantIds
  PROVE  /\ SeedOf(iso, t) \in Chains /\ Len(SeedOf(iso, t)) = Len(SeedOf(iso, q))
         /\ SeedOf(iso, t) = SeedOf(iso, q) <=> iso = "global" \/ t = q
<1>1. t \in Units /\ q \in Units
  BY CacheAssumption DEF Units
<1>2. <<>> \in Seq(Units) /\ <<t>> \in Seq(Units) /\ Len(<<t>>) = Len(<<q>>) /\ (<<t>> = <<q>> <=> t = q)
  BY <1>1
<1>3. CASE iso = "tenant"
  BY <1>2, <1>3 DEF SeedOf, stable_seed, Chains
<1>4. CASE iso = "global"
  BY <1>2, <1>4 DEF SeedOf, Chains
<1>5. QED
  BY <1>3, <1>4

LEMMA SeedsBothSides ==
  ASSUME NEW t \in TenantIds
  PROVE  GatewaySeed(t) = SeedOf(isolation, t) /\ BackendSeed(CacheSalt(t)) = SeedOf(isolation, t)
<1>1. t # <<>>
  BY CacheAssumption
<1>2. QED
  BY <1>1 DEF GatewaySeed, BackendSeed, CacheSalt, SeedOf

LEMMA UnitsAre ==
  ASSUME NEW r \in Requests
  PROVE  UnitsOf(r) \in Units /\ SizeOf(r) \in Nat \ {0} /\ r.prompt \in Units /\ r.tenant \in TenantIds
BY CacheAssumption DEF Requests, UnitsOf, SizeOf, Units

(* Requests that hash different units agree on nothing, the others on what *)
(* their units share if they have the same seed.                           *)
LEMMA RoutesAgree ==
  ASSUME NEW iso \in {"tenant", "global"}, NEW r \in Requests, NEW q \in Requests
  PROVE  Len(LongestCommonPrefix({chained_hashes(UnitsOf(r), SizeOf(r), SeedOf(iso, r.tenant)),
                                  chained_hashes(UnitsOf(q), SizeOf(q), SeedOf(iso, q.tenant))}))
           = IF r.mode # q.mode \/ (iso = "tenant" /\ r.tenant # q.tenant) THEN 0
             ELSE Min({Cutoff, Len(LongestCommonPrefix({UnitsOf(r), UnitsOf(q)})) \div SizeOf(r)})
<1>1. /\ UnitsOf(r) \in Units /\ SizeOf(r) \in Nat \ {0} /\ r.tenant \in TenantIds /\ r.prompt \in Texts
      /\ UnitsOf(q) \in Units /\ SizeOf(q) \in Nat \ {0} /\ q.tenant \in TenantIds /\ q.prompt \in Texts
      /\ r.mode \in {"bpe", "char"} /\ q.mode \in {"bpe", "char"}
  BY UnitsAre DEF Requests
<1>2. PICK s, t : /\ s = SeedOf(iso, r.tenant) /\ t = SeedOf(iso, q.tenant)
                  /\ s \in Chains /\ t \in Chains /\ Len(s) = Len(t)
                  /\ s = t <=> iso = "global" \/ r.tenant = q.tenant
  BY <1>1, SeedsAre
<1>3. PICK u, v : u = UnitsOf(r) /\ v = UnitsOf(q) /\ u \in Units /\ v \in Units
  BY <1>1
<1>4. PICK d, e : d = SizeOf(r) /\ e = SizeOf(q) /\ d \in Nat \ {0} /\ e \in Nat \ {0}
  BY <1>1
<1>5. CASE r.mode # q.mode
  <2>1. ToSet(u) \cap ToSet(v) = {}
    BY <1>1, <1>3, <1>5, CacheAssumption DEF UnitsOf
  <2>2. Len(LongestCommonPrefix({chained_hashes(u, d, s), chained_hashes(v, e, t)})) = 0
    BY <1>2, <1>3, <1>4, <2>1, UnitsTellApart
  <2>3. QED
    BY <1>2, <1>3, <1>4, <1>5, <2>2
<1>6. CASE r.mode = q.mode
  <2>1. d = e
    BY <1>4, <1>6 DEF SizeOf
  <2>2. Len(LongestCommonPrefix({chained_hashes(u, d, s), chained_hashes(v, d, t)}))
          = IF s = t THEN Shared(u, v, d) ELSE 0
    BY <1>2, <1>3, <1>4, AgreementIs
  <2>3. Shared(u, v, d) = Min({Cutoff, Len(LongestCommonPrefix({u, v})) \div d})
    <3>1. Len(LongestCommonPrefix({u, v})) \in Nat
      BY <1>3, LongestIs DEF Units
    <3>2. QED
      BY <1>4, <3>1, FullIs DEF Shared
  <2>4. s = t <=> ~(iso = "tenant" /\ r.tenant # q.tenant)
    BY <1>2
  <2>5. QED
    BY <1>2, <1>3, <1>4, <1>6, <2>1, <2>2, <2>3, <2>4
<1>7. QED
  BY <1>5, <1>6

(* Everything the backend was ever asked to cache.                         *)
Asked(iso, sv) == UNION {ToSet(Blocks(iso, sv[i])) : i \in DOMAIN sv}

(* Mates(n), of the earlier requests sv.                                   *)
MatesOf(iso, sv, t) == {sv[i].prompt : i \in {j \in DOMAIN sv : iso = "global" \/ sv[j].tenant = t}}

Leading(h, c) == Max({n \in 0 .. Len(h) : \A i \in 1 .. n : h[i] \in ToSet(c)})

SharedMost(p, M) == Max({0} \cup {CommonBlocks(p, q) : q \in M})

(* The hits of a request, given what a cache holds.                        *)
LEMMA HitsAre ==
  ASSUME NEW iso \in {"tenant", "global"}, NEW sv \in Seq(Requests), NEW r \in Requests,
         NEW c, ToSet(c) \subseteq Asked(iso, sv)
  PROVE  LET most == SharedMost(r.prompt, MatesOf(iso, sv, r.tenant))
         IN  /\ Leading(Blocks(iso, r), c) <= most
             /\ Asked(iso, sv) \subseteq ToSet(c) => Leading(Blocks(iso, r), c) = most
<1>0. BlockChars \in Nat \ {0} /\ Cutoff \in Nat
  BY CacheAssumption
<1>1. PICK h, s : /\ s = SeedOf(iso, r.tenant) /\ s \in Chains /\ h = chained_hashes(r.prompt, BlockChars, s)
                  /\ h = Blocks(iso, r) /\ h \in Seq(Chains) /\ Len(h) \in Nat
  <2>1. SeedOf(iso, r.tenant) \in Chains /\ r.prompt \in Units
    BY UnitsAre, SeedsAre
  <2>2. QED
    BY <1>0, <2>1, HashesAre DEF Blocks, block_hashes
<1>2. PICK M : M = MatesOf(iso, sv, r.tenant)
  OBVIOUS
<1>3. ASSUME NEW i \in DOMAIN sv
      PROVE  /\ Blocks(iso, sv[i]) \in Seq(Chains) /\ ToSet(Blocks(iso, sv[i])) \subseteq Asked(iso, sv)
             /\ CommonBlocks(r.prompt, sv[i].prompt) \in 0 .. Cutoff
             /\ Meet(h, Blocks(iso, sv[i]), s, SeedOf(iso, sv[i].tenant), CommonBlocks(r.prompt, sv[i].prompt))
             /\ s = SeedOf(iso, sv[i].tenant) <=> iso = "global" \/ sv[i].tenant = r.tenant
  <2>1. PICK q \in Requests : q = sv[i]
    OBVIOUS
  <2>2. q.prompt \in Units /\ r.prompt \in Units /\ q.tenant \in TenantIds /\ r.tenant \in TenantIds
    BY UnitsAre
  <2>3. PICK t : t = SeedOf(iso, q.tenant) /\ t \in Chains /\ Len(s) = Len(t)
                 /\ (s = t <=> iso = "global" \/ r.tenant = q.tenant)
    BY <1>1, <2>2, SeedsAre
  <2>4. PICK g : g = chained_hashes(q.prompt, BlockChars, t) /\ g = Blocks(iso, q) /\ g \in Seq(Chains)
    BY <1>0, <2>2, <2>3, HashesAre DEF Blocks, block_hashes
  <2>5. Meet(h, g, s, t, Shared(r.prompt, q.prompt, BlockChars))
    BY <1>0, <1>1, <2>2, <2>3, <2>4, HashesMeet
  <2>6. /\ Shared(r.prompt, q.prompt, BlockChars) = CommonBlocks(r.prompt, q.prompt)
        /\ Shared(r.prompt, q.prompt, BlockChars) \in 0 .. Cutoff
    <3>1. PICK l \in Nat : l = Len(LongestCommonPrefix({r.prompt, q.prompt}))
      BY <2>2, LongestIs DEF Units
    <3>2. PICK f \in Nat : /\ f = Full(l, BlockChars) /\ f = Min({Cutoff, l \div BlockChars})
                           /\ \A k \in Nat : k <= f => k <= Cutoff
      BY <1>0, FullIs
    <3>3. f \in 0 .. Cutoff
      <4>1. f \in Nat /\ f <= f
        OBVIOUS
      <4>2. f <= Cutoff
        BY <3>2, <4>1, Zenon
      <4>3. QED
        BY <1>0, <4>2
    <3>4. QED
      BY <3>1, <3>2, <3>3 DEF Shared, CommonBlocks
  <2>7. ToSet(g) \subseteq Asked(iso, sv)
    BY <2>1, <2>4 DEF Asked
  <2>8. QED
    BY <2>1, <2>3, <2>4, <2>5, <2>6, <2>7
<1>4. PICK H \in SUBSET (0 .. Len(h)) : H = {n \in 0 .. Len(h) : \A i \in 1 .. n : h[i] \in ToSet(c)} /\ 0 \in H
  <2>1. 0 \in 0 .. Len(h) /\ 1 .. 0 = {}
    BY <1>1
  <2>2. QED
    BY <2>1
<1>5. PICK a : a = Max(H) /\ a \in H /\ a = Leading(h, c) /\ \A y \in H : y <= a
  BY <1>1, <1>4, MaxIsGreatest DEF Leading
<1>6. PICK S \in SUBSET (0 .. Cutoff) : S = {0} \cup {CommonBlocks(r.prompt, q) : q \in M} /\ 0 \in S
  <2>1. \A q \in M : CommonBlocks(r.prompt, q) \in 0 .. Cutoff
    BY <1>2, <1>3 DEF MatesOf
  <2>2. 0 \in 0 .. Cutoff
    BY <1>0
  <2>3. QED
    BY <2>1, <2>2
<1>7. PICK b : b = Max(S) /\ b \in S /\ b = SharedMost(r.prompt, M) /\ \A y \in S : y <= b
  BY <1>0, <1>6, MaxIsGreatest DEF SharedMost
<1>8. a \in Nat /\ b \in Nat /\ a \in 0 .. Len(h) /\ (\A i \in 1 .. a : h[i] \in ToSet(c))
  <2>1. a \in 0 .. Len(h) /\ (\A i \in 1 .. a : h[i] \in ToSet(c))
    BY <1>4, <1>5
  <2>2. b \in 0 .. Cutoff
    BY <1>6, <1>7
  <2>3. QED
    BY <1>0, <1>1, <2>1, <2>2
<1>9. a <= b
  <2>1. CASE a = 0
    BY <1>8, <2>1
  <2>2. CASE a # 0
    <3>1. a \in 1 .. a /\ a \in 1 .. Len(h)
      BY <1>8, <2>2
    <3>2. PICK i \in DOMAIN sv : h[a] \in ToSet(Blocks(iso, sv[i]))
      BY <1>8, <3>1 DEF Asked
    <3>3. PICK g, t, f : /\ g = Blocks(iso, sv[i]) /\ t = SeedOf(iso, sv[i].tenant)
                         /\ f = CommonBlocks(r.prompt, sv[i].prompt)
      OBVIOUS
    <3>4. g \in Seq(Chains) /\ Meet(h, g, s, t, f) /\ (s = t <=> iso = "global" \/ sv[i].tenant = r.tenant)
      BY <1>3, <3>3
    <3>5. PICK k \in 1 .. Len(g) : h[a] = g[k]
      BY <3>2, <3>3, <3>4 DEF ToSet
    <3>6. s = t /\ a <= f
      BY <3>1, <3>5, <3>4 DEF Meet
    <3>7. f \in S
      <4>1. sv[i].prompt \in M
        BY <1>2, <3>6, <3>4 DEF MatesOf
      <4>2. QED
        BY <1>6, <3>3, <4>1
    <3>8. f <= b /\ f \in Nat
      <4>1. f <= b
        BY <1>7, <3>7
      <4>2. f \in 0 .. Cutoff
        BY <1>6, <3>7
      <4>3. QED
        BY <1>0, <4>1, <4>2
    <3>9. QED
      BY <1>8, <3>6, <3>8
  <2>3. QED
    BY <2>1, <2>2
<1>10. ASSUME Asked(iso, sv) \subseteq ToSet(c) PROVE b <= a
  <2>1. CASE b = 0
    BY <1>8, <2>1
  <2>2. CASE b # 0
    <3>1. PICK i \in DOMAIN sv : /\ iso = "global" \/ sv[i].tenant = r.tenant
                                 /\ b = CommonBlocks(r.prompt, sv[i].prompt)
      BY <1>2, <1>6, <1>7, <2>2 DEF MatesOf
    <3>2. PICK g, t : /\ g = Blocks(iso, sv[i]) /\ t = SeedOf(iso, sv[i].tenant)
                      /\ g \in Seq(Chains) /\ ToSet(g) \subseteq Asked(iso, sv)
      BY <1>3
    <3>3. \A j \in 1 .. b : j <= Len(h) /\ j <= Len(g) /\ h[j] = g[j]
      <4>1. Meet(h, g, s, t, b) /\ s = t
        BY <1>3, <3>1, <3>2
      <4>2. QED
        BY <4>1 DEF Meet
    <3>4. \A j \in 1 .. b : h[j] \in ToSet(c)
      <4>1. ASSUME NEW j \in 1 .. b PROVE h[j] \in ToSet(c)
        <5>1. j \in DOMAIN g
          BY <1>8, <3>2, <3>3
        <5>2. g[j] \in ToSet(g)
          BY <5>1 DEF ToSet
        <5>3. QED
          BY <1>10, <3>2, <3>3, <5>2
      <4>2. QED
        BY <4>1
    <3>5. b \in 1 .. b
      BY <1>8, <2>2
    <3>6. b \in 0 .. Len(h)
      BY <1>1, <1>8, <3>3, <3>5
    <3>7. b \in H
      BY <1>4, <3>4, <3>6
    <3>8. QED
      BY <1>5, <3>7
  <2>3. QED
    BY <2>1, <2>2
<1>11. QED
  BY <1>1, <1>2, <1>5, <1>7, <1>8, <1>9, <1>10

LEMMA AtLeastOne ==
  ASSUME NEW x \in Nat
  PROVE  Max({1, x}) \in Nat \ {0}
<1>1. PICK T \in SUBSET (0 .. x + 1) : T = {1, x} /\ T # {}
  <2>1. 1 \in 0 .. x + 1 /\ x \in 0 .. x + 1
    OBVIOUS
  <2>2. QED
    BY <2>1
<1>2. Max(T) \in T /\ \A y \in T : y <= Max(T)
  BY <1>1, MaxIsGreatest
<1>3. QED
  BY <1>1, <1>2

LEMMA TokensAre ==
  ASSUME NEW p \in Texts, NEW m
  PROVE  count_tokens_with_fallback(p, m) \in Nat \ {0}
<1>1. Len(p) \in Nat /\ Len(TokenIds[p]) \in Nat /\ CharsPerToken \in Nat
  BY CacheAssumption
<1>2. PICK d \in Nat \ {0} : d = Max({1, CharsPerToken})
  BY <1>1, AtLeastOne
<1>3. Len(p) \div d \in Nat
  BY <1>1, QuotientIs
<1>4. PICK x \in Nat : x = IF m = "bpe" THEN Len(TokenIds[p]) ELSE Len(p) \div d
  BY <1>1, <1>3
<1>5. count_tokens_with_fallback(p, m) = Max({1, x})
  BY <1>2, <1>4 DEF count_tokens_with_fallback
<1>6. QED
  BY <1>5, AtLeastOne

(* What the gateway routed each request by.                                *)
RoutedBy(iso, r) == chained_hashes(UnitsOf(r), SizeOf(r), SeedOf(iso, r.tenant))

(* The cache holds nothing that was not asked for, and all of it while     *)
(* there was room; a tokenizer that was used is there.                     *)
CacheInv ==
  /\ isolation \in {"tenant", "global"} /\ (tokenizer => useBpe)
  /\ kv \in Caches /\ served \in Seq(Requests)
  /\ ToSet(kv) \subseteq Asked(isolation, served)
  /\ Len(kv) < KvBlocks => Asked(isolation, served) \subseteq ToSet(kv)
  /\ \A i \in DOMAIN served : /\ served[i].hashes = RoutedBy(isolation, served[i])
                              /\ served[i].mode = "bpe" => tokenizer

LEMMA AskedGrows ==
  ASSUME NEW iso, NEW sv \in Seq(Requests), NEW r \in Requests
  PROVE  Asked(iso, Append(sv, r)) = Asked(iso, sv) \cup ToSet(Blocks(iso, r))
<1>1. PICK n \in Nat : n = Len(sv) /\ DOMAIN sv = 1 .. n
  OBVIOUS
<1>2. PICK s2 : s2 = Append(sv, r) /\ DOMAIN s2 = 1 .. n + 1 /\ s2[n + 1] = r /\ \A i \in 1 .. n : s2[i] = sv[i]
  <2>1. PICK s2 : s2 = Append(sv, r)
    OBVIOUS
  <2>2. DOMAIN s2 = 1 .. n + 1 /\ s2[n + 1] = r /\ \A i \in 1 .. n : s2[i] = sv[i]
    BY <1>1, <2>1
  <2>3. QED
    BY <2>1, <2>2
<1>3. \A i : i \in 1 .. n + 1 <=> i \in 1 .. n \/ i = n + 1
  OBVIOUS
<1>4. \A x : (\E i \in DOMAIN s2 : x \in ToSet(Blocks(iso, s2[i])))
              <=> (\E i \in DOMAIN sv : x \in ToSet(Blocks(iso, sv[i]))) \/ x \in ToSet(Blocks(iso, r))
  BY <1>1, <1>2, <1>3
<1>5. QED
  BY <1>2, <1>4 DEF Asked

LEMMA ServeKeeps ==
  ASSUME CacheInv, NEW t \in TenantIds, NEW p \in Texts, NEW loads \in BOOLEAN, Serve(t, p, loads)
  PROVE  CacheInv' /\ HitsArePrefixExact' /\ SameBlocksBothSides' /\ FallbackIsHarmless'
<1>1. PICK iso, sv, m : iso = isolation /\ sv = served /\ m = Mode(loads)
  OBVIOUS
<1>2. PICK r : r = [tenant |-> t, prompt |-> p, mode |-> m,
                    hashes |-> block_hashes_with_fallback(p, GatewaySeed(t), m),
                    tokens |-> count_tokens_with_fallback(p, m)]
  OBVIOUS
<1>3. PICK h : h = block_hashes(p, BackendSeed(CacheSalt(t)))
  OBVIOUS
<1>4. /\ iso \in {"tenant", "global"} /\ sv \in Seq(Requests) /\ kv \in Caches
      /\ ToSet(kv) \subseteq Asked(iso, sv) /\ (Len(kv) < KvBlocks => Asked(iso, sv) \subseteq ToSet(kv))
  BY <1>1 DEF CacheInv
<1>5. /\ isolation' = iso /\ useBpe' = useBpe /\ tokenizer' = (m = "bpe")
      /\ served' = Append(sv, r) /\ kv' = Process(kv, h) /\ last' = [backend |-> h, hits |-> Hits(h)]
  BY <1>1, <1>2, <1>3 DEF Serve
<1>6. m \in {"bpe", "char"} /\ (m = "bpe" => useBpe) /\ (tokenizer => m = "bpe")
  BY <1>1 DEF Mode, load_tokenizer, CacheInv
<1>7. GatewaySeed(t) = SeedOf(iso, t) /\ BackendSeed(CacheSalt(t)) = SeedOf(iso, t) /\ SeedOf(iso, t) \in Chains
  BY <1>1, <1>4, SeedsBothSides, SeedsAre
<1>8. /\ r \in Requests /\ r.hashes = RoutedBy(iso, r) /\ r.mode = m /\ r.tenant = t /\ r.prompt = p
      /\ Blocks(iso, r) = h /\ h \in Seq(Chains) /\ (m = "char" => r.hashes = h)
  <2>1. r.mode = m /\ r.tenant = t /\ r.prompt = p /\ r.hashes = block_hashes_with_fallback(p, GatewaySeed(t), m)
    BY <1>2
  <2>2. block_hashes_with_fallback(p, SeedOf(iso, t), m) = RoutedBy(iso, r)
    BY <2>1 DEF RoutedBy, block_hashes_with_fallback, bpe_block_hashes, block_hashes, UnitsOf, SizeOf
  <2>3. /\ p \in Units /\ TokenIds[p] \in Units /\ BlockChars \in Nat \ {0} /\ TokenBlock \in Nat \ {0}
    BY CacheAssumption DEF Units
  <2>4. block_hashes(p, SeedOf(iso, t)) \in Seq(Chains) /\ bpe_block_hashes(p, SeedOf(iso, t)) \in Seq(Chains)
    BY <1>7, <2>3, HashesAre DEF block_hashes, bpe_block_hashes
  <2>5. block_hashes_with_fallback(p, SeedOf(iso, t), m) \in Seq(Chains)
    BY <2>4 DEF block_hashes_with_fallback
  <2>6. count_tokens_with_fallback(p, m) \in Nat \ {0}
    BY TokensAre
  <2>7. r \in Requests
    BY <1>2, <1>6, <1>7, <2>5, <2>6 DEF Requests
  <2>8. Blocks(iso, r) = h
    BY <1>3, <1>7, <2>1 DEF Blocks
  <2>9. m = "char" => r.hashes = h
    BY <1>3, <1>7, <2>1 DEF block_hashes_with_fallback
  <2>10. QED
    BY <1>3, <1>7, <2>1, <2>2, <2>4, <2>7, <2>8, <2>9
<1>9. PICK n \in Nat : n = Len(sv) /\ DOMAIN sv = 1 .. n /\ \A i \in 1 .. n : sv[i] \in Requests
  BY <1>4
<1>10. PICK s2 : /\ s2 = Append(sv, r) /\ s2 \in Seq(Requests) /\ Len(s2) = n + 1 /\ DOMAIN s2 = 1 .. n + 1
                 /\ s2[n + 1] = r /\ \A i \in 1 .. n : s2[i] = sv[i]
  <2>1. PICK s2 : s2 = Append(sv, r)
    OBVIOUS
  <2>2. /\ s2 \in Seq(Requests) /\ Len(s2) = n + 1 /\ DOMAIN s2 = 1 .. n + 1
        /\ s2[n + 1] = r /\ \A i \in 1 .. n : s2[i] = sv[i]
    BY <1>4, <1>8, <1>9, <2>1
  <2>3. QED
    BY <2>1, <2>2
<1>11. \A i : i \in 1 .. n + 1 <=> i \in 1 .. n \/ i = n + 1
  OBVIOUS
<1>12. PICK c : /\ c = Process(kv, h) /\ c \in Caches /\ Len(kv) <= Len(c)
                /\ ToSet(c) \subseteq ToSet(kv) \cup ToSet(h)
                /\ Len(c) < KvBlocks => ToSet(kv) \cup ToSet(h) \subseteq ToSet(c)
  <2>1. PICK c : c = Process(kv, h)
    OBVIOUS
  <2>2. Touched(kv, c, h, Len(h))
    BY <1>4, <1>8, <2>1, ProcessIs
  <2>3. {h[i] : i \in 1 .. Len(h)} = ToSet(h)
    BY <1>8 DEF ToSet
  <2>4. c \in Caches
    BY <2>2 DEF Touched, KvOK, Caches
  <2>5. QED
    BY <2>1, <2>2, <2>3, <2>4 DEF Touched
<1>13. Len(kv) \in Nat /\ Len(c) \in Nat /\ KvBlocks \in Nat
  BY <1>4, <1>12, CacheAssumption DEF Caches
<1>14. Len(c) < KvBlocks => Len(kv) < KvBlocks
  BY <1>12, <1>13
<1>15. CacheInv'
  <2>1. Asked(iso, s2) = Asked(iso, sv) \cup ToSet(h)
    BY <1>4, <1>8, <1>10, AskedGrows
  <2>2. ToSet(c) \subseteq Asked(iso, s2) /\ (Len(c) < KvBlocks => Asked(iso, s2) \subseteq ToSet(c))
    BY <1>4, <1>12, <1>14, <2>1
  <2>3. ASSUME NEW i \in 1 .. n + 1
        PROVE  s2[i].hashes = RoutedBy(iso, s2[i]) /\ (s2[i].mode = "bpe" => m = "bpe")
    <3>1. CASE i = n + 1
      BY <1>8, <1>10, <3>1
    <3>2. CASE i \in 1 .. n
      BY <1>1, <1>6, <1>9, <1>10, <3>2 DEF CacheInv
    <3>3. QED
      BY <1>11, <3>1, <3>2
  <2>4. QED
    BY <1>4, <1>5, <1>6, <1>10, <1>12, <2>2, <2>3 DEF CacheInv
<1>16. HitsArePrefixExact'
  <2>1. PICK M, a, b : /\ M = MatesOf(iso, sv, t) /\ a = Leading(h, kv) /\ b = SharedMost(p, M)
    OBVIOUS
  <2>2. a <= b /\ (Asked(iso, sv) \subseteq ToSet(kv) => a = b)
    BY <1>4, <1>8, <2>1, HitsAre
  <2>3. last'.hits = a
    BY <1>5, <2>1 DEF Hits, Leading
  <2>4. Mates(n + 1)' = M
    <3>1. (n + 1) - 1 = n
      OBVIOUS
    <3>2. PICK J : J = {j \in 1 .. n : iso = "global" \/ sv[j].tenant = t}
      OBVIOUS
    <3>3. J = {j \in 1 .. n : iso = "global" \/ s2[j].tenant = s2[n + 1].tenant}
      BY <1>8, <1>10, <3>2
    <3>4. {s2[i].prompt : i \in J} = {sv[i].prompt : i \in J}
      BY <1>10, <3>2
    <3>5. Mates(n + 1)' = {s2[i].prompt : i \in J}
      BY <1>5, <1>10, <3>1, <3>3 DEF Mates
    <3>6. QED
      BY <1>9, <2>1, <3>2, <3>4, <3>5 DEF MatesOf
  <2>5. Max({0} \cup {CommonBlocks(s2[n + 1].prompt, q) : q \in M}) = b
    BY <1>8, <1>10, <2>1 DEF SharedMost
  <2>6. Len(c) < KvBlocks => a = b
    BY <1>4, <1>14, <2>2
  <2>7. QED
    BY <1>5, <1>10, <1>12, <2>2, <2>3, <2>4, <2>5, <2>6 DEF HitsArePrefixExact
<1>17. SameBlocksBothSides'
  BY <1>5, <1>8, <1>9, <1>10 DEF SameBlocksBothSides, Last
<1>18. FallbackIsHarmless'
  <2>1. ASSUME NEW i \in 1 .. (n + 1) - 1
        PROVE  LET q == s2[i]
               IN  /\ q.mode = "bpe" => r.mode = "bpe"
                   /\ Len(LongestCommonPrefix({r.hashes, q.hashes})) =
                        IF r.mode # q.mode \/ (iso = "tenant" /\ r.tenant # q.tenant) THEN 0
                        ELSE Min({Cutoff, Len(LongestCommonPrefix({UnitsOf(r), UnitsOf(q)})) \div SizeOf(r)})
                   /\ r.tokens > 0
    <3>1. PICK q \in Requests : q = s2[i] /\ q = sv[i] /\ i \in DOMAIN sv
      <4>1. i \in 1 .. n
        BY <2>1
      <4>2. QED
        BY <1>9, <1>10, <4>1
    <3>2. q.hashes = RoutedBy(iso, q) /\ (q.mode = "bpe" => m = "bpe")
      BY <1>1, <1>6, <3>1 DEF CacheInv
    <3>3. r.tokens > 0
      BY <1>8 DEF Requests
    <3>4. Len(LongestCommonPrefix({RoutedBy(iso, r), RoutedBy(iso, q)})) =
            IF r.mode # q.mode \/ (iso = "tenant" /\ r.tenant # q.tenant) THEN 0
            ELSE Min({Cutoff, Len(LongestCommonPrefix({UnitsOf(r), UnitsOf(q)})) \div SizeOf(r)})
      BY <1>4, <1>8, RoutesAgree DEF RoutedBy
    <3>5. QED
      BY <1>8, <3>1, <3>2, <3>3, <3>4
  <2>2. served' = s2 /\ isolation' = iso /\ Len(s2) - 1 = (n + 1) - 1 /\ Last(s2) = r
    BY <1>5, <1>10 DEF Last
  <2>3. \A i \in 1 .. Len(s2) - 1 :
          LET q == s2[i]
              x == Last(s2)
          IN  /\ q.mode = "bpe" => x.mode = "bpe"
              /\ Len(LongestCommonPrefix({x.hashes, q.hashes})) =
                   IF x.mode # q.mode \/ (iso = "tenant" /\ x.tenant # q.tenant) THEN 0
                   ELSE Min({Cutoff, Len(LongestCommonPrefix({UnitsOf(x), UnitsOf(q)})) \div SizeOf(x)})
              /\ x.tokens > 0
    BY <2>1, <2>2, Zenon
  <2>4. QED
    BY <2>2, <2>3, Zenon DEF FallbackIsHarmless
<1>19. QED
  BY <1>15, <1>16, <1>17, <1>18

\* Whatever the requests, the block sizes, the cutoff and the capacity: a request hits what
\* it shares with one earlier request of its tenant and no more, and all of that while
\* nothing was evicted; gateway and backend hash characters alike; and the fallback from
\* tokens to characters neither shares a hash nor is taken again once the tokenizer is
\* there (hashing.py:33-53, bpe_hashing.py:117-131, mock_backend/app.py:60-75, 98-105).
THEOREM BlocksAlwaysExact ==
  CacheSpec => [](HitsArePrefixExact /\ SameBlocksBothSides /\ FallbackIsHarmless)
<1> DEFINE All == CacheInv /\ HitsArePrefixExact /\ SameBlocksBothSides /\ FallbackIsHarmless
<1>1. CacheInit => All
  <2> SUFFICES ASSUME CacheInit PROVE All
    OBVIOUS
  <2>1. /\ isolation \in {"tenant", "global"} /\ tokenizer = FALSE /\ kv = <<>> /\ served = <<>>
    BY DEF CacheInit
  <2>2. Len(<<>>) = 0 /\ DOMAIN <<>> = {} /\ <<>> \in Seq(Chains) /\ <<>> \in Seq(Requests)
    OBVIOUS
  <2>3. ToSet(<<>>) = {} /\ Asked(isolation, <<>>) = {}
    BY <2>2 DEF ToSet, Asked
  <2>4. <<>> \in Caches
    BY <2>2, CacheAssumption DEF Caches, KvOK
  <2>5. CacheInv
    BY <2>1, <2>2, <2>3, <2>4 DEF CacheInv
  <2>6. HitsArePrefixExact /\ SameBlocksBothSides
    BY <2>1, <2>2 DEF HitsArePrefixExact, SameBlocksBothSides
  <2>7. FallbackIsHarmless
    <3>1. 1 .. 0 - 1 = {}
      OBVIOUS
    <3>2. QED
      BY <2>1, <2>2, <3>1 DEF FallbackIsHarmless
  <2>8. QED
    BY <2>5, <2>6, <2>7
<1>2. All /\ [CacheNext]_cacheVars => All'
  <2> SUFFICES ASSUME All, [CacheNext]_cacheVars PROVE All'
    OBVIOUS
  <2>1. ASSUME NEW t \in TenantIds, NEW p \in Texts, NEW loads \in BOOLEAN, Serve(t, p, loads) PROVE All'
    BY <2>1, ServeKeeps
  <2>2. CASE UNCHANGED cacheVars
    <3>1. /\ isolation' = isolation /\ useBpe' = useBpe /\ tokenizer' = tokenizer /\ kv' = kv
          /\ served' = served /\ last' = last
      BY <2>2 DEF cacheVars
    <3>2. CacheInv'
      BY <3>1 DEF CacheInv
    <3>3. HitsArePrefixExact'
      BY <3>1 DEF HitsArePrefixExact, Mates
    <3>4. SameBlocksBothSides' /\ FallbackIsHarmless'
      BY <3>1 DEF SameBlocksBothSides, FallbackIsHarmless
    <3>5. QED
      BY <3>2, <3>3, <3>4
  <2>3. QED
    BY <2>1, <2>2 DEF CacheNext
<1>3. QED
  BY <1>1, <1>2, PTL DEF CacheSpec

\* What the router weighs is sound, whatever is served, trained and restarted: the blocks
\* it counts on are those the backend has, with and without a tokenizer, and the blended
\* estimate stays between its two sources (hashing.py, bpe_hashing.py, app.py,
\* ttft_predictor.py:144-154).
THEOREM EstimatesAlwaysSound ==
  CacheSpec /\ PredictorSpec => []EstimatesAreSound
  BY BlocksAlwaysExact, EstimatesStayBetween, PTL DEF EstimatesAreSound
=============================================================================
