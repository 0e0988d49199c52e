------------------------- MODULE RateLimiterProofs -------------------------
(***************************************************************************)
(* The token rate of a tenant is bounded for every tier, every set of      *)
(* requests and every length of time.                                      *)
(***************************************************************************)
EXTENDS RateLimiter, TLAPS

\* More time allows more.
LEMMA ProductGrows ==
  ASSUME NEW k \in Nat, NEW a \in Int, NEW b \in Int, a <= b
  PROVE  k * a <= k * b
<1>1. PICK d \in Nat : b = a + d
  <2>1. b - a \in Nat /\ b = a + (b - a) OBVIOUS
  <2> QED BY <2>1
<1>2. k * d >= 0 OBVIOUS
<1>3. k * b = k * a + k * d BY <1>1
<1> QED BY <1>2, <1>3

\* A replenished bucket is well formed, accounts for time up to now and gained no more
\* than the refill of the time it newly accounts for.
LEMMA ReplenishGain ==
  ASSUME NEW b \in [capacity : Int, refill : Int, tokens : Int, ts : Int],
         NEW now \in Int, b.ts <= now
  PROVE  LET r == Replenish(b, now)
         IN  /\ r \in [capacity : Int, refill : Int, tokens : Int, ts : Int]
             /\ r.capacity = b.capacity /\ r.refill = b.refill
             /\ b.ts <= r.ts /\ r.ts <= now
             /\ r.tokens <= b.tokens + (r.ts - b.ts) * b.refill
<1> DEFINE r == Replenish(b, now)
<1>1. CASE now > b.ts
  <2> DEFINE m == Lower(b.capacity, b.tokens + (now - b.ts) * b.refill)
  <2>1. b.tokens + (now - b.ts) * b.refill \in Int OBVIOUS
  <2>2. m \in Int /\ m <= b.tokens + (now - b.ts) * b.refill BY <2>1 DEF Lower
  <2>3. r = [b EXCEPT !.tokens = m, !.ts = now] BY <1>1 DEF Replenish
  <2> HIDE DEF m
  <2>4. r.tokens = m /\ r.ts = now /\ r.capacity = b.capacity /\ r.refill = b.refill
    BY <2>3
  <2>5. r \in [capacity : Int, refill : Int, tokens : Int, ts : Int] BY <2>2, <2>3
  <2> QED BY <1>1, <2>2, <2>4, <2>5
<1>2. CASE ~(now > b.ts)
  <2>1. r = b BY <1>2 DEF Replenish
  <2>2. (b.ts - b.ts) * b.refill = 0 OBVIOUS
  <2> QED BY <2>1, <2>2
<1> QED BY <1>1, <1>2

Buckets == [capacity : Int, refill : Int, tokens : Int, ts : Int]

\* A tenant's bucket and ledger, with the sum spent so far.
Balanced(b, s, t, now) ==
  /\ b \in Buckets /\ s \in Int
  /\ b.capacity = Tps[t] /\ b.refill = Tps[t] /\ 0 <= b.ts /\ b.ts <= now
  /\ s + b.tokens <= Tps[t] + Tps[t] * b.ts

\* Refilling keeps the books balanced.
LEMMA ReplenishBalanced ==
  ASSUME NEW t \in Payers, NEW b, NEW s, NEW now \in Nat, Balanced(b, s, t, now)
  PROVE  Balanced(Replenish(b, now), s, t, now)
<1> DEFINE r == Replenish(b, now)
<1>1. b \in Buckets /\ s \in Int /\ Tps[t] \in Nat /\ b.ts \in Int /\ b.ts <= now /\ b.tokens \in Int
  BY LimiterAssumption DEF Balanced, Buckets
<1>2. /\ r \in Buckets /\ r.capacity = b.capacity /\ r.refill = b.refill
      /\ b.ts <= r.ts /\ r.ts <= now /\ r.tokens <= b.tokens + (r.ts - b.ts) * b.refill
  BY <1>1, ReplenishGain DEF Buckets
<1>3. r.ts \in Int /\ r.tokens \in Int BY <1>2 DEF Buckets
<1> HIDE DEF r
<1>4. (r.ts - b.ts) * Tps[t] = Tps[t] * r.ts - Tps[t] * b.ts BY <1>1, <1>3
<1>5. r.tokens <= b.tokens + (Tps[t] * r.ts - Tps[t] * b.ts) BY <1>2, <1>4 DEF Balanced
<1>6. s + b.tokens <= Tps[t] + Tps[t] * b.ts BY DEF Balanced
<1>7. Tps[t] * r.ts \in Int /\ Tps[t] * b.ts \in Int BY <1>1, <1>3
<1>8. s + r.tokens <= Tps[t] + Tps[t] * r.ts BY <1>1, <1>3, <1>5, <1>6, <1>7
<1>9. r.capacity = Tps[t] /\ r.refill = Tps[t] /\ 0 <= r.ts BY <1>1, <1>2, <1>3 DEF Balanced
<1> QED BY <1>1, <1>2, <1>8, <1>9 DEF Balanced, r

\* Charging what is consumed keeps the books balanced.
LEMMA ConsumeBalanced ==
  ASSUME NEW t \in Payers, NEW b, NEW s, NEW now \in Nat, NEW n \in Int, Balanced(b, s, t, now)
  PROVE  Balanced(Consume(b, n, now), s + n, t, now)
<1> DEFINE r == Replenish(b, now)
<1>1. Balanced(r, s, t, now) BY ReplenishBalanced
<1>2. Consume(b, n, now) = [r EXCEPT !.tokens = r.tokens - n] BY DEF Consume
<1> HIDE DEF r
<1>3. r \in Buckets /\ r.tokens \in Int /\ s \in Int /\ r.ts \in Int /\ Tps[t] \in Nat
  BY <1>1, LimiterAssumption DEF Balanced, Buckets
<1> DEFINE c == [r EXCEPT !.tokens = r.tokens - n]
<1>4. /\ c \in Buckets /\ c.capacity = r.capacity /\ c.refill = r.refill /\ c.ts = r.ts
      /\ c.tokens = r.tokens - n
  BY <1>3 DEF Buckets
<1> HIDE DEF c
<1>5. Tps[t] * r.ts \in Int BY <1>3
<1>6. s + r.tokens <= Tps[t] + Tps[t] * r.ts BY <1>1 DEF Balanced
<1>7. (s + n) + c.tokens <= Tps[t] + Tps[t] * c.ts BY <1>3, <1>4, <1>5, <1>6
<1>8. Balanced(c, s + n, t, now) BY <1>1, <1>3, <1>4, <1>7 DEF Balanced
<1> QED BY <1>2, <1>8 DEF c

\* Giving tokens back, or taking them after the fact, keeps the books balanced.
LEMMA AdjustBalanced ==
  ASSUME NEW t \in Payers, NEW b, NEW s, NEW now \in Nat, NEW d \in Int, Balanced(b, s, t, now)
  PROVE  Balanced(Adjust(b, d), s - d, t, now)
<1>1. b \in Buckets /\ b.tokens \in Int /\ b.capacity \in Int /\ s \in Int /\ b.ts \in Int /\ Tps[t] \in Nat
  BY LimiterAssumption DEF Balanced, Buckets
<1> DEFINE m == Lower(b.capacity, b.tokens + d)
<1>2. m \in Int /\ m <= b.tokens + d BY <1>1 DEF Lower
<1>3. Adjust(b, d) = [b EXCEPT !.tokens = m] BY DEF Adjust
<1> HIDE DEF m
<1> DEFINE a == [b EXCEPT !.tokens = m]
<1>4. a \in Buckets /\ a.capacity = b.capacity /\ a.refill = b.refill /\ a.ts = b.ts /\ a.tokens = m
  BY <1>1, <1>2 DEF Buckets
<1> HIDE DEF a
<1>5. Tps[t] * b.ts \in Int BY <1>1
<1>6. s + b.tokens <= Tps[t] + Tps[t] * b.ts BY DEF Balanced
<1>7. (s - d) + a.tokens <= Tps[t] + Tps[t] * a.ts BY <1>1, <1>2, <1>4, <1>5, <1>6
<1>8. Balanced(a, s - d, t, now) BY <1>1, <1>4, <1>7 DEF Balanced
<1> QED BY <1>3, <1>8 DEF a

\* What is remembered of the requests.
Ledgers == [Calls -> [phase : {"new", "live", "done"}, reserved : Int]]

\* The inductive invariant: every tenant's books are balanced.  ThroughputBound speaks
\* of the clock and is not inductive: a refill adds only the time since ts.
BooksBalanced ==
  /\ clock \in Nat
  /\ call \in Ledgers
  /\ tpsB \in [Payers -> Buckets] /\ spent \in [Payers -> Int]
  /\ \A t \in Payers : Balanced(tpsB[t], spent[t], t, clock)

\* A reservation is a natural number whatever the client asked for.
LEMMA ReservationIsNat ==
  ASSUME NEW a \in AskedTokens
  PROVE  ReservedOutput(a) \in Nat
BY LimiterAssumption DEF ReservedOutput, Lower

\* A step that books one tenant's bucket and sum together keeps all books balanced.
LEMMA OneTenantBooked ==
  ASSUME NEW t \in Payers, NEW b, NEW s, BooksBalanced, Balanced(b, s, t, clock),
         tpsB' = [tpsB EXCEPT ![t] = b], spent' = [spent EXCEPT ![t] = s], clock' = clock,
         call' \in Ledgers
  PROVE  BooksBalanced'
<1>1. b \in Buckets /\ s \in Int BY DEF Balanced
<1>2. tpsB' \in [Payers -> Buckets] /\ spent' \in [Payers -> Int]
  BY <1>1 DEF BooksBalanced
<1>3. ASSUME NEW u \in Payers PROVE Balanced(tpsB'[u], spent'[u], u, clock')
  <2>1. CASE u = t
    <3>1. tpsB'[u] = b /\ spent'[u] = s BY <2>1 DEF BooksBalanced
    <3> QED BY <2>1, <3>1
  <2>2. CASE u # t
    <3>1. tpsB'[u] = tpsB[u] /\ spent'[u] = spent[u] BY <2>2 DEF BooksBalanced
    <3> QED BY <3>1 DEF BooksBalanced
  <2> QED BY <2>1, <2>2
<1>4. clock' \in Nat BY DEF BooksBalanced
<1> QED BY <1>2, <1>3, <1>4 DEF BooksBalanced, Balanced

\* Every step of the limiter keeps the books balanced.
LEMMA BooksInductive == BooksBalanced /\ [LimiterNext]_limiterVars => BooksBalanced'
<1> SUFFICES ASSUME BooksBalanced, [LimiterNext]_limiterVars PROVE BooksBalanced'
  OBVIOUS
<1>0. clock \in Nat /\ \A t \in Payers : Balanced(tpsB[t], spent[t], t, clock) /\ spent[t] \in Int
  BY DEF BooksBalanced
<1>1. ASSUME NEW c \in Calls, NEW i \in InputTokens, NEW a \in AskedTokens, Admit(c, i, a)
      PROVE  BooksBalanced'
  <2> DEFINE t == PayerOf[c]
             n == i + ReservedOutput(a)
  <2>1. t \in Payers BY LimiterAssumption
  <2>2. n \in Int /\ ReservedOutput(a) \in Int BY ReservationIsNat, LimiterAssumption
  <2>3. /\ tpsB' = [tpsB EXCEPT ![t] = Consume(tpsB[t], n, clock)]
        /\ spent' = [spent EXCEPT ![t] = spent[t] + n] /\ clock' = clock
        /\ call' = [call EXCEPT ![c] = [phase |-> "live", reserved |-> ReservedOutput(a)]]
    BY <1>1 DEF Admit
  <2>4. call' \in Ledgers BY <2>2, <2>3 DEF BooksBalanced, Ledgers
  <2> HIDE DEF t, n
  <2>5. Balanced(Consume(tpsB[t], n, clock), spent[t] + n, t, clock)
    BY <1>0, <2>1, <2>2, ConsumeBalanced
  <2> QED BY <2>1, <2>3, <2>4, <2>5, OneTenantBooked
<1>2. ASSUME NEW c \in Calls, NEW i \in InputTokens, NEW a \in AskedTokens, RefuseTps(c, i, a)
      PROVE  BooksBalanced'
  <2> DEFINE t == PayerOf[c]
  <2>1. t \in Payers BY LimiterAssumption
  <2>2. /\ tpsB' = [tpsB EXCEPT ![t] = Replenish(tpsB[t], clock)]
        /\ spent' = spent /\ clock' = clock /\ call' = call
    BY <1>2 DEF RefuseTps
  <2> HIDE DEF t
  <2>3. spent' = [spent EXCEPT ![t] = spent[t]] BY <2>1, <2>2 DEF BooksBalanced
  <2>4. Balanced(Replenish(tpsB[t], clock), spent[t], t, clock) BY <1>0, <2>1, ReplenishBalanced
  <2>5. call' \in Ledgers BY <2>2 DEF BooksBalanced
  <2> QED BY <2>1, <2>2, <2>3, <2>4, <2>5, OneTenantBooked
<1>3. ASSUME NEW c \in Calls, NEW i \in InputTokens, NEW a \in AskedTokens, RefuseRps(c, i, a)
      PROVE  BooksBalanced'
  <2> DEFINE t == PayerOf[c]
             n == i + ReservedOutput(a)
  <2>1. t \in Payers BY LimiterAssumption
  <2>2. n \in Int BY ReservationIsNat, LimiterAssumption
  <2>3. /\ tpsB' = [tpsB EXCEPT ![t] = Adjust(Consume(tpsB[t], n, clock), n)]
        /\ spent' = spent /\ clock' = clock /\ call' = call
    BY <1>3 DEF RefuseRps, Refunded
  <2> HIDE DEF t, n
  <2>4. Balanced(Consume(tpsB[t], n, clock), spent[t] + n, t, clock)
    BY <1>0, <2>1, <2>2, ConsumeBalanced
  <2>5. Balanced(Adjust(Consume(tpsB[t], n, clock), n), (spent[t] + n) - n, t, clock)
    BY <1>0, <2>1, <2>2, <2>4, AdjustBalanced
  <2>6. spent' = [spent EXCEPT ![t] = (spent[t] + n) - n]
    BY <1>0, <2>1, <2>2, <2>3 DEF BooksBalanced
  <2>7. call' \in Ledgers BY <2>3 DEF BooksBalanced
  <2> QED BY <2>1, <2>3, <2>5, <2>6, <2>7, OneTenantBooked
<1>4. ASSUME NEW c \in Calls, NEW n \in 0 .. MaxActual, Release(c, n)
      PROVE  BooksBalanced'
  <2> DEFINE t == PayerOf[c]
             d == call[c].reserved - n
  <2>1. t \in Payers BY LimiterAssumption
  <2>2. d \in Int BY LimiterAssumption DEF BooksBalanced, Ledgers
  <2>3. /\ tpsB' = [tpsB EXCEPT ![t] = Adjust(tpsB[t], d)]
        /\ spent' = [spent EXCEPT ![t] = spent[t] - d] /\ clock' = clock
        /\ call' = [call EXCEPT ![c] = [phase |-> "done", reserved |-> 0]]
    BY <1>4 DEF Release
  <2>4. call' \in Ledgers BY <2>3 DEF BooksBalanced, Ledgers
  <2> HIDE DEF t, d
  <2>5. Balanced(Adjust(tpsB[t], d), spent[t] - d, t, clock) BY <1>0, <2>1, <2>2, AdjustBalanced
  <2> QED BY <2>1, <2>3, <2>4, <2>5, OneTenantBooked
<1>5. CASE Tick
  <2>1. clock' \in Nat /\ clock <= clock' /\ UNCHANGED <<tpsB, spent, call>>
    BY <1>0, <1>5 DEF Tick
  <2>2. \A t \in Payers : Balanced(tpsB[t], spent[t], t, clock')
    BY <1>0, <2>1 DEF Balanced, Buckets
  <2> QED BY <2>1, <2>2 DEF BooksBalanced, Balanced
<1>6. CASE UNCHANGED limiterVars
  BY <1>6 DEF limiterVars, BooksBalanced, Balanced
<1> QED BY <1>1, <1>2, <1>3, <1>4, <1>5, <1>6 DEF LimiterNext

\* At the start every bucket is full and nothing is spent.
LEMMA BooksAtFirst == LimiterInit => BooksBalanced
<1> SUFFICES ASSUME LimiterInit PROVE BooksBalanced
  OBVIOUS
<1>1. ASSUME NEW t \in Payers PROVE Balanced(TokenBucket(Tps[t], Tps[t]), 0, t, 0)
  <2>1. Tps[t] \in Nat /\ Tps[t] * 0 = 0 BY LimiterAssumption
  <2> QED BY <2>1 DEF Balanced, Buckets, TokenBucket
<1>2. clock = 0 /\ spent = [t \in Payers |-> 0]
      /\ tpsB = [t \in Payers |-> TokenBucket(Tps[t], Tps[t])]
      /\ call = [c \in Calls |-> [phase |-> "new", reserved |-> 0]]
  BY DEF LimiterInit
<1>3. tpsB \in [Payers -> Buckets] BY <1>1, <1>2 DEF Balanced
<1>4. call \in Ledgers BY <1>2 DEF Ledgers
<1> QED BY <1>1, <1>2, <1>3, <1>4 DEF BooksBalanced

\* Whatever the order of reservations, refunds and late reconciliations, a tenant is
\* never charged more than one full bucket plus the refill of the time that passed
\* (gateway/tenancy.py:60-83, 142-162).
THEOREM TenantThroughputIsBounded == LimiterSpec => []ThroughputBound
<1>2. BooksBalanced => ThroughputBound
  <2> SUFFICES ASSUME BooksBalanced, NEW t \in Payers
               PROVE  spent[t] + tpsB[t].tokens <= Tps[t] + Tps[t] * clock
    BY DEF ThroughputBound
  <2>1. /\ tpsB[t].ts \in Int /\ tpsB[t].tokens \in Int /\ spent[t] \in Int /\ clock \in Nat
        /\ tpsB[t].ts <= clock /\ spent[t] + tpsB[t].tokens <= Tps[t] + Tps[t] * tpsB[t].ts
    BY DEF BooksBalanced, Balanced, Buckets
  <2>2. Tps[t] \in Nat BY LimiterAssumption
  <2>3. Tps[t] * tpsB[t].ts <= Tps[t] * clock BY <2>1, <2>2, ProductGrows
  <2>4. Tps[t] * tpsB[t].ts \in Int /\ Tps[t] * clock \in Int BY <2>1, <2>2
  <2> QED BY <2>1, <2>2, <2>3, <2>4
<1> QED BY BooksAtFirst, <1>2, BooksInductive, PTL DEF LimiterSpec

---------------------------------------------------------------------------
(* Refusals: what they promise and what they take.                         *)

\* A bucket that holds no more than its capacity, refilled at time x.
LEMMA RefillTokens ==
  ASSUME NEW b \in Buckets, b.tokens <= b.capacity, NEW x \in Int, b.ts <= x
  PROVE  LET r == Replenish(b, x)
         IN  /\ r \in Buckets /\ r.capacity = b.capacity /\ r.refill = b.refill /\ r.ts = x
             /\ r.tokens = Lower(b.capacity, b.tokens + (x - b.ts) * b.refill)
             /\ r.tokens <= r.capacity
<1> DEFINE m == Lower(b.capacity, b.tokens + (x - b.ts) * b.refill)
<1>1. /\ b.tokens \in Int /\ b.capacity \in Int /\ b.ts \in Int /\ b.refill \in Int
      /\ (x - b.ts) * b.refill \in Int
  BY DEF Buckets
<1>2. m \in Int /\ m <= b.capacity BY <1>1 DEF Lower
<1>3. CASE x > b.ts
  <2>1. Replenish(b, x) = [b EXCEPT !.tokens = m, !.ts = x] BY <1>3 DEF Replenish
  <2> HIDE DEF m
  <2> DEFINE r == [b EXCEPT !.tokens = m, !.ts = x]
  <2>2. r \in Buckets /\ r.capacity = b.capacity /\ r.refill = b.refill /\ r.ts = x /\ r.tokens = m
    BY <1>2 DEF Buckets
  <2> QED BY <1>2, <2>1, <2>2 DEF m
<1>4. CASE ~(x > b.ts)
  <2>1. Replenish(b, x) = b BY <1>4 DEF Replenish
  <2>2. x = b.ts BY <1>1, <1>4
  <2>3. (x - b.ts) * b.refill = 0 BY <1>1, <2>2
  <2>4. m = b.tokens BY <1>1, <2>3 DEF Lower
  <2> QED BY <2>1, <2>2, <2>4
<1> QED BY <1>3, <1>4

\* Refilling at x and again at y gives what refilling at y gives.
LEMMA RefillTwice ==
  ASSUME NEW b \in Buckets, b.tokens <= b.capacity, b.refill >= 0,
         NEW x \in Int, NEW y \in Int, b.ts <= x, x <= y
  PROVE  Replenish(Replenish(b, x), y).tokens = Replenish(b, y).tokens
<1> DEFINE r == Replenish(b, x)
<1>1. /\ r \in Buckets /\ r.capacity = b.capacity /\ r.refill = b.refill /\ r.ts = x
      /\ r.tokens = Lower(b.capacity, b.tokens + (x - b.ts) * b.refill) /\ r.tokens <= r.capacity
  BY RefillTokens
<1> HIDE DEF r
<1>2. /\ Replenish(r, y).tokens = Lower(r.capacity, r.tokens + (y - x) * b.refill)
      /\ Replenish(b, y).tokens = Lower(b.capacity, b.tokens + (y - b.ts) * b.refill)
  <2>1. b.ts <= y BY DEF Buckets
  <2> QED BY <1>1, <2>1, RefillTokens
<1>3. b.tokens \in Int /\ b.capacity \in Int /\ b.ts \in Int /\ b.refill \in Nat BY DEF Buckets
<1>4. PICK early \in Int, late \in Nat :
        early = (x - b.ts) * b.refill /\ late = (y - x) * b.refill
  <2>1. (x - b.ts) * b.refill \in Int /\ (y - x) * b.refill \in Nat BY <1>3
  <2> QED BY <2>1
<1>5. (y - b.ts) * b.refill = early + late BY <1>3, <1>4
<1>6. Lower(b.capacity, Lower(b.capacity, b.tokens + early) + late)
        = Lower(b.capacity, b.tokens + (early + late))
  BY <1>3, <1>4 DEF Lower
<1> QED BY <1>1, <1>2, <1>4, <1>5, <1>6 DEF r

\* More tokens never refill to less.
LEMMA RefillGrows ==
  ASSUME NEW b \in Buckets, NEW c \in Buckets, NEW x \in Int, b.ts <= x,
         b.tokens <= b.capacity, c.tokens <= c.capacity, b.tokens <= c.tokens,
         c.capacity = b.capacity, c.refill = b.refill, c.ts = b.ts
  PROVE  Replenish(b, x).tokens <= Replenish(c, x).tokens
<1>1. /\ Replenish(b, x).tokens = Lower(b.capacity, b.tokens + (x - b.ts) * b.refill)
      /\ Replenish(c, x).tokens = Lower(b.capacity, c.tokens + (x - b.ts) * b.refill)
  BY RefillTokens
<1>2. /\ b.tokens \in Int /\ c.tokens \in Int /\ b.capacity \in Int
      /\ (x - b.ts) * b.refill \in Int
  BY DEF Buckets
<1> QED BY <1>1, <1>2 DEF Lower

\* Rounded up, the wait covers what is missing.
LEMMA WaitCovers ==
  ASSUME NEW m \in Nat, NEW k \in Nat \ {0}
  PROVE  /\ (m + k - 1) \div k \in Nat
         /\ ((m + k - 1) \div k) * k >= m
OBVIOUS

\* From the time due on, the bucket has the tokens of a request that fits it.
Promise(b, ref, t, now) ==
  (ref # NoRefusal /\ ref.cost <= Tps[t]) =>
    \A x \in Nat : (x >= now /\ x >= ref.due) => Replenish(b, x).tokens >= ref.cost

\* The inductive invariant of refusals: RetryAfterSuffices speaks of now, and time passes
\* without the bucket being touched.
PromisesKept ==
  /\ BooksBalanced
  /\ rpsB \in [Payers -> Buckets]
  /\ refusal \in [Payers -> [cost : Nat, due : Nat]]
  /\ \A t \in Payers : tpsB[t].tokens <= tpsB[t].capacity
  /\ \A t \in Payers : rpsB[t].ts <= clock /\ rpsB[t].tokens <= rpsB[t].capacity
  /\ \A t \in Payers : Promise(tpsB[t], refusal[t], t, clock)

\* What the invariant says of one tenant's token bucket.
LEMMA BucketFacts ==
  ASSUME PromisesKept, NEW t \in Payers
  PROVE  /\ tpsB[t] \in Buckets /\ tpsB[t].tokens <= tpsB[t].capacity
         /\ tpsB[t].capacity = Tps[t] /\ tpsB[t].refill = Tps[t] /\ Tps[t] \in Nat
         /\ tpsB[t].ts <= clock /\ clock \in Nat
BY LimiterAssumption DEF PromisesKept, BooksBalanced, Balanced

\* Giving back what was just consumed leaves the replenished bucket.
LEMMA RefundRestores ==
  ASSUME NEW b \in Buckets, b.tokens <= b.capacity, NEW x \in Int, b.ts <= x, NEW n \in Int
  PROVE  Adjust(Consume(b, n, x), n) = Replenish(b, x)
<1> DEFINE r == Replenish(b, x)
<1>1. r \in Buckets /\ r.tokens <= r.capacity BY RefillTokens
<1>2. Consume(b, n, x) = [r EXCEPT !.tokens = r.tokens - n] BY DEF Consume
<1> HIDE DEF r
<1>3. r.tokens \in Int /\ r.capacity \in Int BY <1>1 DEF Buckets
<1> DEFINE c == [r EXCEPT !.tokens = r.tokens - n]
<1>4. c.capacity = r.capacity /\ c.tokens = r.tokens - n BY <1>1 DEF Buckets
<1>5. Lower(c.capacity, c.tokens + n) = r.tokens BY <1>1, <1>3, <1>4 DEF Lower
<1>6. [c EXCEPT !.tokens = r.tokens] = r BY <1>1 DEF Buckets
<1> HIDE DEF c
<1>7. Adjust(c, n) = [c EXCEPT !.tokens = r.tokens] BY <1>5 DEF Adjust
<1> QED BY <1>2, <1>6, <1>7 DEF c, r

\* A step on one tenant's bucket and refusal keeps the promises made to all.
LEMMA OneTenantRefused ==
  ASSUME PromisesKept, BooksBalanced', NEW t \in Payers, NEW b \in Buckets,
         NEW ref \in [cost : Nat, due : Nat],
         tpsB' = [tpsB EXCEPT ![t] = b], refusal' = [refusal EXCEPT ![t] = ref], clock' = clock,
         b.tokens <= b.capacity, Promise(b, ref, t, clock),
         rpsB' = rpsB \/ \E q \in Buckets : /\ rpsB' = [rpsB EXCEPT ![t] = q]
                                             /\ q.ts <= clock /\ q.tokens <= q.capacity
  PROVE  PromisesKept'
<1>1. refusal' \in [Payers -> [cost : Nat, due : Nat]] /\ tpsB \in [Payers -> Buckets]
  BY DEF PromisesKept, BooksBalanced
<1>2. rpsB' \in [Payers -> Buckets]
      /\ \A u \in Payers : rpsB'[u].ts <= clock' /\ rpsB'[u].tokens <= rpsB'[u].capacity
  BY DEF PromisesKept
<1>3. ASSUME NEW u \in Payers
      PROVE  tpsB'[u].tokens <= tpsB'[u].capacity /\ Promise(tpsB'[u], refusal'[u], u, clock')
  <2>1. CASE u = t
    <3>1. tpsB'[u] = b /\ refusal'[u] = ref BY <1>1, <2>1 DEF PromisesKept
    <3> QED BY <2>1, <3>1
  <2>2. CASE u # t
    <3>1. tpsB'[u] = tpsB[u] /\ refusal'[u] = refusal[u] BY <1>1, <2>2 DEF PromisesKept
    <3> QED BY <3>1 DEF PromisesKept
  <2> QED BY <2>1, <2>2
<1> QED BY <1>1, <1>2, <1>3 DEF PromisesKept, Promise

\* Nothing is promised by NoRefusal.
LEMMA NoPromise ==
  ASSUME NEW b, NEW t, NEW now
  PROVE  Promise(b, NoRefusal, t, now) /\ NoRefusal \in [cost : Nat, due : Nat]
BY DEF Promise, NoRefusal

\* Replenishing a bucket keeps what was promised of it.
LEMMA ReplenishKeepsPromise ==
  ASSUME PromisesKept, NEW t \in Payers
  PROVE  Promise(Replenish(tpsB[t], clock), refusal[t], t, clock)
<1>1. ASSUME NEW x \in Nat, x >= clock
      PROVE  Replenish(Replenish(tpsB[t], clock), x).tokens = Replenish(tpsB[t], x).tokens
  BY <1>1, BucketFacts, RefillTwice
<1>2. Promise(tpsB[t], refusal[t], t, clock) BY DEF PromisesKept
<1> QED BY <1>1, <1>2 DEF Promise

\* The time a refusal names is late enough.
LEMMA RefusalPromises ==
  ASSUME PromisesKept, NEW t \in Payers, NEW n \in Nat,
         ~CanConsume(tpsB[t], n, clock), DeficitSeconds(tpsB[t], n, clock) >= 0
  PROVE  LET ref == [cost |-> n, due |-> clock + RetryAfter(DeficitSeconds(tpsB[t], n, clock))]
         IN  /\ ref \in [cost : Nat, due : Nat]
             /\ Promise(Replenish(tpsB[t], clock), ref, t, clock)
<1> DEFINE r == Replenish(tpsB[t], clock)
           wait == DeficitSeconds(tpsB[t], n, clock)
           ref == [cost |-> n, due |-> clock + RetryAfter(wait)]
           k == Tps[t]
<1>1. /\ r \in Buckets /\ r.capacity = k /\ r.refill = k /\ r.ts = clock /\ r.tokens <= k
      /\ k \in Nat /\ clock \in Nat /\ tpsB[t].refill = k
  BY BucketFacts, RefillTokens
<1>2. r.tokens \in Int /\ r.tokens < n BY <1>1 DEF CanConsume, Buckets
<1>3. k > 0 /\ wait = (n - r.tokens + k - 1) \div k
  BY <1>1, <1>2 DEF DeficitSeconds
<1>4. wait \in Nat /\ wait * k >= n - r.tokens BY <1>1, <1>2, <1>3, WaitCovers
<1> HIDE DEF r, wait, k
<1>5. RetryAfter(wait) \in Nat /\ RetryAfter(wait) >= wait BY <1>4 DEF RetryAfter, Higher
<1>6. ASSUME NEW x \in Nat, x >= ref.due, n <= k PROVE Replenish(r, x).tokens >= n
  <2>1. x >= clock + wait BY <1>1, <1>4, <1>5, <1>6
  <2>2. Replenish(r, x).tokens = Lower(k, r.tokens + (x - clock) * k)
    <3>1. r.ts <= x BY <1>1, <1>4, <2>1
    <3> QED BY <1>1, <3>1, RefillTokens
  <2>3. k * (x - clock) >= k * wait BY <1>1, <1>4, <2>1, ProductGrows
  <2>4. PICK gain \in Int : gain = (x - clock) * k BY <1>1
  <2>5. gain >= n - r.tokens
    <3>1. (x - clock) * k = k * (x - clock) /\ wait * k = k * wait BY <1>1, <1>4
    <3>2. k * wait \in Int BY <1>1, <1>4
    <3> QED BY <1>2, <1>4, <2>3, <2>4, <3>1, <3>2
  <2> QED BY <1>1, <1>2, <1>6, <2>2, <2>4, <2>5 DEF Lower
<1>7. ref \in [cost : Nat, due : Nat] BY <1>1, <1>5
<1> QED BY <1>6, <1>7 DEF Promise, r, wait, k

\* The request bucket, replenished or consumed from, keeps to its capacity.
LEMMA RequestBucketKept ==
  ASSUME PromisesKept, NEW t \in Payers
  PROVE  /\ Replenish(rpsB[t], clock) \in Buckets
         /\ Replenish(rpsB[t], clock).ts <= clock
         /\ Replenish(rpsB[t], clock).tokens <= Replenish(rpsB[t], clock).capacity
         /\ Consume(rpsB[t], 1, clock) \in Buckets
         /\ Consume(rpsB[t], 1, clock).ts <= clock
         /\ Consume(rpsB[t], 1, clock).tokens <= Consume(rpsB[t], 1, clock).capacity
<1> DEFINE r == Replenish(rpsB[t], clock)
<1>1. clock \in Nat /\ rpsB[t] \in Buckets /\ rpsB[t].ts <= clock /\ rpsB[t].tokens <= rpsB[t].capacity
  BY DEF PromisesKept, BooksBalanced
<1>2. r \in Buckets /\ r.ts = clock /\ r.tokens <= r.capacity BY <1>1, RefillTokens
<1> HIDE DEF r
<1> DEFINE c == [r EXCEPT !.tokens = r.tokens - 1]
<1>3. c \in Buckets /\ c.ts = r.ts /\ c.capacity = r.capacity /\ c.tokens = r.tokens - 1
      /\ r.tokens \in Int /\ r.capacity \in Int
  BY <1>2 DEF Buckets
<1>4. Consume(rpsB[t], 1, clock) = c BY DEF Consume, r
<1> HIDE DEF c
<1> QED BY <1>1, <1>2, <1>3, <1>4 DEF r

LEMMA PromisesInductive == PromisesKept /\ [LimiterNext]_limiterVars => PromisesKept'
<1> SUFFICES ASSUME PromisesKept, [LimiterNext]_limiterVars PROVE PromisesKept'
  OBVIOUS
<1>0. /\ BooksBalanced' /\ clock \in Nat /\ refusal \in [Payers -> [cost : Nat, due : Nat]]
      /\ tpsB \in [Payers -> Buckets]
  BY BooksInductive DEF PromisesKept, BooksBalanced
<1>1. ASSUME NEW c \in Calls, NEW i \in InputTokens, NEW a \in AskedTokens, Admit(c, i, a)
      PROVE  PromisesKept'
  <2> DEFINE t == PayerOf[c]
             n == i + ReservedOutput(a)
  <2>1. t \in Payers /\ n \in Nat BY ReservationIsNat, LimiterAssumption
  <2>2. /\ tpsB' = [tpsB EXCEPT ![t] = Consume(tpsB[t], n, clock)]
        /\ rpsB' = [rpsB EXCEPT ![t] = Consume(rpsB[t], 1, clock)]
        /\ refusal' = [refusal EXCEPT ![t] = NoRefusal] /\ clock' = clock
    BY <1>1 DEF Admit
  <2> HIDE DEF t, n
  <2>3. PICK b : b = Consume(tpsB[t], n, clock) OBVIOUS
  <2>4. b \in Buckets /\ b.tokens <= b.capacity
    <3> DEFINE r == Replenish(tpsB[t], clock)
    <3>1. r \in Buckets /\ r.tokens <= r.capacity BY <2>1, BucketFacts, RefillTokens
    <3>2. b = [r EXCEPT !.tokens = r.tokens - n] BY <2>3 DEF Consume
    <3> HIDE DEF r
    <3> QED BY <2>1, <3>1, <3>2 DEF Buckets
  <2>5. PICK q \in Buckets : q = Consume(rpsB[t], 1, clock) /\ q.ts <= clock /\ q.tokens <= q.capacity
    BY <2>1, RequestBucketKept
  <2>6. Promise(b, NoRefusal, t, clock) /\ NoRefusal \in [cost : Nat, due : Nat] BY NoPromise
  <2> QED BY <1>0, <2>1, <2>2, <2>3, <2>4, <2>5, <2>6, OneTenantRefused
<1>2. ASSUME NEW c \in Calls, NEW i \in InputTokens, NEW a \in AskedTokens, RefuseTps(c, i, a)
      PROVE  PromisesKept'
  <2> DEFINE t == PayerOf[c]
             n == i + ReservedOutput(a)
             wait == DeficitSeconds(tpsB[t], n, clock)
  <2>1. t \in Payers /\ n \in Nat BY ReservationIsNat, LimiterAssumption
  <2>2. /\ tpsB' = [tpsB EXCEPT ![t] = Replenish(tpsB[t], clock)] /\ rpsB' = rpsB
        /\ refusal' = [refusal EXCEPT ![t] = IF wait < 0 THEN NoRefusal
                                             ELSE [cost |-> n, due |-> clock + RetryAfter(wait)]]
        /\ clock' = clock /\ ~CanConsume(tpsB[t], n, clock)
    BY <1>2 DEF RefuseTps
  <2> HIDE DEF t, n
  <2>3. PICK b : b = Replenish(tpsB[t], clock) OBVIOUS
  <2>4. b \in Buckets /\ b.tokens <= b.capacity BY <2>1, <2>3, BucketFacts, RefillTokens
  <2>5. PICK ref \in [cost : Nat, due : Nat] :
          /\ ref = IF wait < 0 THEN NoRefusal ELSE [cost |-> n, due |-> clock + RetryAfter(wait)]
          /\ Promise(b, ref, t, clock)
    <3>1. CASE wait < 0 BY <3>1, NoPromise
    <3>2. CASE ~(wait < 0)
      <4>1. wait >= 0
        <5>1. wait \in Int
          <6> DEFINE missing == n - Replenish(tpsB[t], clock).tokens
          <6>1. missing \in Int /\ tpsB[t].refill \in Nat
            BY <2>1, <2>3, <2>4, BucketFacts DEF Buckets
          <6>2. tpsB[t].refill > 0 => (missing + tpsB[t].refill - 1) \div tpsB[t].refill \in Int
            BY <6>1
          <6> QED BY <6>1, <6>2 DEF DeficitSeconds
        <5> QED BY <3>2, <5>1
      <4>2. PICK w : w = [cost |-> n, due |-> clock + RetryAfter(wait)] OBVIOUS
      <4>3. w \in [cost : Nat, due : Nat] /\ Promise(b, w, t, clock)
        BY <2>1, <2>2, <2>3, <4>1, <4>2, RefusalPromises
      <4> QED BY <3>2, <4>2, <4>3
    <3> QED BY <3>1, <3>2
  <2> QED BY <1>0, <2>1, <2>2, <2>3, <2>4, <2>5, OneTenantRefused
<1>3. ASSUME NEW c \in Calls, NEW i \in InputTokens, NEW a \in AskedTokens, RefuseRps(c, i, a)
      PROVE  PromisesKept'
  <2> DEFINE t == PayerOf[c]
             n == i + ReservedOutput(a)
  <2>1. t \in Payers /\ n \in Nat BY ReservationIsNat, LimiterAssumption
  <2>2. /\ tpsB' = [tpsB EXCEPT ![t] = Adjust(Consume(tpsB[t], n, clock), n)]
        /\ rpsB' = [rpsB EXCEPT ![t] = Replenish(rpsB[t], clock)]
        /\ refusal' = refusal /\ clock' = clock
    BY <1>3 DEF RefuseRps, Refunded
  <2> HIDE DEF t, n
  <2>3. PICK b : b = Replenish(tpsB[t], clock) OBVIOUS
  <2>4. b \in Buckets /\ b.tokens <= b.capacity BY <2>1, <2>3, BucketFacts, RefillTokens
  <2>5. Adjust(Consume(tpsB[t], n, clock), n) = b
    BY <2>1, <2>3, BucketFacts, RefundRestores
  <2>6. PICK q \in Buckets : q = Replenish(rpsB[t], clock) /\ q.ts <= clock /\ q.tokens <= q.capacity
    BY <2>1, RequestBucketKept
  <2>7. PICK ref \in [cost : Nat, due : Nat] : ref = refusal[t] BY <1>0, <2>1
  <2>8. Promise(b, ref, t, clock) BY <2>1, <2>3, <2>7, ReplenishKeepsPromise
  <2>9. refusal' = [refusal EXCEPT ![t] = ref] BY <1>0, <2>1, <2>2, <2>7
  <2> QED BY <1>0, <2>1, <2>2, <2>4, <2>5, <2>6, <2>8, <2>9, OneTenantRefused
<1>4. ASSUME NEW c \in Calls, NEW n \in 0 .. MaxActual, Release(c, n)
      PROVE  PromisesKept'
  <2> DEFINE t == PayerOf[c]
             d == call[c].reserved - n
  <2>1. t \in Payers /\ d \in Int
    BY LimiterAssumption DEF PromisesKept, BooksBalanced, Ledgers
  <2>2. /\ tpsB' = [tpsB EXCEPT ![t] = Adjust(tpsB[t], d)] /\ rpsB' = rpsB
        /\ refusal' = [refusal EXCEPT ![t] = IF d < 0 THEN NoRefusal ELSE refusal[t]]
        /\ clock' = clock
    BY <1>4 DEF Release
  <2> HIDE DEF t, d
  <2>3. PICK b : b = Adjust(tpsB[t], d) OBVIOUS
  <2>4. /\ b \in Buckets /\ b.tokens <= b.capacity /\ b.capacity = tpsB[t].capacity
        /\ b.refill = tpsB[t].refill /\ b.ts = tpsB[t].ts
        /\ d >= 0 => tpsB[t].tokens <= b.tokens
    <3> DEFINE o == tpsB[t]
               m == Lower(o.capacity, o.tokens + d)
    <3>1. o \in Buckets /\ o.tokens <= o.capacity /\ o.tokens \in Int /\ o.capacity \in Int
      BY <2>1, BucketFacts DEF Buckets
    <3>2. m \in Int /\ m <= o.capacity /\ (d >= 0 => o.tokens <= m) BY <2>1, <3>1 DEF Lower
    <3>3. b = [o EXCEPT !.tokens = m] BY <2>3 DEF Adjust
    <3> HIDE DEF o, m
    <3>4. b \in Buckets /\ b.tokens = m /\ b.capacity = o.capacity /\ b.refill = o.refill /\ b.ts = o.ts
      BY <3>1, <3>2, <3>3 DEF Buckets
    <3> QED BY <3>2, <3>4 DEF o
  <2>5. PICK ref \in [cost : Nat, due : Nat] :
          ref = (IF d < 0 THEN NoRefusal ELSE refusal[t]) /\ Promise(b, ref, t, clock)
    <3>1. CASE d < 0 BY <3>1, NoPromise
    <3>2. CASE ~(d < 0)
      <4>1. ASSUME NEW x \in Nat, x >= clock
            PROVE  /\ Replenish(tpsB[t], x).tokens <= Replenish(b, x).tokens
                   /\ Replenish(tpsB[t], x).tokens \in Int /\ Replenish(b, x).tokens \in Int
        <5>1. tpsB[t].ts <= x /\ tpsB[t].tokens <= b.tokens /\ tpsB[t] \in Buckets
              /\ tpsB[t].tokens <= tpsB[t].capacity
          BY <2>1, <2>4, <3>2, <4>1, BucketFacts DEF Buckets
        <5>2. Replenish(tpsB[t], x) \in Buckets /\ Replenish(b, x) \in Buckets
          BY <2>4, <5>1, RefillTokens
        <5>3. Replenish(tpsB[t], x).tokens <= Replenish(b, x).tokens BY <2>4, <5>1, RefillGrows
        <5> QED BY <5>2, <5>3 DEF Buckets
      <4>2. Promise(tpsB[t], refusal[t], t, clock) /\ refusal[t] \in [cost : Nat, due : Nat]
        BY <2>1 DEF PromisesKept
      <4>3. Promise(b, refusal[t], t, clock)
        <5> SUFFICES ASSUME refusal[t] # NoRefusal, refusal[t].cost <= Tps[t],
                            NEW x \in Nat, x >= clock, x >= refusal[t].due
                     PROVE  Replenish(b, x).tokens >= refusal[t].cost
          BY DEF Promise
        <5>1. Replenish(tpsB[t], x).tokens >= refusal[t].cost BY <4>2 DEF Promise
        <5> QED BY <4>1, <4>2, <5>1
      <4> QED BY <3>2, <4>2, <4>3
    <3> QED BY <3>1, <3>2
  <2> QED BY <1>0, <2>1, <2>2, <2>3, <2>4, <2>5, OneTenantRefused
<1>5. CASE Tick
  <2>1. clock' = clock + 1 /\ UNCHANGED <<tpsB, rpsB, refusal>> BY <1>5 DEF Tick
  <2>2. ASSUME NEW t \in Payers PROVE Promise(tpsB[t], refusal[t], t, clock + 1)
    <3>1. Promise(tpsB[t], refusal[t], t, clock) BY DEF PromisesKept
    <3> QED BY <1>0, <3>1 DEF Promise
  <2>3. \A t \in Payers : rpsB[t].ts <= clock + 1
    BY <1>0 DEF PromisesKept, Buckets
  <2> QED BY <1>0, <2>1, <2>2, <2>3 DEF PromisesKept
<1>6. CASE UNCHANGED limiterVars
  BY <1>0, <1>6 DEF limiterVars, PromisesKept
<1> QED BY <1>1, <1>2, <1>3, <1>4, <1>5, <1>6 DEF LimiterNext

LEMMA PromisesMeanEnough == PromisesKept => RetryAfterSuffices
<1> SUFFICES ASSUME PromisesKept, NEW t \in Payers, refusal[t] # NoRefusal,
                    clock >= refusal[t].due, refusal[t].cost <= Tps[t]
             PROVE  CanConsume(tpsB[t], refusal[t].cost, clock)
  BY DEF RetryAfterSuffices
<1>1. Promise(tpsB[t], refusal[t], t, clock) /\ clock \in Nat BY DEF PromisesKept, BooksBalanced
<1> QED BY <1>1 DEF Promise, CanConsume

\* A step that admits and ends nothing leaves both buckets worth what they were.
LEMMA RefusingIsFree == PromisesKept /\ LimiterNext => RefusalTakesNothing
<1> SUFFICES ASSUME PromisesKept, LimiterNext, NEW t \in Payers, call' = call, clock' = clock
             PROVE  /\ Replenish(tpsB[t], clock).tokens = Replenish(tpsB'[t], clock).tokens
                    /\ Replenish(rpsB[t], clock).tokens = Replenish(rpsB'[t], clock).tokens
  BY DEF RefusalTakesNothing
<1>1. /\ clock \in Nat /\ tpsB \in [Payers -> Buckets] /\ rpsB \in [Payers -> Buckets]
      /\ call \in Ledgers
  BY DEF PromisesKept, BooksBalanced
<1>2. Replenish(Replenish(tpsB[t], clock), clock) = Replenish(tpsB[t], clock)
  <2>1. Replenish(tpsB[t], clock).ts = clock BY BucketFacts, RefillTokens
  <2> QED BY <1>1, <2>1 DEF Replenish
<1>3. Replenish(Replenish(rpsB[t], clock), clock) = Replenish(rpsB[t], clock)
  <2>1. rpsB[t] \in Buckets /\ rpsB[t].ts <= clock /\ rpsB[t].tokens <= rpsB[t].capacity
    BY DEF PromisesKept
  <2>2. Replenish(rpsB[t], clock).ts = clock BY <1>1, <2>1, RefillTokens
  <2> QED BY <1>1, <2>2 DEF Replenish
<1>4. ~Tick BY <1>1 DEF Tick
<1>5. ASSUME NEW c \in Calls, NEW i \in InputTokens, NEW a \in AskedTokens PROVE ~Admit(c, i, a)
  BY <1>1 DEF Admit, Ledgers
<1>6. ASSUME NEW c \in Calls, NEW n \in 0 .. MaxActual PROVE ~Release(c, n)
  BY <1>1 DEF Release, Ledgers
<1>7. ASSUME NEW c \in Calls, NEW i \in InputTokens, NEW a \in AskedTokens,
             RefuseTps(c, i, a) \/ RefuseRps(c, i, a)
      PROVE  /\ tpsB'[t] = tpsB[t] \/ tpsB'[t] = Replenish(tpsB[t], clock)
             /\ rpsB'[t] = rpsB[t] \/ rpsB'[t] = Replenish(rpsB[t], clock)
  <2>1. CASE RefuseTps(c, i, a) BY <1>1, <2>1 DEF RefuseTps
  <2>2. CASE RefuseRps(c, i, a)
    <3> DEFINE n == i + ReservedOutput(a)
    <3>1. n \in Int BY ReservationIsNat, LimiterAssumption
    <3>2. /\ tpsB' = [tpsB EXCEPT ![PayerOf[c]] = Adjust(Consume(tpsB[PayerOf[c]], n, clock), n)]
          /\ rpsB' = [rpsB EXCEPT ![PayerOf[c]] = Replenish(rpsB[PayerOf[c]], clock)]
      BY <2>2 DEF RefuseRps, Refunded
    <3> HIDE DEF n
    <3>3. Adjust(Consume(tpsB[t], n, clock), n) = Replenish(tpsB[t], clock)
      BY <3>1, BucketFacts, RefundRestores
    <3> QED BY <1>1, <3>2, <3>3
  <2> QED BY <1>7, <2>1, <2>2
<1> QED BY <1>2, <1>3, <1>4, <1>5, <1>6, <1>7 DEF LimiterNext

\* Whatever the tiers, the requests and the time, a refusal costs the tenant nothing, and
\* a client that waits as long as Retry-After says finds its tokens, unless its tenant
\* spent them meanwhile (gateway/tenancy.py:73-79, 142-162).
THEOREM RefusalsAreAlwaysHonest == LimiterSpec => RefusalsAreHonest
<1>1. LimiterInit => PromisesKept
  <2> SUFFICES ASSUME LimiterInit PROVE PromisesKept
    OBVIOUS
  <2>1. BooksBalanced BY BooksAtFirst
  <2>2. rpsB \in [Payers -> Buckets] /\ \A t \in Payers : rpsB[t].ts <= clock /\ rpsB[t].tokens <= rpsB[t].capacity
    <3>1. ASSUME NEW t \in Payers PROVE Rps[t] \in Int /\ Higher(1, Rps[t]) \in Int
      BY LimiterAssumption DEF Higher
    <3> QED BY <3>1 DEF LimiterInit, TokenBucket, Buckets
  <2>3. \A t \in Payers : tpsB[t].tokens <= tpsB[t].capacity
    BY LimiterAssumption DEF LimiterInit, TokenBucket
  <2>4. refusal \in [Payers -> [cost : Nat, due : Nat]]
        /\ \A t \in Payers : Promise(tpsB[t], refusal[t], t, clock)
    BY NoPromise DEF LimiterInit
  <2> QED BY <2>1, <2>2, <2>3, <2>4 DEF PromisesKept
<1>2. PromisesKept /\ PromisesKept' /\ [LimiterNext]_limiterVars
        => [RefusalTakesNothing /\ RetryAfterSuffices']_limiterVars
  <2> SUFFICES ASSUME PromisesKept, PromisesKept', LimiterNext
               PROVE  RefusalTakesNothing /\ RetryAfterSuffices'
    OBVIOUS
  <2>1. RefusalTakesNothing BY RefusingIsFree
  <2>2. RetryAfterSuffices' BY PromisesMeanEnough, PTL
  <2> QED BY <2>1, <2>2
<1> QED BY <1>1, <1>2, PromisesInductive, PTL DEF LimiterSpec, RefusalsAreHonest
=============================================================================
