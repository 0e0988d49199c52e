--------------------------- MODULE DecisionProofs ---------------------------
(***************************************************************************)
(* Proofs about the policies that decide from numbers: whom admission      *)
(* control turns away (gateway/admission/policy.py), where the phases of a *)
(* request run (gateway/disagg/router.py), which connections race          *)
(* (gateway/extensions/speculative.py), what the autoscaler recommends     *)
(* (gateway/autoscale/planner.py), how a graph of requests is planned      *)
(* (gateway/dag) and how chat_completions narrows the backends by what     *)
(* they cache (gateway/server.py, rag, multimodal), for every pool, cost,  *)
(* load, fleet, graph and cache size.                                      *)
(***************************************************************************)
EXTENDS Admission, Disagg, Race, Autoscale, Dag, Selection, Lists, FiniteSetTheorems, TLAPS

-----------------------------------------------------------------------------
(* Numbers                                                                 *)

(* min() and max() of two numbers.                                         *)
LEMMA MinMaxOfTwo ==
  ASSUME NEW a \in Int, NEW b \in Int
  PROVE  /\ Max({a, b}) = IF a >= b THEN a ELSE b
         /\ Min({a, b}) = IF a <= b THEN a ELSE b
BY DEF Max, Min

(* Products of what costs, counts and times are.                           *)
LEMMA TimesNat == ASSUME NEW a \in Nat, NEW b \in Nat PROVE a * b \in Nat
OBVIOUS

-----------------------------------------------------------------------------
(* Disaggregated placement                                                 *)

(* The first of the cheapest nodes is a node, and none is cheaper.         *)
LEMMA CheapestIsLeast ==
  ASSUME NEW S \in SUBSET Nat, S # {}, NEW cost \in [S -> Nat]
  PROVE  Cheapest(cost) \in S /\ \A c \in S : cost[Cheapest(cost)] <= cost[c]
<1>0. PICK V \in SUBSET Nat : V = {cost[b] : b \in S} /\ V # {}
  <2>1. {cost[b] : b \in S} \in SUBSET Nat /\ {cost[b] : b \in S} # {}
    OBVIOUS
  <2>2. QED
    BY <2>1
<1>1. PICK v \in V : \A w \in V : v <= w
  BY <1>0, LeastNat
<1>2. v \in Nat /\ \A c \in S : v <= cost[c] /\ cost[c] \in Nat
  BY <1>0, <1>1
<1>3. PICK b \in {x \in S : cost[x] = v} : \A c \in {x \in S : cost[x] = v} : b <= c
  <2>1. {x \in S : cost[x] = v} \in SUBSET Nat /\ {x \in S : cost[x] = v} # {}
    BY <1>0, <1>1
  <2>2. QED
    BY <2>1, LeastNat
<1> DEFINE Leads(x) == \A c \in DOMAIN cost : cost[x] < cost[c] \/ (cost[x] = cost[c] /\ x <= c)
<1>4. \E x \in DOMAIN cost : Leads(x)
  <2>1. DOMAIN cost = S /\ Leads(b)
    BY <1>2, <1>3
  <2>2. QED
    BY <1>3, <2>1
<1>5. Cheapest(cost) = CHOOSE x \in DOMAIN cost : Leads(x)
  BY DEF Cheapest
<1> HIDE DEF Leads
<1>6. Cheapest(cost) \in DOMAIN cost /\ Leads(Cheapest(cost))
  BY <1>4, <1>5
<1>7. PICK k : k = Cheapest(cost)
  OBVIOUS
<1>8. k \in S /\ \A c \in S : cost[k] < cost[c] \/ (cost[k] = cost[c] /\ k <= c)
  BY <1>6, <1>7 DEF Leads
<1>9. QED
  BY <1>2, <1>7, <1>8

(* The two costs of a node are natural numbers.                            *)
LEMMA CostsAreNat ==
  ASSUME NEW state \in [Nodes -> NodeStates], NEW b \in Nodes
  PROVE  _prefill_ms(state, b) \in Nat /\ _decode_ms(state, b) \in Nat
<1>1. state[b].inflight \in Nat /\ state[b].blocks \in Nat
  BY DisaggAssumption
<1>2. state[b].blocks * NodeBlockTokens \in Nat
  BY <1>1, TimesNat, DisaggAssumption
<1>3. PICK n : n = PromptTokens - state[b].blocks * NodeBlockTokens
  OBVIOUS
<1>4. n \in Int /\ Max({0, n}) \in Nat
  BY <1>2, <1>3, MinMaxOfTwo, DisaggAssumption
<1>5. PrefillTokenMs * Max({0, n}) \in Nat /\ state[b].inflight * PrefillQueueMs \in Nat
  BY <1>1, <1>4, TimesNat, DisaggAssumption
<1>6. DecodeTokenMs * OutputTokens \in Nat /\ state[b].inflight * DecodeQueueMs \in Nat
  BY <1>1, TimesNat, DisaggAssumption
<1>7. QED
  BY <1>3, <1>5, <1>6 DEF _prefill_ms, _decode_ms

(* Handing the cache over takes the same time between any two nodes.       *)
LEMMA HandoffCost ==
  \E k \in Nat : \A p, d : Handoff(p, d) = IF p = d THEN 0 ELSE k
<1>1. kv_transfer_ms(PromptTokens) \in Nat
  BY TimesNat, DisaggAssumption DEF kv_transfer_ms
<1>2. QED
  BY <1>1 DEF Handoff

(* Candidates are nodes of the pool, saturated ones only if all are.       *)
LEMMA CandidatesOfPool ==
  ASSUME NEW pool, NEW state
  PROVE  /\ _candidates(pool, state) \subseteq pool
         /\ pool # {} => _candidates(pool, state) # {}
         /\ \A b \in _candidates(pool, state) :
              ~_eligible(state, b) => \A c \in pool : ~_eligible(state, c)
BY DEF _candidates

(* A node that is a candidate of both phases is one for both together.     *)
LEMMA CandidateOfBoth ==
  ASSUME NEW state, NEW b \in Nodes,
         b \in _candidates(prefill_pool, state), b \in _candidates(decode_pool, state)
  PROVE  b \in _candidates(colocatable, state)
<1>1. b \in colocatable /\ colocatable \subseteq prefill_pool
  BY CandidatesOfPool DEF colocatable, prefill_pool, decode_pool, BothRoles
<1>2. CASE _eligible(state, b)
  BY <1>1, <1>2 DEF _candidates
<1>3. CASE ~_eligible(state, b)
  <2>1. \A c \in colocatable : ~_eligible(state, c)
    BY <1>1, <1>3, CandidatesOfPool
  <2>2. QED
    BY <1>1, <2>1 DEF _candidates
<1>4. QED
  BY <1>2, <1>3

\* What choose_disaggregated weighs: a cheapest prefill node, a cheapest decode node and,
\* if a node can serve both phases, a cheapest one of those.
Weighed(state, p, d, c, colocs) ==
  /\ p \in PrefillCands(state) /\ \A b \in PrefillCands(state) : _prefill_ms(state, p) <= _prefill_ms(state, b)
  /\ d \in DecodeCands(state) /\ \A b \in DecodeCands(state) : _decode_ms(state, d) <= _decode_ms(state, b)
  /\ colocs = _candidates(colocatable, state)
  /\ colocs # {} =>
       c \in colocs /\ \A b \in colocs : SplitTotal(state, c, c) <= SplitTotal(state, b, b)

\* The decision between them.
Decided(state, p, d, c, colocs) ==
  IF colocs = {} \/ SplitWins(state, p, d, c)
  THEN [prefill |-> p, decode |-> d, total |-> SplitTotal(state, p, d)]
  ELSE [prefill |-> c, decode |-> c, total |-> SplitTotal(state, c, c)]

(* The pools are sets of nodes; every node is in one of them.              *)
LEMMA PoolsOfNodes ==
  /\ prefill_pool \subseteq Nodes /\ decode_pool \subseteq Nodes /\ colocatable \subseteq Nodes
  /\ colocatable \subseteq prefill_pool /\ colocatable \subseteq decode_pool
  /\ prefill_pool # {} \/ decode_pool # {}
<1>1. /\ prefill_pool \subseteq Nodes /\ decode_pool \subseteq Nodes /\ colocatable \subseteq Nodes
      /\ colocatable \subseteq prefill_pool /\ colocatable \subseteq decode_pool
  BY DEF prefill_pool, decode_pool, colocatable, BothRoles
<1>2. PICK b \in Nodes : TRUE
  BY DisaggAssumption
<1>3. "prefill" \in roles(b) \/ "decode" \in roles(b)
  BY DisaggAssumption DEF roles, BothRoles
<1>4. QED
  BY <1>1, <1>2, <1>3 DEF prefill_pool, decode_pool

(* The candidates of a phase are nodes of its pool, of the other one only  *)
(* if it is empty, and there always is one.                                *)
LEMMA CandidatesOfPhase ==
  ASSUME NEW state
  PROVE  /\ PrefillCands(state) \subseteq Nodes /\ PrefillCands(state) # {}
         /\ DecodeCands(state) \subseteq Nodes /\ DecodeCands(state) # {}
         /\ prefill_pool # {} => PrefillCands(state) = _candidates(prefill_pool, state)
         /\ decode_pool # {} => DecodeCands(state) = _candidates(decode_pool, state)
<1>1. \A pool : _candidates(pool, state) \subseteq pool /\ (pool # {} => _candidates(pool, state) # {})
  BY CandidatesOfPool
<1>2. prefill_pool # {} => PrefillCands(state) = _candidates(prefill_pool, state)
  BY <1>1 DEF PrefillCands
<1>3. decode_pool # {} => DecodeCands(state) = _candidates(decode_pool, state)
  BY <1>1 DEF DecodeCands
<1>4. PrefillCands(state) \subseteq Nodes /\ PrefillCands(state) # {}
  BY <1>1, PoolsOfNodes DEF PrefillCands
<1>5. DecodeCands(state) \subseteq Nodes /\ DecodeCands(state) # {}
  BY <1>1, <1>4, PoolsOfNodes DEF DecodeCands
<1>6. QED
  BY <1>2, <1>3, <1>4, <1>5

(* The total of a plan, from the costs of its nodes.                       *)
LEMMA TotalOfPlan ==
  ASSUME NEW state \in [Nodes -> NodeStates], NEW p \in Nodes, NEW d \in Nodes
  PROVE  SplitTotal(state, p, d) \in Nat
<1>1. PICK k \in Nat : \A x, y : Handoff(x, y) = IF x = y THEN 0 ELSE k
  BY HandoffCost
<1>2. QED
  BY <1>1, CostsAreNat DEF SplitTotal

(* choose_disaggregated decides between what it weighs.                    *)
LEMMA DecisionIsWeighed ==
  ASSUME NEW state \in [Nodes -> NodeStates]
  PROVE  \E p, d, c, colocs :
           /\ Weighed(state, p, d, c, colocs)
           /\ choose_disaggregated(state) = Decided(state, p, d, c, colocs)
<1>1. PICK P \in SUBSET Nodes : P = PrefillCands(state) /\ P # {}
  BY CandidatesOfPhase
<1>2. PICK D \in SUBSET Nodes : D = DecodeCands(state) /\ D # {}
  BY CandidatesOfPhase
<1>3. PICK colocs \in SUBSET Nodes : colocs = _candidates(colocatable, state)
  BY PoolsOfNodes, CandidatesOfPool
<1>4. \A S \in SUBSET Nodes : S \in SUBSET Nat
  BY DisaggAssumption
<1>5. PICK p : p = Cheapest([b \in P |-> _prefill_ms(state, b)])
  OBVIOUS
<1>6. p \in P /\ \A b \in P : _prefill_ms(state, p) <= _prefill_ms(state, b)
  <2>1. PICK f : f = [b \in P |-> _prefill_ms(state, b)]
    OBVIOUS
  <2>2. f \in [P -> Nat]
    BY <1>1, <2>1, CostsAreNat
  <2>3. p \in P /\ \A b \in P : f[p] <= f[b]
    BY <1>1, <1>4, <1>5, <2>1, <2>2, CheapestIsLeast
  <2>4. QED
    BY <2>1, <2>3
<1>7. PICK d : d = Cheapest([b \in D |-> _decode_ms(state, b)])
  OBVIOUS
<1>8. d \in D /\ \A b \in D : _decode_ms(state, d) <= _decode_ms(state, b)
  <2>1. PICK f : f = [b \in D |-> _decode_ms(state, b)]
    OBVIOUS
  <2>2. f \in [D -> Nat]
    BY <1>2, <2>1, CostsAreNat
  <2>3. d \in D /\ \A b \in D : f[d] <= f[b]
    BY <1>2, <1>4, <1>7, <2>1, <2>2, CheapestIsLeast
  <2>4. QED
    BY <2>1, <2>3
<1>9. PICK c : c = Cheapest([b \in colocs |-> SplitTotal(state, b, b)])
  OBVIOUS
<1>10. ASSUME colocs # {}
       PROVE  c \in colocs /\ \A b \in colocs : SplitTotal(state, c, c) <= SplitTotal(state, b, b)
  <2>1. PICK f : f = [b \in colocs |-> SplitTotal(state, b, b)]
    OBVIOUS
  <2>2. f \in [colocs -> Nat]
    BY <1>3, <2>1, TotalOfPlan
  <2>3. c \in colocs /\ \A b \in colocs : f[c] <= f[b]
    BY <1>3, <1>4, <1>9, <1>10, <2>1, <2>2, CheapestIsLeast
  <2>4. QED
    BY <2>1, <2>3
<1>11. Weighed(state, p, d, c, colocs)
  BY <1>1, <1>2, <1>3, <1>6, <1>8, <1>10 DEF Weighed
<1>12. choose_disaggregated(state) = Decided(state, p, d, c, colocs)
  BY <1>1, <1>2, <1>3, <1>5, <1>7, <1>9 DEF choose_disaggregated, Decided
<1>13. QED
  BY <1>11, <1>12

(* Each phase was optimised on its own, and yet no plan beats the decision *)
(* by more than the margin.                                                *)
LEMMA DecisionIsNearBest ==
  ASSUME NEW state \in [Nodes -> NodeStates], prefill_pool # {}, decode_pool # {},
         NEW p, NEW d, NEW c, NEW colocs, Weighed(state, p, d, c, colocs),
         NEW x, NEW y, <<x, y>> \in Plans(state)
  PROVE  Decided(state, p, d, c, colocs).total <= SplitTotal(state, x, y) + Margin
<1>1. PICK k \in Nat : \A u, v : Handoff(u, v) = IF u = v THEN 0 ELSE k
  BY HandoffCost
<1>2. /\ PrefillCands(state) = _candidates(prefill_pool, state)
      /\ DecodeCands(state) = _candidates(decode_pool, state)
      /\ PrefillCands(state) \subseteq Nodes /\ DecodeCands(state) \subseteq Nodes
      /\ colocs = _candidates(colocatable, state) /\ colocs \subseteq Nodes
  BY CandidatesOfPhase, CandidatesOfPool, PoolsOfNodes DEF Weighed
<1>3. p \in Nodes /\ d \in Nodes /\ (colocs # {} => c \in Nodes)
  BY <1>2 DEF Weighed
<1>4. \/ x \in PrefillCands(state) /\ y \in DecodeCands(state)
      \/ x = y /\ x \in colocs
  BY <1>2 DEF Plans
<1>5. x \in Nodes /\ y \in Nodes
  BY <1>2, <1>4
<1>6. x = y => x \in colocs
  BY <1>2, <1>4, <1>5, CandidateOfBoth
<1>7. p = d => p \in colocs
  BY <1>2, <1>3, CandidateOfBoth DEF Weighed
<1>8. /\ SplitTotal(state, p, d) \in Nat /\ SplitTotal(state, x, y) \in Nat /\ Margin \in Nat
      /\ colocs # {} => SplitTotal(state, c, c) \in Nat
  BY <1>3, <1>5, TotalOfPlan, DisaggAssumption
<1>9. x # y => SplitTotal(state, p, d) <= SplitTotal(state, x, y)
  <2>1. SUFFICES ASSUME x # y PROVE SplitTotal(state, p, d) <= SplitTotal(state, x, y)
    OBVIOUS
  <2>2. _prefill_ms(state, p) <= _prefill_ms(state, x) /\ _decode_ms(state, d) <= _decode_ms(state, y)
    BY <1>4, <2>1 DEF Weighed
  <2>3. /\ _prefill_ms(state, p) \in Nat /\ _prefill_ms(state, x) \in Nat
        /\ _decode_ms(state, d) \in Nat /\ _decode_ms(state, y) \in Nat
    BY <1>3, <1>5, CostsAreNat
  <2>4. Handoff(x, y) = k /\ Handoff(p, d) \in Nat /\ Handoff(p, d) <= k
    BY <1>1, <2>1
  <2>5. QED
    BY <1>1, <2>2, <2>3, <2>4 DEF SplitTotal
<1>10. x = y => colocs # {} /\ SplitTotal(state, c, c) <= SplitTotal(state, x, y)
  BY <1>6 DEF Weighed
<1>11. p = d => colocs # {} /\ SplitTotal(state, c, c) <= SplitTotal(state, p, d)
  BY <1>7 DEF Weighed
<1>12. CASE colocs = {} \/ SplitWins(state, p, d, c)
  <2>1. Decided(state, p, d, c, colocs).total = SplitTotal(state, p, d)
    BY <1>12 DEF Decided
  <2>2. colocs # {} => SplitTotal(state, p, d) + Margin < SplitTotal(state, c, c)
    BY <1>12 DEF SplitWins
  <2>3. CASE x # y
    BY <1>8, <1>9, <2>1, <2>3
  <2>4. CASE x = y
    BY <1>8, <1>10, <2>1, <2>2, <2>4
  <2>5. QED
    BY <2>3, <2>4
<1>13. CASE colocs # {} /\ ~SplitWins(state, p, d, c)
  <2>1. Decided(state, p, d, c, colocs).total = SplitTotal(state, c, c)
    BY <1>13 DEF Decided
  <2>2. p = d \/ ~(SplitTotal(state, p, d) + Margin < SplitTotal(state, c, c))
    BY <1>13 DEF SplitWins
  <2>3. SplitTotal(state, c, c) <= SplitTotal(state, p, d) + Margin
    BY <1>8, <1>11, <1>13, <2>2
  <2>4. QED
    BY <1>8, <1>9, <1>10, <1>13, <2>1, <2>3
<1>14. QED
  BY <1>12, <1>13

(* The decision keeps to the roles, and to the unsaturated nodes where     *)
(* there are any.                                                          *)
LEMMA DecisionKeepsRoles ==
  ASSUME NEW state \in [Nodes -> NodeStates],
         NEW p, NEW d, NEW c, NEW colocs, Weighed(state, p, d, c, colocs),
         NEW choice, choice = Decided(state, p, d, c, colocs)
  PROVE  /\ prefill_pool # {} => choice.prefill \in prefill_pool
         /\ decode_pool # {} => choice.decode \in decode_pool
         /\ ~_eligible(state, choice.prefill) =>
              \/ \A b \in prefill_pool : ~_eligible(state, b)
              \/ choice.prefill = choice.decode /\ \A b \in colocatable : ~_eligible(state, b)
<1>1. /\ prefill_pool # {} => p \in _candidates(prefill_pool, state)
      /\ decode_pool # {} => d \in _candidates(decode_pool, state)
      /\ colocs # {} => c \in _candidates(colocatable, state)
  BY CandidatesOfPhase DEF Weighed
<1>2. CASE colocs = {} \/ SplitWins(state, p, d, c)
  <2>1. choice.prefill = p /\ choice.decode = d
    BY <1>2 DEF Decided
  <2>2. QED
    BY <1>1, <2>1, CandidatesOfPool
<1>3. CASE colocs # {} /\ ~SplitWins(state, p, d, c)
  <2>1. choice.prefill = c /\ choice.decode = c
    BY <1>3 DEF Decided
  <2>2. QED
    BY <1>1, <1>3, <2>1, CandidatesOfPool, PoolsOfNodes
<1>4. QED
  BY <1>2, <1>3

\* A decision was made for a state of the nodes.
PlacedFor(state) == placed = [state |-> state, decision |-> choose_disaggregated(state)]

(* disagg/router.py:95-140 for every fleet whose pools are not empty: the  *)
(* decision is within the margin of the best of all plans, each phase runs *)
(* on a node of its role, and a saturated node gets the prefill only if    *)
(* there is no other.  With an empty pool the first part is false: both    *)
(* phases are then chosen from the other pool, each on its own, and a      *)
(* handoff between two of its nodes is paid that nobody weighs.            *)
THEOREM PlacementsAreSound ==
  ASSUME prefill_pool # {}, decode_pool # {}
  PROVE  DisaggSpec => []PlacementIsSound
<1> DEFINE PlacedInv == placed = NotPlaced \/ \E state \in [Nodes -> NodeStates] : PlacedFor(state)
<1>1. DisaggInit => PlacedInv
  BY DEF DisaggInit
<1>2. PlacedInv /\ [DisaggNext]_placed => PlacedInv'
  BY DEF DisaggNext, PlacePhases, PlacedFor
<1>3. PlacedInv => PlacementIsSound
  <2>1. CASE placed = NotPlaced
    BY <2>1 DEF PlacementIsSound, WithinMarginOfBest, RolesRespected, SaturatedOnlyIfForced
  <2>2. ASSUME NEW state \in [Nodes -> NodeStates], PlacedFor(state)
        PROVE  PlacementIsSound
    <3>1. placed.state = state /\ placed.decision = choose_disaggregated(state)
      BY <2>2 DEF PlacedFor
    <3>2. PICK p, d, c, colocs :
            /\ Weighed(state, p, d, c, colocs)
            /\ placed.decision = Decided(state, p, d, c, colocs)
      BY <3>1, DecisionIsWeighed
    <3>3. WithinMarginOfBest
      <4>1. SUFFICES ASSUME NEW pair \in Plans(state)
                     PROVE  placed.decision.total <= SplitTotal(state, pair[1], pair[2]) + Margin
        BY <3>1 DEF WithinMarginOfBest
      <4>2. pair = <<pair[1], pair[2]>>
        BY DEF Plans
      <4>3. QED
        BY <3>2, <4>2, DecisionIsNearBest
    <3>4. RolesRespected /\ SaturatedOnlyIfForced
      BY <3>1, <3>2, DecisionKeepsRoles DEF RolesRespected, SaturatedOnlyIfForced
    <3>5. QED
      BY <3>3, <3>4 DEF PlacementIsSound
  <2>3. QED
    BY <2>1, <2>2
<1>4. QED
  BY <1>1, <1>2, <1>3, PTL DEF DisaggSpec

-----------------------------------------------------------------------------
(* The autoscaler                                                          *)

\* queueing.py:62-77 by its own formula: no smaller fleet meets the SLO, and the size found
\* does unless the fleet may not grow further.
FewestByFormula(dec) ==
  dec.n > 0 =>
    /\ \A c \in 1 .. MaxReplicas : c < dec.slo => ~WaitsWithin(c, dec.n, dec.time)
    /\ dec.slo = MaxReplicas \/ WaitsWithin(dec.slo, dec.n, dec.time)

\* What a plan made at time now promises.
PlanIsSound(dec, now) ==
  /\ dec.direction \in {"hold", "up", "down"}
  /\ dec.direction = "up" =>
       /\ now - lastUp >= UpCooldown
       /\ dec.desired > dec.cur \/ ScaleStep = 0
       /\ dec.desired <= MaxReplicas /\ dec.desired - dec.cur <= ScaleStep
  /\ dec.direction = "down" =>
       /\ now - lastDown >= DownCooldown
       /\ dec.desired < dec.cur \/ Deadband = 0 \/ ScaleStep = 0
       /\ dec.desired >= MinReplicas /\ dec.cur - dec.desired <= ScaleStep
  /\ ServiceRate > 0 => FewestByFormula(dec)

(* The smallest stable fleet: with fewer replicas the queue grows for ever.*)
LEMMA SmallestStable ==
  ASSUME NEW n \in Nat, NEW q \in Nat \ {0}
  PROVE  n \div q \in Nat /\ \A c \in Nat : c < (n \div q) + 1 => ~(c * q > n)
<1>1. n \div q \in Nat /\ (n \div q) * q <= n
  BY SMT
<1>2. PICK m \in Nat : m = n \div q
  BY <1>1
<1>3. ASSUME NEW c \in Nat, c < m + 1 PROVE ~(c * q > n)
  <2>1. PICK k \in Nat : m = c + k
    <3>1. m - c \in Nat /\ m = c + (m - c)
      BY <1>3
    <3>2. QED
      BY <3>1
  <2>2. m * q = c * q + k * q /\ k * q \in Nat /\ c * q \in Nat
    BY <2>1
  <2>3. m * q <= n /\ m * q \in Nat
    BY <1>1, <1>2
  <2>4. QED
    BY <2>2, <2>3
<1>4. QED
  BY <1>2, <1>3, <1>1

(* The climb ends at a size that does, or at the limit, and skips none.    *)
LEMMA ClimbIsRight ==
  ASSUME NEW n \in Nat, NEW time \in Nat \ {0},
         NEW slo, slo = min_replicas_for_wait_slo(n, time)
  PROVE  /\ slo \in Nat
         /\ (n > 0 /\ ServiceRate > 0) =>
              /\ \A c \in 1 .. MaxReplicas : c < slo => ~WaitsWithin(c, n, time)
              /\ slo = MaxReplicas \/ WaitsWithin(slo, n, time)
<1>1. CASE n = 0 \/ ServiceRate = 0
  BY <1>1, AutoscaleAssumption DEF min_replicas_for_wait_slo
<1>2. CASE n > 0 /\ ServiceRate > 0
  <2>1. PICK q \in Nat \ {0} : q = time * ServiceRate
    <3>1. time * ServiceRate \in Nat \ {0}
      BY <1>2, AutoscaleAssumption
    <3>2. QED
      BY <3>1
  <2>2. n \div q \in Nat /\ \A c \in Nat : c < (n \div q) + 1 => ~(c * q > n)
    BY <2>1, SmallestStable
  <2>3. PICK stable \in Nat : stable = (n \div q) + 1
    BY <2>2
  <2>4. Max({1, (n \div (time * ServiceRate)) + 1}) = stable
    BY <2>1, <2>2, <2>3, MinMaxOfTwo
  <2>5. PICK T \in SUBSET Nat : T = {MaxReplicas} \cup {c \in stable .. MaxReplicas : WaitsWithin(c, n, time)}
    <3>1. {MaxReplicas} \cup {c \in stable .. MaxReplicas : WaitsWithin(c, n, time)} \in SUBSET Nat
      BY <2>3, AutoscaleAssumption
    <3>2. QED
      BY <3>1
  <2>6. slo = Min(T)
    <3>1. ~(n = 0 \/ ServiceRate = 0)
      BY <1>2
    <3>2. slo = Min({MaxReplicas} \cup
                    {c \in Max({1, (n \div (time * ServiceRate)) + 1}) .. MaxReplicas : WaitsWithin(c, n, time)})
      BY <3>1, Zenon DEF min_replicas_for_wait_slo
    <3>3. QED
      BY <2>4, <2>5, <3>2
  <2>7. \E x \in T : \A y \in T : x <= y
    BY <2>5, LeastNat
  <2>8. slo \in T /\ \A y \in T : slo <= y
    BY <2>6, <2>7 DEF Min
  <2>9. slo \in Nat /\ (slo = MaxReplicas \/ WaitsWithin(slo, n, time))
    BY <2>5, <2>8
  <2>10. ASSUME NEW c \in 1 .. MaxReplicas, c < slo
         PROVE  ~WaitsWithin(c, n, time)
    <3>1. c \in Nat /\ MaxReplicas \in Nat /\ c <= MaxReplicas
      BY AutoscaleAssumption
    <3>2. CASE c >= stable
      <4>1. c \notin T
        BY <2>8, <2>9, <2>10, <3>1
      <4>2. c \in stable .. MaxReplicas
        BY <2>3, <3>1, <3>2
      <4>3. QED
        BY <2>5, <4>1, <4>2
    <3>3. CASE c < stable
      <4>1. ~(c * q > n)
        BY <2>2, <2>3, <3>1, <3>3
      <4>2. QED
        BY <1>2, <2>1, <4>1 DEF WaitsWithin
    <3>4. QED
      BY <2>3, <3>1, <3>2, <3>3
  <2>11. QED
    BY <2>9, <2>10
<1>3. QED
  BY <1>1, <1>2, AutoscaleAssumption

(* The utilization target asks for a whole number of replicas.             *)
LEMMA UtilIsInt ==
  ASSUME NEW n \in Nat, NEW time \in Nat \ {0}
  PROVE  _util_replicas(n, time) \in Int
<1>1. CASE n = 0 \/ ServiceRate = 0 \/ UtilPercent = 0
  BY <1>1 DEF _util_replicas
<1>2. CASE ~(n = 0 \/ ServiceRate = 0 \/ UtilPercent = 0)
  <2>1. PICK q \in Nat \ {0} : q = time * ServiceRate
    <3>1. time * ServiceRate \in Nat \ {0}
      BY <1>2, AutoscaleAssumption
    <3>2. QED
      BY <3>1
  <2>2. PICK b \in Nat \ {0} : b = q * UtilPercent
    <3>1. q * UtilPercent \in Nat \ {0}
      BY <1>2, AutoscaleAssumption
    <3>2. QED
      BY <3>1
  <2>3. (100 * n + b - 1) \div b \in Int
    BY <2>2
  <2>4. QED
    BY <1>2, <2>1, <2>2, <2>3 DEF _util_replicas, RoundedUp
<1>3. QED
  BY <1>1, <1>2

(* The target is between the bounds whatever was asked for.                *)
LEMMA ClampedIsBounded ==
  ASSUME NEW slo \in Int, NEW util \in Int
  PROVE  /\ Clamped(slo, util) \in Int
         /\ MinReplicas <= Clamped(slo, util) /\ Clamped(slo, util) <= MaxReplicas
<1>1. MinReplicas \in Int /\ MaxReplicas \in Int /\ MinReplicas <= MaxReplicas
  BY AutoscaleAssumption
<1>2. PICK a \in Int : a = Max({slo, util})
  BY MinMaxOfTwo
<1>3. PICK b : b = Min({MaxReplicas, a})
  OBVIOUS
<1>4. b = IF MaxReplicas <= a THEN MaxReplicas ELSE a
  BY <1>1, <1>2, <1>3, MinMaxOfTwo
<1>5. b \in Int /\ b <= MaxReplicas
  BY <1>1, <1>2, <1>4
<1>6. Clamped(slo, util) = Max({MinReplicas, b})
  BY <1>2, <1>3 DEF Clamped
<1>7. Max({MinReplicas, b}) = IF MinReplicas >= b THEN MinReplicas ELSE b
  BY <1>1, <1>5, MinMaxOfTwo
<1>8. QED
  BY <1>1, <1>5, <1>6, <1>7

(* Every plan is sound: planner.py:29-94.                                  *)
LEMMA PlansAreSound ==
  ASSUME NEW n \in Nat, NEW time \in Nat \ {0}, NEW cur \in Nat, NEW now \in Nat,
         lastUp \in Int, lastDown \in Int
  PROVE  PlanIsSound(autoscale_plan(n, time, cur, now), now)
<1>1. PICK slo : slo = min_replicas_for_wait_slo(n, time)
  OBVIOUS
<1>2. /\ slo \in Nat
      /\ (n > 0 /\ ServiceRate > 0) =>
           /\ \A c \in 1 .. MaxReplicas : c < slo => ~WaitsWithin(c, n, time)
           /\ slo = MaxReplicas \/ WaitsWithin(slo, n, time)
  BY <1>1, ClimbIsRight
<1>3. PICK target : target = Clamped(slo, _util_replicas(n, time))
  OBVIOUS
<1>4. target \in Int /\ MinReplicas <= target /\ target <= MaxReplicas
  BY <1>2, <1>3, UtilIsInt, ClampedIsBounded
<1>5. /\ MinReplicas \in Nat /\ MaxReplicas \in Nat /\ ScaleStep \in Nat /\ Deadband \in Nat
      /\ UpCooldown \in Nat /\ DownCooldown \in Nat
  BY AutoscaleAssumption
<1> DEFINE scaled(direction, desired) ==
             [direction |-> direction, desired |-> desired, cur |-> cur, slo |-> slo, n |-> n, time |-> time]
<1>6. \A direction, desired : ServiceRate > 0 => FewestByFormula(scaled(direction, desired))
  BY <1>2 DEF FewestByFormula
<1>7. PICK made : made = autoscale_plan(n, time, cur, now)
  OBVIOUS
<1>8. PICK up : up = Min({target, cur + ScaleStep})
  OBVIOUS
<1>9. PICK down : down = Max({target, cur - ScaleStep})
  OBVIOUS
<1>10. \/ made = scaled("hold", cur)
       \/ target > cur /\ ~(now - lastUp < UpCooldown) /\ made = scaled("up", up)
       \/ target <= cur - Deadband /\ ~(now - lastDown < DownCooldown) /\ made = scaled("down", down)
  <2>1. CASE target > cur
    <3>1. ~(target <= cur - Deadband)
      BY <1>4, <1>5, <2>1
    <3>2. QED
      BY <1>1, <1>3, <1>7, <1>8, <2>1, <3>1 DEF autoscale_plan
  <2>2. CASE ~(target > cur) /\ target <= cur - Deadband
    BY <1>1, <1>3, <1>7, <1>9, <2>2 DEF autoscale_plan
  <2>3. CASE ~(target > cur) /\ ~(target <= cur - Deadband)
    BY <1>1, <1>3, <1>7, <2>3 DEF autoscale_plan
  <2>4. QED
    BY <2>1, <2>2, <2>3
<1>11. CASE made = scaled("hold", cur)
  BY <1>6, <1>7, <1>11 DEF PlanIsSound
<1>12. CASE target > cur /\ ~(now - lastUp < UpCooldown) /\ made = scaled("up", up)
  <2>1. /\ up \in Int /\ up <= MaxReplicas /\ up - cur <= ScaleStep
        /\ up > cur \/ ScaleStep = 0
    <3>1. PICK e \in Int : e = cur + ScaleStep
      BY <1>5
    <3>2. up = IF target <= e THEN target ELSE e
      BY <1>4, <1>8, <3>1, MinMaxOfTwo
    <3>3. QED
      BY <1>4, <1>5, <1>12, <3>1, <3>2
  <2>2. made.direction = "up" /\ made.desired = up /\ made.cur = cur
    BY <1>12
  <2>3. now - lastUp >= UpCooldown
    BY <1>5, <1>12
  <2>4. ServiceRate > 0 => FewestByFormula(made)
    BY <1>6, <1>12
  <2>5. QED
    BY <1>7, <2>1, <2>2, <2>3, <2>4 DEF PlanIsSound
<1>13. CASE target <= cur - Deadband /\ ~(now - lastDown < DownCooldown) /\ made = scaled("down", down)
  <2>1. /\ down \in Int /\ down >= MinReplicas /\ cur - down <= ScaleStep
        /\ down < cur \/ Deadband = 0 \/ ScaleStep = 0
    <3>1. down = IF target >= cur - ScaleStep THEN target ELSE cur - ScaleStep
      BY <1>4, <1>5, <1>9, MinMaxOfTwo
    <3>2. QED
      BY <1>4, <1>5, <1>13, <3>1
  <2>2. made.direction = "down" /\ made.desired = down /\ made.cur = cur
    BY <1>13
  <2>3. now - lastDown >= DownCooldown
    BY <1>5, <1>13
  <2>4. ServiceRate > 0 => FewestByFormula(made)
    BY <1>6, <1>13
  <2>5. QED
    BY <1>7, <2>1, <2>2, <2>3, <2>4 DEF PlanIsSound
<1>14. QED
  BY <1>10, <1>11, <1>12, <1>13

\* Every request is in one count, every stamp is the latest of its direction.
ScaleInv ==
  /\ scaleClock \in Nat /\ size \in Nat /\ count \in Nat
  /\ snapshot \in [t : Nat, c : Nat] /\ snapshot.t <= scaleClock /\ snapshot.c <= count
  /\ lost \in Nat /\ measured \in Nat
  /\ snapshot.t = 0 => lost = 0 /\ measured = 0 /\ snapshot.c = 0
  /\ CountedOnce
  /\ lastUp \in Int /\ ups \in SUBSET Nat /\ \A s \in ups : s <= lastUp
  /\ lastDown \in Int /\ downs \in SUBSET Nat /\ \A s \in downs : s <= lastDown
  /\ RecommendationsAreSpaced

\* The last decision is sound.
DecisionIsSound ==
  RecommendationIsBounded
  /\ (ServiceRate > 0 /\ decision.direction # "none" => FewestByFormula(decision))

(* A stamp after the cooldown keeps the recommendations of its direction   *)
(* apart.                                                                  *)
LEMMA StampKeepsSpacing ==
  ASSUME NEW S \in SUBSET Nat, NEW last \in Int, NEW now \in Nat, NEW cool \in Nat,
         \A s \in S : s <= last,
         \A s, t \in S : s < t => t - s >= cool,
         now - last >= cool
  PROVE  /\ S \cup {now} \in SUBSET Nat
         /\ \A s \in S \cup {now} : s <= now
         /\ \A s, t \in S \cup {now} : s < t => t - s >= cool
<1>1. \A s \in S : s \in Nat /\ s <= now /\ now - s >= cool
  OBVIOUS
<1>2. QED
  BY <1>1

LEMMA ScaleInitInv == ScaleInit => ScaleInv /\ DecisionIsSound
<1> SUFFICES ASSUME ScaleInit PROVE ScaleInv /\ DecisionIsSound
  OBVIOUS
<1>1. ScaleInv
  BY AutoscaleAssumption DEF ScaleInit, ScaleInv, CountedOnce, RecommendationsAreSpaced, Never
<1>2. DecisionIsSound
  BY DEF ScaleInit, Undecided, DecisionIsSound, RecommendationIsBounded
<1>3. QED
  BY <1>1, <1>2

(* A round of the scrape loop.                                             *)
LEMMA RoundKeepsInv ==
  ASSUME ScaleInv, NEW gap \in Gaps, ScaleRound(gap)
  PROVE  ScaleInv' /\ DecisionIsSound'
<1>1. gap \in Nat \ {0} /\ UpCooldown \in Nat /\ DownCooldown \in Nat
  BY AutoscaleAssumption
<1>2. PICK now : now = scaleClock + gap
  OBVIOUS
<1>3. now \in Nat /\ now > scaleClock /\ now > 0
  BY <1>1, <1>2 DEF ScaleInv
<1>4. PICK elapsed : elapsed = IF snapshot.t > 0 THEN now - snapshot.t ELSE 0
  OBVIOUS
<1>5. /\ elapsed \in Nat /\ (elapsed > 0 <=> snapshot.t > 0)
      /\ snapshot.t \in Nat /\ snapshot.c \in Nat /\ snapshot.c <= count /\ count \in Nat
  BY <1>3, <1>4 DEF ScaleInv
<1>6. PICK n : n = IF elapsed > 0 THEN count - snapshot.c ELSE 0
  OBVIOUS
<1>7. n \in Nat
  BY <1>5, <1>6
<1>8. PICK time \in Nat \ {0} : time = Max({1, elapsed})
  BY <1>5, MinMaxOfTwo
<1>9. PICK cur \in Nat : cur = Max({1, size})
  BY MinMaxOfTwo DEF ScaleInv
<1>10. /\ decision' = autoscale_plan(n, time, cur, now)
       /\ snapshot' = [t |-> now, c |-> count]
       /\ lastUp' = IF decision'.direction = "up" THEN now ELSE lastUp
       /\ lastDown' = IF decision'.direction = "down" THEN now ELSE lastDown
       /\ scaleClock' = now
       /\ lost' = IF elapsed > 0 THEN lost ELSE lost + count
       /\ measured' = measured + n
       /\ ups' = IF decision'.direction = "up" THEN ups \cup {now} ELSE ups
       /\ downs' = IF decision'.direction = "down" THEN downs \cup {now} ELSE downs
       /\ size' = size /\ count' = count
  BY <1>2, <1>4, <1>6, <1>8, <1>9 DEF ScaleRound, NextSnapshot, Stamped
<1>11. PlanIsSound(decision', now)
  <2>1. lastUp \in Int /\ lastDown \in Int
    BY DEF ScaleInv
  <2>2. PlanIsSound(autoscale_plan(n, time, cur, now), now)
    BY <1>3, <1>7, <2>1, PlansAreSound
  <2>3. QED
    BY <1>10, <2>2
<1>12. DecisionIsSound'
  BY <1>11 DEF PlanIsSound, DecisionIsSound, RecommendationIsBounded, FewestByFormula, WaitsWithin,
               erlang_c, erlang_b
<1>13. /\ lastUp' \in Int /\ ups' \in SUBSET Nat /\ \A s \in ups' : s <= lastUp'
       /\ \A s, t \in ups' : s < t => t - s >= UpCooldown
  <2>1. /\ ups \in SUBSET Nat /\ lastUp \in Int /\ \A s \in ups : s <= lastUp
        /\ \A s, t \in ups : s < t => t - s >= UpCooldown
    BY DEF ScaleInv, RecommendationsAreSpaced
  <2>2. CASE decision'.direction = "up"
    <3>1. now - lastUp >= UpCooldown
      BY <1>11, <2>2 DEF PlanIsSound
    <3>2. /\ ups \cup {now} \in SUBSET Nat
          /\ \A s \in ups \cup {now} : s <= now
          /\ \A s, t \in ups \cup {now} : s < t => t - s >= UpCooldown
      BY <1>1, <1>3, <2>1, <3>1, StampKeepsSpacing
    <3>3. QED
      BY <1>3, <1>10, <2>2, <3>2
  <2>3. CASE decision'.direction # "up"
    BY <1>10, <2>1, <2>3
  <2>4. QED
    BY <2>2, <2>3
<1>14. /\ lastDown' \in Int /\ downs' \in SUBSET Nat /\ \A s \in downs' : s <= lastDown'
       /\ \A s, t \in downs' : s < t => t - s >= DownCooldown
  <2>1. /\ downs \in SUBSET Nat /\ lastDown \in Int /\ \A s \in downs : s <= lastDown
        /\ \A s, t \in downs : s < t => t - s >= DownCooldown
    BY DEF ScaleInv, RecommendationsAreSpaced
  <2>2. CASE decision'.direction = "down"
    <3>1. now - lastDown >= DownCooldown
      BY <1>11, <2>2 DEF PlanIsSound
    <3>2. /\ downs \cup {now} \in SUBSET Nat
          /\ \A s \in downs \cup {now} : s <= now
          /\ \A s, t \in downs \cup {now} : s < t => t - s >= DownCooldown
      BY <1>1, <1>3, <2>1, <3>1, StampKeepsSpacing
    <3>3. QED
      BY <1>3, <1>10, <2>2, <3>2
  <2>3. CASE decision'.direction # "down"
    BY <1>10, <2>1, <2>3
  <2>4. QED
    BY <2>2, <2>3
<1>15. lost' \in Nat /\ measured' \in Nat /\ snapshot'.t = now /\ snapshot'.c = count
  BY <1>5, <1>7, <1>10 DEF ScaleInv
<1>16. CountedOnce'
  BY <1>5, <1>6, <1>10, <1>15 DEF ScaleInv, CountedOnce
<1>17. QED
  BY <1>3, <1>5, <1>10, <1>12, <1>13, <1>14, <1>15, <1>16 DEF ScaleInv, RecommendationsAreSpaced

LEMMA ScaleNextInv ==
  ASSUME ScaleInv, DecisionIsSound, [ScaleNext]_scaleVars
  PROVE  ScaleInv' /\ DecisionIsSound'
<1>1. ASSUME UNCHANGED decision PROVE DecisionIsSound'
  BY <1>1 DEF DecisionIsSound, RecommendationIsBounded, FewestByFormula, WaitsWithin, erlang_c, erlang_b
<1>2. CASE CountRequest
  <2>1. /\ count' = count + 1
        /\ UNCHANGED <<scaleClock, size, snapshot, lastUp, lastDown, decision, lost, measured, ups, downs>>
    BY <1>2 DEF CountRequest
  <2>2. ScaleInv'
    BY <2>1 DEF ScaleInv, CountedOnce, RecommendationsAreSpaced
  <2>3. QED
    BY <1>1, <2>1, <2>2
<1>3. ASSUME NEW n \in Sizes, FleetResizes(n) PROVE ScaleInv' /\ DecisionIsSound'
  <2>1. /\ size' = n /\ n \in Nat
        /\ UNCHANGED <<scaleClock, count, snapshot, lastUp, lastDown, decision, lost, measured, ups, downs>>
    BY <1>3, AutoscaleAssumption DEF FleetResizes
  <2>2. ScaleInv'
    BY <2>1 DEF ScaleInv, CountedOnce, RecommendationsAreSpaced
  <2>3. QED
    BY <1>1, <2>1, <2>2
<1>4. CASE UNCHANGED scaleVars
  <2>1. ScaleInv' /\ UNCHANGED decision
    BY <1>4 DEF scaleVars, ScaleInv, CountedOnce, RecommendationsAreSpaced
  <2>2. QED
    BY <1>1, <2>1
<1>5. QED
  BY <1>2, <1>3, <1>4, RoundKeepsInv DEF ScaleNext

(* planner.py:29-94 with server.py:245-271 and 590, for every load, fleet  *)
(* and timing of the rounds: recommendations of a direction are a cooldown *)
(* apart, each moves towards the bounds by at most a step, and a request   *)
(* counts in the rate of exactly one round.                                *)
THEOREM RecommendationsAreDisciplined ==
  ScaleSpec => [](RecommendationsAreSpaced /\ RecommendationIsBounded /\ CountedOnce)
<1>1. ScaleInv /\ DecisionIsSound /\ [ScaleNext]_scaleVars => (ScaleInv /\ DecisionIsSound)'
  BY ScaleNextInv
<1>2. ScaleInv /\ DecisionIsSound => RecommendationsAreSpaced /\ RecommendationIsBounded /\ CountedOnce
  BY DEF ScaleInv, DecisionIsSound
<1>3. QED
  BY ScaleInitInv, <1>1, <1>2, PTL DEF ScaleSpec

(* queueing.py:62-77: the fleet recommended for the wait SLO is the        *)
(* smallest that meets it by the gateway's own formula, or the largest     *)
(* allowed; the climb from the smallest stable size skips none.            *)
THEOREM FleetIsSmallest ==
  ASSUME ServiceRate > 0
  PROVE  ScaleSpec => [](decision.direction # "none" => FewestByFormula(decision))
<1>1. ScaleInv /\ DecisionIsSound /\ [ScaleNext]_scaleVars => (ScaleInv /\ DecisionIsSound)'
  BY ScaleNextInv
<1>2. DecisionIsSound => (decision.direction # "none" => FewestByFormula(decision))
  BY DEF DecisionIsSound
<1>3. QED
  BY ScaleInitInv, <1>1, <1>2, PTL DEF ScaleSpec

-----------------------------------------------------------------------------
(* Admission                                                               *)

(* One step of the sum of the KV usage over the backends s, by what g says *)
(* of fewer of them.                                                       *)
SumStep(g, fleet, s) ==
  IF s = {} THEN 0
  ELSE fleet[CHOOSE x \in s : TRUE].kv + g[s \ {CHOOSE x \in s : TRUE}]

SumsUp(g, fleet, D) == g = [s \in SUBSET D |-> SumStep(g, fleet, s)]

(* Removing the chosen backend leaves one less.                            *)
LEMMA OneLess ==
  ASSUME NEW D, IsFiniteSet(D), NEW s \in SUBSET D, s # {}
  PROVE  /\ (CHOOSE x \in s : TRUE) \in s
         /\ s \ {CHOOSE x \in s : TRUE} \in SUBSET D
         /\ Cardinality(s) \in Nat
         /\ Cardinality(s \ {CHOOSE x \in s : TRUE}) = Cardinality(s) - 1
<1>1. PICK c : c = CHOOSE x \in s : TRUE
  OBVIOUS
<1>2. c \in s
  BY <1>1
<1>3. IsFiniteSet(s)
  BY FS_Subset
<1>4. Cardinality(s) \in Nat /\ Cardinality(s \ {c}) = Cardinality(s) - 1
  BY <1>2, <1>3, FS_CardinalityType, FS_RemoveElement
<1>5. QED
  BY <1>1, <1>2, <1>4

(* g sums up every set of at most n backends.                              *)
SumsUpTo(g, fleet, D, n) ==
  \A s \in SUBSET D : Cardinality(s) <= n => g[s] = SumStep(g, fleet, s)

LEMMA SumExists ==
  ASSUME NEW fleet, NEW D, IsFiniteSet(D)
  PROVE  \E g : SumsUp(g, fleet, D)
<1> DEFINE Reached(n) == \E g : g = [s \in SUBSET D |-> g[s]] /\ SumsUpTo(g, fleet, D, n)
           Missing == {n \in Nat : ~Reached(n)}
<1> HIDE DEF Reached
<1>0. \A s \in SUBSET D : Cardinality(s) \in Nat /\ (Cardinality(s) = 0 <=> s = {})
  BY FS_Subset, FS_CardinalityType, FS_EmptySet
<1>1. Missing = {}
  <2> SUFFICES ASSUME Missing # {} PROVE FALSE
    OBVIOUS
  <2>1. PICK m \in Missing : \A k \in Missing : m <= k
    BY LeastNat
  <2>2. m # 0
    <3>1. PICK z : z = [s \in SUBSET D |-> 0]
      OBVIOUS
    <3>2. SumsUpTo(z, fleet, D, 0)
      BY <1>0, <3>1 DEF SumsUpTo, SumStep
    <3>3. Reached(0)
      BY <3>1, <3>2 DEF Reached
    <3>4. QED
      BY <2>1, <3>3
  <2>3. m - 1 \in Nat /\ m - 1 \notin Missing
    BY <2>1, <2>2
  <2>4. PICK g : SumsUpTo(g, fleet, D, m - 1)
    BY <2>3 DEF Reached
  <2>5. PICK h : h = [s \in SUBSET D |-> SumStep(g, fleet, s)]
    OBVIOUS
  <2>6. ASSUME NEW s \in SUBSET D, Cardinality(s) <= m PROVE h[s] = SumStep(h, fleet, s)
    <3>1. CASE s = {}
      BY <2>5, <3>1 DEF SumStep
    <3>2. CASE s # {}
      <4>1. PICK c : c = CHOOSE x \in s : TRUE
        OBVIOUS
      <4>2. s \ {c} \in SUBSET D /\ Cardinality(s) \in Nat /\ Cardinality(s \ {c}) = Cardinality(s) - 1
        BY <3>2, <4>1, OneLess
      <4>3. Cardinality(s \ {c}) <= m - 1
        BY <2>1, <2>6, <4>2
      <4>4. g[s \ {c}] = SumStep(g, fleet, s \ {c})
        BY <2>4, <4>2, <4>3 DEF SumsUpTo
      <4>5. h[s \ {c}] = g[s \ {c}]
        BY <2>5, <4>2, <4>4
      <4>6. h[s] = fleet[c].kv + g[s \ {c}]
        BY <2>5, <3>2, <4>1 DEF SumStep
      <4>7. QED
        BY <3>2, <4>1, <4>5, <4>6 DEF SumStep
    <3>3. QED
      BY <3>1, <3>2
  <2>7. SumsUpTo(h, fleet, D, m)
    BY <2>6 DEF SumsUpTo
  <2>8. Reached(m)
    BY <2>5, <2>7 DEF Reached
  <2>9. QED
    BY <2>1, <2>8
<1>2. PICK n \in Nat : n = Cardinality(D)
  BY FS_CardinalityType
<1>3. PICK g : g = [s \in SUBSET D |-> g[s]] /\ SumsUpTo(g, fleet, D, n)
  BY <1>1, <1>2 DEF Reached
<1>4. \A s \in SUBSET D : g[s] = SumStep(g, fleet, s)
  <2>1. ASSUME NEW s \in SUBSET D PROVE Cardinality(s) <= n
    BY <1>2, FS_Subset
  <2>2. QED
    BY <1>3, <2>1 DEF SumsUpTo
<1>5. g = [s \in SUBSET D |-> SumStep(g, fleet, s)]
  BY <1>3, <1>4
<1>6. QED
  BY <1>5 DEF SumsUp

(* The total is what some such sum gives for the whole fleet.              *)
LEMMA TotalIsSum ==
  ASSUME NEW fleet, IsFiniteSet(DOMAIN fleet)
  PROVE  \E g : SumsUp(g, fleet, DOMAIN fleet) /\ KvTotal(fleet) = g[DOMAIN fleet]
<1>1. KvTotal(fleet) = (CHOOSE g : SumsUp(g, fleet, DOMAIN fleet))[DOMAIN fleet]
  BY DEF KvTotal, MapThenSumSet, MapThenFoldSet, SumsUp, SumStep
<1>2. \E g : SumsUp(g, fleet, DOMAIN fleet)
  BY SumExists
<1>3. QED
  BY <1>1, <1>2

(* A busier fleet has the higher total.                                    *)
LEMMA TotalIsMonotone ==
  ASSUME NEW f, NEW e, IsFiniteSet(DOMAIN f), DOMAIN e = DOMAIN f,
         \A b \in DOMAIN f : f[b].kv \in Nat /\ e[b].kv \in Nat /\ f[b].kv >= e[b].kv
  PROVE  KvTotal(f) \in Nat /\ KvTotal(e) \in Nat /\ KvTotal(f) >= KvTotal(e)
<1>1. PICK D : D = DOMAIN f
  OBVIOUS
<1>2. PICK g : SumsUp(g, f, D) /\ KvTotal(f) = g[D]
  BY <1>1, TotalIsSum
<1>3. PICK h : SumsUp(h, e, D) /\ KvTotal(e) = h[D]
  BY <1>1, TotalIsSum
<1>4. \A s \in SUBSET D : g[s] = SumStep(g, f, s) /\ h[s] = SumStep(h, e, s)
  BY <1>2, <1>3 DEF SumsUp
<1> DEFINE Right(s) == g[s] \in Nat /\ h[s] \in Nat /\ g[s] >= h[s]
           Wrong == {n \in Nat : \E s \in SUBSET D : Cardinality(s) = n /\ ~Right(s)}
<1>5. Wrong = {}
  <2> SUFFICES ASSUME Wrong # {} PROVE FALSE
    OBVIOUS
  <2>1. PICK m \in Wrong : \A k \in Wrong : m <= k
    BY LeastNat
  <2>2. PICK s \in SUBSET D : Cardinality(s) = m /\ ~Right(s)
    BY <2>1
  <2>3. s # {}
    BY <1>4, <2>2 DEF SumStep
  <2>4. PICK c : c = CHOOSE x \in s : TRUE
    OBVIOUS
  <2>5. c \in s /\ s \ {c} \in SUBSET D /\ Cardinality(s \ {c}) = m - 1 /\ m \in Nat
    BY <1>1, <2>2, <2>3, <2>4, OneLess
  <2>5a. IsFiniteSet(s \ {c})
    BY <1>1, <2>5, FS_Subset
  <2>5b. m - 1 \in Nat
    BY <2>5, <2>5a, FS_CardinalityType
  <2>6. Right(s \ {c})
    BY <2>1, <2>5, <2>5b
  <2>7. g[s] = f[c].kv + g[s \ {c}] /\ h[s] = e[c].kv + h[s \ {c}]
    BY <1>4, <2>3, <2>4 DEF SumStep
  <2>8. f[c].kv \in Nat /\ e[c].kv \in Nat /\ f[c].kv >= e[c].kv
    BY <1>1, <2>5
  <2>9. QED
    BY <2>2, <2>6, <2>7, <2>8
<1>6. Cardinality(D) \in Nat
  BY <1>1, FS_CardinalityType
<1>7. Right(D)
  BY <1>5, <1>6
<1>8. QED
  BY <1>2, <1>3, <1>7

(* The numbers a decision is made of: the pressure lies between 0 and the  *)
(* full one, the threshold too, and the two languages see one pressure.    *)
Measured(fleet, p, F, S) ==
  /\ F \in Nat /\ F > 0 /\ S \in Nat /\ S <= F /\ p \in Nat /\ p <= F
  /\ Full(fleet) = F /\ Shed(fleet) = S
  /\ fleet_pressure(fleet) = p /\ rust_fleet_pressure(fleet) = p

LEMMA PressureIsMeasured ==
  ASSUME NEW fleet \in SomeFleets
  PROVE  \E p, F, S \in Nat : Measured(fleet, p, F, S)
<1>1. PICK n \in Nat : n = Cardinality(DOMAIN fleet) /\ n > 0
  BY FleetsAssumption, FS_CardinalityType, FS_EmptySet
<1>3. PICK loaded \in Nat : loaded = Cardinality({b \in DOMAIN fleet : fleet[b].inflight >= SatInflight})
  <2>1. IsFiniteSet({b \in DOMAIN fleet : fleet[b].inflight >= SatInflight})
    BY FleetsAssumption, FS_Subset
  <2>2. QED
    BY <2>1, FS_CardinalityType
<1>4. PICK kv \in Nat : kv = KvTotal(fleet)
  <2>1. KvTotal(fleet) \in Nat
    BY FleetsAssumption, TotalIsMonotone
  <2>2. QED
    BY <2>1
<1>5. PICK F \in Nat : F = Quarters * n /\ F > 0
  BY AdmissionAssumption, <1>1
<1>6. PICK S \in Nat : S = ShedQuarter * n /\ S <= F
  BY AdmissionAssumption, <1>1, <1>5
<1>7. PICK q \in Nat : q = loaded * Quarters
  <2>1. Quarters \in Nat
    BY AdmissionAssumption
  <2>2. loaded * Quarters \in Nat
    BY <2>1, TimesNat
  <2>3. QED
    BY <2>2
<1>8. PICK m \in Nat : m = Max({0, kv, q}) /\ m = IF kv >= q THEN kv ELSE q
  BY DEF Max
<1>9. PICK p \in Nat : p = Min({F, m}) /\ p = IF m > F THEN F ELSE m
  BY DEF Min
<1>10. Full(fleet) = F /\ Shed(fleet) = S
  BY <1>1, <1>5, <1>6 DEF Full, Shed
<1>11. fleet_pressure(fleet) = p
  BY <1>3, <1>4, <1>7, <1>8, <1>9, <1>10 DEF fleet_pressure
<1>12. rust_fleet_pressure(fleet) = p
  BY <1>3, <1>4, <1>7, <1>8, <1>9, <1>10 DEF rust_fleet_pressure
<1>13. Measured(fleet, p, F, S)
  BY <1>5, <1>6, <1>9, <1>10, <1>11, <1>12 DEF Measured
<1>14. QED
  BY <1>13

(* Both hints for the retry are the same natural number.                   *)
LEMMA HintsAgree ==
  ASSUME NEW fleet, NEW p \in Nat, NEW F \in Nat, F > 0, Full(fleet) = F, NEW o \in Nat
  PROVE  /\ retry_after(p, fleet, o) \in Nat
         /\ rust_retry_after(p, fleet, o) = retry_after(p, fleet, o)
<1>1. PICK base \in Nat : base = RetryBase + (RetryBase * p) \div F
  <2>1. PICK t \in Nat : t = RetryBase * p
    BY AdmissionAssumption, TimesNat
  <2>2. t \div F \in Nat
    BY <2>1
  <2>3. RetryBase + t \div F \in Nat
    BY <2>2, AdmissionAssumption
  <2>4. QED
    BY <2>1, <2>3
<1>2. PICK m \in Nat : m = Max({base, o}) /\ m = IF base >= o THEN base ELSE o
  BY MinMaxOfTwo
<1>3. Min({RetryMax, m}) = IF RetryMax <= m THEN RetryMax ELSE m
  BY AdmissionAssumption, MinMaxOfTwo
<1>4. retry_after(p, fleet, o) = IF RetryMax <= m THEN RetryMax ELSE m
  BY <1>1, <1>2, <1>3 DEF retry_after
<1>5. rust_retry_after(p, fleet, o) = IF m <= RetryMax THEN m ELSE RetryMax
  BY <1>1, <1>2 DEF rust_retry_after
<1>6. QED
  BY <1>4, <1>5, AdmissionAssumption

(* Both floors let the same tiers through: gold always, bronze exactly at  *)
(* the threshold.                                                          *)
SameFloor(tier, p, fleet, F, S) ==
  /\ ClearsFloor(tier, p, fleet)
       <=> (IF F - S = 0 THEN tier_priority(tier) >= 1
            ELSE tier_priority(tier) * (F - S) >= rust_floor_times_span(p, fleet))
  /\ tier = "gold" => ClearsFloor(tier, p, fleet)
  /\ (tier = "bronze" /\ p = S) => ClearsFloor(tier, p, fleet)

LEMMA FloorsAgree ==
  ASSUME NEW fleet, NEW p \in Nat, NEW F \in Nat, NEW S \in Nat, Measured(fleet, p, F, S),
         p >= S, NEW tier \in Tiers
  PROVE  SameFloor(tier, p, fleet, F, S)
<1>1. PICK t \in 0 .. 3 : /\ t = tier_priority(tier)
                          /\ tier = "gold" => t = 3
                          /\ tier = "bronze" => t = 1
  BY DEF tier_priority, Tiers
<1>2. PICK span \in Nat : span = F - S
  BY DEF Measured
<1>3. PICK above \in Nat : above = p - S /\ above <= span
  BY <1>2 DEF Measured
<1>4. Full(fleet) = F /\ Shed(fleet) = S
  BY DEF Measured
<1>5. Max({0, above}) = above /\ Min({span, above}) = above
  <2>1. Max({0, above}) = above
    BY DEF Max
  <2>2. Min({span, above}) = above
    BY <1>3 DEF Min
  <2>3. QED
    BY <2>1, <2>2
<1>6. rust_floor_times_span(p, fleet) = span + 2 * above
  BY <1>2, <1>3, <1>4, <1>5 DEF rust_floor_times_span
<1>7. ClearsFloor(tier, p, fleet) <=> (IF span = 0 THEN t >= 1 ELSE (t - 1) * span >= 2 * above)
  BY <1>1, <1>2, <1>3, <1>4 DEF ClearsFloor
<1>8. ((t - 1) * span >= 2 * above) <=> (t * span >= span + 2 * above)
  BY <1>1
<1>9. ClearsFloor(tier, p, fleet)
        <=> (IF F - S = 0 THEN tier_priority(tier) >= 1
             ELSE tier_priority(tier) * (F - S) >= rust_floor_times_span(p, fleet))
  <2>1. tier_priority(tier) * (F - S) = t * span
    BY <1>1, <1>2
  <2>2. CASE span = 0
    BY <1>1, <1>2, <1>7, <2>2
  <2>3. CASE span # 0
    BY <1>2, <1>6, <1>7, <1>8, <2>1, <2>3
  <2>4. QED
    BY <2>2, <2>3
<1>10. ASSUME tier = "gold" PROVE ClearsFloor(tier, p, fleet)
  <2>1. t = 3 /\ (t - 1) * span = 2 * span
    BY <1>1, <1>10
  <2>2. QED
    BY <1>3, <1>7, <2>1
<1>11. ASSUME tier = "bronze", p = S PROVE ClearsFloor(tier, p, fleet)
  <2>1. t = 1 /\ (t - 1) * span = 0 /\ above = 0
    BY <1>1, <1>3, <1>11
  <2>2. QED
    BY <1>7, <2>1
<1>12. QED
  BY <1>9, <1>10, <1>11 DEF SameFloor

(* What is right about one decision d of either language.                  *)
Fair(d, e, ttft, tier, fleet) ==
  /\ d = e
  /\ d.retry \in Nat
  /\ (tier = "gold" /\ ttft <= TtftSlo) => d.action = "admit"
  /\ ttft > TtftSlo => d.action = "reject"
  /\ (/\ fleet_pressure(fleet) = Shed(fleet) /\ tier = "bronze" /\ ttft <= TtftSlo) =>
       d.action = "admit"

LEMMA DecisionsAreFair ==
  ASSUME NEW ttft \in SomeTtfts, NEW tier \in Tiers, NEW fleet \in SomeFleets,
         NEW depth \in SomeDepths
  PROVE  Fair(decide(ttft, tier, fleet, depth), rust_decide(ttft, tier, fleet, depth),
              ttft, tier, fleet)
<1>1. PICK p, F, S \in Nat : Measured(fleet, p, F, S)
  BY PressureIsMeasured
<1>2. /\ F > 0 /\ Full(fleet) = F /\ Shed(fleet) = S
      /\ fleet_pressure(fleet) = p /\ rust_fleet_pressure(fleet) = p
  BY <1>1 DEF Measured
<1>3. ttft \in Nat /\ TtftSlo \in Nat
  BY FleetsAssumption, AdmissionAssumption
<1>4. CASE ttft > TtftSlo
  <2>1. PICK o \in Nat : o = ttft - TtftSlo
    BY <1>3, <1>4
  <2>2. PICK h \in Nat : h = retry_after(p, fleet, o) /\ h = rust_retry_after(p, fleet, o)
    <3>1. /\ retry_after(p, fleet, o) \in Nat
          /\ rust_retry_after(p, fleet, o) = retry_after(p, fleet, o)
      BY <1>2, HintsAgree
    <3>2. QED
      BY <3>1
  <2>3. decide(ttft, tier, fleet, depth) = [action |-> "reject", retry |-> h]
    BY <1>2, <1>3, <1>4, <2>1, <2>2 DEF decide
  <2>4. rust_decide(ttft, tier, fleet, depth) = [action |-> "reject", retry |-> h]
    BY <1>2, <1>4, <2>1, <2>2 DEF rust_decide
  <2>5. QED
    BY <1>3, <1>4, <2>3, <2>4 DEF Fair
<1>5. CASE ttft <= TtftSlo
  <2>1. ~(ttft > TtftSlo)
    BY <1>3, <1>5
  <2>2. PICK ok \in BOOLEAN : ok = (p < S \/ ClearsFloor(tier, p, fleet))
    OBVIOUS
  <2>3. p >= S => SameFloor(tier, p, fleet, F, S)
    BY <1>1, FloorsAgree
  <2>4. /\ ok <=> (p < S \/ (IF F - S = 0 THEN tier_priority(tier) >= 1
                     ELSE tier_priority(tier) * (F - S) >= rust_floor_times_span(p, fleet)))
        /\ (tier = "gold" \/ (tier = "bronze" /\ p = S)) => ok
    <3>1. CASE p < S
      BY <2>2, <3>1
    <3>2. CASE p >= S
      BY <2>2, <2>3, <3>2 DEF SameFloor
    <3>3. QED
      BY <3>1, <3>2
  <2>5. CASE ok
    <3>1. decide(ttft, tier, fleet, depth) = [action |-> "admit", retry |-> 0]
      BY <1>2, <1>5, <2>1, <2>2, <2>5 DEF decide
    <3>2. rust_decide(ttft, tier, fleet, depth) = [action |-> "admit", retry |-> 0]
      BY <1>2, <2>1, <2>4, <2>5 DEF rust_decide
    <3>3. QED
      BY <2>1, <3>1, <3>2 DEF Fair
  <2>6. CASE ~ok
    <3>1. PICK h \in Nat : h = retry_after(p, fleet, 0) /\ h = rust_retry_after(p, fleet, 0)
      <4>1. /\ retry_after(p, fleet, 0) \in Nat
            /\ rust_retry_after(p, fleet, 0) = retry_after(p, fleet, 0)
        BY <1>2, HintsAgree
      <4>2. QED
        BY <4>1
    <3>2. PICK a : a = IF QueueEnabled /\ depth < QueueLimit THEN "queue" ELSE "reject"
      OBVIOUS
    <3>3. decide(ttft, tier, fleet, depth) = [action |-> a, retry |-> h]
      BY <1>2, <1>5, <2>1, <2>2, <2>6, <3>1, <3>2 DEF decide
    <3>4. rust_decide(ttft, tier, fleet, depth) = [action |-> a, retry |-> h]
      BY <1>2, <2>1, <2>4, <2>6, <3>1, <3>2 DEF rust_decide
    <3>5. QED
      BY <1>2, <2>1, <2>4, <2>6, <3>3, <3>4 DEF Fair
  <2>7. QED
    BY <2>5, <2>6
<1>6. QED
  BY <1>3, <1>4, <1>5

(* Rounding the hint up to whole seconds never shortens it.                *)
LEMMA HeaderSuffices ==
  ASSUME NEW d, d.retry \in Nat
  PROVE  RetryAfterHeader(d) * 1000 >= d.retry
<1>1. PICK n \in Nat : n = d.retry
  OBVIOUS
<1>2. PICK s \in Nat : s = (n + 999) \div 1000 /\ s * 1000 >= n
  <2>1. (n + 999) \div 1000 \in Nat /\ ((n + 999) \div 1000) * 1000 >= n
    OBVIOUS
  <2>2. QED
    BY <2>1
<1>3. RetryAfterHeader(d) = IF 1 >= s THEN 1 ELSE s
  BY <1>1, <1>2, MinMaxOfTwo DEF RetryAfterHeader
<1>4. QED
  BY <1>1, <1>2, <1>3

(* A busier fleet, at the same size, is under at least the same pressure.  *)
LEMMA PressureIsMonotone ==
  ASSUME NEW f \in SomeFleets, NEW e \in SomeFleets, BusierThan(f, e)
  PROVE  fleet_pressure(e) <= fleet_pressure(f) /\ Full(e) = Full(f) /\ Shed(e) = Shed(f)
<1> DEFINE Sat(x) == {b \in DOMAIN x : x[b].inflight >= SatInflight}
<1>1. DOMAIN e = DOMAIN f /\ IsFiniteSet(DOMAIN f)
  BY FleetsAssumption DEF BusierThan
<1>2. \A b \in DOMAIN f : /\ f[b].inflight \in Nat /\ e[b].inflight \in Nat
                          /\ f[b].kv \in Nat /\ e[b].kv \in Nat
                          /\ f[b].inflight >= e[b].inflight /\ f[b].kv >= e[b].kv
  BY <1>1, FleetsAssumption DEF BusierThan
<1>3. PICK kf, ke \in Nat : kf = KvTotal(f) /\ ke = KvTotal(e) /\ kf >= ke
  <2>1. KvTotal(f) \in Nat /\ KvTotal(e) \in Nat /\ KvTotal(f) >= KvTotal(e)
    BY <1>1, <1>2, TotalIsMonotone
  <2>2. QED
    BY <2>1
<1>4. PICK bf, be \in Nat : bf = Cardinality(Sat(f)) /\ be = Cardinality(Sat(e)) /\ bf >= be
  <2>1. Sat(e) \subseteq Sat(f)
    BY <1>1, <1>2, AdmissionAssumption
  <2>2. IsFiniteSet(Sat(f))
    BY <1>1, FS_Subset
  <2>3. /\ Cardinality(Sat(f)) \in Nat /\ Cardinality(Sat(e)) \in Nat
        /\ Cardinality(Sat(e)) <= Cardinality(Sat(f))
    BY <2>1, <2>2, FS_Subset, FS_CardinalityType
  <2>4. QED
    BY <2>3
<1>5. PICK qf, qe \in Nat : qf = bf * Quarters /\ qe = be * Quarters /\ qf >= qe
  <2>1. PICK k \in Nat : k = Quarters
    BY AdmissionAssumption
  <2>2. PICK x \in Nat : x = bf - be
    <3>1. bf >= be
      BY <1>4
    <3>2. bf - be \in Nat
      BY <3>1
    <3>3. QED
      BY <3>2
  <2>3. PICK y \in Nat : y = x * k
    BY TimesNat
  <2>4. PICK z \in Nat : z = be * k
    BY TimesNat
  <2>5. bf * k = z + y
    BY <2>2, <2>3, <2>4
  <2>6. QED
    BY <2>1, <2>4, <2>5
<1>6. PICK F \in Nat : F = Full(f) /\ F = Full(e)
  <2>1. PICK p, F, S \in Nat : Measured(f, p, F, S)
    BY PressureIsMeasured
  <2>2. QED
    BY <1>1, <2>1 DEF Measured, Full
<1>7. Shed(e) = Shed(f)
  BY <1>1 DEF Shed
<1>8. PICK mf \in Nat : mf = Max({0, kf, qf}) /\ mf = IF kf >= qf THEN kf ELSE qf
  BY DEF Max
<1>9. PICK me \in Nat : me = Max({0, ke, qe}) /\ me = IF ke >= qe THEN ke ELSE qe
  BY DEF Max
<1>10. fleet_pressure(f) = IF F <= mf THEN F ELSE mf
  <2>1. Min({F, mf}) = IF F <= mf THEN F ELSE mf
    BY DEF Min
  <2>2. QED
    BY <1>3, <1>4, <1>5, <1>6, <1>8, <2>1 DEF fleet_pressure
<1>11. fleet_pressure(e) = IF F <= me THEN F ELSE me
  <2>1. Min({F, me}) = IF F <= me THEN F ELSE me
    BY DEF Min
  <2>2. QED
    BY <1>3, <1>4, <1>5, <1>6, <1>9, <2>1 DEF fleet_pressure
<1>12. mf >= me
  BY <1>3, <1>5, <1>8, <1>9
<1>13. fleet_pressure(e) <= fleet_pressure(f)
  BY <1>10, <1>11, <1>12
<1>14. QED
  BY <1>6, <1>7, <1>13

(* When a request is admitted.                                             *)
Admits(ttft, tier, fleet) ==
  /\ ttft <= TtftSlo
  /\ fleet_pressure(fleet) < Shed(fleet) \/ ClearsFloor(tier, fleet_pressure(fleet), fleet)

LEMMA AdmittedWhen ==
  ASSUME NEW ttft \in Nat, NEW tier, NEW fleet, NEW depth
  PROVE  decide(ttft, tier, fleet, depth).action = "admit" <=> Admits(ttft, tier, fleet)
<1>1. TtftSlo \in Nat
  BY AdmissionAssumption
<1>2. PICK ok \in BOOLEAN : ok = (fleet_pressure(fleet) < Shed(fleet)
                                   \/ ClearsFloor(tier, fleet_pressure(fleet), fleet))
  OBVIOUS
<1>3. CASE ttft > TtftSlo
  <2>1. decide(ttft, tier, fleet, depth).action = "reject"
    BY <1>1, <1>3 DEF decide
  <2>2. QED
    BY <1>1, <1>3, <2>1 DEF Admits
<1>4. CASE ttft <= TtftSlo /\ ok
  <2>1. decide(ttft, tier, fleet, depth).action = "admit"
    <3>1. ~(ttft > TtftSlo)
      BY <1>1, <1>4
    <3>2. QED
      BY <1>2, <1>4, <3>1 DEF decide
  <2>2. QED
    BY <1>2, <1>4, <2>1 DEF Admits
<1>5. CASE ttft <= TtftSlo /\ ~ok
  <2>1. decide(ttft, tier, fleet, depth).action
          = IF QueueEnabled /\ depth < QueueLimit THEN "queue" ELSE "reject"
    <3>1. ~(ttft > TtftSlo)
      BY <1>1, <1>5
    <3>2. QED
      BY <1>2, <1>5, <3>1 DEF decide
  <2>2. QED
    BY <1>2, <1>5, <2>1 DEF Admits
<1>6. QED
  BY <1>1, <1>3, <1>4, <1>5

(* Who is admitted would be with a shorter estimate, in a higher tier, in  *)
(* a less busy fleet.                                                      *)
LEMMA AdmissionIsMonotone ==
  ASSUME NEW ttft \in SomeTtfts, NEW tier \in Tiers, NEW fleet \in SomeFleets,
         NEW ttft2 \in SomeTtfts, NEW tier2 \in Tiers, NEW fleet2 \in SomeFleets,
         Admits(ttft, tier, fleet), ttft2 <= ttft,
         tier_priority(tier2) >= tier_priority(tier), BusierThan(fleet, fleet2)
  PROVE  Admits(ttft2, tier2, fleet2)
<1>1. ttft2 <= TtftSlo
  BY FleetsAssumption, AdmissionAssumption DEF Admits
<1>2. PICK p, F, S \in Nat : Measured(fleet, p, F, S)
  BY PressureIsMeasured
<1>3. PICK q, F2, S2 \in Nat : Measured(fleet2, q, F2, S2)
  BY PressureIsMeasured
<1>4. /\ Full(fleet) = F /\ Shed(fleet) = S /\ fleet_pressure(fleet) = p
      /\ Full(fleet2) = F /\ Shed(fleet2) = S /\ fleet_pressure(fleet2) = q
      /\ q <= p /\ S <= F
  BY <1>2, <1>3, PressureIsMonotone DEF Measured
<1>5. PICK t, u \in 0 .. 3 : t = tier_priority(tier) /\ u = tier_priority(tier2) /\ u >= t
  BY DEF tier_priority, Tiers
<1>6. PICK span \in Nat : span = F - S
  BY <1>4
<1>7. p < S \/ (IF span = 0 THEN t >= 1 ELSE (t - 1) * span >= 2 * (p - S))
  BY <1>4, <1>5, <1>6 DEF Admits, ClearsFloor
<1>8. (u - 1) * span >= (t - 1) * span
  BY <1>5, <1>6
<1>9. q < S \/ (IF span = 0 THEN u >= 1 ELSE (u - 1) * span >= 2 * (q - S))
  <2>1. PICK a, c \in Int : a = (t - 1) * span /\ c = (u - 1) * span
    BY <1>5, <1>6
  <2>2. QED
    BY <1>4, <1>5, <1>7, <1>8, <2>1
<1>10. QED
  BY <1>1, <1>4, <1>5, <1>6, <1>9 DEF Admits, ClearsFloor

(* policy.py:65-123, its branch in the handler (server.py:738-770) and the  *)
(* Rust port, for every fleet, threshold and estimate: who is admitted      *)
(* would also be in a higher tier, with a shorter estimate or in a less     *)
(* busy fleet; gold that can meet its deadline is admitted at any pressure  *)
(* and whoever cannot is refused; both languages decide alike, the hint for *)
(* the retry included, and the header asks for no shorter wait.             *)
THEOREM AdmissionIsAlwaysFair == AdmissionSpec => []AdmissionIsFair
<1>1. AdmissionInit => AdmissionIsFair
  BY DEF AdmissionInit, AdmissionIsFair, SheddingIsMonotone, GoldIsProtected, RustPolicyAgrees
<1>2. AdmissionIsFair /\ [AdmissionNext]_verdict => AdmissionIsFair'
  <2> SUFFICES ASSUME AdmissionIsFair, [AdmissionNext]_verdict PROVE AdmissionIsFair'
    OBVIOUS
  <2>1. CASE UNCHANGED verdict
    BY <2>1 DEF AdmissionIsFair, SheddingIsMonotone, GoldIsProtected, RustPolicyAgrees
  <2>2. ASSUME NEW ttft \in SomeTtfts, NEW tier \in Tiers, NEW fleet \in SomeFleets,
               NEW depth \in SomeDepths, Judge(ttft, tier, fleet, depth)
        PROVE  AdmissionIsFair'
    <3>1. PICK d : d = decide(ttft, tier, fleet, depth)
      OBVIOUS
    <3>2. PICK e : e = rust_decide(ttft, tier, fleet, depth)
      OBVIOUS
    <3>3. verdict' = [fleet |-> fleet, ttft |-> ttft, tier |-> tier, depth |-> depth,
                      python |-> d, rust |-> e]
      BY <2>2, <3>1, <3>2 DEF Judge
    <3>4. Fair(d, e, ttft, tier, fleet)
      BY <3>1, <3>2, DecisionsAreFair
    <3>5. RetryAfterHeader(d) * 1000 >= d.retry
      BY <3>4, HeaderSuffices DEF Fair
    <3>6. GoldIsProtected'
      BY <3>3, <3>4 DEF GoldIsProtected, Fair
    <3>7. RustPolicyAgrees'
      BY <3>3, <3>4, <3>5 DEF RustPolicyAgrees, Fair
    <3>8. ASSUME NEW ttft2 \in SomeTtfts, NEW tier2 \in Tiers, NEW fleet2 \in SomeFleets,
                 d.action = "admit", ttft2 <= ttft,
                 tier_priority(tier2) >= tier_priority(tier), BusierThan(fleet, fleet2)
          PROVE  decide(ttft2, tier2, fleet2, depth).action = "admit"
      <4>1. ttft \in Nat /\ ttft2 \in Nat
        BY FleetsAssumption
      <4>2. Admits(ttft, tier, fleet)
        BY <3>1, <3>8, <4>1, AdmittedWhen
      <4>3. Admits(ttft2, tier2, fleet2)
        BY <3>8, <4>2, AdmissionIsMonotone
      <4>4. QED
        BY <4>1, <4>3, AdmittedWhen
    <3>9. SheddingIsMonotone'
      BY <3>3, <3>8 DEF SheddingIsMonotone
    <3>10. QED
      BY <3>6, <3>7, <3>9 DEF AdmissionIsFair
  <2>3. QED
    BY <2>1, <2>2 DEF AdmissionNext
<1>3. QED
  BY <1>1, <1>2, PTL DEF AdmissionSpec

-----------------------------------------------------------------------------
(* Speculative racing: any number of candidates, loads and estimates.      *)

LaneState == {"out", "opening", "answered", "failed", "cancelling", "closed"}
RacePhase == {"idle", "waiting", "closing", "returned", "none"}

RaceTypeOK ==
  /\ lane \in [Lanes -> LaneState]
  /\ racing \subseteq Lanes /\ cms \subseteq Lanes /\ champion \subseteq Lanes
  /\ racePhase \in RacePhase

\* Before there is a winner race() knows every lane that is connecting or has
\* answered, and has popped only failed ones.
NobodyForgotten ==
  racePhase \in {"idle", "waiting", "none"} =>
    /\ champion = {}
    /\ racing = cms
    /\ \A b \in Lanes : lane[b] \in {"opening", "answered"} => b \in racing
    /\ \A b \in Lanes : lane[b] \in {"out", "opening", "answered", "failed"}

\* Once there is one, it has answered, nobody is connecting any more, and
\* whoever else has answered is still to be closed.
OthersAreClosed ==
  racePhase \in {"closing", "returned"} =>
    /\ champion # {} /\ champion \subseteq cms
    /\ \A b \in champion : lane[b] = "answered"
    /\ \A b \in Lanes : lane[b] # "opening"
    /\ \A b \in Lanes : lane[b] = "answered" => b \in cms

RaceInv ==
  /\ RaceTypeOK /\ NobodyForgotten /\ OthersAreClosed
  /\ racePhase = "none" => racing = {}
  /\ racePhase = "returned" => cms = champion

(* The chosen backends are candidates.                                     *)
LEMMA ChosenAreLanes ==
  ASSUME NEW inflight, NEW kvHigh, NEW est
  PROVE  top_k_backends(inflight, kvHigh, est) \subseteq Lanes
BY DEF top_k_backends

LEMMA RaceInitInv == RaceInit => RaceInv
BY DEF RaceInit, RaceInv, RaceTypeOK, NobodyForgotten, OthersAreClosed, LaneState, RacePhase

(* The invariant is kept by every step of the race.                        *)
LEMMA RaceNextInv == RaceInv /\ [RaceNext]_raceVars => RaceInv'
<1> SUFFICES ASSUME RaceInv, [RaceNext]_raceVars PROVE RaceInv'
  OBVIOUS
<1> USE DEF RaceInv, RaceTypeOK, NobodyForgotten, OthersAreClosed
<1>1. ASSUME NEW inflight, NEW kvHigh, NEW est, StartRace(inflight, kvHigh, est)
      PROVE  RaceInv'
  BY <1>1, ChosenAreLanes DEF StartRace, LaneState, RacePhase
<1>2. CASE PickWinner
  <2>1. PICK w \in {b \in Done : lane[b] = "answered"},
             failed \in SUBSET {b \in Done : lane[b] = "failed"} :
          /\ champion' = {w}
          /\ racing' = racing \ ({w} \cup failed)
          /\ cms' = cms \ failed
          /\ lane' = [b \in Lanes |->
                        IF b \in racing' /\ lane[b] = "opening" THEN "cancelling" ELSE lane[b]]
          /\ racePhase' = "closing"
    BY <1>2 DEF PickWinner, Known
  <2>2. /\ racePhase = "waiting" /\ w \in racing /\ lane[w] = "answered"
        /\ \A b \in failed : b \in racing /\ lane[b] = "failed"
    BY <1>2, <2>1 DEF PickWinner, Done
  <2>3. \A b \in Lanes : lane[b] = "opening" => b \in racing'
    BY <2>1, <2>2
  <2>4. RaceTypeOK'
    BY <2>1, <2>2 DEF LaneState, RacePhase
  <2>5. OthersAreClosed'
    BY <2>1, <2>2, <2>3
  <2>6. QED
    BY <2>1, <2>4, <2>5
<1>3. CASE AllFailed
  BY <1>3 DEF AllFailed, Remaining, Done, RacePhase
<1>4. CASE ReturnOutcome
  BY <1>4 DEF ReturnOutcome, RacePhase
<1>5. ASSUME NEW b \in Lanes, LaneAnswers(b) \/ LaneFails(b) PROVE RaceInv'
  BY <1>5 DEF LaneAnswers, LaneFails, LaneState, RacePhase
<1>6. ASSUME NEW b \in Lanes, CloseLoser(b) PROVE RaceInv'
  BY <1>6 DEF CloseLoser, LaneState, RacePhase
<1>7. ASSUME NEW b \in Lanes, LaneUnwinds(b) PROVE RaceInv'
  BY <1>7 DEF LaneUnwinds, LaneState, RacePhase
<1>8. CASE UNCHANGED raceVars
  BY <1>8 DEF raceVars
<1>9. QED
  BY <1>1, <1>2, <1>3, <1>4, <1>5, <1>6, <1>7, <1>8 DEF RaceNext, RaceStep

(* speculative.py:107-160 for every race: when race() is over the winner's *)
(* connection is open and no other, and it returns None only if every      *)
(* connection failed, whatever answers in the same instant.                *)
THEOREM RacesAreSettled == RaceSpec => []RaceIsSettled
<1>1. RaceInv => RaceIsSettled
  BY DEF RaceInv, RaceTypeOK, NobodyForgotten, OthersAreClosed, RaceIsSettled,
         OnlyWinnerStaysOpen, NoneMeansAllFailed, LaneState
<1>2. QED
  BY <1>1, RaceInitInv, RaceNextInv, PTL DEF RaceSpec
-----------------------------------------------------------------------------
(* The DAG scheduler                                                       *)

(* The jobs of the layers before the i-th, and those that are due then.    *)
Before(ls, i) == UNION {ToSet(ls[k]) : k \in 1 .. i - 1}

Due(ps, ls, i) == {j \in Jobs \ Before(ls, i) : ToSet(ps[j]) \subseteq Before(ls, i)}

Layered(ps, ls) == \A i \in DOMAIN ls : ToSet(ls[i]) = Due(ps, ls, i)

(* Graphs that are refused.                                                *)
Stuck(ps) == \E S \in (SUBSET Jobs) \ {{}} : \A j \in S : \E p \in S : p \in ToSet(ps[j])

Unknown(ps) == \E j \in Jobs : ~(ToSet(ps[j]) \subseteq Jobs)

DagPhases == {"idle", "layering", "error", "placing", "layer", "scheduled"}

IsPlanned(phase) == phase \in {"placing", "layer", "scheduled"}

DagTypes ==
  /\ plan \in [phase : DagPhases, strategy : Strategies \cup {""}, layer : Nat, todo : Seq(Jobs), rr : Nat]
  /\ parents \in [Jobs -> Seq(Nat)] /\ indeg \in [Jobs -> Nat] /\ layers \in Seq(Seq(Jobs))
  /\ carried \in [Workers -> Nat] /\ busy \in [Workers -> Nat] /\ workOn \in [Workers -> Nat]
  /\ makespan \in Nat

(* What is left of the in-degrees, the frontier and the layers so far.     *)
LayersInv ==
  plan.phase = "layering" \/ IsPlanned(plan.phase) =>
    /\ ~Unknown(parents) /\ Layered(parents, layers)
    /\ \A j \in Jobs : indeg[j] = Edges(Nat \ Seen, j)
    /\ frontier = Due(parents, layers, Len(layers) + 1)

(* How the phases differ.                                                  *)
PhaseInv ==
  /\ plan.phase = "idle" => layers = <<>>
  /\ plan.phase = "error" => Stuck(parents) \/ Unknown(parents)
  /\ ~IsPlanned(plan.phase) => /\ plan.layer = 0 /\ plan.todo = <<>> /\ DOMAIN chosen = {}
                               /\ workOn = Zero /\ makespan = 0
  /\ IsPlanned(plan.phase) => Seen = Jobs

(* The jobs placed are those of the layers before, and of the current one  *)
(* those that are not still to do.                                         *)
PlacedInv ==
  /\ \A j \in DOMAIN chosen : chosen[j] \in EligibleWorkers
  /\ plan.phase \in {"placing", "scheduled"} =>
       plan.todo = <<>> /\ plan.layer <= Len(layers) /\ DOMAIN chosen = Before(layers, plan.layer + 1)
  /\ plan.phase = "scheduled" => plan.layer = Len(layers)
  /\ plan.phase = "layer" =>
       /\ plan.layer \in DOMAIN layers /\ ToSet(plan.todo) \subseteq ToSet(layers[plan.layer])
       /\ Before(layers, plan.layer) \subseteq DOMAIN chosen
       /\ DOMAIN chosen \subseteq Before(layers, plan.layer + 1)
       /\ Before(layers, plan.layer + 1) \subseteq DOMAIN chosen \cup ToSet(plan.todo)

WorkInv == \A w \in Workers : workOn[w] <= makespan + (IF plan.phase = "layer" THEN busy[w] ELSE 0)

DagInv == DagTypes /\ LayersInv /\ PhaseInv /\ PlacedInv /\ WorkInv

(* A finite set of natural numbers has an upper bound, and a greatest one. *)
LEMMA FiniteHasGreatest ==
  ASSUME NEW T \in SUBSET Nat, IsFiniteSet(T), T # {}
  PROVE  Max(T) \in T /\ \A y \in T : y <= Max(T)
<1>0. PICK n \in Nat : ExistsBijection(1 .. n, T)
  BY FS_CardinalityType
<1>1. PICK f : f \in Bijection(1 .. n, T)
  BY <1>0 DEF ExistsBijection
<1>2. f \in [1 .. n -> T] /\ \A y \in T : \E i \in 1 .. n : f[i] = y
  BY <1>1 DEF Bijection, Surjection
<1>3. PICK G \in SUBSET (0 .. n) : G = {k \in 0 .. n : \E m \in Nat : \A i \in 1 .. k : f[i] <= m}
  OBVIOUS
<1>4. 0 \in G
  BY <1>3
<1>5. ASSUME NEW k \in 1 .. n, k - 1 \in G PROVE k \in G
  <2>1. PICK m \in Nat : \A i \in 1 .. k - 1 : f[i] <= m
    BY <1>3, <1>5
  <2>2. f[k] \in Nat /\ \A i \in 1 .. k : f[i] \in Nat
    <3>1. \A i \in 1 .. n : f[i] \in T
      BY <1>2
    <3>2. \A i \in 1 .. k : i \in 1 .. n
      OBVIOUS
    <3>3. QED
      BY <3>1, <3>2
  <2>3. PICK c \in Nat : c = f[k]
    BY <2>2
  <2>4. m + c \in Nat /\ \A i \in 1 .. k : f[i] <= m + c
    <3>1. ASSUME NEW i \in 1 .. k PROVE f[i] <= m + c
      <4>1. CASE i = k
        BY <2>3, <4>1
      <4>2. CASE i # k
        <5>1. i \in 1 .. k - 1 /\ f[i] \in Nat
          BY <2>2, <4>2
        <5>2. f[i] <= m
          BY <2>1, <5>1
        <5>3. QED
          BY <5>1, <5>2
      <4>3. QED
        BY <4>1, <4>2
    <3>2. QED
      BY <3>1
  <2>5. \E b \in Nat : \A i \in 1 .. k : f[i] <= b
    BY <2>4
  <2>6. QED
    BY <1>3, <2>5
<1>6. n \in G
  <2>1. \A k \in 0 .. n : k \in G
    BY <1>4, <1>5, UpToN
  <2>2. QED
    BY <2>1
<1>7. PICK m \in Nat : \A y \in T : y <= m
  <2>1. PICK m \in Nat : \A i \in 1 .. n : f[i] <= m
    BY <1>3, <1>6
  <2>2. QED
    BY <1>2, <2>1
<1>8. T \in SUBSET (0 .. m)
  BY <1>7
<1>9. QED
  BY <1>8, MaxIsGreatest

(* How many members are below x is another number for every x, so each     *)
(* position of the ascending list is taken, once.                          *)
LEMMA SortedExists ==
  ASSUME NEW S \in SUBSET Nat, IsFiniteSet(S), NEW n \in Nat, n = Cardinality(S)
  PROVE  \E s \in [1 .. n -> S] : \A i, k \in 1 .. n : i < k => s[i] < s[k]
<1>1. PICK rank : rank = [x \in S |-> Cardinality({y \in S : y < x}) + 1]
  OBVIOUS
<1>2. ASSUME NEW x \in S
      PROVE  /\ IsFiniteSet({y \in S : y < x}) /\ Cardinality({y \in S : y < x}) \in 0 .. n - 1
  <2>1. PICK B : B = {y \in S : y < x}
    OBVIOUS
  <2>2. B \in SUBSET S /\ B # S
    BY <2>1
  <2>3. IsFiniteSet(B) /\ Cardinality(B) <= n /\ (n = Cardinality(B) => S = B)
    BY <2>2, FS_Subset
  <2>4. Cardinality(B) \in Nat
    BY <2>3, FS_CardinalityType
  <2>5. QED
    BY <2>1, <2>2, <2>3, <2>4
<1>3. ASSUME NEW x \in S, NEW z \in S, x < z PROVE rank[x] < rank[z]
  <2>1. PICK B, C : B = {y \in S : y < x} /\ C = {y \in S : y < z}
    OBVIOUS
  <2>2. B \in SUBSET C /\ B # C
    <3>1. x \in C /\ x \notin B
      BY <1>3, <2>1
    <3>2. \A y \in S : y < x => y < z
      BY <1>3
    <3>3. QED
      BY <2>1, <3>1, <3>2
  <2>3. IsFiniteSet(C) /\ Cardinality(C) \in Nat /\ Cardinality(B) \in Nat
    BY <1>2, <2>1
  <2>4. Cardinality(B) <= Cardinality(C) /\ (Cardinality(C) = Cardinality(B) => C = B)
    BY <2>2, <2>3, FS_Subset
  <2>5. rank[x] = Cardinality(B) + 1 /\ rank[z] = Cardinality(C) + 1
    BY <1>1, <2>1
  <2>6. QED
    BY <2>2, <2>3, <2>4, <2>5
<1>4. rank \in Injection(S, 1 .. n)
  <2>1. rank \in [S -> 1 .. n]
    <3>1. \A x \in S : Cardinality({y \in S : y < x}) + 1 \in 1 .. n
      BY <1>2
    <3>2. QED
      BY <1>1, <3>1
  <2>2. ASSUME NEW x \in S, NEW z \in S, rank[x] = rank[z] PROVE x = z
    <3>1. ~(x < z) /\ ~(z < x)
      BY <1>3, <2>1, <2>2
    <3>2. QED
      BY <3>1
  <2>3. QED
    BY <2>1, <2>2 DEF Injection, IsInjective
<1>5. IsFiniteSet(1 .. n) /\ Cardinality(1 .. n) = n
  BY FS_Interval
<1>6. rank \in Surjection(S, 1 .. n)
  BY <1>4, <1>5, FS_Injection
<1>7. rank \in [S -> 1 .. n] /\ \A i \in 1 .. n : \E x \in S : rank[x] = i
  BY <1>6 DEF Surjection
<1>8. PICK s : s = [i \in 1 .. n |-> CHOOSE x \in S : rank[x] = i]
  OBVIOUS
<1>9. \A i \in 1 .. n : s[i] \in S /\ rank[s[i]] = i
  BY <1>7, <1>8
<1>10. ASSUME NEW i \in 1 .. n, NEW k \in 1 .. n, i < k PROVE s[i] < s[k]
  <2>1. PICK x \in S, z \in S : x = s[i] /\ z = s[k] /\ rank[x] = i /\ rank[z] = k
    BY <1>9
  <2>2. z < x => rank[z] < rank[x]
    BY <1>3
  <2>3. x # z /\ ~(z < x)
    BY <1>10, <2>1, <2>2
  <2>4. x \in Nat /\ z \in Nat
    OBVIOUS
  <2>5. x < z
    BY <2>3, <2>4
  <2>6. QED
    BY <2>1, <2>5
<1>11. s \in [1 .. n -> S]
  BY <1>8, <1>9
<1>12. QED
  BY <1>10, <1>11

LEMMA SortedIs ==
  ASSUME NEW S \in SUBSET Nat, IsFiniteSet(S)
  PROVE  Sorted(S) \in Seq(S) /\ ToSet(Sorted(S)) = S
<1>1. PICK n \in Nat : n = Cardinality(S)
  BY FS_CardinalityType
<1> DEFINE Ascends(s) == \A i, k \in 1 .. n : i < k => s[i] < s[k]
<1>2. \E s \in [1 .. n -> S] : Ascends(s)
  BY <1>1, SortedExists
<1>3. Sorted(S) = CHOOSE s \in [1 .. n -> S] : Ascends(s)
  BY <1>1 DEF Sorted
<1> HIDE DEF Ascends
<1>4. PICK s : s = Sorted(S)
  OBVIOUS
<1>5. s \in [1 .. n -> S] /\ Ascends(s)
  BY <1>2, <1>3, <1>4
<1>6. s \in Injection(1 .. n, S)
  <2>1. ASSUME NEW i \in 1 .. n, NEW k \in 1 .. n, s[i] = s[k] PROVE i = k
    <3>1. s[i] \in Nat /\ s[k] \in Nat
      BY <1>5
    <3>2. ~(i < k) /\ ~(k < i)
      BY <1>5, <2>1, <3>1 DEF Ascends
    <3>3. QED
      BY <3>2
  <2>2. QED
    BY <1>5, <2>1 DEF Injection, IsInjective
<1>7. IsFiniteSet(1 .. n) /\ Cardinality(1 .. n) = n
  BY FS_Interval
<1>8. s \in Surjection(1 .. n, S)
  BY <1>1, <1>6, <1>7, FS_Injection
<1>9. \A y \in S : \E i \in 1 .. n : s[i] = y
  BY <1>8 DEF Surjection
<1>10. s \in Seq(S) /\ DOMAIN s = 1 .. n
  BY <1>5
<1>11. ToSet(s) = S
  BY <1>5, <1>9, <1>10 DEF ToSet
<1>12. QED
  BY <1>4, <1>10, <1>11

-----------------------------------------------------------------------------
(* Layers                                                                  *)

LEMMA BeforeSteps ==
  ASSUME NEW ls \in Seq(Seq(Jobs)), NEW i \in 1 .. Len(ls)
  PROVE  Before(ls, i + 1) = Before(ls, i) \cup ToSet(ls[i])
<1>1. 1 .. (i + 1) - 1 = (1 .. i - 1) \cup {i}
  OBVIOUS
<1>2. QED
  BY <1>1 DEF Before

LEMMA BeforeGrows ==
  ASSUME NEW ls, NEW i \in Nat, NEW k \in Nat, i <= k
  PROVE  Before(ls, i) \subseteq Before(ls, k)
<1>1. 1 .. i - 1 \subseteq 1 .. k - 1
  OBVIOUS
<1>2. QED
  BY <1>1 DEF Before

(* A job before a layer is in one of the earlier ones.                     *)
LEMMA BeforeIs ==
  ASSUME NEW ls \in Seq(Seq(Jobs)), NEW i \in 1 .. Len(ls) + 1
  PROVE  /\ Before(ls, i) \subseteq Jobs
         /\ \A j : j \in Before(ls, i) <=> \E k \in 1 .. i - 1 : k \in DOMAIN ls /\ j \in ToSet(ls[k])
<1>1. \A k \in 1 .. i - 1 : k \in DOMAIN ls /\ ls[k] \in Seq(Jobs)
  OBVIOUS
<1>2. \A k \in 1 .. i - 1 : ToSet(ls[k]) \subseteq Jobs
  BY <1>1 DEF ToSet
<1>3. QED
  BY <1>1, <1>2 DEF Before

LEMMA BeforeAppended ==
  ASSUME NEW ls \in Seq(Seq(Jobs)), NEW l \in Seq(Jobs), NEW i \in 1 .. Len(ls) + 1
  PROVE  Before(Append(ls, l), i) = Before(ls, i)
<1>1. \A k \in 1 .. i - 1 : Append(ls, l)[k] = ls[k]
  OBVIOUS
<1>2. QED
  BY <1>1 DEF Before

LEMMA SeenIsBefore ==
  ASSUME DagTypes
  PROVE  Seen = Before(layers, Len(layers) + 1)
<1>1. PICK ls \in Seq(Seq(Jobs)) : ls = layers
  BY DEF DagTypes
<1>2. DOMAIN ls = 1 .. (Len(ls) + 1) - 1
  OBVIOUS
<1>3. QED
  BY <1>1, <1>2 DEF Seen, Before

(* The parents of what was taken were taken before.                        *)
LEMMA BeforeIsClosed ==
  ASSUME NEW ps, NEW ls \in Seq(Seq(Jobs)), Layered(ps, ls), NEW i \in 1 .. Len(ls) + 1,
         NEW j \in Before(ls, i)
  PROVE  ToSet(ps[j]) \subseteq Before(ls, i)
<1>1. PICK k \in 1 .. i - 1 : k \in DOMAIN ls /\ j \in ToSet(ls[k])
  BY BeforeIs
<1>2. ToSet(ps[j]) \subseteq Before(ls, k)
  BY <1>1 DEF Layered, Due
<1>3. k \in Nat /\ i \in Nat /\ k <= i
  OBVIOUS
<1>4. Before(ls, k) \subseteq Before(ls, i)
  BY <1>3, BeforeGrows
<1>5. QED
  BY <1>2, <1>4

LEMMA OneLayerEach ==
  ASSUME NEW ps, NEW ls \in Seq(Seq(Jobs)), Layered(ps, ls), NEW i \in DOMAIN ls, NEW k \in DOMAIN ls,
         NEW j \in ToSet(ls[i]), j \in ToSet(ls[k])
  PROVE  i = k
<1>1. ASSUME NEW a \in DOMAIN ls, NEW b \in DOMAIN ls, j \in ToSet(ls[a]), j \in ToSet(ls[b]) PROVE ~(a < b)
  <2>1. SUFFICES ASSUME a < b PROVE FALSE
    OBVIOUS
  <2>2. a \in 1 .. b - 1 /\ b \in 1 .. Len(ls) + 1
    BY <2>1
  <2>3. j \in Before(ls, b)
    BY <1>1, <2>2 DEF Before
  <2>4. j \notin Before(ls, b)
    BY <1>1 DEF Layered, Due
  <2>5. QED
    BY <2>3, <2>4
<1>2. ~(i < k) /\ ~(k < i)
  BY <1>1
<1>3. i \in Nat /\ k \in Nat
  OBVIOUS
<1>4. QED
  BY <1>2, <1>3

(* A job is due right after the last of its parents.                       *)
RightAfterParents(ps, ls, i, j) ==
  /\ \A p \in ToSet(ps[j]) : \E k \in 1 .. i - 1 : k \in DOMAIN ls /\ p \in ToSet(ls[k])
  /\ i > 1 => \E p \in ToSet(ps[j]) : i - 1 \in DOMAIN ls /\ p \in ToSet(ls[i - 1])

LEMMA LayerIsDepth ==
  ASSUME NEW ps, NEW ls \in Seq(Seq(Jobs)), Layered(ps, ls), NEW i \in DOMAIN ls, NEW j \in ToSet(ls[i])
  PROVE  RightAfterParents(ps, ls, i, j)
<1>1. i \in 1 .. Len(ls) + 1 /\ j \in Due(ps, ls, i) /\ j \in Jobs
  BY DEF Layered, Due
<1>2. ToSet(ps[j]) \subseteq Before(ls, i) /\ j \notin Before(ls, i)
  BY <1>1 DEF Due
<1>3. \A p \in ToSet(ps[j]) : \E k \in 1 .. i - 1 : k \in DOMAIN ls /\ p \in ToSet(ls[k])
  BY <1>1, <1>2, BeforeIs
<1>4. ASSUME i > 1 PROVE \E p \in ToSet(ps[j]) : i - 1 \in DOMAIN ls /\ p \in ToSet(ls[i - 1])
  <2>1. i - 1 \in DOMAIN ls /\ i - 1 \in 1 .. Len(ls) /\ (i - 1) + 1 = i
    BY <1>4
  <2>2. Before(ls, i) = Before(ls, i - 1) \cup ToSet(ls[i - 1])
    BY <2>1, BeforeSteps
  <2>3. j \notin Before(ls, i - 1) /\ j \notin ToSet(ls[i - 1])
    BY <1>2, <2>2
  <2>4. ~(ToSet(ps[j]) \subseteq Before(ls, i - 1))
    BY <1>1, <2>1, <2>3 DEF Layered, Due
  <2>5. QED
    BY <1>2, <2>1, <2>2, <2>4
<1>5. QED
  BY <1>3, <1>4 DEF RightAfterParents

-----------------------------------------------------------------------------
(* What the invariant says of a plan                                       *)

(* Every job of a plan is in exactly one layer.                            *)
LEMMA LayerOfIs ==
  ASSUME DagInv, IsPlanned(plan.phase), NEW j \in Jobs
  PROVE  /\ LayerOf(j) \in DOMAIN layers /\ j \in ToSet(layers[LayerOf(j)])
         /\ \A i \in DOMAIN layers : j \in ToSet(layers[i]) => i = LayerOf(j)
<1>1. layers \in Seq(Seq(Jobs)) /\ Layered(parents, layers) /\ Seen = Jobs
  BY DEF DagInv, DagTypes, LayersInv, PhaseInv
<1>2. \E i \in DOMAIN layers : j \in ToSet(layers[i])
  BY <1>1 DEF Seen
<1>3. LayerOf(j) \in DOMAIN layers /\ j \in ToSet(layers[LayerOf(j)])
  BY <1>2 DEF LayerOf
<1>4. QED
  BY <1>1, <1>3, OneLayerEach

LEMMA ParentsAreEarlier ==
  ASSUME DagInv, IsPlanned(plan.phase), NEW j \in Jobs
  PROVE  /\ LayerOf(j) \in Nat \ {0}
         /\ \A p \in ToSet(parents[j]) : p \in Jobs /\ LayerOf(p) \in 1 .. LayerOf(j) - 1
         /\ LayerOf(j) > 1 => \E p \in ToSet(parents[j]) : LayerOf(p) = LayerOf(j) - 1
<1>1. layers \in Seq(Seq(Jobs)) /\ Layered(parents, layers) /\ ~Unknown(parents)
  BY DEF DagInv, DagTypes, LayersInv
<1>2. PICK i \in DOMAIN layers : i = LayerOf(j) /\ j \in ToSet(layers[i])
  BY LayerOfIs
<1>3. RightAfterParents(parents, layers, i, j)
  BY <1>1, <1>2, LayerIsDepth
<1>4. ToSet(parents[j]) \subseteq Jobs
  BY <1>1 DEF Unknown
<1>5. \A p \in ToSet(parents[j]) : \A k \in DOMAIN layers : p \in ToSet(layers[k]) => k = LayerOf(p)
  BY <1>4, LayerOfIs
<1>6. i \in Nat \ {0}
  BY <1>1
<1>7. \A p \in ToSet(parents[j]) : LayerOf(p) \in 1 .. i - 1
  BY <1>3, <1>5 DEF RightAfterParents
<1>8. i > 1 => \E p \in ToSet(parents[j]) : LayerOf(p) = i - 1
  BY <1>3, <1>5 DEF RightAfterParents
<1>9. QED
  BY <1>2, <1>4, <1>6, <1>7, <1>8

LEMMA PlansAreLayered == ASSUME DagInv PROVE LayersAreDepths
<1> SUFFICES ASSUME IsPlanned(plan.phase), NEW j \in Jobs
             PROVE  /\ Cardinality({i \in DOMAIN layers : j \in ToSet(layers[i])}) = 1
                    /\ LayerOf(j) = 1 + Max({0} \cup {LayerOf(p) : p \in ToSet(parents[j])})
  BY DEF LayersAreDepths, IsPlanned
<1>1. {i \in DOMAIN layers : j \in ToSet(layers[i])} = {LayerOf(j)}
  BY LayerOfIs
<1>2. Cardinality({i \in DOMAIN layers : j \in ToSet(layers[i])}) = 1
  BY <1>1, FS_Singleton
<1>3. PICK i \in Nat \ {0} : i = LayerOf(j)
  BY ParentsAreEarlier
<1>4. PICK T : T = {0} \cup {LayerOf(p) : p \in ToSet(parents[j])}
  OBVIOUS
<1>5. /\ \A p \in ToSet(parents[j]) : LayerOf(p) \in 1 .. i - 1
      /\ i > 1 => \E p \in ToSet(parents[j]) : LayerOf(p) = i - 1
  BY <1>3, ParentsAreEarlier
<1>6. i - 1 \in T /\ \A y \in T : y \in Int /\ i - 1 >= y
  BY <1>4, <1>5
<1>7. Max(T) = i - 1
  BY <1>6 DEF Max
<1>8. QED
  BY <1>2, <1>3, <1>4, <1>7

(* In a set of jobs that wait for each other none can be the earliest.     *)
LEMMA PlansAreNotStuck == ASSUME DagInv, IsPlanned(plan.phase) PROVE ~Stuck(parents)
<1> SUFFICES ASSUME NEW S \in SUBSET Jobs, S # {}, \A j \in S : \E p \in S : p \in ToSet(parents[j])
             PROVE  FALSE
  BY DEF Stuck
<1>1. PICK T \in SUBSET Nat : T = {LayerOf(j) : j \in S} /\ T # {}
  <2>1. \A j \in S : LayerOf(j) \in Nat
    BY ParentsAreEarlier
  <2>2. {LayerOf(j) : j \in S} \in SUBSET Nat /\ {LayerOf(j) : j \in S} # {}
    BY <2>1
  <2>3. QED
    BY <2>2
<1>2. PICK x \in T : \A y \in T : x <= y
  BY <1>1, LeastNat
<1>3. PICK j \in S : x = LayerOf(j)
  BY <1>1, <1>2
<1>4. PICK p \in S : p \in ToSet(parents[j])
  OBVIOUS
<1>5. LayerOf(p) \in 1 .. LayerOf(j) - 1
  BY <1>4, ParentsAreEarlier
<1>6. x <= LayerOf(p)
  BY <1>1, <1>2
<1>7. PICK y \in 1 .. x - 1 : y = LayerOf(p)
  BY <1>3, <1>5
<1>8. x \in Nat /\ x <= y
  BY <1>1, <1>6, <1>7
<1>9. QED
  BY <1>7, <1>8

LEMMA RefusalsAreRight == ASSUME DagInv PROVE RefusedIffUnschedulable
<1>1. plan.phase = "error" => Stuck(parents) \/ Unknown(parents)
  BY DEF DagInv, PhaseInv
<1>2. IsPlanned(plan.phase) => ~Stuck(parents) /\ ~Unknown(parents)
  BY PlansAreNotStuck DEF DagInv, LayersInv
<1>3. QED
  BY <1>1, <1>2 DEF RefusedIffUnschedulable, IsPlanned, Stuck, Unknown

LEMMA PlacementsAreRight == ASSUME DagInv PROVE EveryJobPlaced
<1>1. ASSUME NEW j \in DOMAIN chosen PROVE ToSet(parents[j]) \subseteq DOMAIN chosen
  <2>0. layers \in Seq(Seq(Jobs)) /\ plan.layer \in Nat
    BY DEF DagInv, DagTypes
  <2>1. IsPlanned(plan.phase)
    BY DEF DagInv, PhaseInv
  <2>2. Layered(parents, layers)
    BY <2>1 DEF DagInv, LayersInv
  <2>3. CASE plan.phase = "layer"
    <3>1. PICK i : i = plan.layer
      OBVIOUS
    <3>2. /\ i \in DOMAIN layers /\ Before(layers, i) \subseteq DOMAIN chosen
          /\ DOMAIN chosen \subseteq Before(layers, i + 1)
      BY <2>3, <3>1 DEF DagInv, PlacedInv
    <3>3. i \in 1 .. Len(layers) /\ i \in 1 .. Len(layers) + 1
      BY <2>0, <3>2
    <3>4. Before(layers, i + 1) = Before(layers, i) \cup ToSet(layers[i])
      BY <2>0, <3>3, BeforeSteps
    <3>5. CASE j \in Before(layers, i)
      <4>1. ToSet(parents[j]) \subseteq Before(layers, i)
        BY <2>0, <2>2, <3>3, <3>5, BeforeIsClosed
      <4>2. QED
        BY <3>2, <4>1
    <3>6. CASE j \in ToSet(layers[i])
      <4>1. ToSet(parents[j]) \subseteq Before(layers, i)
        BY <2>2, <3>2, <3>6 DEF Layered, Due
      <4>2. QED
        BY <3>2, <4>1
    <3>7. QED
      BY <1>1, <3>2, <3>4, <3>5, <3>6
  <2>4. CASE plan.phase \in {"placing", "scheduled"}
    <3>1. plan.layer <= Len(layers) /\ DOMAIN chosen = Before(layers, plan.layer + 1)
      BY <2>4 DEF DagInv, PlacedInv
    <3>2. PICK i : i = plan.layer + 1 /\ i \in 1 .. Len(layers) + 1
      BY <2>0, <3>1
    <3>3. j \in Before(layers, i)
      BY <1>1, <3>1, <3>2
    <3>4. ToSet(parents[j]) \subseteq Before(layers, i)
      BY <2>0, <2>2, <3>2, <3>3, BeforeIsClosed
    <3>5. QED
      BY <3>1, <3>2, <3>4
  <2>5. QED
    BY <2>1, <2>3, <2>4 DEF IsPlanned
<1>2. ASSUME NEW j \in DOMAIN chosen, carried[chosen[j]] > WorkerLimit, NEW w \in Workers
      PROVE  carried[w] > WorkerLimit
  <2>1. chosen[j] \in EligibleWorkers /\ carried \in [Workers -> Nat]
    BY DEF DagInv, PlacedInv, DagTypes
  <2>2. chosen[j] \in Workers
    BY <2>1 DEF EligibleWorkers
  <2>3. ~(carried[chosen[j]] <= WorkerLimit)
    BY <1>2, <2>1, <2>2, DagAssumption
  <2>4. {v \in Workers : carried[v] <= WorkerLimit} = {}
    BY <2>1, <2>3 DEF EligibleWorkers
  <2>5. QED
    BY <2>1, <2>4, DagAssumption
<1>3. plan.phase = "scheduled" => DOMAIN chosen = Jobs
  BY SeenIsBefore DEF DagInv, PhaseInv, PlacedInv, IsPlanned
<1>4. QED
  BY <1>1, <1>2, <1>3 DEF EveryJobPlaced

LEMMA PlannedSoundly == ASSUME DagInv PROVE DagPlanIsSound
<1>1. ASSUME plan.phase = "scheduled", NEW w \in Workers PROVE workOn[w] <= makespan
  <2>1. workOn[w] <= makespan + 0
    BY <1>1 DEF DagInv, WorkInv
  <2>2. workOn[w] \in Nat /\ makespan \in Nat
    BY DEF DagInv, DagTypes
  <2>3. QED
    BY <2>1, <2>2
<1>2. QED
  BY <1>1, PlansAreLayered, RefusalsAreRight, PlacementsAreRight DEF DagPlanIsSound, MakespanCoversWork

-----------------------------------------------------------------------------
(* The steps                                                               *)

LEMMA DagInitInv == DagInit => DagInv
<1> SUFFICES ASSUME DagInit PROVE DagInv
  OBVIOUS
<1>1. plan = NoPlan /\ plan.phase = "idle" /\ ~IsPlanned(plan.phase)
  BY DEF DagInit, NoPlan, IsPlanned
<1>2. DOMAIN chosen = {}
  BY DEF DagInit
<1>3. Zero \in [Workers -> Nat]
  BY DEF Zero
<1>4. DagTypes
  <2>1. NoPlan \in [phase : DagPhases, strategy : Strategies \cup {""}, layer : Nat, todo : Seq(Jobs), rr : Nat]
    BY DEF NoPlan, DagPhases
  <2>2. parents \in [Jobs -> Seq(Nat)]
    BY DEF DagInit
  <2>3. indeg \in [Jobs -> Nat]
    BY DEF DagInit
  <2>4. layers \in Seq(Seq(Jobs))
    BY DEF DagInit
  <2>5. carried = Zero /\ busy = Zero /\ workOn = Zero /\ makespan \in Nat
    BY DEF DagInit
  <2>6. QED
    BY <1>1, <1>3, <2>1, <2>2, <2>3, <2>4, <2>5 DEF DagTypes
<1>5. LayersInv
  <2>1. ~(plan.phase = "layering" \/ IsPlanned(plan.phase))
    BY <1>1
  <2>2. QED
    BY <2>1 DEF LayersInv
<1>6. PhaseInv
  <2>1. plan.layer = 0 /\ plan.todo = <<>> /\ layers = <<>> /\ workOn = Zero /\ makespan = 0
    BY DEF DagInit, NoPlan
  <2>2. QED
    BY <1>1, <1>2, <2>1 DEF PhaseInv
<1>7. PlacedInv
  <2>1. plan.phase # "layer" /\ plan.phase \notin {"placing", "scheduled"} /\ plan.phase # "scheduled"
    BY <1>1
  <2>2. QED
    BY <1>2, <2>1 DEF PlacedInv
<1>8. WorkInv
  BY <1>1 DEF WorkInv, DagInit, Zero
<1>9. QED
  BY <1>4, <1>5, <1>6, <1>7, <1>8 DEF DagInv

(* Nothing was taken yet: every edge is still to be counted down.          *)
LEMMA SubmitStep ==
  ASSUME DagInv, NEW graph \in [Jobs -> ParentLists], NEW s \in Strategies,
         NEW loads \in [Workers -> WorkerLoads], Submit(graph, s, loads)
  PROVE  DagInv'
<1>1. /\ plan.phase = "idle" /\ parents' = graph /\ carried' = loads
      /\ indeg' = [j \in Jobs |-> Len(graph[j])] /\ frontier' = {j \in Jobs : graph[j] = <<>>}
      /\ layers' = layers /\ busy' = busy /\ chosen' = chosen /\ makespan' = makespan /\ workOn' = workOn
  BY DEF Submit
<1>2. PICK ph \in {"error", "layering"} :
        /\ plan' = [plan EXCEPT !.strategy = s, !.phase = ph]
        /\ ph = IF Unknown(graph) THEN "error" ELSE "layering"
  BY DEF Submit, Unknown
<1>3. graph \in [Jobs -> Seq(Nat)] /\ loads \in [Workers -> Nat]
  BY DagAssumption
<1>4. plan \in [phase : DagPhases, strategy : Strategies \cup {""}, layer : Nat, todo : Seq(Jobs), rr : Nat]
  BY DEF DagInv, DagTypes
<1>5. plan' \in [phase : DagPhases, strategy : Strategies \cup {""}, layer : Nat, todo : Seq(Jobs), rr : Nat]
  BY <1>2, <1>4 DEF DagPhases
<1>6. plan'.phase = ph /\ plan'.layer = plan.layer /\ plan'.todo = plan.todo
  BY <1>2, <1>4
<1>7. /\ ~IsPlanned(plan.phase) /\ ~IsPlanned(ph)
  BY <1>1, <1>2 DEF IsPlanned
<1>8. /\ layers = <<>> /\ plan.layer = 0 /\ plan.todo = <<>> /\ DOMAIN chosen = {}
      /\ workOn = Zero /\ makespan = 0
  BY <1>1, <1>7 DEF DagInv, PhaseInv
<1>9. DagTypes'
  <2>1. \A j \in Jobs : Len(graph[j]) \in Nat
    BY <1>3
  <2>2. indeg' \in [Jobs -> Nat]
    BY <1>1, <2>1
  <2>3. QED
    BY <1>1, <1>3, <1>5, <2>2 DEF DagInv, DagTypes
<1>10. LayersInv'
  <2>1. SUFFICES ASSUME ph = "layering"
                 PROVE  /\ ~Unknown(graph) /\ Layered(graph, layers')
                        /\ \A j \in Jobs : indeg'[j] = Edges(Nat \ Seen, j)'
                        /\ frontier' = Due(graph, layers', Len(layers') + 1)
    BY <1>1, <1>6, <1>7 DEF LayersInv
  <2>2. ~Unknown(graph)
    BY <1>2, <2>1
  <2>3. layers' = <<>> /\ Len(layers') = 0 /\ DOMAIN layers' = {}
    BY <1>1, <1>8
  <2>4. Layered(graph, layers')
    BY <2>3 DEF Layered
  <2>5. Seen' = {}
    BY <2>3 DEF Seen
  <2>6. ASSUME NEW j \in Jobs PROVE indeg'[j] = Edges(Nat \ Seen, j)'
    <3>1. PICK l \in Seq(Nat) : l = graph[j]
      BY <1>3
    <3>2. {i \in DOMAIN l : l[i] \in Nat \ {}} = 1 .. Len(l)
      OBVIOUS
    <3>3. Len(l) \in Nat
      OBVIOUS
    <3>4. Cardinality(1 .. Len(l)) = Len(l)
      <4>1. PICK n \in Nat : n = Len(l)
        BY <3>3
      <4>2. Cardinality(1 .. n) = n
        BY FS_Interval
      <4>3. QED
        BY <4>1, <4>2
    <3>5. Edges(Nat \ Seen, j)' = Cardinality({i \in DOMAIN l : l[i] \in Nat \ {}})
      BY <1>1, <2>5, <3>1 DEF Edges
    <3>6. QED
      BY <1>1, <3>1, <3>2, <3>4, <3>5
  <2>7. frontier' = Due(graph, layers', Len(layers') + 1)
    <3>1. Before(layers', Len(layers') + 1) = {}
      BY <2>3 DEF Before
    <3>2. ASSUME NEW j \in Jobs PROVE graph[j] = <<>> <=> ToSet(graph[j]) = {}
      <4>1. PICK l \in Seq(Nat) : l = graph[j]
        BY <1>3
      <4>2. l = <<>> <=> DOMAIN l = {}
        OBVIOUS
      <4>3. QED
        BY <4>1, <4>2 DEF ToSet
    <3>3. QED
      BY <1>1, <3>1, <3>2 DEF Due
  <2>8. QED
    BY <2>2, <2>4, <2>6, <2>7
<1>11. PhaseInv'
  BY <1>1, <1>2, <1>6, <1>7, <1>8 DEF PhaseInv
<1>12. PlacedInv'
  BY <1>1, <1>2, <1>6, <1>8 DEF PlacedInv
<1>13. WorkInv'
  BY <1>1, <1>2, <1>6, <1>8 DEF WorkInv, Zero
<1>14. QED
  BY <1>9, <1>10, <1>11, <1>12, <1>13 DEF DagInv

(* An edge out of the frontier is one of those not counted down yet, and   *)
(* a job's last edge is counted down when its last parent is taken.        *)
LEMMA EdgesCountedDown ==
  ASSUME NEW S \in SUBSET Jobs, NEW F \in SUBSET Jobs, F \cap S = {}, NEW j \in Jobs, DagTypes
  PROVE  /\ Edges(Nat \ S, j) \in Nat
         /\ Edges(Nat \ (S \cup F), j) = Edges(Nat \ S, j) - Edges(F, j)
         /\ Edges(Nat \ S, j) = 0 <=> ToSet(parents[j]) \subseteq S
<1>1. PICK l \in Seq(Nat) : l = parents[j]
  BY DEF DagTypes
<1>2. PICK A, B : A = {i \in DOMAIN l : l[i] \in Nat \ S} /\ B = {i \in DOMAIN l : l[i] \in F}
  OBVIOUS
<1>3. IsFiniteSet(DOMAIN l)
  <2>1. DOMAIN l = 1 .. Len(l) /\ Len(l) \in Nat
    OBVIOUS
  <2>2. QED
    BY <2>1, FS_Interval
<1>4. IsFiniteSet(A)
  <2>1. A \in SUBSET DOMAIN l
    BY <1>2
  <2>2. QED
    BY <1>3, <2>1, FS_Subset
<1>5. F \subseteq Nat
  BY DagAssumption
<1>6. A \cap B = B
  BY <1>2, <1>5
<1>7. A \ B = {i \in DOMAIN l : l[i] \in Nat \ (S \cup F)}
  BY <1>2
<1>8. Cardinality(A \ B) = Cardinality(A) - Cardinality(B)
  BY <1>4, <1>6, FS_Difference
<1>9. Cardinality(A) \in Nat
  BY <1>4, FS_CardinalityType
<1>10. Cardinality(A) = 0 <=> A = {}
  BY <1>4, FS_EmptySet
<1>11. A = {} <=> ToSet(l) \subseteq S
  BY <1>2 DEF ToSet
<1>12. /\ Edges(Nat \ S, j) = Cardinality(A) /\ Edges(F, j) = Cardinality(B)
       /\ Edges(Nat \ (S \cup F), j) = Cardinality(A \ B)
  BY <1>1, <1>2, <1>7 DEF Edges
<1>13. QED
  BY <1>1, <1>8, <1>9, <1>10, <1>11, <1>12

LEMMA TakeLayerStep == ASSUME DagInv, TakeLayer PROVE DagInv'
<1>0. PICK left : left = [j \in Jobs |-> indeg[j] - Edges(frontier, j)]
  OBVIOUS
<1>1. /\ plan.phase = "layering" /\ layers' = Append(layers, Sorted(frontier)) /\ indeg' = left
      /\ frontier' = Released(left)
      /\ plan' = plan /\ parents' = parents /\ carried' = carried /\ busy' = busy /\ chosen' = chosen
      /\ makespan' = makespan /\ workOn' = workOn
  BY <1>0 DEF TakeLayer
<1>2. DagTypes /\ layers \in Seq(Seq(Jobs)) /\ indeg \in [Jobs -> Nat]
  BY DEF DagInv, DagTypes
<1>3. PICK n \in Nat : n = Len(layers)
  BY <1>2
<1>4. /\ ~Unknown(parents) /\ Layered(parents, layers) /\ frontier = Due(parents, layers, n + 1)
      /\ \A j \in Jobs : indeg[j] = Edges(Nat \ Seen, j)
  BY <1>1, <1>3 DEF DagInv, LayersInv
<1>5. PICK S \in SUBSET Jobs : S = Seen /\ S = Before(layers, n + 1)
  <2>1. Seen = Before(layers, n + 1)
    BY <1>2, <1>3, SeenIsBefore
  <2>2. n + 1 \in 1 .. Len(layers) + 1
    BY <1>3
  <2>3. Before(layers, n + 1) \subseteq Jobs
    BY <1>2, <2>2, BeforeIs
  <2>4. QED
    BY <2>1, <2>3
<1>6. frontier \in SUBSET Jobs /\ frontier \cap S = {}
  BY <1>4, <1>5 DEF Due
<1>7. PICK l \in Seq(Jobs) : l = Sorted(frontier) /\ ToSet(l) = frontier
  <2>1. frontier \in SUBSET Nat /\ IsFiniteSet(frontier)
    BY <1>6, DagAssumption, FS_Subset
  <2>2. Sorted(frontier) \in Seq(frontier) /\ ToSet(Sorted(frontier)) = frontier
    BY <2>1, SortedIs
  <2>3. Seq(frontier) \subseteq Seq(Jobs)
    BY <1>6
  <2>4. QED
    BY <2>2, <2>3
<1>8. PICK ls \in Seq(Seq(Jobs)) : ls = layers' /\ ls = Append(layers, l)
  <2>1. Append(layers, l) \in Seq(Seq(Jobs))
    BY <1>2
  <2>2. layers' = Append(layers, l)
    BY <1>1, <1>7
  <2>3. QED
    BY <2>1, <2>2
<1>9. /\ Len(ls) = n + 1 /\ DOMAIN ls = 1 .. n + 1 /\ ls[n + 1] = l
      /\ \A i \in 1 .. n : ls[i] = layers[i] /\ i \in DOMAIN layers
  BY <1>2, <1>3, <1>8
<1>10. \A i \in 1 .. n + 1 : Before(ls, i) = Before(layers, i)
  <2>1. ASSUME NEW i \in 1 .. n + 1 PROVE Before(ls, i) = Before(layers, i)
    <3>1. i \in 1 .. Len(layers) + 1
      BY <1>3
    <3>2. Before(Append(layers, l), i) = Before(layers, i)
      BY <1>2, <3>1, BeforeAppended
    <3>3. QED
      BY <1>8, <3>2
  <2>2. QED
    BY <2>1
<1>11. PICK S2 : S2 = S \cup frontier /\ S2 = Before(ls, n + 2)
  <2>1. n + 1 \in 1 .. Len(ls) /\ (n + 1) + 1 = n + 2
    BY <1>9
  <2>2. Before(ls, n + 2) = Before(ls, n + 1) \cup ToSet(ls[n + 1])
    BY <2>1, BeforeSteps
  <2>3. Before(ls, n + 1) = S
    BY <1>5, <1>10
  <2>4. QED
    BY <1>7, <1>9, <2>2, <2>3
<1>12. ASSUME NEW j \in Jobs
       PROVE  /\ indeg[j] \in Nat /\ left[j] = Edges(Nat \ S2, j) /\ left[j] \in Nat
              /\ indeg[j] = 0 <=> ToSet(parents[j]) \subseteq S
              /\ left[j] = 0 <=> ToSet(parents[j]) \subseteq S2
  <2>1. /\ Edges(Nat \ S, j) \in Nat /\ Edges(Nat \ (S \cup frontier), j) = Edges(Nat \ S, j) - Edges(frontier, j)
        /\ Edges(Nat \ S, j) = 0 <=> ToSet(parents[j]) \subseteq S
    BY <1>2, <1>6, EdgesCountedDown, ZenonT(30)
  <2>2. S2 \in SUBSET Jobs /\ {} \in SUBSET Jobs /\ {} \cap S2 = {}
    BY <1>6, <1>11
  <2>3. Edges(Nat \ S2, j) \in Nat /\ (Edges(Nat \ S2, j) = 0 <=> ToSet(parents[j]) \subseteq S2)
    BY <1>2, <2>2, EdgesCountedDown
  <2>4. left[j] = indeg[j] - Edges(frontier, j) /\ indeg[j] = Edges(Nat \ S, j)
    BY <1>0, <1>4, <1>5
  <2>5. QED
    BY <1>11, <2>1, <2>3, <2>4
<1>13. DagTypes'
  <2>1. left \in [Jobs -> Nat]
    BY <1>0, <1>12
  <2>2. QED
    BY <1>1, <1>2, <1>8, <2>1 DEF DagTypes
<1>14. Seen' = S2
  <2>1. Seen' = UNION {ToSet(ls[i]) : i \in DOMAIN ls}
    BY <1>8 DEF Seen
  <2>2. DOMAIN ls = 1 .. (n + 2) - 1
    BY <1>9
  <2>3. QED
    BY <1>11, <2>1, <2>2 DEF Before
<1>15. Layered(parents, ls)
  <2>1. ASSUME NEW i \in DOMAIN ls PROVE ToSet(ls[i]) = Due(parents, ls, i)
    <3>0. Due(parents, ls, i) = Due(parents, layers, i)
      BY <1>9, <1>10 DEF Due
    <3>1. CASE i \in 1 .. n
      BY <1>4, <1>9, <3>0, <3>1 DEF Layered
    <3>2. CASE i = n + 1
      BY <1>4, <1>7, <1>9, <3>0, <3>2
    <3>3. QED
      BY <1>9, <3>1, <3>2
  <2>2. QED
    BY <2>1 DEF Layered
<1>16. frontier' = Due(parents, ls, n + 2)
  <2>1. \A j \in S : ToSet(parents[j]) \subseteq S
    <3>1. n + 1 \in 1 .. Len(layers) + 1
      BY <1>3
    <3>2. QED
      BY <1>2, <1>4, <1>5, <3>1, BeforeIsClosed
  <2>2. frontier' = {j \in Jobs : left[j] = 0 /\ indeg[j] > 0}
    BY <1>1 DEF Released
  <2>3. Due(parents, ls, n + 2) = {j \in Jobs \ S2 : ToSet(parents[j]) \subseteq S2}
    BY <1>11 DEF Due
  <2>4. ASSUME NEW j \in Jobs
        PROVE  (left[j] = 0 /\ indeg[j] > 0) <=> (j \notin S2 /\ ToSet(parents[j]) \subseteq S2)
    <3>1. indeg[j] > 0 <=> ~(ToSet(parents[j]) \subseteq S)
      BY <1>12
    <3>2. j \in frontier <=> (j \notin S /\ ToSet(parents[j]) \subseteq S)
      BY <1>4, <1>5 DEF Due
    <3>3. left[j] = 0 <=> ToSet(parents[j]) \subseteq S2
      BY <1>12
    <3>4. QED
      BY <1>11, <2>1, <3>1, <3>2, <3>3
  <2>5. QED
    BY <2>2, <2>3, <2>4
<1>17. LayersInv'
  <2>1. \A j \in Jobs : indeg'[j] = Edges(Nat \ Seen, j)'
    <3>1. \A j \in Jobs : Edges(Nat \ Seen, j)' = Edges(Nat \ S2, j)
      BY <1>1, <1>14 DEF Edges
    <3>2. QED
      BY <1>1, <1>12, <3>1
  <2>2. Len(layers') + 1 = n + 2
    BY <1>3, <1>8, <1>9
  <2>3. QED
    BY <1>1, <1>4, <1>8, <1>15, <1>16, <2>1, <2>2 DEF LayersInv
<1>18. ~IsPlanned(plan.phase)
  BY <1>1 DEF IsPlanned
<1>19. PhaseInv'
  BY <1>1, <1>18 DEF DagInv, PhaseInv
<1>20. DOMAIN chosen = {}
  BY <1>18 DEF DagInv, PhaseInv
<1>21. PlacedInv'
  BY <1>1, <1>20 DEF PlacedInv
<1>22. WorkInv'
  BY <1>1 DEF DagInv, WorkInv
<1>23. QED
  BY <1>13, <1>17, <1>19, <1>21, <1>22 DEF DagInv

(* An empty frontier: what is left waits for each other.                   *)
LEMMA LayeringEndsStep == ASSUME DagInv, LayeringEnds PROVE DagInv'
<1>1. PICK ph \in {"placing", "error"} :
        /\ plan' = [plan EXCEPT !.phase = ph] /\ ph = IF Seen = Jobs THEN "placing" ELSE "error"
  BY DEF LayeringEnds, Complete
<1>2. /\ plan.phase = "layering" /\ frontier = {}
      /\ parents' = parents /\ indeg' = indeg /\ frontier' = frontier /\ layers' = layers
      /\ carried' = carried /\ busy' = busy /\ chosen' = chosen /\ makespan' = makespan /\ workOn' = workOn
  BY DEF LayeringEnds
<1>3. plan \in [phase : DagPhases, strategy : Strategies \cup {""}, layer : Nat, todo : Seq(Jobs), rr : Nat]
  BY DEF DagInv, DagTypes
<1>4. plan' \in [phase : DagPhases, strategy : Strategies \cup {""}, layer : Nat, todo : Seq(Jobs), rr : Nat]
  BY <1>1, <1>3 DEF DagPhases
<1>5. plan'.phase = ph /\ plan'.layer = plan.layer /\ plan'.todo = plan.todo
  BY <1>1, <1>3
<1>6. ~IsPlanned(plan.phase)
  BY <1>2 DEF IsPlanned
<1>7. /\ plan.layer = 0 /\ plan.todo = <<>> /\ DOMAIN chosen = {}
      /\ workOn = Zero /\ makespan = 0
  BY <1>2, <1>6 DEF DagInv, PhaseInv
<1>8. /\ ~Unknown(parents) /\ Layered(parents, layers)
      /\ \A j \in Jobs : indeg[j] = Edges(Nat \ Seen, j)
      /\ frontier = Due(parents, layers, Len(layers) + 1)
  BY <1>2 DEF DagInv, LayersInv
<1>9. DagTypes'
  BY <1>2, <1>4 DEF DagInv, DagTypes
<1>10. Seen' = Seen
  BY <1>2 DEF Seen
<1>11. LayersInv'
  BY <1>2, <1>8, <1>10 DEF LayersInv, Edges
<1>12. ASSUME Seen # Jobs PROVE Stuck(parents)
  <2>1. PICK S : S = Seen /\ S = Before(layers, Len(layers) + 1)
    BY SeenIsBefore DEF DagInv
  <2>2. S \subseteq Jobs
    <3>0. layers \in Seq(Seq(Jobs))
      BY DEF DagInv, DagTypes
    <3>1. layers \in Seq(Seq(Jobs)) /\ Len(layers) + 1 \in 1 .. Len(layers) + 1
      BY <3>0
    <3>2. QED
      BY <2>1, <3>1, BeforeIs
  <2>3. Jobs \ S \in (SUBSET Jobs) \ {{}}
    BY <1>12, <2>1, <2>2
  <2>4. ASSUME NEW j \in Jobs \ S PROVE \E p \in Jobs \ S : p \in ToSet(parents[j])
    <3>1. ~(ToSet(parents[j]) \subseteq S)
      BY <1>2, <1>8, <2>1 DEF Due
    <3>2. ToSet(parents[j]) \subseteq Jobs
      BY <1>8 DEF Unknown
    <3>3. QED
      BY <3>1, <3>2
  <2>5. QED
    BY <2>3, <2>4 DEF Stuck
<1>13. PhaseInv'
  <2>1. ph = "error" => Stuck(parents)
    BY <1>1, <1>12
  <2>2. ph = "placing" => Seen = Jobs
    BY <1>1
  <2>3. ph # "idle"
    BY <1>1
  <2>4. IsPlanned(ph) => Seen = Jobs
    BY <1>1, <2>2 DEF IsPlanned
  <2>5. QED
    BY <1>2, <1>5, <1>7, <1>10, <2>1, <2>3, <2>4 DEF PhaseInv
<1>14. PlacedInv'
  <2>1. plan'.phase # "layer" /\ plan'.phase # "scheduled"
    BY <1>1, <1>5
  <2>2. Len(layers') \in Nat
    <3>1. layers \in Seq(Seq(Jobs))
      BY DEF DagInv, DagTypes
    <3>2. QED
      BY <1>2, <3>1
  <2>3. Before(layers', plan'.layer + 1) = {}
    BY <1>5, <1>7 DEF Before
  <2>4. QED
    BY <1>2, <1>5, <1>7, <2>1, <2>2, <2>3 DEF PlacedInv
<1>15. WorkInv'
  BY <1>1, <1>2, <1>5, <1>7 DEF WorkInv, Zero
<1>16. QED
  BY <1>9, <1>11, <1>13, <1>14, <1>15 DEF DagInv

LEMMA BeginLayerStep == ASSUME DagInv, BeginLayer PROVE DagInv'
<1>1. /\ plan.phase = "placing" /\ plan.todo = <<>> /\ plan.layer < Len(layers)
      /\ plan' = [plan EXCEPT !.layer = @ + 1, !.todo = layers[plan.layer + 1], !.phase = "layer"]
      /\ busy' = [w \in Workers |-> carried[w] * QueueMs]
      /\ parents' = parents /\ indeg' = indeg /\ frontier' = frontier /\ layers' = layers
      /\ carried' = carried /\ chosen' = chosen /\ makespan' = makespan /\ workOn' = workOn
  BY DEF BeginLayer
<1>2. DagTypes /\ layers \in Seq(Seq(Jobs)) /\ carried \in [Workers -> Nat] /\ plan.layer \in Nat
  BY DEF DagInv, DagTypes
<1>3. plan \in [phase : DagPhases, strategy : Strategies \cup {""}, layer : Nat, todo : Seq(Jobs), rr : Nat]
  BY <1>2 DEF DagTypes
<1>4. PICK i \in 1 .. Len(layers) : i = plan.layer + 1 /\ i \in DOMAIN layers
  BY <1>1, <1>2
<1>5. layers[i] \in Seq(Jobs) /\ i \in Nat
  BY <1>2, <1>4
<1>6. plan' = [plan EXCEPT !.layer = i, !.todo = layers[i], !.phase = "layer"]
  BY <1>1, <1>3, <1>4
<1>7. plan' \in [phase : DagPhases, strategy : Strategies \cup {""}, layer : Nat, todo : Seq(Jobs), rr : Nat]
  BY <1>3, <1>5, <1>6 DEF DagPhases
<1>8. plan'.phase = "layer" /\ plan'.layer = i /\ plan'.todo = layers[i]
  BY <1>3, <1>6
<1>9. IsPlanned(plan.phase) /\ IsPlanned(plan'.phase)
  BY <1>1, <1>8 DEF IsPlanned
<1>10. busy' \in [Workers -> Nat]
  <2>1. \A w \in Workers : carried[w] * QueueMs \in Nat
    BY <1>2, DagAssumption
  <2>2. QED
    BY <1>1, <2>1
<1>11. DagTypes'
  BY <1>1, <1>2, <1>7, <1>10 DEF DagTypes
<1>12. Seen' = Seen
  BY <1>1 DEF Seen
<1>13. LayersInv'
  BY <1>1, <1>9, <1>12 DEF DagInv, LayersInv, Edges
<1>14. PhaseInv'
  BY <1>1, <1>8, <1>9, <1>12 DEF DagInv, PhaseInv
<1>15. PlacedInv'
  <2>1. DOMAIN chosen = Before(layers, i) /\ \A j \in DOMAIN chosen : chosen[j] \in EligibleWorkers
    BY <1>1, <1>4 DEF DagInv, PlacedInv
  <2>2. Before(layers, i + 1) = Before(layers, i) \cup ToSet(layers[i])
    BY <1>2, BeforeSteps
  <2>3. EligibleWorkers' = EligibleWorkers
    BY <1>1 DEF EligibleWorkers
  <2>4. QED
    BY <1>1, <1>4, <1>8, <2>1, <2>2, <2>3 DEF PlacedInv
<1>16. WorkInv'
  <2>1. ASSUME NEW w \in Workers PROVE workOn[w] <= makespan + busy'[w]
    <3>1. workOn[w] <= makespan + 0
      BY <1>1 DEF DagInv, WorkInv
    <3>2. workOn[w] \in Nat /\ makespan \in Nat
      BY <1>2 DEF DagTypes
    <3>3. busy'[w] \in Nat
      BY <1>10
    <3>4. QED
      BY <3>1, <3>2, <3>3
  <2>2. QED
    BY <1>1, <1>8, <2>1 DEF WorkInv
<1>17. QED
  BY <1>11, <1>13, <1>14, <1>15, <1>16 DEF DagInv

LEMMA EligibleIs ==
  EligibleWorkers \in SUBSET Nat /\ EligibleWorkers \subseteq Workers /\ IsFiniteSet(EligibleWorkers)
  /\ EligibleWorkers # {}
<1>1. EligibleWorkers \in SUBSET Workers /\ EligibleWorkers # {}
  BY DagAssumption DEF EligibleWorkers
<1>2. IsFiniteSet(EligibleWorkers)
  BY <1>1, DagAssumption, FS_Subset
<1>3. QED
  BY <1>1, <1>2, DagAssumption

LEMMA WorkIsNat == ASSUME NEW c \in Int PROVE Work(c) \in Nat
<1>1. Max({0, JobBlocks - c}) \in Nat
  <2>1. 0 \in Int /\ JobBlocks - c \in Int
    BY DagAssumption
  <2>2. Max({0, JobBlocks - c}) = IF 0 >= JobBlocks - c THEN 0 ELSE JobBlocks - c
    BY <2>1, MinMaxOfTwo
  <2>3. QED
    BY <2>1, <2>2
<1>2. PICK m \in Nat : m = Max({0, JobBlocks - c})
  BY <1>1
<1>3. JobBlockMs * m \in Nat
  BY DagAssumption
<1>4. QED
  BY <1>2, <1>3 DEF Work

(* The first minimum exists: a bonus may make a finish negative, but only  *)
(* by as much as the bonus.                                                *)
LEMMA BestWorkerIs ==
  ASSUME DagTypes, NEW j, NEW cached \in [Workers -> 0 .. JobBlocks]
  PROVE  BestWorker(j, cached) \in EligibleWorkers
<1>1. PICK family : family = {chosen[p] : p \in ToSet(parents[j]) \cap DOMAIN chosen}
  OBVIOUS
<1> DEFINE bonus(w) == IF w \in family THEN ParentBonus ELSE 0
           finish(w) == busy[w] + Work(cached[w]) - bonus(w)
           Leads(w) == \A v \in EligibleWorkers : finish(w) < finish(v) \/ (finish(w) = finish(v) /\ w <= v)
<1>2. ASSUME NEW w \in Workers PROVE finish(w) \in Int /\ finish(w) + ParentBonus \in Nat
  <2>1. busy[w] \in Nat
    BY DEF DagTypes
  <2>2. cached[w] \in Int
    BY DagAssumption
  <2>3. Work(cached[w]) \in Nat
    BY <2>2, WorkIsNat
  <2>4. bonus(w) \in Nat /\ bonus(w) <= ParentBonus /\ ParentBonus \in Nat
    BY DagAssumption
  <2> HIDE DEF bonus
  <2>5. QED
    BY <2>1, <2>3, <2>4
<1>3. PICK E \in SUBSET Nat : E = EligibleWorkers /\ E # {} /\ E \subseteq Workers
  BY EligibleIs
<1> HIDE DEF finish
<1>4. PICK T \in SUBSET Nat : T = {finish(w) + ParentBonus : w \in E} /\ T # {}
  <2>1. {finish(w) + ParentBonus : w \in E} \in SUBSET Nat /\ {finish(w) + ParentBonus : w \in E} # {}
    BY <1>2, <1>3
  <2>2. QED
    BY <2>1
<1>5. PICK x \in T : \A y \in T : x <= y
  BY <1>4, LeastNat
<1>6. PICK M \in SUBSET Nat : M = {w \in E : finish(w) + ParentBonus = x} /\ M # {}
  <2>1. {w \in E : finish(w) + ParentBonus = x} \in SUBSET Nat /\ {w \in E : finish(w) + ParentBonus = x} # {}
    BY <1>4, <1>5
  <2>2. QED
    BY <2>1
<1>7. PICK b \in M : \A y \in M : b <= y
  BY <1>6, LeastNat
<1>8. Leads(b)
  <2>1. ASSUME NEW v \in E PROVE finish(b) < finish(v) \/ (finish(b) = finish(v) /\ b <= v)
    <3>1. b \in E /\ finish(b) + ParentBonus = x /\ finish(v) + ParentBonus \in T
      BY <1>4, <1>6, <1>7
    <3>2. finish(b) \in Int /\ finish(v) \in Int /\ ParentBonus \in Int
      BY <1>2, <1>3, <3>1, DagAssumption
    <3>3. x <= finish(v) + ParentBonus
      BY <1>5, <3>1
    <3>4. CASE finish(v) + ParentBonus = x
      <4>1. v \in M
        BY <1>6, <3>4
      <4>2. QED
        BY <1>7, <3>1, <3>2, <3>4, <4>1
    <3>5. CASE finish(v) + ParentBonus # x
      BY <3>1, <3>2, <3>3, <3>5
    <3>6. QED
      BY <3>4, <3>5
  <2>2. QED
    BY <1>3, <2>1
<1>9. BestWorker(j, cached) = CHOOSE w \in EligibleWorkers : Leads(w)
  BY <1>1 DEF BestWorker, finish
<1> HIDE DEF Leads
<1>10. b \in EligibleWorkers
  BY <1>3, <1>6, <1>7
<1>11. QED
  BY <1>8, <1>9, <1>10

LEMMA PlaceJobStep ==
  ASSUME DagInv, NEW cached \in [Workers -> 0 .. JobBlocks], PlaceJob(cached)
  PROVE  DagInv'
<1>0. DagTypes /\ layers \in Seq(Seq(Jobs)) /\ busy \in [Workers -> Nat] /\ workOn \in [Workers -> Nat]
  BY DEF DagInv, DagTypes
<1>1. plan \in [phase : DagPhases, strategy : Strategies \cup {""}, layer : Nat, todo : Seq(Jobs), rr : Nat]
  BY <1>0 DEF DagTypes
<1>2. PICK todo \in Seq(Jobs) : todo = plan.todo /\ todo # <<>>
  BY <1>1 DEF PlaceJob
<1>3. PICK w : w = IF plan.strategy = "round_robin"
                   THEN Sorted(EligibleWorkers)[(plan.rr % Len(Sorted(EligibleWorkers))) + 1]
                   ELSE BestWorker(todo[1], cached)
  OBVIOUS
<1>4. PICK rr \in Nat : rr = IF plan.strategy = "round_robin" THEN plan.rr + 1 ELSE plan.rr
  <2>0. PICK k \in Nat : k = plan.rr
    BY <1>1, Zenon
  <2>1. plan.rr \in Nat /\ plan.rr + 1 \in Nat
    BY <2>0
  <2>2. (IF plan.strategy = "round_robin" THEN plan.rr + 1 ELSE plan.rr) \in Nat
    BY <2>1
  <2>3. QED
    BY <2>2
<1>5. PICK j \in Jobs : j = todo[1]
  BY <1>2
<1>6. /\ plan.phase = "layer"
      /\ plan' = [plan EXCEPT !.todo = Tail(todo), !.rr = rr]
      /\ chosen' = [i \in DOMAIN chosen \cup {j} |-> IF i = j THEN w ELSE chosen[i]]
      /\ busy' = [busy EXCEPT ![w] = @ + Work(cached[w])]
      /\ workOn' = [workOn EXCEPT ![w] = @ + Work(cached[w])]
  BY <1>2, <1>3, <1>4, <1>5 DEF PlaceJob
<1>7. /\ parents' = parents /\ indeg' = indeg /\ frontier' = frontier /\ layers' = layers
      /\ carried' = carried /\ makespan' = makespan
  BY DEF PlaceJob
<1>8. w \in EligibleWorkers /\ w \in Workers
  <2>1. CASE plan.strategy = "round_robin"
    <3>1. PICK turn : turn = Sorted(EligibleWorkers)
      OBVIOUS
    <3>2. turn \in Seq(EligibleWorkers) /\ ToSet(turn) = EligibleWorkers
      BY <3>1, EligibleIs, SortedIs
    <3>3. turn # <<>>
      BY <3>2, EligibleIs DEF ToSet
    <3>4. PICK n \in Nat \ {0} : n = Len(turn) /\ DOMAIN turn = 1 .. n
      BY <3>2, <3>3
    <3>5. PICK k \in Nat : k = plan.rr
      BY <1>1
    <3>6. (k % n) + 1 \in 1 .. n
      OBVIOUS
    <3>7. w = turn[(k % n) + 1]
      BY <1>3, <2>1, <3>1, <3>4, <3>5
    <3>8. w \in EligibleWorkers
      BY <3>2, <3>4, <3>6, <3>7
    <3>9. QED
      BY <3>8, EligibleIs
  <2>2. CASE plan.strategy # "round_robin"
    <3>1. w = BestWorker(todo[1], cached)
      BY <1>3, <2>2
    <3>2. w \in EligibleWorkers
      BY <1>0, <3>1, BestWorkerIs
    <3>3. QED
      BY <3>2, EligibleIs
  <2>3. QED
    BY <2>1, <2>2
<1>9. PICK cost \in Nat : cost = Work(cached[w])
  <2>1. cached[w] \in Int
    BY <1>8, DagAssumption
  <2>2. QED
    BY <2>1, WorkIsNat
<1>10. /\ Tail(todo) \in Seq(Jobs) /\ ToSet(todo) = {j} \cup ToSet(Tail(todo))
  <2>1. Tail(todo) \in Seq(Jobs) /\ Len(todo) \in Nat \ {0} /\ DOMAIN todo = 1 .. Len(todo)
    BY <1>2
  <2>2. PICK n \in Nat \ {0} : n = Len(todo) /\ DOMAIN todo = 1 .. n
    BY <2>1
  <2>3. DOMAIN Tail(todo) = 1 .. n - 1 /\ \A i \in 1 .. n - 1 : Tail(todo)[i] = todo[i + 1]
    BY <1>2, <2>2
  <2>4. ASSUME NEW i \in 1 .. n PROVE todo[i] \in {j} \cup ToSet(Tail(todo))
    <3>1. CASE i = 1
      BY <1>5, <3>1
    <3>2. CASE i # 1
      <4>1. i - 1 \in 1 .. n - 1 /\ (i - 1) + 1 = i
        BY <3>2
      <4>2. Tail(todo)[i - 1] = todo[i]
        BY <2>3, <4>1
      <4>3. QED
        BY <2>3, <4>1, <4>2 DEF ToSet
    <3>3. QED
      BY <3>1, <3>2
  <2>5. ASSUME NEW i \in 1 .. n - 1 PROVE Tail(todo)[i] \in ToSet(todo)
    <3>1. i + 1 \in DOMAIN todo
      BY <2>2
    <3>2. QED
      BY <2>3, <3>1 DEF ToSet
  <2>6. j \in ToSet(todo)
    BY <1>5, <2>2 DEF ToSet
  <2>7. QED
    BY <2>1, <2>2, <2>3, <2>4, <2>5, <2>6 DEF ToSet
<1>11. plan' \in [phase : DagPhases, strategy : Strategies \cup {""}, layer : Nat, todo : Seq(Jobs), rr : Nat]
  BY <1>1, <1>6, <1>10
<1>12. plan'.phase = "layer" /\ plan'.layer = plan.layer /\ plan'.todo = Tail(todo)
  BY <1>1, <1>6
<1>13. /\ busy' = [busy EXCEPT ![w] = @ + cost] /\ workOn' = [workOn EXCEPT ![w] = @ + cost]
       /\ busy' \in [Workers -> Nat] /\ workOn' \in [Workers -> Nat]
  <2>1. busy' = [busy EXCEPT ![w] = @ + cost] /\ workOn' = [workOn EXCEPT ![w] = @ + cost]
    BY <1>6, <1>9
  <2>2. QED
    BY <1>0, <1>8, <2>1
<1>14. DagTypes'
  BY <1>0, <1>7, <1>11, <1>13 DEF DagTypes
<1>15. Seen' = Seen
  BY <1>7 DEF Seen
<1>16. IsPlanned(plan.phase)
  BY <1>6 DEF IsPlanned
<1>17. LayersInv'
  BY <1>6, <1>7, <1>12, <1>15, <1>16 DEF DagInv, LayersInv, Edges
<1>18. PhaseInv'
  BY <1>6, <1>7, <1>12, <1>15, <1>16 DEF DagInv, PhaseInv
<1>19. PlacedInv'
  <2>1. PICK i : i = plan.layer
    OBVIOUS
  <2>2. /\ i \in DOMAIN layers /\ ToSet(todo) \subseteq ToSet(layers[i])
        /\ Before(layers, i) \subseteq DOMAIN chosen
        /\ DOMAIN chosen \subseteq Before(layers, i + 1)
        /\ Before(layers, i + 1) \subseteq DOMAIN chosen \cup ToSet(todo)
        /\ \A p \in DOMAIN chosen : chosen[p] \in EligibleWorkers
    BY <1>2, <1>6, <2>1 DEF DagInv, PlacedInv
  <2>3. Before(layers, i + 1) = Before(layers, i) \cup ToSet(layers[i])
    <3>1. i \in 1 .. Len(layers)
      BY <1>0, <2>2
    <3>2. QED
      BY <1>0, <3>1, BeforeSteps
  <2>4. EligibleWorkers' = EligibleWorkers
    BY <1>7 DEF EligibleWorkers
  <2>5. DOMAIN chosen' = DOMAIN chosen \cup {j} /\ \A p \in DOMAIN chosen' : chosen'[p] \in EligibleWorkers
    BY <1>6, <1>8, <2>2
  <2>6. QED
    BY <1>7, <1>10, <1>12, <2>1, <2>2, <2>3, <2>4, <2>5 DEF PlacedInv
<1>20. WorkInv'
  <2>1. ASSUME NEW v \in Workers PROVE workOn'[v] <= makespan + busy'[v]
    <3>1. workOn[v] <= makespan + busy[v]
      BY <1>6 DEF DagInv, WorkInv
    <3>2. workOn[v] \in Nat /\ makespan \in Nat /\ busy[v] \in Nat
      BY <1>0 DEF DagTypes
    <3>3. CASE v = w
      <4>1. workOn'[v] = workOn[v] + cost /\ busy'[v] = busy[v] + cost
        BY <1>0, <1>13, <3>3
      <4>2. QED
        BY <3>1, <3>2, <4>1
    <3>4. CASE v # w
      <4>1. workOn'[v] = workOn[v] /\ busy'[v] = busy[v]
        BY <1>0, <1>13, <3>4
      <4>2. QED
        BY <3>1, <4>1
    <3>5. QED
      BY <3>3, <3>4
  <2>2. QED
    BY <1>7, <1>12, <2>1 DEF WorkInv
<1>21. QED
  BY <1>14, <1>17, <1>18, <1>19, <1>20 DEF DagInv

LEMMA EndLayerStep == ASSUME DagInv, EndLayer PROVE DagInv'
<1>1. /\ plan.phase = "layer" /\ plan.todo = <<>> /\ makespan' = makespan + LayerTime
      /\ parents' = parents /\ indeg' = indeg /\ frontier' = frontier /\ layers' = layers
      /\ carried' = carried /\ busy' = busy /\ chosen' = chosen /\ workOn' = workOn
  BY DEF EndLayer
<1>2. PICK ph \in {"placing", "scheduled"} :
        /\ plan' = [plan EXCEPT !.phase = ph] /\ ph = IF plan.layer = Len(layers) THEN "scheduled" ELSE "placing"
  BY DEF EndLayer
<1>3. DagTypes /\ layers \in Seq(Seq(Jobs)) /\ busy \in [Workers -> Nat] /\ workOn \in [Workers -> Nat]
      /\ makespan \in Nat
  BY DEF DagInv, DagTypes
<1>4. plan \in [phase : DagPhases, strategy : Strategies \cup {""}, layer : Nat, todo : Seq(Jobs), rr : Nat]
  BY <1>3 DEF DagTypes
<1>5. plan' \in [phase : DagPhases, strategy : Strategies \cup {""}, layer : Nat, todo : Seq(Jobs), rr : Nat]
  BY <1>2, <1>4 DEF DagPhases
<1>6. plan'.phase = ph /\ plan'.layer = plan.layer /\ plan'.todo = <<>>
  BY <1>1, <1>2, <1>4
<1>7. IsPlanned(plan.phase) /\ IsPlanned(ph)
  BY <1>1, <1>2 DEF IsPlanned
<1>8. LayerTime \in Nat /\ \A w \in Workers : busy[w] <= LayerTime
  <2>1. PICK T : T = {busy[w] : w \in Workers}
    OBVIOUS
  <2>2. T \in SUBSET Nat /\ T # {}
    BY <1>3, <2>1, DagAssumption
  <2>3. IsFiniteSet(T)
    <3>1. busy \in Surjection(Workers, T)
      BY <1>3, <2>1 DEF Surjection
    <3>2. QED
      BY <3>1, DagAssumption, FS_Surjection
  <2>4. Max(T) \in T /\ \A y \in T : y <= Max(T)
    BY <2>2, <2>3, FiniteHasGreatest
  <2>5. LayerTime = Max(T)
    BY <2>1 DEF LayerTime
  <2>6. QED
    BY <2>1, <2>2, <2>4, <2>5
<1>9. DagTypes'
  <2>1. makespan' \in Nat
    BY <1>1, <1>3, <1>8
  <2>2. QED
    BY <1>1, <1>3, <1>5, <2>1 DEF DagTypes
<1>10. Seen' = Seen
  BY <1>1 DEF Seen
<1>11. LayersInv'
  BY <1>1, <1>6, <1>7, <1>10 DEF DagInv, LayersInv, Edges
<1>12. PhaseInv'
  <2>1. Seen = Jobs
    BY <1>7 DEF DagInv, PhaseInv
  <2>2. ph # "idle" /\ ph # "error"
    BY <1>2
  <2>3. QED
    BY <1>6, <1>7, <1>10, <2>1, <2>2 DEF PhaseInv
<1>13. PlacedInv'
  <2>1. PICK i : i = plan.layer
    OBVIOUS
  <2>2. /\ i \in DOMAIN layers /\ DOMAIN chosen \subseteq Before(layers, i + 1)
        /\ Before(layers, i + 1) \subseteq DOMAIN chosen \cup ToSet(plan.todo)
        /\ \A p \in DOMAIN chosen : chosen[p] \in EligibleWorkers
    BY <1>1, <2>1 DEF DagInv, PlacedInv
  <2>3. ToSet(plan.todo) = {}
    BY <1>1 DEF ToSet
  <2>4. DOMAIN chosen = Before(layers, i + 1)
    BY <2>2, <2>3
  <2>5. i <= Len(layers)
    BY <1>3, <2>2
  <2>6. EligibleWorkers' = EligibleWorkers
    BY <1>1 DEF EligibleWorkers
  <2>7. ph = "scheduled" => i = Len(layers)
    BY <1>2, <2>1
  <2>8. ph # "layer"
    BY <1>2
  <2>9. QED
    BY <1>1, <1>6, <2>1, <2>2, <2>4, <2>5, <2>6, <2>7, <2>8 DEF PlacedInv
<1>14. WorkInv'
  <2>1. ASSUME NEW w \in Workers PROVE workOn[w] <= makespan + LayerTime
    <3>1. workOn[w] <= makespan + busy[w]
      BY <1>1 DEF DagInv, WorkInv
    <3>2. workOn[w] \in Nat /\ busy[w] \in Nat
      BY <1>3
    <3>3. QED
      BY <1>3, <1>8, <3>1, <3>2
  <2>2. ph # "layer" /\ makespan' \in Nat
    BY <1>1, <1>2, <1>3, <1>8
  <2>3. QED
    BY <1>1, <1>6, <2>1, <2>2 DEF WorkInv
<1>15. QED
  BY <1>9, <1>11, <1>12, <1>13, <1>14 DEF DagInv

LEMMA DagStutters == ASSUME DagInv, dagVars' = dagVars PROVE DagInv'
<1>1. /\ plan' = plan /\ parents' = parents /\ indeg' = indeg /\ frontier' = frontier /\ layers' = layers
      /\ carried' = carried /\ busy' = busy /\ chosen' = chosen /\ makespan' = makespan /\ workOn' = workOn
  BY DEF dagVars
<1>2. DagTypes'
  BY <1>1 DEF DagInv, DagTypes
<1>3. LayersInv'
  BY <1>1 DEF DagInv, LayersInv, Seen, Edges
<1>4. PhaseInv'
  BY <1>1 DEF DagInv, PhaseInv, Seen
<1>5. PlacedInv'
  BY <1>1 DEF DagInv, PlacedInv, EligibleWorkers
<1>6. WorkInv'
  BY <1>1 DEF DagInv, WorkInv
<1>7. QED
  BY <1>2, <1>3, <1>4, <1>5, <1>6 DEF DagInv

(* The inductive invariant of the DAG scheduler: what is left of the       *)
(* in-degrees, the frontier that _kahn holds, the layers it took and the   *)
(* jobs schedule() has placed, for every graph and fleet.                  *)
THEOREM DagInvHolds == DagSpec => []DagInv
<1>1. DagInit => DagInv
  BY DagInitInv
<1>2. DagInv /\ [DagNext]_dagVars => DagInv'
  <2> SUFFICES ASSUME DagInv, [DagNext]_dagVars PROVE DagInv'
    OBVIOUS
  <2>1. CASE \E graph \in [Jobs -> ParentLists], s \in Strategies, loads \in [Workers -> WorkerLoads] :
               Submit(graph, s, loads)
    BY <2>1, SubmitStep
  <2>2. CASE TakeLayer
    BY <2>2, TakeLayerStep
  <2>3. CASE LayeringEnds
    BY <2>3, LayeringEndsStep
  <2>4. CASE BeginLayer
    BY <2>4, BeginLayerStep
  <2>5. CASE EndLayer
    BY <2>5, EndLayerStep
  <2>6. CASE \E cached \in [Workers -> 0 .. JobBlocks] : PlaceJob(cached)
    BY <2>6, PlaceJobStep
  <2>7. CASE dagVars' = dagVars
    BY <2>7, DagStutters
  <2>8. QED
    BY <2>1, <2>2, <2>3, <2>4, <2>5, <2>6, <2>7 DEF DagNext
<1>3. QED
  BY <1>1, <1>2, PTL DEF DagSpec

(* Whatever graph is submitted, with parents listed twice, unknown or in a *)
(* circle, and whatever the fleet carries: it is refused exactly when no   *)
(* order exists; a plan's layers are the depths of the jobs; every job is  *)
(* placed, after its parents and off saturated workers where there is      *)
(* another; and the estimate covers every worker's work.                   *)
THEOREM DagPlansAreSound == DagSpec => []DagPlanIsSound
<1>1. DagInv => DagPlanIsSound
  BY PlannedSoundly
<1>2. QED
  BY <1>1, DagInvHolds, PTL

-----------------------------------------------------------------------------
(* Least recently used                                                     *)

(* The last position of x in a log.                                        *)
LastAt(log, x) == Max({i \in DOMAIN log : log[i] = x})

(* c lists what was used last, in the order of the last uses: nothing that *)
(* was used after one of its members is missing, and if anything is        *)
(* missing at all, c has n members.                                        *)
Recent(c, log, n) ==
  /\ c \in Seq(Nat) /\ log \in Seq(Nat) /\ ToSet(c) \subseteq ToSet(log)
  /\ \A i, k \in DOMAIN c : i < k => LastAt(log, c[i]) < LastAt(log, c[k])
  /\ \A x \in ToSet(log), y \in ToSet(c) : LastAt(log, y) < LastAt(log, x) => x \in ToSet(c)
  /\ Cardinality(ToSet(c)) >= n \/ ToSet(log) \subseteq ToSet(c)

(* d is c with id moved or added to its end.                               *)
Moved(c, d, id) ==
  /\ d \in Seq(Nat) /\ d # <<>> /\ d[Len(d)] = id /\ ToSet(d) = ToSet(c) \cup {id}
  /\ \E f : /\ \A i \in 1 .. Len(d) - 1 : f[i] \in DOMAIN c /\ d[i] = c[f[i]] /\ d[i] # id
            /\ \A i, k \in 1 .. Len(d) - 1 : i < k => f[i] < f[k]

LEMMA LastAtIs ==
  ASSUME NEW log \in Seq(Nat), NEW x \in ToSet(log)
  PROVE  /\ LastAt(log, x) \in DOMAIN log /\ LastAt(log, x) \in Nat /\ log[LastAt(log, x)] = x
         /\ \A i \in DOMAIN log : log[i] = x => i <= LastAt(log, x)
<1>1. PICK T : T = {i \in DOMAIN log : log[i] = x}
  OBVIOUS
<1>2. PICK n \in Nat : n = Len(log) /\ DOMAIN log = 1 .. n
  OBVIOUS
<1>3. T \in SUBSET (0 .. n) /\ T # {}
  BY <1>1, <1>2 DEF ToSet
<1>4. Max(T) \in T /\ \A y \in T : y <= Max(T)
  BY <1>3, MaxIsGreatest
<1>5. LastAt(log, x) = Max(T)
  BY <1>1 DEF LastAt
<1>6. PICK j : j = LastAt(log, x) /\ j \in T /\ \A y \in T : y <= j
  BY <1>4, <1>5
<1>7. j \in DOMAIN log /\ j \in Nat /\ log[j] = x
  BY <1>1, <1>2, <1>6
<1>8. \A i \in DOMAIN log : log[i] = x => i <= j
  BY <1>1, <1>6
<1>9. QED
  BY <1>6, <1>7, <1>8

LEMMA LastAtUnique ==
  ASSUME NEW log \in Seq(Nat), NEW j \in DOMAIN log, NEW x, log[j] = x,
         \A i \in DOMAIN log : log[i] = x => i <= j
  PROVE  LastAt(log, x) = j
<1>1. PICK T : T = {i \in DOMAIN log : log[i] = x}
  OBVIOUS
<1>2. j \in T /\ \A y \in T : y \in Nat /\ j >= y
  BY <1>1
<1>3. Max(T) = j
  BY <1>2 DEF Max
<1>4. QED
  BY <1>1, <1>3 DEF LastAt

LEMMA LastAtDiffers ==
  ASSUME NEW log \in Seq(Nat), NEW x \in ToSet(log), NEW y \in ToSet(log), LastAt(log, x) = LastAt(log, y)
  PROVE  x = y
<1>1. log[LastAt(log, x)] = x
  BY LastAtIs
<1>2. log[LastAt(log, y)] = y
  BY LastAtIs
<1>3. QED
  BY <1>1, <1>2

(* One more use moves the last position of what was used, and no other.    *)
Logged(log, id, l2) ==
  /\ l2 \in Seq(Nat) /\ ToSet(l2) = ToSet(log) \cup {id}
  /\ LastAt(l2, id) = Len(log) + 1
  /\ \A x \in ToSet(log) : x # id => LastAt(l2, x) = LastAt(log, x)
  /\ \A x \in ToSet(log) : LastAt(log, x) < Len(log) + 1

LEMMA LastAtAppended ==
  ASSUME NEW log \in Seq(Nat), NEW id \in Nat, NEW l2, l2 = Append(log, id)
  PROVE  Logged(log, id, l2)
<1>1. PICK n \in Nat : n = Len(log) /\ DOMAIN log = 1 .. n
  OBVIOUS
<1>2. /\ l2 \in Seq(Nat) /\ DOMAIN l2 = 1 .. n + 1 /\ l2[n + 1] = id
      /\ \A i \in 1 .. n : l2[i] = log[i]
  BY <1>1
<1>3. ToSet(l2) = ToSet(log) \cup {id}
  <2>1. 1 .. n + 1 = (1 .. n) \cup {n + 1}
    OBVIOUS
  <2>2. QED
    BY <1>1, <1>2, <2>1 DEF ToSet
<1>4. LastAt(l2, id) = n + 1
  <2>1. n + 1 \in DOMAIN l2 /\ \A i \in DOMAIN l2 : i <= n + 1
    BY <1>2
  <2>2. QED
    BY <1>2, <2>1, LastAtUnique
<1>5. ASSUME NEW x \in ToSet(log) PROVE LastAt(log, x) < n + 1 /\ (x # id => LastAt(l2, x) = LastAt(log, x))
  <2>1. PICK j \in DOMAIN log : j = LastAt(log, x) /\ log[j] = x /\ \A i \in DOMAIN log : log[i] = x => i <= j
    BY LastAtIs
  <2>2. ASSUME x # id PROVE LastAt(l2, x) = j
    <3>1. j \in DOMAIN l2 /\ l2[j] = x
      BY <1>1, <1>2, <2>1
    <3>2. ASSUME NEW i \in DOMAIN l2, l2[i] = x PROVE i <= j
      <4>1. i # n + 1
        BY <1>2, <2>2, <3>2
      <4>2. i \in 1 .. n
        BY <1>2, <4>1
      <4>3. QED
        BY <1>1, <1>2, <2>1, <3>2, <4>2
    <3>3. QED
      BY <1>2, <3>1, <3>2, LastAtUnique
  <2>3. j < n + 1
    BY <1>1
  <2>4. QED
    BY <2>1, <2>2, <2>3
<1>6. QED
  BY <1>1, <1>2, <1>3, <1>4, <1>5 DEF Logged

(* Lists in the order of last uses have no duplicates.                     *)
LEMMA RecentIsDistinct ==
  ASSUME NEW n \in Nat, NEW c, NEW log, Recent(c, log, n)
  PROVE  IsFiniteSet(ToSet(c)) /\ Cardinality(ToSet(c)) = Len(c)
<1>1. PICK m \in Nat : m = Len(c) /\ DOMAIN c = 1 .. m
  BY DEF Recent
<1>2. c \in [1 .. m -> ToSet(c)]
  BY <1>1 DEF Recent, ToSet
<1>3. ASSUME NEW i \in 1 .. m, NEW k \in 1 .. m, c[i] = c[k] PROVE i = k
  <2>1. PICK x \in ToSet(log) : x = c[i] /\ x = c[k]
    BY <1>1, <1>3 DEF Recent, ToSet
  <2>2. log \in Seq(Nat)
    BY DEF Recent
  <2>3. LastAt(log, x) \in Nat
    BY <2>2, LastAtIs
  <2>4. \A p, q \in DOMAIN c : p < q => LastAt(log, c[p]) < LastAt(log, c[q])
    BY DEF Recent
  <2>5. PICK v \in Nat : v = LastAt(log, x)
    BY <2>3
  <2>6. ~(i < k)
    <3>1. i < k => LastAt(log, x) < LastAt(log, x)
      BY <1>1, <2>1, <2>4, Zenon
    <3>2. QED
      BY <2>5, <3>1
  <2>7. ~(k < i)
    <3>1. k < i => LastAt(log, x) < LastAt(log, x)
      BY <1>1, <2>1, <2>4, Zenon
    <3>2. QED
      BY <2>5, <3>1
  <2>8. QED
    BY <2>6, <2>7
<1>4. \A x \in ToSet(c) : \E i \in 1 .. m : c[i] = x
  BY <1>1 DEF ToSet
<1>5. c \in Bijection(1 .. m, ToSet(c))
  BY <1>2, <1>3, <1>4 DEF Bijection, Injection, Surjection, IsInjective
<1>6. IsFiniteSet(1 .. m) /\ Cardinality(1 .. m) = m
  BY FS_Interval
<1>7. PICK I, S : I = 1 .. m /\ S = ToSet(c)
  OBVIOUS
<1>8. IsFiniteSet(S) /\ Cardinality(S) = Cardinality(I)
  BY <1>5, <1>6, <1>7, FS_Bijection DEF ExistsBijection
<1>9. QED
  BY <1>1, <1>6, <1>7, <1>8

(* A use moves its id to the end.                                          *)
LEMMA MoveKeeps ==
  ASSUME NEW n \in Nat, NEW c, NEW log, NEW d, NEW id \in Nat,
         Recent(c, log, n), Moved(c, d, id)
  PROVE  Recent(d, Append(log, id), n)
<1>0. log \in Seq(Nat) /\ c \in Seq(Nat) /\ d \in Seq(Nat) /\ ToSet(c) \subseteq ToSet(log)
  BY DEF Recent, Moved
<1>1. PICK l2 : l2 = Append(log, id)
  OBVIOUS
<1>2. /\ l2 \in Seq(Nat) /\ ToSet(l2) = ToSet(log) \cup {id}
      /\ LastAt(l2, id) = Len(log) + 1
      /\ \A x \in ToSet(log) : x # id => LastAt(l2, x) = LastAt(log, x)
      /\ \A x \in ToSet(log) : LastAt(log, x) < Len(log) + 1
  <2>1. Logged(log, id, l2)
    BY <1>0, <1>1, LastAtAppended
  <2>2. QED
    BY <2>1 DEF Logged
<1>3. ToSet(d) = ToSet(c) \cup {id}
  BY DEF Moved
<1>4. PICK m \in Nat : m = Len(d) /\ DOMAIN d = 1 .. m /\ m > 0 /\ d[m] = id
  BY <1>0 DEF Moved
<1>5. PICK f : /\ \A i \in 1 .. m - 1 : f[i] \in DOMAIN c /\ d[i] = c[f[i]] /\ d[i] # id
               /\ \A i, k \in 1 .. m - 1 : i < k => f[i] < f[k]
  BY <1>4 DEF Moved
<1>6. ASSUME NEW i \in DOMAIN d, NEW k \in DOMAIN d, i < k
      PROVE  LastAt(l2, d[i]) < LastAt(l2, d[k])
  <2>1. i \in 1 .. m - 1
    BY <1>4, <1>6
  <2>2. PICK x \in ToSet(log) : x = d[i] /\ x = c[f[i]] /\ x # id
    BY <1>0, <1>5, <2>1 DEF ToSet
  <2>3. LastAt(l2, x) = LastAt(log, x) /\ LastAt(log, x) < Len(log) + 1
    BY <1>2, <2>2
  <2>4. CASE k = m
    BY <1>2, <1>4, <2>2, <2>3, <2>4
  <2>5. CASE k # m
    <3>1. k \in 1 .. m - 1
      BY <1>4, <2>5
    <3>2. PICK y \in ToSet(log) : y = d[k] /\ y = c[f[k]] /\ y # id
      BY <1>0, <1>5, <3>1 DEF ToSet
    <3>3. f[i] \in DOMAIN c /\ f[k] \in DOMAIN c /\ f[i] < f[k]
      BY <1>5, <1>6, <2>1, <3>1
    <3>4. LastAt(log, x) < LastAt(log, y)
      BY <2>2, <3>2, <3>3 DEF Recent
    <3>5. LastAt(l2, y) = LastAt(log, y)
      BY <1>2, <3>2
    <3>6. QED
      BY <2>2, <2>3, <3>2, <3>4, <3>5
  <2>6. QED
    BY <2>4, <2>5
<1>7. ASSUME NEW x \in ToSet(l2), NEW y \in ToSet(d), LastAt(l2, y) < LastAt(l2, x) PROVE x \in ToSet(d)
  <2>1. CASE x = id
    BY <1>3, <2>1
  <2>2. CASE x # id
    <3>1. x \in ToSet(log)
      BY <1>2, <2>2
    <3>2. LastAt(l2, x) = LastAt(log, x) /\ LastAt(log, x) < Len(log) + 1 /\ LastAt(log, x) \in Nat
      BY <1>0, <1>2, <2>2, <3>1, LastAtIs
    <3>3. Len(log) \in Nat
      BY <1>0
    <3>4. y # id
      BY <1>2, <1>7, <3>2, <3>3
    <3>5. y \in ToSet(c) /\ y \in ToSet(log)
      BY <1>0, <1>3, <3>4
    <3>6. LastAt(log, y) < LastAt(log, x)
      BY <1>2, <1>7, <3>2, <3>4, <3>5
    <3>7. x \in ToSet(c)
      BY <3>1, <3>5, <3>6 DEF Recent
    <3>8. QED
      BY <1>3, <3>7
  <2>3. QED
    BY <2>1, <2>2
<1>8. Cardinality(ToSet(d)) >= n \/ ToSet(l2) \subseteq ToSet(d)
  <2>1. CASE ToSet(log) \subseteq ToSet(c)
    BY <1>2, <1>3, <2>1
  <2>2. CASE Cardinality(ToSet(c)) >= n
    <3>1. IsFiniteSet(ToSet(c))
      BY RecentIsDistinct
    <3>2. IsFiniteSet(ToSet(d))
      BY <1>3, <3>1, FS_AddElement
    <3>3. Cardinality(ToSet(c)) <= Cardinality(ToSet(d))
      BY <1>3, <3>2, FS_Subset
    <3>4. Cardinality(ToSet(c)) \in Nat /\ Cardinality(ToSet(d)) \in Nat
      BY <3>1, <3>2, FS_CardinalityType
    <3>5. QED
      BY <2>2, <3>3, <3>4
  <2>3. QED
    BY <2>1, <2>2 DEF Recent
<1>9. ToSet(d) \subseteq ToSet(l2)
  BY <1>0, <1>2, <1>3
<1>10. Recent(d, l2, n)
  BY <1>0, <1>2, <1>6, <1>7, <1>8, <1>9 DEF Recent
<1>11. QED
  BY <1>1, <1>10

(* The last n of a list, or all of it.                                     *)
Trimmed(c, n) == SubSeq(c, Max({0, Len(c) - n}) + 1, Len(c))

(* d is c without its first k elements.                                    *)
TailOf(d, c, E, k) ==
  /\ d \in Seq(E) /\ Len(d) = Len(c) - k /\ DOMAIN d = 1 .. (Len(c) - k)
  /\ \A i \in 1 .. (Len(c) - k) : d[i] = c[i + k] /\ i + k \in DOMAIN c

LEMMA TailIs ==
  ASSUME NEW E, NEW c \in Seq(E), NEW k \in 0 .. Len(c)
  PROVE  TailOf(SubSeq(c, k + 1, Len(c)), c, E, k)
<1>1. PICK n \in Nat : n = Len(c) /\ DOMAIN c = 1 .. n
  OBVIOUS
<1>2. PICK u : u = SubSeq(c, k + 1, Len(c))
  OBVIOUS
<1>3. u \in Seq(E) /\ Len(u) = n - k /\ \A i \in 1 .. (n - k) : u[i] = c[k + i]
  BY <1>1, <1>2
<1>4. DOMAIN u = 1 .. (n - k) /\ \A i \in 1 .. (n - k) : k + i \in DOMAIN c /\ i + k = k + i
  BY <1>1, <1>3
<1>5. QED
  BY <1>1, <1>2, <1>3, <1>4 DEF TailOf

(* Dropping the oldest keeps the order; at most n are left.                *)
LEMMA TrimKeeps ==
  ASSUME NEW n \in Nat, NEW c, NEW log, Recent(c, log, n)
  PROVE  Recent(Trimmed(c, n), log, n) /\ Len(Trimmed(c, n)) <= n
<1>0. log \in Seq(Nat) /\ c \in Seq(Nat) /\ ToSet(c) \subseteq ToSet(log)
  BY DEF Recent
<1>1. PICK m \in Nat : m = Len(c) /\ DOMAIN c = 1 .. m
  BY <1>0
<1>2. PICK over \in 0 .. m : over = (IF 0 >= m - n THEN 0 ELSE m - n)
  OBVIOUS
<1>3. Max({0, Len(c) - n}) = over
  BY <1>1, <1>2, MinMaxOfTwo
<1>4. PICK d : d = Trimmed(c, n)
  OBVIOUS
<1>5. d = SubSeq(c, over + 1, m)
  BY <1>1, <1>3, <1>4 DEF Trimmed
<1>6. /\ d \in Seq(Nat) /\ Len(d) = m - over /\ DOMAIN d = 1 .. (m - over)
      /\ \A i \in 1 .. (m - over) : d[i] = c[i + over] /\ i + over \in DOMAIN c
  <2>1. TailOf(d, c, Nat, over)
    BY <1>0, <1>1, <1>5, TailIs
  <2>2. QED
    BY <1>1, <2>1 DEF TailOf
<1>7. Len(d) <= n
  BY <1>2, <1>6
<1>8. ToSet(d) \subseteq ToSet(c)
  BY <1>6 DEF ToSet
<1>9. ASSUME NEW i \in DOMAIN d, NEW k \in DOMAIN d, i < k PROVE LastAt(log, d[i]) < LastAt(log, d[k])
  <2>1. i + over \in DOMAIN c /\ k + over \in DOMAIN c /\ i + over < k + over
    BY <1>1, <1>2, <1>6, <1>9
  <2>2. QED
    BY <1>6, <2>1 DEF Recent
<1>10. ASSUME NEW x \in ToSet(log), NEW y \in ToSet(d), LastAt(log, y) < LastAt(log, x) PROVE x \in ToSet(d)
  <2>1. x \in ToSet(c)
    BY <1>8, <1>10 DEF Recent
  <2>2. PICK k \in 1 .. m : c[k] = x
    BY <1>1, <2>1 DEF ToSet
  <2>3. PICK i \in 1 .. (m - over) : d[i] = y /\ c[i + over] = y /\ i + over \in DOMAIN c
    BY <1>6 DEF ToSet
  <2>4. y \in ToSet(log) /\ LastAt(log, x) \in Nat /\ LastAt(log, y) \in Nat
    BY <1>0, <1>8, <1>10, LastAtIs
  <2>5. ~(k < i + over)
    <3>1. ASSUME k < i + over PROVE LastAt(log, x) < LastAt(log, y)
      BY <1>1, <2>2, <2>3, <3>1 DEF Recent
    <3>2. QED
      BY <1>10, <2>4, <3>1
  <2>6. k - over \in 1 .. (m - over) /\ (k - over) + over = k
    BY <2>5
  <2>7. d[k - over] = x
    BY <1>6, <2>2, <2>6
  <2>8. QED
    BY <1>6, <2>6, <2>7 DEF ToSet
<1>11. d = c \/ Len(d) = n
  <2>1. CASE over = 0
    <3>1. DOMAIN d = 1 .. m /\ \A i \in 1 .. m : d[i] = c[i]
      BY <1>1, <1>6, <2>1
    <3>2. d \in [1 .. m -> Nat] /\ c \in [1 .. m -> Nat]
      BY <1>0, <1>1, <1>6, <3>1, SMTT(20)
    <3>3. QED
      BY <3>1, <3>2
  <2>2. CASE over # 0
    BY <1>2, <1>6, <2>2
  <2>3. QED
    BY <2>1, <2>2
<1>12. ToSet(d) \subseteq ToSet(log)
  BY <1>0, <1>8
<1>13. CASE d = c
  BY <1>4, <1>7, <1>13
<1>14. CASE Len(d) = n
  <2>1. Recent(d, log, 0)
    <3>1. Cardinality(ToSet(d)) >= 0
      <4>1. IsFiniteSet(ToSet(c))
        BY RecentIsDistinct
      <4>2. IsFiniteSet(ToSet(d))
        BY <1>8, <4>1, FS_Subset
      <4>3. QED
        BY <4>2, FS_CardinalityType
    <3>2. QED
      BY <1>0, <1>6, <1>9, <1>10, <1>12, <3>1 DEF Recent
  <2>2. Cardinality(ToSet(d)) = n
    BY <1>14, <2>1, RecentIsDistinct
  <2>3. Recent(d, log, n)
    BY <2>1, <2>2 DEF Recent
  <2>4. QED
    BY <1>4, <1>7, <2>3
<1>15. QED
  BY <1>11, <1>13, <1>14

(* Such a list of at most n members is exactly what was used last.         *)
LEMMA RecentIsLastUsed ==
  ASSUME NEW n \in Nat, NEW c, NEW log, Recent(c, log, n), Len(c) <= n
  PROVE  ToSet(c) = LastUsed(log, n)
<1>0. log \in Seq(Nat) /\ c \in Seq(Nat) /\ ToSet(c) \subseteq ToSet(log)
  BY DEF Recent
<1> DEFINE After(x) == {log[i] : i \in LastAt(log, x) + 1 .. Len(log)}
<1>1. LastUsed(log, n) = {x \in ToSet(log) : Cardinality(After(x)) < n}
  BY DEF LastUsed, LastAt
<1>2. IsFiniteSet(ToSet(c)) /\ Cardinality(ToSet(c)) = Len(c) /\ Len(c) \in Nat
  BY <1>0, RecentIsDistinct
<1>3. PICK m \in Nat : m = Len(log) /\ DOMAIN log = 1 .. m
  BY <1>0
<1>4. ASSUME NEW x \in ToSet(log)
      PROVE  /\ After(x) \subseteq ToSet(log) \ {x}
             /\ \A y \in ToSet(log) : y \in After(x) <=> LastAt(log, x) < LastAt(log, y)
  <2>1. PICK j \in 1 .. m : j = LastAt(log, x) /\ log[j] = x /\ \A i \in DOMAIN log : log[i] = x => i <= j
    BY <1>0, <1>3, LastAtIs
  <2>2. After(x) = {log[i] : i \in j + 1 .. m}
    BY <1>3, <2>1
  <2>3. After(x) \subseteq ToSet(log) \ {x}
    BY <1>3, <2>1, <2>2 DEF ToSet
  <2>4. ASSUME NEW y \in ToSet(log) PROVE y \in After(x) <=> j < LastAt(log, y)
    <3>1. PICK q \in 1 .. m : q = LastAt(log, y) /\ log[q] = y /\ \A i \in DOMAIN log : log[i] = y => i <= q
      BY <1>0, <1>3, LastAtIs
    <3>2. ASSUME j < q PROVE y \in After(x)
      <4>1. q \in j + 1 .. m
        BY <3>2
      <4>2. QED
        BY <2>2, <3>1, <4>1
    <3>3. ASSUME y \in After(x) PROVE j < q
      <4>1. PICK i \in j + 1 .. m : log[i] = y
        BY <2>2, <3>3
      <4>2. i \in DOMAIN log /\ j < i /\ i \in Nat
        BY <1>3, <4>1
      <4>3. i <= q
        BY <3>1, <4>1, <4>2
      <4>4. QED
        BY <4>2, <4>3
    <3>4. QED
      BY <3>1, <3>2, <3>3
  <2>5. QED
    BY <2>1, <2>3, <2>4
<1>5. \A x \in ToSet(log) : IsFiniteSet(After(x))
  <2>1. IsFiniteSet(1 .. m)
    BY FS_Interval
  <2>2. PICK D : D = 1 .. m /\ D = DOMAIN log /\ IsFiniteSet(D)
    BY <1>3, <2>1
  <2>3. IsFiniteSet(ToSet(log))
    <3>1. ToSet(log) = {log[i] : i \in D}
      BY <2>2 DEF ToSet
    <3>2. log \in Surjection(D, ToSet(log))
      BY <1>0, <2>2, <3>1 DEF Surjection
    <3>3. QED
      BY <2>2, <3>2, FS_Surjection
  <2>4. QED
    BY <1>4, <2>3, FS_Subset
<1> HIDE DEF After
<1>6. ASSUME NEW x \in ToSet(c) PROVE Cardinality(After(x)) < n
  <2>1. x \in ToSet(log)
    BY <1>0
  <2>2. After(x) \subseteq ToSet(c) \ {x}
    BY <1>4, <2>1 DEF Recent
  <2>3. IsFiniteSet(ToSet(c) \ {x}) /\ Cardinality(ToSet(c) \ {x}) = Cardinality(ToSet(c)) - 1
    BY <1>2, FS_RemoveElement
  <2>4. Cardinality(After(x)) <= Cardinality(ToSet(c) \ {x})
    BY <2>2, <2>3, FS_Subset
  <2>5. Cardinality(After(x)) \in Nat
    BY <1>5, <2>1, FS_CardinalityType
  <2>6. QED
    BY <1>2, <2>3, <2>4, <2>5
<1>7. ASSUME NEW x \in ToSet(log), x \notin ToSet(c) PROVE ~(Cardinality(After(x)) < n)
  <2>1. Cardinality(ToSet(c)) >= n
    BY <1>7 DEF Recent
  <2>2. ASSUME NEW y \in ToSet(c) PROVE y \in After(x)
    <3>1. y \in ToSet(log) /\ LastAt(log, x) \in Nat /\ LastAt(log, y) \in Nat
      BY <1>0, LastAtIs
    <3>2. ~(LastAt(log, y) < LastAt(log, x))
      BY <1>7 DEF Recent
    <3>3. LastAt(log, y) # LastAt(log, x)
      BY <1>0, <1>7, <3>1, LastAtDiffers
    <3>4. LastAt(log, x) < LastAt(log, y)
      BY <3>1, <3>2, <3>3
    <3>5. QED
      BY <1>4, <3>1, <3>4
  <2>3. Cardinality(ToSet(c)) <= Cardinality(After(x))
    BY <1>5, <2>2, FS_Subset
  <2>4. Cardinality(After(x)) \in Nat
    BY <1>5, FS_CardinalityType
  <2>5. QED
    BY <1>2, <2>1, <2>3, <2>4
<1>8. QED
  BY <1>0, <1>1, <1>6, <1>7

(* What a function makes of the elements of a list.                        *)
Keys(g, s) == [i \in DOMAIN s |-> g[s[i]]]

KeysOf(k, g, s) ==
  /\ k \in Seq(Nat) /\ Len(k) = Len(s) /\ DOMAIN k = DOMAIN s
  /\ \A i \in DOMAIN s : k[i] = g[s[i]]

LEMMA KeysAre ==
  ASSUME NEW E, NEW g \in [E -> Nat], NEW s \in Seq(E)
  PROVE  KeysOf(Keys(g, s), g, s)
<1>1. PICK n \in Nat : n = Len(s) /\ DOMAIN s = 1 .. n /\ \A i \in 1 .. n : s[i] \in E
  OBVIOUS
<1>2. PICK k : k = Keys(g, s)
  OBVIOUS
<1>3. k = [i \in 1 .. n |-> g[s[i]]] /\ \A i \in 1 .. n : g[s[i]] \in Nat
  BY <1>1, <1>2 DEF Keys
<1>4. k \in Seq(Nat) /\ Len(k) = n /\ DOMAIN k = 1 .. n /\ \A i \in 1 .. n : k[i] = g[s[i]]
  BY <1>3
<1>5. QED
  BY <1>1, <1>2, <1>4 DEF KeysOf

(* d[key] = value; d.move_to_end(key)                                      *)
MovedIn(E, g, c, d, e) ==
  /\ d \in Seq(E) /\ Moved(Keys(g, c), Keys(g, d), g[e])
  /\ ToSet(d) \subseteq ToSet(c) \cup {e}

LEMMA MovesToEnd ==
  ASSUME NEW E, NEW g \in [E -> Nat], NEW c \in Seq(E), NEW e \in E, NEW I,
         I = {i \in DOMAIN c : g[c[i]] # g[e]},
         NEW d, d = Append(Kept(c, I), e)
  PROVE  MovedIn(E, g, c, d, e)
<1>1. PICK t \in Seq(E) : t = Kept(c, I)
  BY KeptInOrder
<1>2. PICK f : Embedding(f, t, c, Len(c), I)
  BY <1>1, KeptInOrder
<1>3. PICK n \in Nat : n = Len(t) /\ DOMAIN t = 1 .. n
  OBVIOUS
<1>4. /\ d \in Seq(E) /\ Len(d) = n + 1 /\ DOMAIN d = 1 .. n + 1 /\ d[n + 1] = e
      /\ \A i \in 1 .. n : d[i] = t[i]
  BY <1>1, <1>3
<1>5. PICK m \in Nat : m = Len(c) /\ DOMAIN c = 1 .. m
  OBVIOUS
<1>6. /\ \A i \in 1 .. n : f[i] \in DOMAIN c /\ t[i] = c[f[i]] /\ g[t[i]] # g[e]
      /\ \A i, j \in 1 .. n : i < j => f[i] < f[j]
      /\ \A k \in DOMAIN c : g[c[k]] # g[e] => \E i \in 1 .. n : f[i] = k
  BY <1>2, <1>3, <1>5 DEF Embedding
<1>7. PICK kc \in Seq(Nat) : kc = Keys(g, c) /\ DOMAIN kc = DOMAIN c /\ \A i \in DOMAIN c : kc[i] = g[c[i]]
  <2>1. PICK k : k = Keys(g, c)
    OBVIOUS
  <2>2. KeysOf(k, g, c)
    BY <2>1, KeysAre
  <2>3. QED
    BY <2>1, <2>2 DEF KeysOf
<1>8. PICK kd \in Seq(Nat) : /\ kd = Keys(g, d) /\ DOMAIN kd = 1 .. n + 1 /\ Len(kd) = n + 1
                             /\ \A i \in 1 .. n + 1 : kd[i] = g[d[i]]
  <2>1. PICK k : k = Keys(g, d)
    OBVIOUS
  <2>2. d \in Seq(E)
    BY <1>4
  <2>3. KeysOf(k, g, d)
    BY <2>1, <2>2, KeysAre
  <2>4. QED
    BY <1>4, <2>1, <2>3, ZenonT(30) DEF KeysOf
<1>9. \A i \in 1 .. n : i \in 1 .. n + 1
  OBVIOUS
<1>10. kd[n + 1] = g[e]
  <2>1. n + 1 \in 1 .. n + 1
    OBVIOUS
  <2>2. QED
    BY <1>4, <1>8, <2>1
<1>11. ASSUME NEW i \in 1 .. n PROVE f[i] \in DOMAIN kc /\ kd[i] = kc[f[i]] /\ kd[i] # g[e]
  <2>1. f[i] \in DOMAIN c /\ t[i] = c[f[i]] /\ g[t[i]] # g[e] /\ i \in 1 .. n + 1 /\ d[i] = t[i]
    BY <1>4, <1>6, <1>9
  <2>2. kd[i] = g[t[i]]
    BY <1>8, <2>1
  <2>3. f[i] \in DOMAIN kc /\ kc[f[i]] = g[t[i]]
    BY <1>7, <2>1
  <2>4. QED
    BY <2>1, <2>2, <2>3
<1>12. ToSet(kd) = ToSet(kc) \cup {g[e]}
  <2>0. g[e] \in ToSet(kd)
    <3>1. n + 1 \in 1 .. n + 1
      OBVIOUS
    <3>2. QED
      BY <1>8, <1>10, <3>1 DEF ToSet
  <2>1. ASSUME NEW x \in ToSet(kd) PROVE x \in ToSet(kc) \cup {g[e]}
    <3>1. PICK i \in 1 .. n + 1 : kd[i] = x
      BY <1>8 DEF ToSet
    <3>2. i \in 1 .. n \/ i = n + 1
      OBVIOUS
    <3>3. QED
      BY <1>10, <1>11, <3>1, <3>2 DEF ToSet
  <2>2. ASSUME NEW x \in ToSet(kc) PROVE x \in ToSet(kd)
    <3>1. PICK k \in DOMAIN c : x = g[c[k]] /\ x = kc[k]
      BY <1>7 DEF ToSet
    <3>2. CASE x = g[e]
      BY <2>0, <3>2
    <3>3. CASE x # g[e]
      <4>1. PICK i \in 1 .. n : f[i] = k
        BY <1>6, <3>1, <3>3
      <4>2. kd[i] = x
        BY <1>11, <3>1, <4>1
      <4>3. QED
        BY <1>8, <1>9, <4>2 DEF ToSet
    <3>4. QED
      BY <3>2, <3>3
  <2>3. QED
    BY <2>0, <2>1, <2>2
<1>13. Moved(kc, kd, g[e])
  <2>1. kd # <<>> /\ kd[Len(kd)] = g[e] /\ Len(kd) - 1 = n
    BY <1>8, <1>10
  <2>2. QED
    BY <1>6, <1>11, <1>12, <2>1 DEF Moved
<1>14. ASSUME NEW x \in ToSet(d) PROVE x \in ToSet(c) \cup {e}
  <2>1. PICK i \in 1 .. n + 1 : d[i] = x
    BY <1>4 DEF ToSet
  <2>2. i \in 1 .. n \/ i = n + 1
    OBVIOUS
  <2>3. CASE i \in 1 .. n
    <3>1. x = c[f[i]] /\ f[i] \in DOMAIN c
      BY <1>4, <1>6, <2>1, <2>3
    <3>2. QED
      BY <3>1 DEF ToSet
  <2>4. CASE i = n + 1
    BY <1>4, <2>1, <2>4
  <2>5. QED
    BY <2>2, <2>3, <2>4
<1>15. QED
  BY <1>4, <1>7, <1>8, <1>13, <1>14 DEF MovedIn

LEMMA SameKeys ==
  ASSUME NEW g, g = [x \in Nat |-> x], NEW s \in Seq(Nat)
  PROVE  Keys(g, s) = s
<1>1. PICK n \in Nat : n = Len(s) /\ DOMAIN s = 1 .. n
  OBVIOUS
<1>2. PICK k : k = Keys(g, s)
  OBVIOUS
<1>3. k = [i \in 1 .. n |-> s[i]]
  <2>1. \A i \in 1 .. n : s[i] \in Nat
    BY <1>1
  <2>2. \A i \in 1 .. n : g[s[i]] = s[i]
    BY <2>1
  <2>3. k = [i \in 1 .. n |-> g[s[i]]]
    BY <1>1, <1>2 DEF Keys
  <2>4. QED
    BY <2>2, <2>3
<1>4. s \in [1 .. n -> Nat] /\ k \in [1 .. n -> Nat]
  BY <1>1, <1>3
<1>5. \A i \in 1 .. n : k[i] = s[i]
  BY <1>3
<1>6. k = s
  BY <1>4, <1>5
<1>7. QED
  BY <1>2, <1>6

LEMMA TouchMoves ==
  ASSUME NEW c \in Seq(Nat), NEW id \in Nat
  PROVE  touch(c, id) \in Seq(Nat) /\ Moved(c, touch(c, id), id)
<1>1. PICK g \in [Nat -> Nat] : g = [x \in Nat |-> x]
  OBVIOUS
<1>2. PICK I : I = {i \in DOMAIN c : c[i] # id}
  OBVIOUS
<1>3. I = {i \in DOMAIN c : g[c[i]] # g[id]}
  BY <1>1, <1>2
<1>4. PICK d : d = touch(c, id)
  OBVIOUS
<1>5. d = Append(Kept(c, I), id)
  BY <1>2, <1>4 DEF touch, Where
<1>6. d \in Seq(Nat) /\ Moved(Keys(g, c), Keys(g, d), g[id])
  <2>1. MovedIn(Nat, g, c, d, id)
    BY <1>3, <1>5, MovesToEnd
  <2>2. QED
    BY <2>1 DEF MovedIn
<1>7. \A s \in Seq(Nat) : Keys(g, s) = s
  BY <1>1, SameKeys
<1>8. g[id] = id
  BY <1>1
<1>9. QED
  BY <1>4, <1>6, <1>7, <1>8

(* What the index is after each id that is recorded.                       *)
TouchedAfter(u, c, s) == u[0] = c /\ \A k \in 1 .. Len(s) : u[k] = touch(u[k - 1], s[k])

LEMMA RecordIsLoop ==
  ASSUME NEW c \in Seq(Nat), NEW s \in Seq(Nat)
  PROVE  \E u \in [0 .. Len(s) -> Seq(Nat)] : TouchedAfter(u, c, s) /\ FoldLeft(touch, c, s) = u[Len(s)]
<1> DEFINE F == [x \in Seq(Nat) \X Nat |-> touch(x[1], x[2])]
           Loop(g) == g = [S \in SUBSET DOMAIN s |->
                             IF S = {} THEN c ELSE touch(g[S \ {Max(S)}], s[Max(S)])]
<1>1. F \in [Seq(Nat) \X Nat -> Seq(Nat)] /\ \A x \in Seq(Nat), b \in Nat : F[<<x, b>>] = touch(x, b)
  BY TouchMoves
<1>2. FoldLeft(touch, c, s) = (CHOOSE g : Loop(g))[DOMAIN s]
  BY DEF FoldLeft, MapThenFoldSet
<1> HIDE DEF F
<1>3. \E g : Loop(g)
  <2>1. PICK g \in [SUBSET DOMAIN s -> Seq(Nat)] : IsFold(g, F, c, s)
    BY <1>1, FoldExists
  <2>2. ASSUME NEW S \in SUBSET DOMAIN s, S # {}
        PROVE  F[<<g[S \ {Max(S)}], s[Max(S)]>>] = touch(g[S \ {Max(S)}], s[Max(S)])
    <3>1. PICK m : m = Max(S)
      OBVIOUS
    <3>2. m \in DOMAIN s
      <4>1. DOMAIN s = 1 .. Len(s) /\ Len(s) \in Nat /\ S \in SUBSET (0 .. Len(s))
        OBVIOUS
      <4>2. QED
        BY <2>2, <3>1, <4>1, MaxIsGreatest
    <3>3. g[S \ {m}] \in Seq(Nat) /\ s[m] \in Nat
      BY <3>2
    <3>4. QED
      BY <1>1, <3>1, <3>3
  <2>3. Loop(g)
    BY <2>1, <2>2 DEF IsFold
  <2>4. QED
    BY <2>3
<1>4. PICK g : g = CHOOSE x : Loop(x)
  OBVIOUS
<1> HIDE DEF Loop
<1>5. Loop(g)
  BY <1>3, <1>4
<1>6. PICK u : u = [k \in 0 .. Len(s) |-> g[1 .. k]]
  OBVIOUS
<1>7. u[0] = c /\ \A k \in 1 .. Len(s) : u[k] = touch(u[k - 1], s[k])
  <2>1. u[0] = c
    <3>1. 1 .. 0 = {} /\ {} \in SUBSET DOMAIN s /\ 0 \in 0 .. Len(s)
      OBVIOUS
    <3>2. QED
      BY <1>5, <1>6, <3>1 DEF Loop
  <2>2. ASSUME NEW k \in 1 .. Len(s) PROVE u[k] = touch(u[k - 1], s[k])
    <3>1. 1 .. k \in SUBSET DOMAIN s /\ k \in Nat /\ k > 0 /\ k - 1 \in 0 .. Len(s) /\ k \in 0 .. Len(s)
      OBVIOUS
    <3>2. 1 .. k # {} /\ Max(1 .. k) = k /\ (1 .. k) \ {k} = 1 .. (k - 1)
      BY <3>1, LastPosition
    <3>3. g[1 .. k] = touch(g[1 .. (k - 1)], s[k])
      BY <1>5, <3>1, <3>2 DEF Loop
    <3>4. QED
      BY <1>6, <3>1, <3>3
  <2>3. QED
    BY <2>1, <2>2
<1>8. \A k \in 0 .. Len(s) : u[k] \in Seq(Nat)
  <2> DEFINE T == {k \in 0 .. Len(s) : u[k] \in Seq(Nat)}
  <2>1. Len(s) \in Nat /\ 0 \in 0 .. Len(s)
    OBVIOUS
  <2>2. 0 \in T
    BY <1>7, <2>1
  <2>3. ASSUME NEW k \in 1 .. Len(s), k - 1 \in T PROVE k \in T
    <3>1. u[k - 1] \in Seq(Nat) /\ s[k] \in Nat /\ k \in 0 .. Len(s)
      BY <2>3
    <3>2. touch(u[k - 1], s[k]) \in Seq(Nat)
      BY <3>1, TouchMoves
    <3>3. QED
      BY <1>7, <3>1, <3>2
  <2>4. \A k \in 0 .. Len(s) : k \in T
    BY <2>1, <2>2, <2>3, UpToN
  <2>5. QED
    BY <2>4
<1>9. u \in [0 .. Len(s) -> Seq(Nat)]
  BY <1>6, <1>8
<1>10. FoldLeft(touch, c, s) = u[Len(s)]
  <2>1. FoldLeft(touch, c, s) = g[DOMAIN s]
    BY <1>2, <1>4
  <2>2. DOMAIN s = 1 .. Len(s) /\ Len(s) \in 0 .. Len(s)
    OBVIOUS
  <2>3. QED
    BY <1>6, <2>1, <2>2
<1>11. QED
  BY <1>7, <1>9, <1>10 DEF TouchedAfter

(* The log up to the k-th id of a request.                                 *)
LEMMA LogGrows ==
  ASSUME NEW log \in Seq(Nat), NEW s \in Seq(Nat)
  PROVE  /\ log \o SubSeq(s, 1, 0) = log /\ log \o SubSeq(s, 1, Len(s)) = log \o s
         /\ \A k \in 1 .. Len(s) : log \o SubSeq(s, 1, k) = Append(log \o SubSeq(s, 1, k - 1), s[k])
<1>1. PICK n \in Nat : n = Len(s) /\ DOMAIN s = 1 .. n
  OBVIOUS
<1>2. ASSUME NEW k \in 0 .. n
      PROVE  SubSeq(s, 1, k) \in Seq(Nat) /\ Len(SubSeq(s, 1, k)) = k /\ \A i \in 1 .. k : SubSeq(s, 1, k)[i] = s[i]
  BY <1>1
<1>3. log \o SubSeq(s, 1, 0) = log
  <2>1. 0 \in 0 .. n
    OBVIOUS
  <2>2. SubSeq(s, 1, 0) = <<>>
    BY <1>2, <2>1
  <2>3. QED
    BY <2>2
<1>4. SubSeq(s, 1, Len(s)) = s
  BY <1>1
<1>5. ASSUME NEW k \in 1 .. n PROVE log \o SubSeq(s, 1, k) = Append(log \o SubSeq(s, 1, k - 1), s[k])
  <2>0. k - 1 \in 0 .. n /\ k \in 0 .. n /\ s[k] \in Nat
    BY <1>1
  <2>1. PICK a \in Seq(Nat) : a = SubSeq(s, 1, k - 1) /\ Len(a) = k - 1 /\ \A i \in 1 .. k - 1 : a[i] = s[i]
    <3>1. PICK a : a = SubSeq(s, 1, k - 1)
      OBVIOUS
    <3>2. a \in Seq(Nat) /\ Len(a) = k - 1 /\ \A i \in 1 .. k - 1 : a[i] = s[i]
      BY <1>2, <2>0, <3>1
    <3>3. QED
      BY <3>1, <3>2
  <2>2. PICK b \in Seq(Nat) : b = SubSeq(s, 1, k) /\ Len(b) = k /\ \A i \in 1 .. k : b[i] = s[i]
    <3>1. PICK b : b = SubSeq(s, 1, k)
      OBVIOUS
    <3>2. b \in Seq(Nat) /\ Len(b) = k /\ \A i \in 1 .. k : b[i] = s[i]
      BY <1>2, <2>0, <3>1
    <3>3. QED
      BY <3>1, <3>2
  <2>3. s[k] \in Nat
    BY <2>0
  <2>4. b = Append(a, s[k])
    <3>1. PICK x : x = Append(a, s[k])
      OBVIOUS
    <3>2. x \in Seq(Nat) /\ Len(x) = k /\ x[k] = s[k] /\ \A i \in 1 .. k - 1 : x[i] = a[i]
      BY <2>1, <2>3, <3>1
    <3>3. ASSUME NEW i \in 1 .. k PROVE x[i] = b[i]
      <4>1. i = k \/ i \in 1 .. k - 1
        OBVIOUS
      <4>2. QED
        BY <2>1, <2>2, <3>2, <4>1
    <3>4. QED
      BY <2>2, <3>1, <3>2, <3>3, SMTT(20)
  <2>5. log \o Append(a, s[k]) = Append(log \o a, s[k])
    BY <2>1, <2>3, SMTT(20)
  <2>6. QED
    BY <2>1, <2>2, <2>4, <2>5
<1>6. QED
  BY <1>1, <1>3, <1>4, <1>5

(* SetIndex.record: the index is again what was used last.                 *)
LEMMA RecordKeeps ==
  ASSUME NEW n \in Nat, NEW c, NEW log, NEW s \in Seq(Nat), Recent(c, log, n)
  PROVE  Recent(record(c, s, n), log \o s, n) /\ Len(record(c, s, n)) <= n
<1>1. c \in Seq(Nat) /\ log \in Seq(Nat)
  BY DEF Recent
<1>2. PICK u \in [0 .. Len(s) -> Seq(Nat)] : TouchedAfter(u, c, s) /\ FoldLeft(touch, c, s) = u[Len(s)]
  BY <1>1, RecordIsLoop
<1> DEFINE T == {k \in 0 .. Len(s) : Recent(u[k], log \o SubSeq(s, 1, k), n)}
<1>3. Len(s) \in Nat /\ 0 \in 0 .. Len(s) /\ Len(s) \in 0 .. Len(s)
  OBVIOUS
<1>4. 0 \in T
  <2>1. u[0] = c /\ log \o SubSeq(s, 1, 0) = log
    BY <1>1, <1>2, LogGrows DEF TouchedAfter
  <2>2. QED
    BY <1>3, <2>1
<1>5. ASSUME NEW k \in 1 .. Len(s), k - 1 \in T PROVE k \in T
  <2>1. PICK d \in Seq(Nat) : d = u[k - 1]
    <3>1. k - 1 \in 0 .. Len(s)
      OBVIOUS
    <3>2. QED
      BY <3>1
  <2>2. s[k] \in Nat /\ k \in 0 .. Len(s)
    OBVIOUS
  <2>3. Recent(d, log \o SubSeq(s, 1, k - 1), n)
    BY <1>5, <2>1
  <2>4. Moved(d, touch(d, s[k]), s[k])
    BY <2>2, TouchMoves
  <2>5. Recent(touch(d, s[k]), Append(log \o SubSeq(s, 1, k - 1), s[k]), n)
    BY <2>2, <2>3, <2>4, MoveKeeps
  <2>6. log \o SubSeq(s, 1, k) = Append(log \o SubSeq(s, 1, k - 1), s[k])
    BY <1>1, LogGrows
  <2>7. u[k] = touch(d, s[k])
    BY <1>2, <2>1 DEF TouchedAfter
  <2>8. QED
    BY <2>2, <2>5, <2>6, <2>7
<1>6. \A k \in 0 .. Len(s) : k \in T
  BY <1>3, <1>4, <1>5, UpToN
<1>7. Recent(u[Len(s)], log \o s, n)
  <2>1. log \o SubSeq(s, 1, Len(s)) = log \o s
    BY <1>1, LogGrows
  <2>2. QED
    BY <1>3, <1>6, <2>1
<1>8. record(c, s, n) = Trimmed(u[Len(s)], n)
  BY <1>2 DEF record, Trimmed
<1>9. QED
  BY <1>7, <1>8, TrimKeeps

-----------------------------------------------------------------------------
(* The choices by what is cached                                           *)

LEMMA CheapestOfIsLeast ==
  ASSUME NEW S \in SUBSET Nat, S # {}, NEW cost \in [S -> Nat]
  PROVE  CheapestOf(cost) \in S /\ \A c \in S : cost[CheapestOf(cost)] <= cost[c]
<1>1. CheapestOf(cost) = Cheapest(cost)
  BY DEF CheapestOf, Cheapest
<1>2. QED
  BY <1>1, CheapestIsLeast

LEMMA EligibleOfIs ==
  ASSUME NEW S, S # {}, NEW inflight
  PROVE  /\ EligibleOf(S, inflight) \in SUBSET S /\ EligibleOf(S, inflight) # {}
         /\ \A b \in S : b \in EligibleOf(S, inflight)
                         \/ \E c \in S : inflight[c] <= AffinityLimit /\ ~(inflight[b] <= AffinityLimit)
BY DEF EligibleOf

(* How much of a request a backend has; all of it, if nothing is missing.  *)
LEMMA OverlapIs ==
  ASSUME NEW E, NEW list \in Seq(E), NEW c
  PROVE  /\ overlap(c, list) \in Nat /\ overlap(c, list) <= Len(list)
         /\ overlap(c, list) = Len(list) <=> ToSet(list) \subseteq ToSet(c)
<1>1. PICK n \in Nat : n = Len(list) /\ DOMAIN list = 1 .. n
  OBVIOUS
<1>2. PICK D : D = 1 .. n /\ D = DOMAIN list /\ IsFiniteSet(D) /\ Cardinality(D) = n
  <2>1. IsFiniteSet(1 .. n) /\ Cardinality(1 .. n) = n
    BY FS_Interval
  <2>2. QED
    BY <1>1, <2>1
<1>3. PICK T \in SUBSET D : T = {i \in DOMAIN list : list[i] \in ToSet(c)}
  BY <1>2
<1>4. IsFiniteSet(T) /\ Cardinality(T) <= n /\ (Cardinality(T) = n => D = T)
  BY <1>2, FS_Subset
<1>5. Cardinality(T) \in Nat
  BY <1>4, FS_CardinalityType
<1>6. overlap(c, list) = Cardinality(T)
  BY <1>3 DEF overlap
<1>7. D = T <=> ToSet(list) \subseteq ToSet(c)
  <2>1. ToSet(list) = {list[i] : i \in D}
    BY <1>2 DEF ToSet
  <2>2. D = T <=> \A i \in D : list[i] \in ToSet(c)
    BY <1>2, <1>3
  <2>3. QED
    BY <2>1, <2>2
<1>8. D = T => Cardinality(T) = n
  BY <1>2
<1>9. QED
  BY <1>1, <1>4, <1>5, <1>6, <1>7, <1>8

(* Prefill costs something exactly where a chunk is missing.               *)
LEMMA RagCostIs ==
  ASSUME NEW list \in Seq(Nat), NEW c, NEW n \in Nat
  PROVE  /\ n * AffinityServiceMs \in Nat /\ rag_cost(c, list, n) \in Nat
         /\ rag_cost(c, list, n) >= n * AffinityServiceMs
         /\ rag_cost(c, list, n) = n * AffinityServiceMs <=> ToSet(list) \subseteq ToSet(c)
<1>1. PICK ov \in Nat, len \in Nat :
        ov = overlap(c, list) /\ len = Len(list) /\ ov <= len /\ (ov = len <=> ToSet(list) \subseteq ToSet(c))
  BY OverlapIs
<1>2. PICK miss \in Nat : miss = len - ov
  BY <1>1
<1>3. Max({0, Len(list) - overlap(c, list)}) = miss
  <2>1. 0 \in Int /\ len - ov \in Int
    OBVIOUS
  <2>2. Max({0, len - ov}) = IF 0 >= len - ov THEN 0 ELSE len - ov
    BY <2>1, MinMaxOfTwo
  <2>3. QED
    BY <1>1, <1>2, <2>2
<1>4. PICK pre \in Nat \ {0}, tok \in Nat \ {0}, svc \in Nat :
        pre = AffinityPrefillMs /\ tok = ChunkTokens /\ svc = AffinityServiceMs
  BY AffinityAssumption
<1>5. PICK base \in Nat : base = n * svc
  BY <1>4, TimesNat
<1>6. PICK part \in Nat : part = pre * miss
  BY <1>4, TimesNat
<1>7. PICK more \in Nat : more = part * tok
  BY <1>4, TimesNat
<1>8. more = 0 <=> miss = 0
  <2>1. CASE miss = 0
    BY <1>4, <1>6, <1>7, <2>1
  <2>2. CASE miss # 0
    <3>1. part >= 1
      BY <1>4, <1>6, <2>2
    <3>2. more >= 1
      BY <1>4, <1>7, <3>1
    <3>3. QED
      BY <2>2, <3>2
  <2>3. QED
    BY <2>1, <2>2
<1>9. rag_cost(c, list, n) = more + base
  BY <1>3, <1>4, <1>5, <1>6, <1>7 DEF rag_cost
<1>10. QED
  BY <1>1, <1>2, <1>4, <1>5, <1>8, <1>9, SMTT(20)

(* choose_rag_backend takes a candidate and, if a candidate that is no     *)
(* busier than the others has all of the chunks, one that has them.        *)
RagChosen(k, list, S, index, inflight) ==
  /\ k \in S
  /\ \A b \in S : /\ ToSet(list) \subseteq ToSet(index[b])
                  /\ \A c \in S : inflight[b] <= inflight[c]
                  => ToSet(list) \subseteq ToSet(index[k])

LEMMA RagChoiceIs ==
  ASSUME NEW list \in Seq(Nat), NEW S \in SUBSET Servers, S # {}, NEW index, NEW inflight \in [Servers -> Nat]
  PROVE  RagChosen(choose_rag_backend(list, S, index, inflight), list, S, index, inflight)
<1>1. PICK Fit \in SUBSET S : Fit = EligibleOf(S, inflight) /\ Fit # {}
  BY EligibleOfIs
<1>2. \A b \in S : b \in Fit \/ \E c \in S : inflight[c] <= AffinityLimit /\ ~(inflight[b] <= AffinityLimit)
  BY <1>1, EligibleOfIs
<1>3. PICK cost : cost = [b \in Fit |-> rag_cost(index[b], list, inflight[b])]
  OBVIOUS
<1>4. Fit \in SUBSET Nat /\ \A b \in S : b \in Nat /\ inflight[b] \in Nat
  BY <1>1, SelectionAssumption
<1>5. \A b \in Fit : /\ rag_cost(index[b], list, inflight[b]) \in Nat /\ inflight[b] * AffinityServiceMs \in Nat
                     /\ rag_cost(index[b], list, inflight[b]) >= inflight[b] * AffinityServiceMs
                     /\ rag_cost(index[b], list, inflight[b]) = inflight[b] * AffinityServiceMs
                          <=> ToSet(list) \subseteq ToSet(index[b])
  BY <1>1, <1>4, RagCostIs
<1>6. cost \in [Fit -> Nat]
  BY <1>3, <1>5
<1>7. PICK k : k = choose_rag_backend(list, S, index, inflight)
  OBVIOUS
<1>8. k = CheapestOf(cost)
  BY <1>1, <1>3, <1>7 DEF choose_rag_backend
<1>9. k \in Fit /\ \A c \in Fit : cost[k] <= cost[c]
  BY <1>1, <1>4, <1>6, <1>8, CheapestOfIsLeast
<1>10. ASSUME NEW b \in S, ToSet(list) \subseteq ToSet(index[b]), \A c \in S : inflight[b] <= inflight[c]
       PROVE  ToSet(list) \subseteq ToSet(index[k])
  <2>1. b \in Fit
    <3>1. AffinityLimit \in Nat
      BY AffinityAssumption
    <3>2. ASSUME NEW c \in S, inflight[c] <= AffinityLimit PROVE inflight[b] <= AffinityLimit
      BY <1>4, <1>10, <3>1, <3>2
    <3>3. QED
      BY <1>2, <3>2
  <2>2. PICK m \in Nat, n \in Nat, svc \in Nat :
          m = inflight[b] /\ n = inflight[k] /\ svc = AffinityServiceMs /\ m <= n
    BY <1>1, <1>4, <1>9, <1>10, AffinityAssumption
  <2>3. m * svc \in Nat /\ n * svc \in Nat /\ m * svc <= n * svc
    BY <2>2
  <2>4. cost[b] = m * svc
    BY <1>3, <1>5, <1>10, <2>1, <2>2
  <2>5. cost[k] >= n * svc /\ cost[k] \in Nat
    BY <1>3, <1>5, <1>6, <1>9, <2>2
  <2>6. cost[k] <= cost[b]
    BY <1>9, <2>1
  <2>7. cost[k] = n * svc
    <3>1. PICK p \in Nat, q \in Nat, x \in Nat : p = m * svc /\ q = n * svc /\ x = cost[k] /\ p <= q
      BY <2>3, <2>5
    <3>2. x >= q /\ x <= p /\ p <= q
      BY <2>4, <2>5, <2>6, <3>1
    <3>3. x = q
      BY ONLY <3>2, x \in Nat, p \in Nat, q \in Nat
    <3>4. QED
      BY <3>1, <3>3
  <2>8. QED
    BY <1>3, <1>5, <1>9, <2>2, <2>7
<1>11. QED
  BY <1>1, <1>7, <1>9, <1>10 DEF RagChosen

-----------------------------------------------------------------------------
(* The size of an image                                                    *)

LEMMA TilesBounded ==
  ASSUME NEW a \in Nat, NEW b \in Nat \ {0}, NEW q \in {2, 4}, a <= q * b
  PROVE  CeilDiv(a, b) \in 0 .. q
<1>1. PICK n \in Nat : n = a + b - 1
  OBVIOUS
<1>2. PICK d \in Int : d = n \div b
  OBVIOUS
<1>3. d \in Nat /\ d * b <= n
  BY <1>1, <1>2
<1>4. n < (q + 1) * b
  <2>1. CASE q = 2
    BY <1>1, <2>1
  <2>2. CASE q = 4
    BY <1>1, <2>2
  <2>3. QED
    BY <2>1, <2>2
<1>5. ~(d >= q + 1)
  <2>1. ASSUME d >= q + 1 PROVE d * b >= (q + 1) * b
    BY <1>3, <2>1
  <2>2. (q + 1) * b \in Nat /\ d * b \in Nat
    BY <1>3
  <2>3. QED
    BY <1>3, <1>4, <2>1, <2>2
<1>6. QED
  BY <1>1, <1>2, <1>3, <1>5 DEF CeilDiv

(* After both rescalings one side is at most two tiles, the other four.    *)
FitsTiles(r) ==
  /\ r.w \in Nat /\ r.h \in Nat /\ r.den \in Nat \ {0}
  /\ \/ r.w <= 1024 * r.den /\ r.h <= 2048 * r.den
     \/ r.w <= 2048 * r.den /\ r.h <= 1024 * r.den

(* The sides once the longer one is at most 2048.                          *)
Fitted(w, h, long) ==
  IF long > 2048 THEN [w |-> w * 2048, h |-> h * 2048, den |-> long] ELSE [w |-> w, h |-> h, den |-> 1]

LEMMA RescaledFits ==
  ASSUME NEW w \in Nat, NEW h \in Nat
  PROVE  FitsTiles(Rescaled(w, h))
<1>1. PICK long \in Nat, short \in Nat :
        /\ long = Max({w, h}) /\ short = Min({w, h}) /\ short <= long
        /\ (long = w /\ short = h) \/ (long = h /\ short = w)
  <2>1. Max({w, h}) = (IF w >= h THEN w ELSE h) /\ Min({w, h}) = (IF w <= h THEN w ELSE h)
    BY MinMaxOfTwo
  <2>2. QED
    BY <2>1
<1>2. PICK fitted : fitted = Fitted(w, h, long)
  OBVIOUS
<1>3. PICK least \in Nat : least = Min({fitted.w, fitted.h}) /\ least = IF long > 2048 THEN short * 2048 ELSE short
  <2>1. CASE long > 2048
    <3>1. fitted.w = w * 2048 /\ fitted.h = h * 2048
      BY <1>2, <2>1 DEF Fitted
    <3>2. PICK p \in Int, q \in Int : p = w * 2048 /\ q = h * 2048 /\ short * 2048 \in Nat
      OBVIOUS
    <3>3. Min({p, q}) = IF p <= q THEN p ELSE q
      BY MinMaxOfTwo
    <3>4. Min({w * 2048, h * 2048}) = short * 2048
      BY <1>1, <3>2, <3>3
    <3>5. QED
      BY <2>1, <3>1, <3>2, <3>4
  <2>2. CASE ~(long > 2048)
    BY <1>1, <1>2, <2>2 DEF Fitted
  <2>3. QED
    BY <2>1, <2>2
<1>4. PICK r : r = Rescaled(w, h)
  OBVIOUS
<1>5. r = IF least > 768 * fitted.den THEN [w |-> w * 768, h |-> h * 768, den |-> short] ELSE fitted
  BY <1>1, <1>2, <1>3, <1>4 DEF Rescaled, Fitted
<1>6. CASE least > 768 * fitted.den
  <2>1. r.w = w * 768 /\ r.h = h * 768 /\ r.den = short
    BY <1>5, <1>6
  <2>2. long * 768 <= 2048 * short /\ short # 0
    <3>1. CASE long > 2048
      <4>1. fitted.den = long /\ least = short * 2048
        BY <1>2, <1>3, <3>1 DEF Fitted
      <4>2. short * 2048 > 768 * long
        BY <1>6, <4>1
      <4>3. QED
        BY <4>2
    <3>2. CASE ~(long > 2048)
      <4>1. fitted.den = 1 /\ least = short
        BY <1>2, <1>3, <3>2 DEF Fitted
      <4>2. short > 768
        BY <1>6, <4>1
      <4>3. QED
        BY <3>2, <4>2
    <3>3. QED
      BY <3>1, <3>2
  <2>3. short * 768 <= 1024 * short
    OBVIOUS
  <2>4. FitsTiles(r)
    BY <1>1, <2>1, <2>2, <2>3 DEF FitsTiles
  <2>5. QED
    BY <1>4, <2>4
<1>7. CASE ~(least > 768 * fitted.den)
  <2>1. r = fitted
    BY <1>5, <1>7
  <2>2. CASE long > 2048
    <3>1. r.w = w * 2048 /\ r.h = h * 2048 /\ r.den = long /\ fitted.den = long /\ least = short * 2048
      BY <1>2, <1>3, <2>1, <2>2 DEF Fitted
    <3>2. short * 2048 <= 768 * long
      BY <1>7, <3>1
    <3>3. FitsTiles(r)
      BY <1>1, <2>2, <3>1, <3>2 DEF FitsTiles
    <3>4. QED
      BY <1>4, <3>3
  <2>3. CASE ~(long > 2048)
    <3>1. r.w = w /\ r.h = h /\ r.den = 1 /\ fitted.den = 1 /\ least = short
      BY <1>2, <1>3, <2>1, <2>3 DEF Fitted
    <3>2. short <= 768
      BY <1>7, <3>1
    <3>3. FitsTiles(r)
      BY <1>1, <2>3, <3>1, <3>2 DEF FitsTiles
    <3>4. QED
      BY <1>4, <3>3
  <2>4. QED
    BY <2>2, <2>3
<1>8. QED
  BY <1>6, <1>7

LEMMA ImageTokensBounded ==
  ASSUME NEW w \in Nat, NEW h \in Nat, NEW detail
  PROVE  image_tokens(w, h, detail) \in ImageBase .. ImageBase + 8 * TileTokens
<1>1. PICK r : r = Rescaled(w, h) /\ FitsTiles(r)
  BY RescaledFits
<1>2. PICK rw \in Nat, rh \in Nat, den \in Nat \ {0} : rw = r.w /\ rh = r.h /\ den = r.den
  BY <1>1 DEF FitsTiles
<1>3. PICK unit \in Nat \ {0} : unit = 512 * den
  OBVIOUS
<1>4. \/ rw <= 2 * unit /\ rh <= 4 * unit
      \/ rw <= 4 * unit /\ rh <= 2 * unit
  BY <1>1, <1>2, <1>3 DEF FitsTiles
<1>5. PICK x \in 0 .. 4, y \in 0 .. 4 :
        x = CeilDiv(rw, unit) /\ y = CeilDiv(rh, unit) /\ (x <= 2 \/ y <= 2)
  <2>1. CASE rw <= 2 * unit /\ rh <= 4 * unit
    <3>1. CeilDiv(rw, unit) \in 0 .. 2
      BY <2>1, TilesBounded
    <3>2. CeilDiv(rh, unit) \in 0 .. 4
      BY <2>1, TilesBounded
    <3>3. QED
      BY <3>1, <3>2
  <2>2. CASE rw <= 4 * unit /\ rh <= 2 * unit
    <3>1. CeilDiv(rw, unit) \in 0 .. 4
      BY <2>2, TilesBounded
    <3>2. CeilDiv(rh, unit) \in 0 .. 2
      BY <2>2, TilesBounded
    <3>3. QED
      BY <3>1, <3>2
  <2>3. QED
    BY <1>4, <2>1, <2>2
<1>6. x * y \in 0 .. 8
  BY <1>5
<1>7. PICK base \in Nat, tile \in Nat : base = ImageBase /\ tile = TileTokens
  BY AffinityAssumption
<1>8. tile * x * y \in 0 .. 8 * tile
  <2>1. PICK z \in 0 .. 8 : z = x * y
    BY <1>6
  <2>2. tile * x * y = tile * z
    BY <2>1
  <2>3. tile * z \in Nat /\ tile * z <= tile * 8
    OBVIOUS
  <2>4. QED
    BY <2>2, <2>3
<1>9. PICK more \in 0 .. 8 * tile : more = tile * x * y
  BY <1>8
<1>10. image_tokens(w, h, detail) = IF detail = "low" THEN base ELSE base + more
  BY <1>1, <1>2, <1>3, <1>5, <1>7, <1>9 DEF image_tokens
<1>11. QED
  BY <1>7, <1>10

-----------------------------------------------------------------------------
(* The media of a request                                                  *)

LEMMA TokensAreNat == ASSUME NEW m \in DOMAIN Media PROVE tokens(Media[m]) \in Nat
<1>1. PICK x : x = Media[m]
  OBVIOUS
<1>2. CASE x.modality = "image"
  <2>1. PICK w \in Nat, h \in Nat : w = x.width /\ h = x.height
    BY <1>1, <1>2, AffinityAssumption
  <2>2. tokens(x) = image_tokens(w, h, x.detail)
    BY <1>2, <2>1 DEF tokens
  <2>3. image_tokens(w, h, x.detail) \in ImageBase .. ImageBase + 8 * TileTokens
    BY ImageTokensBounded
  <2>4. ImageBase \in Nat /\ TileTokens \in Nat
    BY AffinityAssumption
  <2>5. QED
    BY <1>1, <2>2, <2>3, <2>4
<1>3. CASE x.modality # "image" /\ x.modality = "audio"
  <2>1. PICK s \in Nat, rate \in Nat : s = x.seconds /\ rate = AudioTokensPerSecond
    BY <1>1, <1>3, AffinityAssumption
  <2>2. tokens(x) = s * rate
    BY <1>3, <2>1 DEF tokens
  <2>3. QED
    BY <1>1, <2>2, TimesNat
<1>4. CASE x.modality # "image" /\ x.modality # "audio"
  <2>1. tokens(x) = 0
    BY <1>4 DEF tokens
  <2>2. QED
    BY <1>1, <2>1
<1>5. QED
  BY <1>2, <1>3, <1>4

(* One medium: what is cached costs nothing.                               *)
MediaStep(c, sum, m) == sum + (IF m \in ToSet(c) THEN 0 ELSE tokens(Media[m]))

MediaSum(c, s) == FoldLeft(LAMBDA sum, m : sum + (IF m \in ToSet(c) THEN 0 ELSE tokens(Media[m])), 0, s)

LEMMA MediaStepIsNat ==
  ASSUME NEW c, NEW sum \in Nat, NEW m \in DOMAIN Media
  PROVE  MediaStep(c, sum, m) \in Nat
<1>1. PICK t \in Nat : t = tokens(Media[m])
  BY TokensAreNat
<1>2. QED
  BY <1>1 DEF MediaStep

LEMMA MediaSumIsNat ==
  ASSUME NEW c, NEW s \in Seq(DOMAIN Media)
  PROVE  MediaSum(c, s) \in Nat
<1> DEFINE E == DOMAIN Media
           F == [x \in Nat \X E |-> MediaStep(c, x[1], x[2])]
           Loop(g) == g = [S \in SUBSET DOMAIN s |->
                             IF S = {} THEN 0 ELSE MediaStep(c, g[S \ {Max(S)}], s[Max(S)])]
<1>1. F \in [Nat \X E -> Nat] /\ \A x \in Nat, b \in E : F[<<x, b>>] = MediaStep(c, x, b)
  BY MediaStepIsNat
<1>2. MediaSum(c, s) = (CHOOSE g : Loop(g))[DOMAIN s]
  BY DEF MediaSum, FoldLeft, MapThenFoldSet, MediaStep
<1> HIDE DEF F
<1>3. \E g : Loop(g)
  <2>1. PICK g \in [SUBSET DOMAIN s -> Nat] : IsFold(g, F, 0, s)
    BY <1>1, FoldExists
  <2>2. ASSUME NEW S \in SUBSET DOMAIN s, S # {}
        PROVE  F[<<g[S \ {Max(S)}], s[Max(S)]>>] = MediaStep(c, g[S \ {Max(S)}], s[Max(S)])
    <3>1. PICK m : m = Max(S)
      OBVIOUS
    <3>2. m \in DOMAIN s
      <4>1. DOMAIN s = 1 .. Len(s) /\ Len(s) \in Nat /\ S \in SUBSET (0 .. Len(s))
        OBVIOUS
      <4>2. QED
        BY <2>2, <3>1, <4>1, MaxIsGreatest
    <3>3. g[S \ {m}] \in Nat /\ s[m] \in E
      BY <3>2
    <3>4. QED
      BY <1>1, <3>1, <3>3
  <2>3. Loop(g)
    BY <2>1, <2>2 DEF IsFold
  <2>4. QED
    BY <2>3
<1>4. PICK g : g = CHOOSE x : Loop(x)
  OBVIOUS
<1> HIDE DEF Loop
<1>5. Loop(g)
  BY <1>3, <1>4
<1> DEFINE T == {k \in 0 .. Len(s) : g[1 .. k] \in Nat}
<1>6. Len(s) \in Nat /\ 0 \in 0 .. Len(s) /\ Len(s) \in 0 .. Len(s)
  OBVIOUS
<1>7. 0 \in T
  <2>1. 1 .. 0 = {} /\ {} \in SUBSET DOMAIN s
    OBVIOUS
  <2>2. g[1 .. 0] = 0
    BY <1>5, <2>1 DEF Loop
  <2>3. QED
    BY <1>6, <2>2
<1>8. ASSUME NEW k \in 1 .. Len(s), k - 1 \in T PROVE k \in T
  <2>1. 1 .. k \in SUBSET DOMAIN s /\ k \in Nat /\ k > 0 /\ k \in 0 .. Len(s) /\ s[k] \in E
    OBVIOUS
  <2>2. 1 .. k # {} /\ Max(1 .. k) = k /\ (1 .. k) \ {k} = 1 .. (k - 1)
    BY <2>1, LastPosition
  <2>3. g[1 .. k] = MediaStep(c, g[1 .. (k - 1)], s[k])
    BY <1>5, <2>1, <2>2 DEF Loop
  <2>4. MediaStep(c, g[1 .. (k - 1)], s[k]) \in Nat
    BY <1>8, <2>1, MediaStepIsNat
  <2>5. QED
    BY <2>1, <2>3, <2>4
<1>9. \A k \in 0 .. Len(s) : k \in T
  BY <1>6, <1>7, <1>8, UpToN
<1>10. MediaSum(c, s) = g[1 .. Len(s)]
  <2>1. DOMAIN s = 1 .. Len(s)
    OBVIOUS
  <2>2. QED
    BY <1>2, <1>4, <2>1
<1>11. QED
  BY <1>6, <1>9, <1>10

(* Where some candidate serves the modalities, the choice does.            *)
LEMMA MediaChoiceIs ==
  ASSUME NEW s \in Seq(DOMAIN Media), NEW required, NEW S \in SUBSET Servers,
         Capable(S, required, Caps) # {}, NEW index, NEW inflight \in [Servers -> Nat]
  PROVE  choose_multimodal_backend(s, required, S, Caps, index, inflight) \in Capable(S, required, Caps)
<1>1. PICK C \in SUBSET S : C = Capable(S, required, Caps) /\ C # {}
  BY DEF Capable
<1>2. PICK Fit \in SUBSET C : Fit = EligibleOf(C, inflight) /\ Fit # {}
  BY <1>1, EligibleOfIs
<1>3. PICK cost : cost = [b \in Fit |-> media_cost(index[b], s, inflight[b])]
  OBVIOUS
<1>4. Fit \in SUBSET Nat /\ \A b \in Fit : inflight[b] \in Nat
  BY <1>1, <1>2, SelectionAssumption
<1>5. ASSUME NEW b \in Fit PROVE media_cost(index[b], s, inflight[b]) \in Nat
  <2>1. PICK sum \in Nat : sum = MediaSum(index[b], s)
    BY MediaSumIsNat
  <2>2. PICK n \in Nat, pre \in Nat, svc \in Nat :
          n = inflight[b] /\ pre = AffinityPrefillMs /\ svc = AffinityServiceMs
    BY <1>4, AffinityAssumption
  <2>3. media_cost(index[b], s, n) = pre * sum + n * svc
    BY <2>1, <2>2 DEF media_cost, MediaSum
  <2>4. pre * sum \in Nat /\ n * svc \in Nat
    BY TimesNat
  <2>5. QED
    BY <2>2, <2>3, <2>4
<1>6. cost \in [Fit -> Nat]
  BY <1>3, <1>5
<1>7. CheapestOf(cost) \in Fit
  BY <1>2, <1>4, <1>6, CheapestOfIsLeast
<1>8. choose_multimodal_backend(s, required, S, Caps, index, inflight) = CheapestOf(cost)
  BY <1>1, <1>2, <1>3 DEF choose_multimodal_backend
<1>9. QED
  BY <1>1, <1>2, <1>7, <1>8

-----------------------------------------------------------------------------
(* The semantic cache                                                      *)

Entries == [id : Nat, topic : DOMAIN Similarity, text : [tenant : Renters]]

IdOf == [e \in Entries |-> e.id]

LEMMA MaxOfInts ==
  ASSUME NEW T \in SUBSET (-100 .. 100), T # {}
  PROVE  Max(T) \in T /\ \A y \in T : y <= Max(T)
<1>1. PICK V \in SUBSET (0 .. 200) : V = {y + 100 : y \in T} /\ V # {}
  <2>1. \A y \in T : y \in -100 .. 100
    OBVIOUS
  <2>2. \A y \in -100 .. 100 : y + 100 \in 0 .. 200
    OBVIOUS
  <2>3. PICK V : V = {y + 100 : y \in T}
    OBVIOUS
  <2>4. V \in SUBSET (0 .. 200) /\ V # {}
    BY <2>1, <2>2, <2>3, ZenonT(30)
  <2>5. QED
    BY <2>3, <2>4, SMTT(20)
<1>2. PICK v \in V : \A w \in V : w <= v
  <2>1. 200 \in Nat
    OBVIOUS
  <2>2. QED
    BY <1>1, <2>1, MaxIsGreatest
<1>3. PICK x \in T : v = x + 100
  BY <1>1, <1>2
<1>4. \A y \in T : x >= y /\ y \in Int
  BY <1>1, <1>2, <1>3
<1>5. QED
  BY <1>4 DEF Max

(* The best entry is an entry.                                             *)
LEMMA BestIsEntry ==
  ASSUME NEW c \in Seq(Entries), c # <<>>, NEW topic \in DOMAIN Similarity
  PROVE  Best(c, topic) \in ToSet(c)
<1>1. PICK C \in SUBSET Entries : C = ToSet(c) /\ C # {}
  <2>1. 1 \in DOMAIN c /\ \A i \in DOMAIN c : c[i] \in Entries
    OBVIOUS
  <2>2. ToSet(c) \in SUBSET Entries /\ c[1] \in ToSet(c)
    BY <2>1 DEF ToSet
  <2>3. QED
    BY <2>2
<1>2. PICK T : T = {Similarity[e.topic][topic] : e \in C}
  OBVIOUS
<1>3. T \in SUBSET (-100 .. 100) /\ T # {}
  <2>1. \A e \in C : e.topic \in DOMAIN Similarity
    BY <1>1 DEF Entries
  <2>2. \A e \in C : Similarity[e.topic][topic] \in -100 .. 100
    BY <2>1, SemanticAssumption
  <2>3. QED
    BY <1>1, <1>2, <2>2
<1>4. PICK top : top = Max(T) /\ top \in T
  BY <1>3, MaxOfInts
<1>5. PICK N \in SUBSET Nat : N = {e.id : e \in {d \in C : Similarity[d.topic][topic] = top}} /\ N # {}
  <2>1. {e.id : e \in {d \in C : Similarity[d.topic][topic] = top}} \in SUBSET Nat
    BY <1>1 DEF Entries
  <2>2. {e.id : e \in {d \in C : Similarity[d.topic][topic] = top}} # {}
    BY <1>2, <1>4
  <2>3. QED
    BY <2>1, <2>2
<1>6. PICK n \in N : \A y \in N : n <= y
  BY <1>5, LeastNat
<1>7. PICK e \in C : e.id = n /\ Similarity[e.topic][topic] = top
  BY <1>5, <1>6
<1> DEFINE First(x) == /\ Similarity[x.topic][topic] = top
                       /\ \A d \in C : Similarity[d.topic][topic] = top => x.id <= d.id
<1>8. First(e)
  BY <1>5, <1>6, <1>7
<1>9. Best(c, topic) = CHOOSE x \in C : First(x)
  BY <1>1, <1>2, <1>4 DEF Best
<1> HIDE DEF First
<1>10. QED
  BY <1>1, <1>7, <1>8, <1>9

(* A tenant's entries: its own, the ones stored or hit last.               *)
CacheOk(c, log, t) ==
  /\ c \in Seq(Entries) /\ \A e \in ToSet(c) : e.text.tenant = t
  /\ Recent(Keys(IdOf, c), log, MaxEntries) /\ Len(c) <= MaxEntries

LEMMA IdKeys ==
  ASSUME NEW c \in Seq(Entries)
  PROVE  KeysOf(Keys(IdOf, c), IdOf, c) /\ ToSet(Keys(IdOf, c)) = Ids(c) /\ Ids(c) \in SUBSET Nat
<1>1. IdOf \in [Entries -> Nat]
  BY DEF IdOf, Entries
<1>2. PICK k : k = Keys(IdOf, c) /\ KeysOf(k, IdOf, c)
  BY <1>1, KeysAre
<1>3. ToSet(k) = Ids(c)
  <2>1. \A i \in DOMAIN c : k[i] = c[i].id /\ c[i] \in Entries
    BY <1>2 DEF KeysOf, IdOf
  <2>2. DOMAIN k = DOMAIN c
    BY <1>2 DEF KeysOf
  <2>3. QED
    BY <2>1, <2>2 DEF ToSet, Ids
<1>4. Ids(c) \in SUBSET Nat
  <2>1. \A e \in ToSet(c) : e \in Entries
    BY DEF ToSet
  <2>2. QED
    BY <2>1 DEF Ids, Entries
<1>5. QED
  BY <1>2, <1>3, <1>4

LEMMA CacheIsRecent ==
  ASSUME NEW c, NEW log, NEW t, CacheOk(c, log, t)
  PROVE  Ids(c) = LastUsed(log, MaxEntries)
<1>1. c \in Seq(Entries) /\ Recent(Keys(IdOf, c), log, MaxEntries) /\ Len(c) <= MaxEntries
  BY DEF CacheOk
<1>2. PICK k : k = Keys(IdOf, c) /\ Len(k) = Len(c) /\ ToSet(k) = Ids(c)
  BY <1>1, IdKeys DEF KeysOf
<1>3. MaxEntries \in Nat
  BY SemanticAssumption
<1>4. ToSet(k) = LastUsed(log, MaxEntries)
  BY <1>1, <1>2, <1>3, RecentIsLastUsed
<1>5. QED
  BY <1>2, <1>4

(* A hit moves its entry to the end and drops none.                        *)
LEMMA HitKeeps ==
  ASSUME NEW c, NEW log, NEW t, CacheOk(c, log, t), NEW e \in ToSet(c)
  PROVE  CacheOk(touched(c, e), Append(log, e.id), t)
<1>1. c \in Seq(Entries) /\ Recent(Keys(IdOf, c), log, MaxEntries) /\ Len(c) <= MaxEntries
  BY DEF CacheOk
<1>2. e \in Entries /\ e.id \in Nat /\ IdOf[e] = e.id /\ IdOf \in [Entries -> Nat]
  <2>1. e \in Entries
    BY <1>1 DEF ToSet
  <2>2. e.id \in Nat
    BY <2>1 DEF Entries
  <2>3. IdOf[e] = e.id
    BY <2>1 DEF IdOf
  <2>4. IdOf \in [Entries -> Nat]
    BY DEF IdOf, Entries
  <2>5. QED
    BY <2>1, <2>2, <2>3, <2>4
<1>3. PICK I : I = {i \in DOMAIN c : c[i].id # e.id}
  OBVIOUS
<1>4. I = {i \in DOMAIN c : IdOf[c[i]] # IdOf[e]}
  BY <1>1, <1>2, <1>3 DEF IdOf
<1>5. PICK d : d = touched(c, e)
  OBVIOUS
<1>6. d = Append(Kept(c, I), e)
  BY <1>3, <1>5 DEF touched, Where
<1>7. d \in Seq(Entries) /\ Moved(Keys(IdOf, c), Keys(IdOf, d), IdOf[e]) /\ ToSet(d) \subseteq ToSet(c) \cup {e}
  <2>1. PICK g, E : g = IdOf /\ E = Entries
    OBVIOUS
  <2>2. g \in [E -> Nat] /\ c \in Seq(E) /\ e \in E /\ I = {i \in DOMAIN c : g[c[i]] # g[e]}
    BY <1>1, <1>2, <1>4, <2>1
  <2>3. MovedIn(E, g, c, d, e)
    BY <1>6, <2>2, MovesToEnd
  <2>4. QED
    BY <2>1, <2>3 DEF MovedIn
<1>8. MaxEntries \in Nat
  BY SemanticAssumption
<1>9. Recent(Keys(IdOf, d), Append(log, e.id), MaxEntries)
  BY <1>1, <1>2, <1>7, <1>8, MoveKeeps
<1>10. Len(d) = Len(c)
  <2>1. PICK kc, kd : /\ kc = Keys(IdOf, c) /\ kd = Keys(IdOf, d) /\ Len(kc) = Len(c) /\ Len(kd) = Len(d)
                      /\ ToSet(kc) = Ids(c)
    BY <1>1, <1>7, IdKeys DEF KeysOf
  <2>2. ToSet(kd) = ToSet(kc) \cup {e.id}
    BY <1>2, <1>7, <2>1 DEF Moved
  <2>3. e.id \in ToSet(kc)
    BY <2>1 DEF Ids
  <2>4. ToSet(kd) = ToSet(kc)
    BY <2>2, <2>3
  <2>5. Cardinality(ToSet(kc)) = Len(kc)
    BY <1>1, <1>8, <2>1, RecentIsDistinct
  <2>6. Cardinality(ToSet(kd)) = Len(kd)
    BY <1>8, <1>9, <2>1, RecentIsDistinct
  <2>7. QED
    BY <2>1, <2>4, <2>5, <2>6
<1>11. \A x \in ToSet(d) : x.text.tenant = t
  BY <1>7 DEF CacheOk
<1>12. CacheOk(d, Append(log, e.id), t)
  BY <1>1, <1>7, <1>9, <1>10, <1>11 DEF CacheOk
<1>13. QED
  BY <1>5, <1>12

(* The id of a new entry is new.                                           *)
LEMMA NewIdIs ==
  ASSUME NEW c \in Seq(Entries), IsFiniteSet(Ids(c))
  PROVE  NewId(c) \in Nat /\ NewId(c) \notin Ids(c)
<1>1. CASE c = <<>>
  <2>1. Ids(c) = {}
    <3>1. DOMAIN c = {}
      BY <1>1
    <3>2. QED
      BY <3>1 DEF Ids, ToSet
  <2>2. QED
    BY <1>1, <2>1 DEF NewId
<1>2. CASE c # <<>>
  <2>1. PICK N \in SUBSET Nat : N = Ids(c)
    BY IdKeys
  <2>2. N # {}
    <3>1. 1 \in DOMAIN c
      BY <1>2
    <3>2. QED
      BY <2>1, <3>1 DEF Ids, ToSet
  <2>3. Max(N) \in N /\ \A y \in N : y <= Max(N)
    BY <2>1, <2>2, FiniteHasGreatest
  <2>4. PICK m \in Nat : m = Max(N) /\ \A y \in N : y <= m
    BY <2>1, <2>3
  <2>5. m + 1 \in Nat /\ m + 1 \notin N
    BY <2>4
  <2>6. NewId(c) = m + 1
    BY <1>2, <2>1, <2>4 DEF NewId
  <2>7. QED
    BY <2>1, <2>5, <2>6
<1>3. QED
  BY <1>1, <1>2

TrimmedAlike(a, E, g, d, n) ==
  /\ a \in Seq(E) /\ ToSet(a) \subseteq ToSet(d)
  /\ Keys(g, a) = Trimmed(Keys(g, d), n)

LEMMA KeysTrimmed ==
  ASSUME NEW E, NEW g \in [E -> Nat], NEW d \in Seq(E), NEW n \in Nat
  PROVE  TrimmedAlike(Trimmed(d, n), E, g, d, n)
<1>1. PICK k : k = Keys(g, d) /\ KeysOf(k, g, d)
  BY KeysAre
<1>2. k \in Seq(Nat) /\ Len(k) = Len(d) /\ DOMAIN k = DOMAIN d /\ \A i \in DOMAIN d : k[i] = g[d[i]]
  BY <1>1 DEF KeysOf
<1>3. PICK m \in Nat : m = Len(d)
  OBVIOUS
<1>4. PICK over \in 0 .. m : over = Max({0, m - n})
  <2>1. Max({0, m - n}) = IF 0 >= m - n THEN 0 ELSE m - n
    <3>1. 0 \in Int /\ m - n \in Int
      OBVIOUS
    <3>2. QED
      BY <3>1, MinMaxOfTwo
  <2>2. Max({0, m - n}) \in 0 .. m
    <3>1. CASE 0 >= m - n
      BY <2>1, <3>1
    <3>2. CASE ~(0 >= m - n)
      BY <2>1, <3>2
    <3>3. QED
      BY <3>1, <3>2
  <2>3. QED
    BY <2>2
<1>5. Max({0, Len(d) - n}) = over /\ Max({0, Len(k) - n}) = over
  BY <1>2, <1>3, <1>4
<1>6. PICK a : a = Trimmed(d, n) /\ TailOf(a, d, E, over)
  BY <1>3, <1>5, TailIs DEF Trimmed
<1>7. PICK b : b = Trimmed(k, n) /\ TailOf(b, k, Nat, over)
  BY <1>2, <1>3, <1>5, TailIs DEF Trimmed
<1>8. PICK p \in Nat : p = m - over
  OBVIOUS
<1>9. a \in Seq(E) /\ Len(a) = p /\ DOMAIN a = 1 .. p /\ \A i \in 1 .. p : a[i] = d[i + over] /\ i + over \in DOMAIN d
  BY <1>3, <1>6, <1>8 DEF TailOf
<1>10. b \in Seq(Nat) /\ Len(b) = p /\ DOMAIN b = 1 .. p /\ \A i \in 1 .. p : b[i] = k[i + over] /\ i + over \in DOMAIN k
  BY <1>2, <1>3, <1>7, <1>8 DEF TailOf
<1>11. PICK ka : ka = Keys(g, a)
  OBVIOUS
<1>12. ka = [i \in 1 .. p |-> g[a[i]]]
  BY <1>9, <1>11 DEF Keys
<1>13. ASSUME NEW i \in 1 .. p PROVE g[a[i]] = b[i] /\ b[i] \in Nat
  <2>1. a[i] = d[i + over] /\ i + over \in DOMAIN d
    BY <1>9
  <2>2. b[i] = k[i + over]
    BY <1>10
  <2>3. k[i + over] = g[d[i + over]]
    BY <1>2, <2>1
  <2>4. b[i] \in Nat
    BY <1>10
  <2>5. QED
    BY <2>1, <2>2, <2>3, <2>4
<1>14. ka \in [1 .. p -> Nat] /\ b \in [1 .. p -> Nat] /\ \A i \in 1 .. p : ka[i] = b[i]
  BY <1>10, <1>12, <1>13
<1>15. ka = b
  BY <1>14
<1>16. ToSet(a) \subseteq ToSet(d)
  BY <1>9 DEF ToSet
<1>17. QED
  BY <1>1, <1>6, <1>7, <1>9, <1>11, <1>15, <1>16 DEF TrimmedAlike

LEMMA AddsAtEnd ==
  ASSUME NEW k \in Seq(Nat), NEW id \in Nat, id \notin ToSet(k)
  PROVE  Moved(k, Append(k, id), id)
<1>1. PICK n \in Nat : n = Len(k) /\ DOMAIN k = 1 .. n
  OBVIOUS
<1>2. PICK d : d = Append(k, id)
  OBVIOUS
<1>3. /\ d \in Seq(Nat) /\ Len(d) = n + 1 /\ DOMAIN d = 1 .. n + 1 /\ d[n + 1] = id
      /\ \A i \in 1 .. n : d[i] = k[i]
  BY <1>1, <1>2
<1>4. \A i \in 1 .. n : d[i] \in ToSet(k)
  BY <1>1, <1>3 DEF ToSet
<1>5. ToSet(d) = ToSet(k) \cup {id}
  <2>1. 1 .. n + 1 = (1 .. n) \cup {n + 1}
    OBVIOUS
  <2>2. QED
    BY <1>1, <1>3, <2>1 DEF ToSet
<1>6. PICK f : f = [i \in 1 .. n |-> i]
  OBVIOUS
<1>7. \A i \in 1 .. n : f[i] \in DOMAIN k /\ d[i] = k[f[i]] /\ d[i] # id
  BY <1>1, <1>3, <1>4, <1>6
<1>8. \A i, j \in 1 .. n : i < j => f[i] < f[j]
  BY <1>6
<1>9. d # <<>> /\ d[Len(d)] = id /\ Len(d) - 1 = n
  BY <1>3
<1>10. Moved(k, d, id)
  BY <1>3, <1>5, <1>7, <1>8, <1>9 DEF Moved
<1>11. QED
  BY <1>2, <1>10

LEMMA KeysAppended ==
  ASSUME NEW E, NEW g \in [E -> Nat], NEW c \in Seq(E), NEW e \in E
  PROVE  Keys(g, Append(c, e)) = Append(Keys(g, c), g[e])
<1>1. PICK n \in Nat : n = Len(c) /\ DOMAIN c = 1 .. n
  OBVIOUS
<1>2. PICK d : d = Append(c, e)
  OBVIOUS
<1>3. d \in Seq(E) /\ DOMAIN d = 1 .. n + 1 /\ d[n + 1] = e /\ \A i \in 1 .. n : d[i] = c[i]
  BY <1>1, <1>2
<1>4. PICK k : k = Keys(g, c) /\ KeysOf(k, g, c)
  BY KeysAre
<1>5. k \in Seq(Nat) /\ Len(k) = n /\ DOMAIN k = 1 .. n /\ \A i \in 1 .. n : k[i] = g[c[i]]
  BY <1>1, <1>4 DEF KeysOf
<1>6. PICK a : a = Append(k, g[e])
  OBVIOUS
<1>7. g[e] \in Nat
  OBVIOUS
<1>8. a \in [1 .. n + 1 -> Nat] /\ a[n + 1] = g[e] /\ \A i \in 1 .. n : a[i] = k[i]
  <2>1. PICK x \in Nat : x = g[e] /\ a = Append(k, x)
    BY <1>6, <1>7
  <2>2. a \in Seq(Nat) /\ Len(a) = n + 1 /\ a[n + 1] = x /\ \A i \in 1 .. n : a[i] = k[i]
    BY <1>5, <2>1
  <2>3. DOMAIN a = 1 .. n + 1
    BY <2>2
  <2>4. a \in [1 .. n + 1 -> Nat]
    BY <2>2, <2>3
  <2>5. QED
    BY <2>1, <2>2, <2>4
<1>9. PICK b : b = Keys(g, d)
  OBVIOUS
<1>10. b = [i \in 1 .. n + 1 |-> g[d[i]]]
  BY <1>3, <1>9 DEF Keys
<1>11. \A i \in 1 .. n + 1 : d[i] \in E
  BY <1>3
<1>12. b \in [1 .. n + 1 -> Nat]
  BY <1>10, <1>11
<1>13. ASSUME NEW i \in 1 .. n + 1 PROVE b[i] = a[i]
  <2>1. CASE i = n + 1
    BY <1>3, <1>8, <1>10, <2>1
  <2>2. CASE i # n + 1
    <3>1. i \in 1 .. n
      BY <2>2
    <3>2. a[i] = g[c[i]]
      BY <1>5, <1>8, <3>1
    <3>3. QED
      BY <1>3, <1>10, <3>1, <3>2
  <2>3. QED
    BY <2>1, <2>2
<1>14. b = a
  BY <1>8, <1>12, <1>13
<1>15. QED
  BY <1>2, <1>4, <1>6, <1>9, <1>14

(* A stored answer goes to the end; the least recently used ones go.       *)
LEMMA InsertKeeps ==
  ASSUME NEW c, NEW log, NEW t, CacheOk(c, log, t),
         NEW topic \in DOMAIN Similarity, NEW text \in [tenant : Renters], text.tenant = t
  PROVE  CacheOk(insert_entry(c, topic, text), Append(log, NewId(c)), t) /\ NewId(c) \in Nat
<1>1. c \in Seq(Entries) /\ Recent(Keys(IdOf, c), log, MaxEntries)
  BY DEF CacheOk
<1>2. MaxEntries \in Nat
  BY SemanticAssumption
<1>3. PICK k : k = Keys(IdOf, c) /\ k \in Seq(Nat) /\ ToSet(k) = Ids(c)
  BY <1>1, IdKeys DEF KeysOf
<1>4. IsFiniteSet(Ids(c))
  BY <1>1, <1>2, <1>3, RecentIsDistinct
<1>5. PICK id \in Nat : id = NewId(c) /\ id \notin ToSet(k)
  BY <1>1, <1>3, <1>4, NewIdIs
<1>6. PICK e : e = [id |-> id, topic |-> topic, text |-> text]
  OBVIOUS
<1>7. e \in Entries /\ e.id = id /\ e.text.tenant = t
  BY <1>6 DEF Entries
<1>8. IdOf \in [Entries -> Nat] /\ IdOf[e] = id
  <2>1. IdOf \in [Entries -> Nat]
    BY DEF IdOf, Entries
  <2>2. QED
    BY <1>7, <2>1 DEF IdOf
<1>9. PICK d \in Seq(Entries) : d = Append(c, e)
  <2>1. Append(c, e) \in Seq(Entries)
    BY <1>1, <1>7
  <2>2. QED
    BY <2>1
<1>10. Keys(IdOf, d) = Append(k, id)
  BY <1>1, <1>3, <1>7, <1>8, <1>9, KeysAppended
<1>11. Moved(k, Append(k, id), id)
  BY <1>3, <1>5, AddsAtEnd
<1>12. Recent(Append(k, id), Append(log, id), MaxEntries)
  BY <1>1, <1>2, <1>3, <1>11, MoveKeeps
<1>13. PICK a : a = Trimmed(d, MaxEntries)
  OBVIOUS
<1>14. a \in Seq(Entries) /\ ToSet(a) \subseteq ToSet(d) /\ Keys(IdOf, a) = Trimmed(Append(k, id), MaxEntries)
  <2>1. IdOf \in [Entries -> Nat]
    BY <1>8
  <2>2. TrimmedAlike(a, Entries, IdOf, d, MaxEntries)
    BY <1>2, <1>13, <2>1, KeysTrimmed
  <2>3. QED
    BY <1>10, <2>2 DEF TrimmedAlike
<1>15. Recent(Keys(IdOf, a), Append(log, id), MaxEntries) /\ Len(Keys(IdOf, a)) <= MaxEntries
  BY <1>2, <1>12, <1>14, TrimKeeps
<1>16. Len(Keys(IdOf, a)) = Len(a)
  BY <1>14, IdKeys DEF KeysOf
<1>17. \A x \in ToSet(a) : x.text.tenant = t
  <2>1. \A x \in ToSet(d) : x \in ToSet(c) \/ x = e
    BY <1>1, <1>7, <1>9 DEF ToSet
  <2>2. QED
    BY <1>7, <1>14, <2>1 DEF CacheOk
<1>18. insert_entry(c, topic, text) = a
  BY <1>5, <1>6, <1>9, <1>13 DEF insert_entry, Trimmed
<1>19. CacheOk(a, Append(log, id), t)
  BY <1>14, <1>15, <1>16, <1>17 DEF CacheOk
<1>20. QED
  BY <1>5, <1>18, <1>19

-----------------------------------------------------------------------------
(* Narrowing the candidates                                                *)

LEMMA InflightIs == Inflight \in [Servers -> Nat]
<1>1. ASSUME NEW b \in Servers
      PROVE  Cardinality({r \in Asks : ask[r].phase = "streaming" /\ ask[r].at = b}) \in Nat
  <2>1. PICK R \in SUBSET Asks : R = {r \in Asks : ask[r].phase = "streaming" /\ ask[r].at = b}
    OBVIOUS
  <2>2. IsFiniteSet(R)
    BY SelectionAssumption, FS_Subset
  <2>3. QED
    BY <2>1, <2>2, FS_CardinalityType
<1>2. QED
  BY <1>1 DEF Inflight

LEMMA ChunksAre ==
  ASSUME NEW r \in Asks
  PROVE  Chunks(r) \in Seq(Nat) /\ ToSet(Chunks(r)) = ToSet(Shape[r].chunks)
<1>1. PICK s \in Seq(Nat) : s = Shape[r].chunks
  BY SelectionAssumption
<1>2. PICK n \in Nat : n = Len(s) /\ DOMAIN s = 1 .. n
  OBVIOUS
<1>3. PICK D : D = 1 .. n /\ IsFiniteSet(D)
  <2>1. IsFiniteSet(1 .. n)
    BY FS_Interval
  <2>2. QED
    BY <2>1
<1>4. PICK S : S = ToSet(s) /\ S \in SUBSET Nat /\ s \in Surjection(D, S)
  <2>1. PICK S : S = ToSet(s)
    OBVIOUS
  <2>2. S = {s[i] : i \in D} /\ D = DOMAIN s
    BY <1>2, <1>3, <2>1 DEF ToSet
  <2>3. S \in SUBSET Nat
    BY <2>2
  <2>4. s \in [D -> S]
    BY <2>2
  <2>5. s \in Surjection(D, S)
    BY <2>2, <2>4 DEF Surjection
  <2>6. QED
    BY <2>1, <2>3, <2>5
<1>5. IsFiniteSet(S)
  BY <1>3, <1>4, FS_Surjection
<1>6. Sorted(S) \in Seq(S) /\ ToSet(Sorted(S)) = S
  BY <1>4, <1>5, SortedIs
<1>7. Chunks(r) = Sorted(S)
  BY <1>1, <1>4 DEF Chunks, canonicalize_chunks
<1>8. Sorted(S) \in Seq(Nat)
  <2>1. PICK q \in Seq(S) : q = Sorted(S)
    BY <1>6
  <2>2. q \in Seq(Nat)
    BY <1>4
  <2>3. QED
    BY <2>1, <2>2
<1>9. QED
  BY <1>1, <1>4, <1>6, <1>7, <1>8

LEMMA PinIsCandidate == ASSUME NEW r, NEW S PROVE Pinned(r, S).backend \in SUBSET S
<1>1. CASE Shape[r].session = "none"
  BY <1>1 DEF Pinned
<1>2. CASE Shape[r].session # "none"
  <2>1. Pinned(r, S) = pick(sessionPins, Shape[r].session, S, 0)
    BY <1>2 DEF Pinned
  <2>2. pick(sessionPins, Shape[r].session, S, 0).backend \in SUBSET S
    BY DEF pick
  <2>3. QED
    BY <2>1, <2>2
<1>3. QED
  BY <1>1, <1>2

(* The candidates before the chunks are looked at.                         *)
BeforeRag(r) == AfterPin(r, AllowedOf(ids(r)))

LEMMA BeforeRagIs ==
  ASSUME NEW r, ids(r) # {}
  PROVE  BeforeRag(r) \in SUBSET ids(r) /\ BeforeRag(r) # {}
<1>1. PICK A \in SUBSET ids(r) : A = AllowedOf(ids(r)) /\ A # {}
  BY DEF AllowedOf
<1>2. Pinned(r, A).backend \in SUBSET A
  BY PinIsCandidate
<1>3. AfterPin(r, A) \in SUBSET A /\ AfterPin(r, A) # {}
  BY <1>1, <1>2 DEF AfterPin
<1>4. QED
  BY <1>1, <1>3 DEF BeforeRag

LEMMA IdsAre ==
  ASSUME NEW r
  PROVE  /\ ids(r) \in SUBSET Servers
         /\ Shape[r].adapter # "none" /\ ~FallbackToBase => \A b \in ids(r) : Shape[r].adapter \in Adapters[b]
BY DEF ids, lora_filter

LEMMA AffineIs ==
  ASSUME NEW r \in Asks, ids(r) # {}
  PROVE  Affine(r) \in SUBSET BeforeRag(r) /\ Affine(r) # {}
<1>1. PICK S \in SUBSET Servers : S = BeforeRag(r) /\ S # {}
  BY BeforeRagIs, IdsAre
<1>2. CASE Shape[r].chunks = <<>>
  BY <1>1, <1>2 DEF Affine, AfterRag, BeforeRag
<1>3. CASE Shape[r].chunks # <<>>
  <2>1. PICK k : k = choose_rag_backend(Chunks(r), S, chunkIndex, Inflight)
    OBVIOUS
  <2>2. RagChosen(k, Chunks(r), S, chunkIndex, Inflight)
    BY <1>1, <2>1, ChunksAre, InflightIs, RagChoiceIs
  <2>3. k \in S
    BY <2>2 DEF RagChosen
  <2>4. Affine(r) = {k}
    BY <1>1, <1>3, <2>1 DEF Affine, AfterRag, BeforeRag
  <2>5. QED
    BY <1>1, <2>3, <2>4
<1>4. QED
  BY <1>2, <1>3

LEMMA AfterMediaIs ==
  ASSUME NEW r \in Asks, NEW S \in SUBSET Servers, NEW b \in AfterMedia(r, S)
  PROVE  b \in S /\ (Required(r) \subseteq Caps[b] \/ Shape[r].media = <<>>)
<1>1. CASE Shape[r].media = <<>>
  BY <1>1 DEF AfterMedia
<1>2. CASE Shape[r].media # <<>>
  <2>1. Capable(S, Required(r), Caps) # {}
    BY <1>2 DEF AfterMedia
  <2>2. b = choose_multimodal_backend(Shape[r].media, Required(r), S, Caps, mediaIndex, Inflight)
    BY <1>2, <2>1 DEF AfterMedia
  <2>3. PICK s \in Seq(DOMAIN Media) : s = Shape[r].media
    BY SelectionAssumption
  <2>4. choose_multimodal_backend(s, Required(r), S, Caps, mediaIndex, Inflight) \in Capable(S, Required(r), Caps)
    BY <2>1, InflightIs, MediaChoiceIs
  <2>5. QED
    BY <2>2, <2>3, <2>4 DEF Capable
<1>3. QED
  BY <1>1, <1>2

(* b serves the modalities of r and, unless the pools are fixed, has its   *)
(* adapter.                                                                *)
SuitsOn(r, b) ==
  /\ Required(r) \subseteq Caps[b] \/ Shape[r].media = <<>>
  /\ (Shape[r].adapter # "none" /\ ~FallbackToBase /\ split = {}) => Shape[r].adapter \in Adapters[b]

LEMMA StreamSuits ==
  ASSUME NEW r \in Asks, ids(r) # {}, split \in SUBSET Servers,
         NEW S \in SplitChoices(Affine(r)), NEW b \in AfterMedia(r, S)
  PROVE  b \in Servers /\ SuitsOn(r, b)
<1>1. Affine(r) \in SUBSET ids(r) /\ ids(r) \in SUBSET Servers
  BY AffineIs, BeforeRagIs, IdsAre
<1>2. S \in SUBSET Servers /\ (split = {} => S = Affine(r))
  BY <1>1 DEF SplitChoices
<1>3. b \in S /\ (Required(r) \subseteq Caps[b] \/ Shape[r].media = <<>>)
  BY <1>2, AfterMediaIs
<1>4. split = {} => b \in ids(r)
  BY <1>1, <1>2, <1>3
<1>5. QED
  BY <1>2, <1>3, <1>4, IdsAre DEF SuitsOn

-----------------------------------------------------------------------------
(* The invariant of selection                                              *)

AskPhases == {"new", "streaming", "cached", "503", "415", "done"}

AskRecs ==
  [phase : AskPhases, at : Servers \cup {0}] \cup [phase : AskPhases, at : {0}, text : [tenant : Renters]]

(* A request streams from a backend that suits it, or got its own tenant's *)
(* answer.                                                                 *)
AskInv ==
  /\ ask \in [Asks -> AskRecs] /\ split \in SUBSET Servers
  /\ \A r \in Asks : ask[r].phase = "streaming" => ask[r].at \in Servers /\ SuitsOn(r, ask[r].at)
  /\ CachePerTenant

ChunkInv ==
  /\ chunkIndex \in [Servers -> Seq(Nat)] /\ chunkLog \in [Servers -> Seq(Nat)]
  /\ \A b \in Servers : /\ Recent(chunkIndex[b], chunkLog[b], ChunkCapacity)
                        /\ Len(chunkIndex[b]) <= ChunkCapacity

AnswerInv ==
  /\ answers \in [Renters -> Seq(Entries)] /\ useLog \in [Renters -> Seq(Nat)]
  /\ \A t \in Renters : CacheOk(answers[t], useLog[t], t)

SelInv == AskInv /\ ChunkInv /\ AnswerInv

LEMMA NothingIsRecent == ASSUME NEW n PROVE Recent(<<>>, <<>>, n)
<1>1. DOMAIN <<>> = {} /\ <<>> \in Seq(Nat)
  OBVIOUS
<1>2. ToSet(<<>>) = {}
  BY <1>1 DEF ToSet
<1>3. QED
  BY <1>1, <1>2, Zenon DEF Recent

LEMMA SelInitInv == SelInit => SelInv
<1> SUFFICES ASSUME SelInit PROVE SelInv
  OBVIOUS
<1>1. AskInv
  <2>1. ask = [r \in Asks |-> [phase |-> "new", at |-> 0]] /\ split \in SUBSET Servers
    BY SelectionAssumption DEF SelInit
  <2>2. ask \in [Asks -> AskRecs] /\ \A r \in Asks : ask[r].phase = "new"
    <3>1. PICK v : v = [phase |-> "new", at |-> 0]
      OBVIOUS
    <3>2. v \in [phase : AskPhases, at : Servers \cup {0}] /\ v.phase = "new"
      BY <3>1 DEF AskPhases
    <3>3. QED
      BY <2>1, <3>1, <3>2 DEF AskRecs
  <2>3. QED
    BY <2>1, <2>2 DEF AskInv, CachePerTenant
<1>2. ChunkInv
  <2>1. chunkIndex = [b \in Servers |-> <<>>] /\ chunkLog = [b \in Servers |-> <<>>]
    BY DEF SelInit
  <2>2. <<>> \in Seq(Nat) /\ Len(<<>>) = 0 /\ 0 <= ChunkCapacity
    BY SelectionAssumption
  <2>3. Recent(<<>>, <<>>, ChunkCapacity)
    BY NothingIsRecent
  <2>4. QED
    BY <2>1, <2>2, <2>3 DEF ChunkInv
<1>3. AnswerInv
  <2>1. answers = [t \in Renters |-> <<>>] /\ useLog = [t \in Renters |-> <<>>]
    BY DEF SelInit
  <2>2. <<>> \in Seq(Nat) /\ <<>> \in Seq(Entries) /\ Len(<<>>) = 0 /\ 0 <= MaxEntries /\ DOMAIN <<>> = {}
    BY SemanticAssumption
  <2>3. Keys(IdOf, <<>>) = <<>>
    BY <2>2 DEF Keys
  <2>4. Recent(<<>>, <<>>, MaxEntries)
    BY NothingIsRecent
  <2>5. ToSet(<<>>) = {}
    BY <2>2 DEF ToSet
  <2>6. ASSUME NEW t \in Renters PROVE CacheOk(<<>>, <<>>, t)
    BY <2>2, <2>3, <2>4, <2>5 DEF CacheOk
  <2>7. QED
    BY <2>1, <2>2, <2>6 DEF AnswerInv
<1>4. QED
  BY <1>1, <1>2, <1>3 DEF SelInv

(* A request gets a new state.                                             *)
LEMMA AskStep ==
  ASSUME AskInv, NEW r \in Asks, NEW v \in AskRecs, ask' = [ask EXCEPT ![r] = v], split' = split,
         v.phase = "streaming" => v.at \in Servers /\ SuitsOn(r, v.at),
         v.phase = "cached" => v.text.tenant = Shape[r].tenant
  PROVE  AskInv'
<1>1. ask' \in [Asks -> AskRecs] /\ ask'[r] = v /\ \A q \in Asks : q # r => ask'[q] = ask[q]
  BY DEF AskInv
<1>2. \A q, b : SuitsOn(q, b)' <=> SuitsOn(q, b)
  BY DEF SuitsOn, Required
<1>3. ASSUME NEW q \in Asks, ask'[q].phase = "streaming" PROVE ask'[q].at \in Servers /\ SuitsOn(q, ask[q].at)'
  <2>1. CASE q = r
    <3>1. v.at \in Servers /\ SuitsOn(r, v.at)
      BY <1>1, <1>3, <2>1
    <3>2. QED
      BY <1>1, <2>1, <3>1 DEF SuitsOn, Required
  <2>2. CASE q # r
    <3>1. ask[q].at \in Servers /\ SuitsOn(q, ask[q].at) /\ ask'[q] = ask[q]
      BY <1>1, <1>3, <2>2 DEF AskInv
    <3>2. QED
      BY <3>1 DEF SuitsOn, Required
  <2>3. QED
    BY <2>1, <2>2
<1>4. ASSUME NEW q \in Asks, ask'[q].phase = "cached" PROVE ask'[q].text.tenant = Shape[q].tenant
  <2>1. CASE q = r
    BY <1>1, <1>4, <2>1
  <2>2. CASE q # r
    BY <1>1, <1>4, <2>2 DEF AskInv, CachePerTenant
  <2>3. QED
    BY <2>1, <2>2
<1>5. split' \in SUBSET Servers
  BY DEF AskInv
<1>6. CachePerTenant'
  BY <1>4 DEF CachePerTenant
<1>7. QED
  BY <1>1, <1>3, <1>5, <1>6 DEF AskInv

LEMMA LeaveStep ==
  ASSUME AskInv, NEW r \in Asks, NEW p \in {"503", "415", "done"}, Leave(r, p), split' = split
  PROVE  AskInv'
<1>1. ask[r] \in AskRecs
  BY DEF AskInv
<1>2. PICK v : v = [ask[r] EXCEPT !.phase = p]
  OBVIOUS
<1>3. v \in AskRecs /\ v.phase = p
  <2>1. CASE ask[r] \in [phase : AskPhases, at : Servers \cup {0}]
    <3>1. v \in [phase : AskPhases, at : Servers \cup {0}] /\ v.phase = p
      BY <1>2, <2>1 DEF AskPhases
    <3>2. QED
      BY <3>1 DEF AskRecs
  <2>2. CASE ask[r] \in [phase : AskPhases, at : {0}, text : [tenant : Renters]]
    <3>1. v \in [phase : AskPhases, at : {0}, text : [tenant : Renters]] /\ v.phase = p
      BY <1>2, <2>2 DEF AskPhases
    <3>2. QED
      BY <3>1 DEF AskRecs
  <2>3. QED
    BY <1>1, <2>1, <2>2 DEF AskRecs
<1>4. ask' = [ask EXCEPT ![r] = v]
  BY <1>2 DEF Leave, AskInv
<1>5. v.phase # "streaming" /\ v.phase # "cached"
  BY <1>3
<1>6. QED
  BY <1>3, <1>4, <1>5, AskStep

LEMMA ChunksStay == ASSUME ChunkInv, chunkIndex' = chunkIndex, chunkLog' = chunkLog PROVE ChunkInv'
BY DEF ChunkInv

LEMMA AnswersStay == ASSUME AnswerInv, answers' = answers, useLog' = useLog PROVE AnswerInv'
BY DEF AnswerInv

LEMMA NoBackendStep == ASSUME SelInv, NEW r \in Asks, NoBackend(r) PROVE SelInv'
<1>1. /\ Leave(r, "503") /\ split' = split /\ chunkIndex' = chunkIndex /\ chunkLog' = chunkLog
      /\ answers' = answers /\ useLog' = useLog
  BY DEF NoBackend, SelRest
<1>2. QED
  BY <1>1, LeaveStep, ChunksStay, AnswersStay DEF SelInv

LEMMA ShedStep == ASSUME SelInv, NEW r \in Asks, ShedAsk(r) PROVE SelInv'
<1>1. /\ Leave(r, "503") /\ split' = split /\ chunkIndex' = chunkIndex /\ chunkLog' = chunkLog
      /\ answers' = answers /\ useLog' = useLog
  BY DEF ShedAsk, SelRest
<1>2. QED
  BY <1>1, LeaveStep, ChunksStay, AnswersStay DEF SelInv

LEMMA UnsupportedStep == ASSUME SelInv, NEW r \in Asks, Unsupported(r) PROVE SelInv'
<1>1. /\ Leave(r, "415") /\ split' = split /\ chunkIndex' = chunkIndex /\ chunkLog' = chunkLog
      /\ answers' = answers /\ useLog' = useLog
  BY DEF Unsupported, SelRest
<1>2. QED
  BY <1>1, LeaveStep, ChunksStay, AnswersStay DEF SelInv

LEMMA StreamStep == ASSUME SelInv, NEW r \in Asks, Stream(r) PROVE SelInv'
<1>1. /\ Misses(r) /\ split' = split /\ chunkIndex' = chunkIndex /\ chunkLog' = chunkLog
      /\ answers' = answers /\ useLog' = useLog
  BY DEF Stream, SelRest
<1>2. PICK S \in SplitChoices(Affine(r)) : \E b \in AfterMedia(r, S) :
        ask' = [ask EXCEPT ![r] = [phase |-> "streaming", at |-> b]]
  BY DEF Stream
<1>3. PICK b \in AfterMedia(r, S) : ask' = [ask EXCEPT ![r] = [phase |-> "streaming", at |-> b]]
  BY <1>2
<1>4. ids(r) # {} /\ split \in SUBSET Servers
  BY <1>1 DEF Misses, SelInv, AskInv
<1>5. b \in Servers /\ SuitsOn(r, b)
  BY <1>4, StreamSuits
<1>6. PICK v : v = [phase |-> "streaming", at |-> b]
  OBVIOUS
<1>7. v \in AskRecs /\ v.phase = "streaming" /\ v.at = b
  <2>1. v \in [phase : AskPhases, at : Servers \cup {0}] /\ v.phase = "streaming" /\ v.at = b
    BY <1>5, <1>6 DEF AskPhases
  <2>2. QED
    BY <2>1 DEF AskRecs
<1>8. AskInv'
  <2>1. AskInv /\ ask' = [ask EXCEPT ![r] = v]
    BY <1>3, <1>6 DEF SelInv
  <2>2. v.phase # "cached" /\ v.at \in Servers /\ SuitsOn(r, v.at)
    BY <1>5, <1>7
  <2>3. QED
    BY <1>1, <1>7, <2>1, <2>2, AskStep
<1>9. QED
  BY <1>1, <1>8, ChunksStay, AnswersStay DEF SelInv

(* One tenant's entries and log change together.                           *)
LEMMA AnswerStep ==
  ASSUME AnswerInv, NEW t \in Renters, NEW c, NEW id \in Nat, CacheOk(c, Append(useLog[t], id), t),
         answers' = [answers EXCEPT ![t] = c], useLog' = [useLog EXCEPT ![t] = Append(useLog[t], id)]
  PROVE  AnswerInv'
<1>1. c \in Seq(Entries) /\ useLog[t] \in Seq(Nat)
  BY DEF CacheOk, AnswerInv
<1>2. Append(useLog[t], id) \in Seq(Nat)
  BY <1>1
<1>3. answers' \in [Renters -> Seq(Entries)] /\ useLog' \in [Renters -> Seq(Nat)]
  BY <1>1, <1>2 DEF AnswerInv
<1>4. ASSUME NEW q \in Renters PROVE CacheOk(answers'[q], useLog'[q], q)
  <2>1. CASE q = t
    <3>1. answers'[q] = c /\ useLog'[q] = Append(useLog[t], id)
      BY <2>1 DEF AnswerInv
    <3>2. QED
      BY <2>1, <3>1
  <2>2. CASE q # t
    <3>1. answers'[q] = answers[q] /\ useLog'[q] = useLog[q]
      BY <2>2 DEF AnswerInv
    <3>2. QED
      BY <3>1 DEF AnswerInv
  <2>3. QED
    BY <2>1, <2>2
<1>5. QED
  BY <1>3, <1>4 DEF AnswerInv, CacheOk

LEMMA CachedStep == ASSUME SelInv, NEW r \in Asks, AnswerFromCache(r) PROVE SelInv'
<1>1. PICK t \in Renters : t = _tenant(r) /\ t = Shape[r].tenant
  BY DEF _tenant, Renters
<1>2. PICK e : e = Best(answers[t], Shape[r].topic)
  OBVIOUS
<1>3. /\ Hit(r) /\ ask' = [ask EXCEPT ![r] = [phase |-> "cached", at |-> 0, text |-> e.text]]
      /\ answers' = [answers EXCEPT ![t] = touched(answers[t], e)]
      /\ useLog' = [useLog EXCEPT ![t] = Append(useLog[t], e.id)]
      /\ split' = split /\ chunkIndex' = chunkIndex /\ chunkLog' = chunkLog
  <2>1. AnswerInv
    BY DEF SelInv
  <2>2. QED
    BY <1>1, <1>2, <2>1 DEF AnswerFromCache, SelRest, AnswerInv
<1>4. CacheOk(answers[t], useLog[t], t) /\ answers[t] \in Seq(Entries)
  BY DEF SelInv, AnswerInv
<1>5. Shape[r].topic \in DOMAIN Similarity /\ answers[t] # <<>>
  BY <1>1, <1>3 DEF Hit, Embeds, find_similar
<1>6. e \in ToSet(answers[t])
  BY <1>2, <1>4, <1>5, BestIsEntry
<1>7. e \in Entries /\ e.text.tenant = t
  <2>1. \A x \in ToSet(answers[t]) : x \in Entries
    BY <1>4 DEF ToSet
  <2>2. QED
    BY <1>4, <1>6, <2>1 DEF CacheOk
<1>8. e.id \in Nat /\ e.text \in [tenant : Renters]
  BY <1>7 DEF Entries
<1>9. CacheOk(touched(answers[t], e), Append(useLog[t], e.id), t)
  BY <1>4, <1>6, HitKeeps
<1>10. AnswerInv'
  BY <1>3, <1>8, <1>9, AnswerStep DEF SelInv
<1>11. PICK v : v = [phase |-> "cached", at |-> 0, text |-> e.text]
  OBVIOUS
<1>12. v \in AskRecs /\ v.phase = "cached" /\ v.text = e.text
  <2>1. v \in [phase : AskPhases, at : {0}, text : [tenant : Renters]]
    BY <1>8, <1>11 DEF AskPhases
  <2>2. QED
    BY <1>11, <2>1 DEF AskRecs
<1>13. AskInv'
  <2>1. AskInv /\ ask' = [ask EXCEPT ![r] = v]
    BY <1>3, <1>11 DEF SelInv
  <2>2. v.phase # "streaming" /\ v.text.tenant = Shape[r].tenant
    BY <1>1, <1>7, <1>12
  <2>3. QED
    BY <1>3, <1>12, <2>1, <2>2, AskStep
<1>14. QED
  BY <1>3, <1>10, <1>13, ChunksStay DEF SelInv

LEMMA StreamOverStep == ASSUME SelInv, NEW r \in Asks, NEW ok \in BOOLEAN, StreamOver(r, ok) PROVE SelInv'
<1>1. PICK t \in Renters : t = _tenant(r) /\ t = Shape[r].tenant
  BY DEF _tenant, Renters
<1>2. PICK b \in Servers : b = ask[r].at
  BY DEF StreamOver, SelInv, AskInv
<1>3. AskInv'
  <2>1. Leave(r, "done") /\ split' = split
    BY DEF StreamOver
  <2>2. QED
    BY <2>1, LeaveStep DEF SelInv
<1>4. PICK text : text = [tenant |-> Shape[r].tenant]
  OBVIOUS
<1>5. text \in [tenant : Renters] /\ text.tenant = t
  BY <1>1, <1>4
<1>6. AnswerInv'
  <2>1. CASE ok /\ Embeds(Shape[r].topic)
    <3>1. PICK c : c = insert_entry(answers[t], Shape[r].topic, text)
      OBVIOUS
    <3>2. PICK id : id = NewId(answers[t])
      OBVIOUS
    <3>3. answers' = [answers EXCEPT ![t] = c] /\ useLog' = [useLog EXCEPT ![t] = Append(useLog[t], id)]
      BY <1>1, <1>4, <2>1, <3>1, <3>2 DEF StreamOver, SelInv, AnswerInv
    <3>4. CacheOk(answers[t], useLog[t], t) /\ Shape[r].topic \in DOMAIN Similarity
      BY <2>1 DEF SelInv, AnswerInv, Embeds
    <3>5. CacheOk(c, Append(useLog[t], id), t) /\ id \in Nat
      BY <1>5, <3>1, <3>2, <3>4, InsertKeeps
    <3>6. QED
      BY <3>3, <3>5, AnswerStep DEF SelInv
  <2>2. CASE ~(ok /\ Embeds(Shape[r].topic))
    <3>1. answers' = answers /\ useLog' = useLog
      BY <2>2 DEF StreamOver
    <3>2. QED
      BY <3>1, AnswersStay DEF SelInv
  <2>3. QED
    BY <2>1, <2>2
<1>7. ChunkInv'
  <2>0. ChunkInv
    BY DEF SelInv
  <2>1. CASE ok /\ Shape[r].chunks # <<>>
    <3>1. PICK s \in Seq(Nat) : s = Chunks(r)
      BY ChunksAre
    <3>2. PICK c, l : c = record(chunkIndex[b], s, ChunkCapacity) /\ l = chunkLog[b] \o s
      OBVIOUS
    <3>3. chunkIndex' = [chunkIndex EXCEPT ![b] = c] /\ chunkLog' = [chunkLog EXCEPT ![b] = l]
      BY <1>2, <2>0, <2>1, <3>1, <3>2 DEF StreamOver, ChunkInv
    <3>4. Recent(chunkIndex[b], chunkLog[b], ChunkCapacity) /\ ChunkCapacity \in Nat
      BY <2>0, SelectionAssumption DEF ChunkInv
    <3>5. Recent(c, l, ChunkCapacity) /\ Len(c) <= ChunkCapacity
      BY <3>2, <3>4, RecordKeeps
    <3>6. c \in Seq(Nat) /\ l \in Seq(Nat)
      BY <3>5 DEF Recent
    <3>7. chunkIndex' \in [Servers -> Seq(Nat)] /\ chunkLog' \in [Servers -> Seq(Nat)]
      BY <2>0, <3>3, <3>6 DEF ChunkInv
    <3>8. ASSUME NEW q \in Servers
          PROVE  Recent(chunkIndex'[q], chunkLog'[q], ChunkCapacity) /\ Len(chunkIndex'[q]) <= ChunkCapacity
      <4>1. CASE q = b
        <5>1. chunkIndex'[q] = c /\ chunkLog'[q] = l
          BY <2>0, <3>3, <4>1 DEF ChunkInv
        <5>2. QED
          BY <3>5, <5>1
      <4>2. CASE q # b
        <5>1. chunkIndex'[q] = chunkIndex[q] /\ chunkLog'[q] = chunkLog[q]
          BY <2>0, <3>3, <4>2 DEF ChunkInv
        <5>2. QED
          BY <2>0, <5>1 DEF ChunkInv
      <4>3. QED
        BY <4>1, <4>2
    <3>9. QED
      BY <3>7, <3>8 DEF ChunkInv, Recent, LastAt
  <2>2. CASE ~(ok /\ Shape[r].chunks # <<>>)
    <3>1. chunkIndex' = [chunkIndex EXCEPT ![b] = chunkIndex[b]] /\ chunkLog' = [chunkLog EXCEPT ![b] = chunkLog[b]]
      BY <1>2, <2>0, <2>2 DEF StreamOver, ChunkInv
    <3>2. chunkIndex' = chunkIndex /\ chunkLog' = chunkLog
      BY <2>0, <3>1 DEF ChunkInv
    <3>3. QED
      BY <2>0, <3>2, ChunksStay
  <2>3. QED
    BY <2>1, <2>2
<1>8. QED
  BY <1>3, <1>6, <1>7 DEF SelInv

LEMMA AsksStay == ASSUME AskInv, ask' = ask, split' = split PROVE AskInv'
BY DEF AskInv, CachePerTenant, SuitsOn, Required

LEMMA SelNextInv == ASSUME SelInv, [SelNext]_selVars PROVE SelInv'
<1>1. ASSUME NEW r \in Asks, NoBackend(r) PROVE SelInv'
  BY <1>1, NoBackendStep
<1>2. ASSUME NEW r \in Asks, AnswerFromCache(r) PROVE SelInv'
  BY <1>2, CachedStep
<1>3. ASSUME NEW r \in Asks, ShedAsk(r) PROVE SelInv'
  BY <1>3, ShedStep
<1>4. ASSUME NEW r \in Asks, Unsupported(r) PROVE SelInv'
  BY <1>4, UnsupportedStep
<1>5. ASSUME NEW r \in Asks, Stream(r) PROVE SelInv'
  BY <1>5, StreamStep
<1>6. ASSUME NEW r \in Asks, NEW ok \in BOOLEAN, StreamOver(r, ok) PROVE SelInv'
  BY <1>6, StreamOverStep
<1>7. ASSUME NEW b \in Shaky, Flip(b) PROVE SelInv'
  <2>1. /\ ask' = ask /\ split' = split /\ chunkIndex' = chunkIndex /\ chunkLog' = chunkLog
        /\ answers' = answers /\ useLog' = useLog
    BY <1>7 DEF Flip
  <2>2. QED
    BY <2>1, AsksStay, ChunksStay, AnswersStay DEF SelInv
<1>8. CASE selVars' = selVars
  <2>1. /\ ask' = ask /\ split' = split /\ chunkIndex' = chunkIndex /\ chunkLog' = chunkLog
        /\ answers' = answers /\ useLog' = useLog
    BY <1>8 DEF selVars
  <2>2. QED
    BY <2>1, AsksStay, ChunksStay, AnswersStay DEF SelInv
<1>9. QED
  BY <1>1, <1>2, <1>3, <1>4, <1>5, <1>6, <1>7, <1>8 DEF SelNext

LEMMA ServedSoundly ==
  ASSUME SelInv
  PROVE  /\ BackendCanServe /\ ChunkIndexIsRecent /\ SameChunksSamePrefix /\ ImageCostBounded
         /\ CachePerTenant /\ CacheKeepsRecentlyUsed
<1>1. BackendCanServe
  BY DEF SelInv, AskInv, SuitsOn, BackendCanServe
<1>2. ChunkIndexIsRecent
  <2>1. ASSUME NEW b \in Servers PROVE ToSet(chunkIndex[b]) = LastUsed(chunkLog[b], ChunkCapacity)
    <3>1. /\ Recent(chunkIndex[b], chunkLog[b], ChunkCapacity) /\ Len(chunkIndex[b]) <= ChunkCapacity
          /\ ChunkCapacity \in Nat
      BY SelectionAssumption DEF SelInv, ChunkInv
    <3>2. QED
      BY <3>1, RecentIsLastUsed
  <2>2. QED
    BY <2>1 DEF ChunkIndexIsRecent
<1>3. SameChunksSamePrefix
  BY DEF SameChunksSamePrefix, Chunks, canonicalize_chunks
<1>4. ImageCostBounded
  <2>1. ASSUME NEW r \in Asks, NEW m \in ToSet(Shape[r].media), Media[m].modality = "image"
        PROVE  tokens(Media[m]) \in ImageBase .. ImageBase + 8 * TileTokens
    <3>1. m \in DOMAIN Media
      BY SelectionAssumption DEF ToSet
    <3>2. PICK w \in Nat, h \in Nat : w = Media[m].width /\ h = Media[m].height
      BY <2>1, <3>1, AffinityAssumption
    <3>3. tokens(Media[m]) = image_tokens(w, h, Media[m].detail)
      BY <2>1, <3>2 DEF tokens
    <3>4. QED
      BY <3>3, ImageTokensBounded
  <2>2. QED
    BY <2>1 DEF ImageCostBounded
<1>5. CachePerTenant
  BY DEF SelInv, AskInv
<1>6. CacheKeepsRecentlyUsed
  <2>1. ASSUME NEW t \in Renters PROVE Ids(answers[t]) = LastUsed(useLog[t], MaxEntries)
    <3>1. CacheOk(answers[t], useLog[t], t)
      BY DEF SelInv, AnswerInv
    <3>2. QED
      BY <3>1, CacheIsRecent
  <2>2. QED
    BY <2>1 DEF CacheKeepsRecentlyUsed
<1>7. QED
  BY <1>1, <1>2, <1>3, <1>4, <1>5, <1>6

(* Only Stream lets a new request stream.                                  *)
LEMMA OnlyStreamStreams ==
  ASSUME SelInv, [SelNext]_selVars, NEW r \in Asks, ask[r].phase = "new", ask'[r].phase = "streaming"
  PROVE  Stream(r)
<1>0. ask \in [Asks -> AskRecs]
  BY DEF SelInv, AskInv
<1>1. ASSUME NEW q \in Asks, NEW p \in {"503", "415", "done"}, Leave(q, p) PROVE FALSE
  <2>1. CASE q = r
    <3>1. ask[r] \in AskRecs /\ ask'[r] = [ask[r] EXCEPT !.phase = p]
      BY <1>0, <1>1, <2>1 DEF Leave
    <3>2. ask'[r].phase = p
      <4>1. CASE ask[r] \in [phase : AskPhases, at : Servers \cup {0}]
        BY <3>1, <4>1
      <4>2. CASE ask[r] \in [phase : AskPhases, at : {0}, text : [tenant : Renters]]
        BY <3>1, <4>2
      <4>3. QED
        BY <3>1, <4>1, <4>2 DEF AskRecs
    <3>3. QED
      BY <3>2
  <2>2. CASE q # r
    <3>1. ask'[r] = ask[r]
      BY <1>0, <1>1, <2>2 DEF Leave
    <3>2. QED
      BY <3>1
  <2>3. QED
    BY <2>1, <2>2
<1>2. ASSUME NEW q \in Asks, AnswerFromCache(q) PROVE FALSE
  <2>1. PICK x : ask' = [ask EXCEPT ![q] = [phase |-> "cached", at |-> 0, text |-> x]]
    BY <1>2 DEF AnswerFromCache
  <2>2. QED
    BY <1>0, <2>1
<1>3. ASSUME NEW q \in Asks, Stream(q) PROVE q = r
  <2>1. PICK b : ask' = [ask EXCEPT ![q] = [phase |-> "streaming", at |-> b]]
    BY <1>3 DEF Stream
  <2>2. QED
    BY <1>0, <2>1
<1>4. ask' # ask
  OBVIOUS
<1>5. CASE \E q \in Asks : NoBackend(q)
  BY <1>1, <1>5 DEF NoBackend
<1>6. CASE \E q \in Asks : AnswerFromCache(q)
  BY <1>2, <1>6
<1>7. CASE \E q \in Asks : ShedAsk(q)
  BY <1>1, <1>7 DEF ShedAsk
<1>8. CASE \E q \in Asks : Unsupported(q)
  BY <1>1, <1>8 DEF Unsupported
<1>9. CASE \E q \in Asks : Stream(q)
  BY <1>3, <1>9
<1>10. CASE \E q \in Asks : \E ok \in BOOLEAN : StreamOver(q, ok)
  BY <1>1, <1>10 DEF StreamOver
<1>11. CASE \E b \in Shaky : Flip(b)
  BY <1>4, <1>11 DEF Flip
<1>12. CASE selVars' = selVars
  BY <1>4, <1>12 DEF selVars
<1>13. QED
  BY <1>5, <1>6, <1>7, <1>8, <1>9, <1>10, <1>11, <1>12 DEF SelNext

LEMMA AttractStep ==
  ASSUME SelInv, [SelNext]_selVars
  PROVE  [\A r \in Asks : Attracted(r)]_selVars
<1>1. ASSUME NEW r \in Asks PROVE Attracted(r)
  <2>1. PICK S : S = AfterPin(r, AllowedOf(ids(r))) /\ S = BeforeRag(r)
    BY DEF BeforeRag
  <2>2. PICK holders : holders = {b \in S : ToSet(Shape[r].chunks) \subseteq ToSet(chunkIndex[b])}
    OBVIOUS
  <2>3. ASSUME ask[r].phase = "new", ask'[r].phase = "streaming",
               Shape[r].chunks # <<>>, Shape[r].media = <<>>, split = {},
               \E b \in holders : \A c \in S : Inflight[b] <= Inflight[c]
        PROVE  ask'[r].at \in holders
    <3>1. Stream(r)
      BY <2>3, OnlyStreamStreams
    <3>2. ids(r) # {}
      BY <3>1 DEF Stream, Misses
    <3>3. S \in SUBSET Servers /\ S # {}
      BY <2>1, <3>2, BeforeRagIs, IdsAre
    <3>4. PICK k : k = choose_rag_backend(Chunks(r), S, chunkIndex, Inflight)
      OBVIOUS
    <3>5. Affine(r) = {k}
      BY <2>1, <2>3, <3>4 DEF Affine, AfterRag
    <3>6. \A A \in SplitChoices(Affine(r)) : AfterMedia(r, A) = {k}
      BY <2>3, <3>5 DEF SplitChoices, AfterMedia
    <3>7. ask' = [ask EXCEPT ![r] = [phase |-> "streaming", at |-> k]]
      BY <3>1, <3>6 DEF Stream
    <3>8. ask'[r].at = k
      BY <3>7 DEF SelInv, AskInv
    <3>9. RagChosen(k, Chunks(r), S, chunkIndex, Inflight)
      BY <3>3, <3>4, ChunksAre, InflightIs, RagChoiceIs
    <3>10. ToSet(Chunks(r)) = ToSet(Shape[r].chunks)
      BY ChunksAre
    <3>11. PICK b \in S : /\ ToSet(Shape[r].chunks) \subseteq ToSet(chunkIndex[b])
                          /\ \A c \in S : Inflight[b] <= Inflight[c]
      BY <2>2, <2>3
    <3>12. k \in S /\ ToSet(Chunks(r)) \subseteq ToSet(chunkIndex[k])
      BY <3>9, <3>10, <3>11 DEF RagChosen
    <3>13. QED
      BY <2>2, <3>8, <3>10, <3>12
  <2>4. QED
    BY <2>1, <2>2, <2>3 DEF Attracted
<1>2. QED
  BY <1>1

(* The inductive invariant of the narrowing in chat_completions and of the *)
(* caches that its streams feed: who streams from where, whose answer was  *)
(* taken, and every LRU list in the order of its last uses.                *)
THEOREM SelInvHolds == SelSpec => []SelInv
<1>1. SelInit => SelInv
  BY SelInitInv
<1>2. SelInv /\ [SelNext]_selVars => SelInv'
  BY SelNextInv
<1>3. QED
  BY <1>1, <1>2, PTL DEF SelSpec

(* server.py:676-820 and 984, for every fleet, request and cache size: the *)
(* backend can serve the request whichever filter, pin or index proposed   *)
(* it, the indexes and the semantic cache hold exactly what was used last, *)
(* shared chunks attract, an image costs at most eight tiles, and no       *)
(* answer leaves its tenant.                                               *)
THEOREM SelectionAlwaysSound == SelSpec => SelectionIsSound
<1>1. SelInv => /\ BackendCanServe /\ ChunkIndexIsRecent /\ SameChunksSamePrefix /\ ImageCostBounded
                /\ CachePerTenant /\ CacheKeepsRecentlyUsed
  BY ServedSoundly
<1>2. SelInv /\ [SelNext]_selVars => [\A r \in Asks : Attracted(r)]_selVars
  BY AttractStep
<1>3. QED
  BY <1>1, <1>2, SelInvHolds, PTL DEF SelSpec, SelectionIsSound, SharedChunksAttract
=============================================================================
