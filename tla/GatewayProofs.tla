--------------------------- MODULE GatewayProofs ---------------------------
(***************************************************************************)
(* Proofs about the life of requests in gateway/server.py, for any number  *)
(* of requests, backends, tenants, slots, retries, faults and operator     *)
(* calls.  The scheduler's part is not proved again: its steps are taken   *)
(* from FairSchedulerProofs.                                               *)
(***************************************************************************)
EXTENDS Gateway, FiniteSetTheorems, TLAPS

\* Without the histories of FairShare, which no lemma taken from there speaks of.
SchedP == INSTANCE FairSchedulerProofs WITH parkedAt <- <<>>, overtaken <- <<>>

\* Connections: from some backends to URLs.
Conns == UNION {[S -> Urls] : S \in SUBSET Backends}

Record == [url : Urls, model : {Model}, healthy : BOOLEAN, draining : BOOLEAN]

PoolTypes == DOMAIN reg \subseteq Backends /\ \A b \in DOMAIN reg : reg[b] \in Record

RequestTypes ==
  /\ stage \in [Reqs -> Stage]
  /\ remaining \in [Reqs -> SUBSET Backends] /\ offered \in [Reqs -> SUBSET Backends]
  /\ conn \in [Reqs -> Conns]
  /\ retries \in [Reqs -> 0 .. MaxRetries + 1]
  /\ task \in [Reqs -> Sched!TaskState]

CounterTypes == inflight \in [Backends -> Nat] /\ tenantInflight \in [Tenants -> Nat]

WorldTypes ==
  /\ CB!CircuitTypeOK
  /\ sweep \subseteq [id : Backends, url : Urls]
  /\ probe \in [id : Backends, url : Urls] \cup {Idle}
  /\ up \subseteq Urls
  /\ faults \in 0 .. MaxFaults /\ admin \in 0 .. MaxAdmin

\* What the stage s of request r says about its candidates m, connections c, tries n, the
\* candidates o it was offered and its coroutine k.  A request of mode "normal" has tried,
\* or still has, every candidate it was offered; a request ends with its slot only in the
\* exception of registry.url ("500").
RequestOK(r, s, m, c, n, o, k) ==
  /\ s \in Counted => \E b \in Backends : DOMAIN c = {b}
  /\ s = "connecting" => DOMAIN c \subseteq m /\ n <= MaxRetries
  /\ s \in {"new", "parked"} => n = 0
  /\ (Mode[r] = "normal" /\ s \in {"parked", "connecting"}) => Cardinality(o) <= Cardinality(m) + n
  /\ (Mode[r] = "normal" /\ s = "502") => n = MaxRetries + 1 \/ n >= Cardinality(o)
  /\ (Mode[r] = "normal") => s # "racing"
  /\ s \in Dispatching \cup {"500"} <=> k = "holding"
  /\ s = "parked" <=> k = "await"

RequestsOK ==
  \A r \in Reqs :
    RequestOK(r, stage[r], remaining[r], conn[r], retries[r], offered[r], task[r])

\* Requests that ended in the exception of registry.url with all they held.
Lost == {r \in Reqs : stage[r] = "500"}
NoneLost == Lost = {}

Charging == Admitted \cup {"500"}
Charged(t) == {r \in Reqs : Tenant[r] = t /\ stage[r] \in Charging}

QuotaCounts ==
  \A t \in Tenants : tenantInflight[t] = Cardinality(Charged(t)) /\ tenantInflight[t] <= MaxInflight

\* A counter claims no more than the requests at its backend and the lost ones.
LoadBounded == \A b \in Backends : inflight[b] <= Cardinality(DispatchedTo(b)) + Cardinality(Lost)

\* While the pool is never shrunk, the counters are exact and nothing is lost.
FixedPoolExact ==
  "remove" \notin AdminOps =>
    /\ DOMAIN reg = Backends /\ NoneLost
    /\ \A b \in Backends : inflight[b] = Cardinality(DispatchedTo(b))

\* The inductive invariant.
GatewayInv ==
  /\ PoolTypes /\ RequestTypes /\ CounterTypes /\ WorldTypes
  /\ RequestsOK
  /\ SchedP!IInv
  /\ QuotaCounts /\ LoadBounded /\ FixedPoolExact

-----------------------------------------------------------------------------
(* The scheduler: its assumptions hold here, its invariant is kept by the  *)
(* steps the gateway takes of it.                                          *)

LEMMA SchedulerAssumptions ==
  SchedP!ReqsAssumption /\ SchedP!ClassAssumption /\ SchedP!SlotsAssumption /\ SchedP!WeightAssumption
<1>1. SchedP!ReqsAssumption
  BY PartsAssumption DEF SchedP!ReqsAssumption, SchedP!IsFiniteSet, IsFiniteSet
<1>2. QED
  BY <1>1, PartsAssumption DEF SchedP!ClassAssumption, SchedP!SlotsAssumption, SchedP!WeightAssumption

LEMMA SchedulerStep ==
  ASSUME SchedP!IInv, NEW r \in Reqs,
         Sched!AcquireFree(r) \/ Sched!AcquirePark(r) \/ Sched!Resume(r) \/ Sched!Release(r)
  PROVE  SchedP!IInv'
<1>1. Sched!AcquireFree(r) => SchedP!AcquireFree(r)
  BY DEF SchedP!AcquireFree, Sched!AcquireFree, SchedP!queueVars, Sched!queueVars
<1>2. Sched!Resume(r) => SchedP!Resume(r)
  BY DEF SchedP!Resume, Sched!Resume, SchedP!queueVars, Sched!queueVars
<1>3. Sched!AcquirePark(r) => SchedP!AcquirePark(r)
  BY DEF SchedP!AcquirePark, Sched!AcquirePark, SchedP!WFQ!Enqueue, Sched!WFQ!Enqueue,
         SchedP!ServiceTime, Sched!ServiceTime, SchedP!weight_for, Sched!weight_for,
         SchedP!WFQ!FinishTag, Sched!WFQ!FinishTag, SchedP!WFQ!Larger, Sched!WFQ!Larger
<1>4. Sched!Release(r) => SchedP!Release(r)
  <2>1. \A e : Sched!Live(e) = SchedP!Live(e)
    BY DEF Sched!Live, SchedP!Live
  <2>2. \A d, e : Sched!WFQ!Before(d, e) = SchedP!WFQ!Before(d, e)
    BY DEF SchedP!WFQ!Before, Sched!WFQ!Before
  <2>3. \A e : Sched!WFQ!DequeueThrough(e) = SchedP!WFQ!DequeueThrough(e)
    BY DEF SchedP!WFQ!DequeueThrough, Sched!WFQ!DequeueThrough, SchedP!WFQ!Larger,
           Sched!WFQ!Larger, SchedP!WFQ!Before, Sched!WFQ!Before
  <2>4. QED
    BY <2>1, <2>2, <2>3
       DEF SchedP!Release, Sched!Release, SchedP!queueVars, Sched!queueVars, SchedP!ReleaseOne,
           Sched!ReleaseOne, SchedP!GrantNext, Sched!GrantNext, SchedP!FreeSlot, Sched!FreeSlot,
           SchedP!FirstLive, Sched!FirstLive
<1>5. SchedP!Next
  BY <1>1, <1>2, <1>3, <1>4 DEF SchedP!Next
<1>6. QED
  BY <1>5, SchedP!NextIInv, SchedulerAssumptions

LEMMA SchedulerIdle == SchedP!IInv /\ UNCHANGED schedVars => SchedP!IInv'
<1> SUFFICES ASSUME SchedP!IInv, UNCHANGED schedVars PROVE SchedP!IInv'
  OBVIOUS
<1>1. UNCHANGED SchedP!vars
  BY DEF schedVars, SchedP!vars, SchedP!queueVars
<1>2. QED
  BY <1>1, SchedP!NextIInv, SchedulerAssumptions

(* What the gateway needs to know about the scheduler's state.             *)
LEMMA SchedulerFacts ==
  SchedP!IInv => /\ Sched!TypeOK /\ Sched!NoIdleSlotWhileWaiting
                 /\ task \in [Reqs -> Sched!TaskState]
<1>1. SchedP!IInv => Sched!TypeOK
  BY DEF SchedP!IInv, SchedP!Shape, SchedP!TypeOK, Sched!TypeOK, SchedP!WFQ!WfqTypeOK,
         Sched!WFQ!WfqTypeOK, SchedP!WFQ!Entry, Sched!WFQ!Entry, SchedP!TaskState,
         Sched!TaskState, SchedP!FutState, Sched!FutState
<1>2. SchedP!IInv => Sched!NoIdleSlotWhileWaiting
  BY DEF SchedP!IInv, SchedP!NoIdleSlotWhileWaiting, Sched!NoIdleSlotWhileWaiting,
         SchedP!Waiting, Sched!Waiting
<1>3. QED
  BY <1>1, <1>2 DEF Sched!TypeOK

-----------------------------------------------------------------------------
(* Connections                                                             *)

LEMMA ConnFacts ==
  ASSUME NEW c \in Conns
  PROVE  /\ DOMAIN c \subseteq Backends
         /\ \A b \in DOMAIN c : c[b] \in Urls
         /\ R!Range(c) \subseteq Urls
BY DEF Conns, R!Range

LEMMA NewConns ==
  /\ <<>> \in Conns
  /\ \A S \in SUBSET Backends : [S -> Urls] \subseteq Conns
<1>1. <<>> \in [{} -> Urls]
  OBVIOUS
<1>2. QED
  BY <1>1 DEF Conns

(* The backend a request is connected to.                                  *)
LEMMA TargetIs ==
  ASSUME RequestsOK, NEW r \in Reqs, stage[r] \in Counted
  PROVE  Target(r) \in Backends /\ DOMAIN conn[r] = {Target(r)}
<1>1. PICK b \in Backends : DOMAIN conn[r] = {b}
  BY DEF RequestsOK, RequestOK
<1>2. QED
  BY <1>1 DEF Target

LEMMA CandidatesInPool ==
  ASSUME PoolTypes, NEW r \in Reqs
  PROVE  /\ Candidates \subseteq DOMAIN reg
         /\ \A cands \in Narrowed(r) : cands \subseteq Backends
         /\ Mode[r] = "normal" => \A cands \in Narrowed(r) : cands = Candidates
<1>1. Candidates \subseteq DOMAIN reg
  BY DEF Candidates, R!ids_for
<1>2. QED
  BY <1>1, GatewayAssumption DEF Narrowed, PoolTypes

-----------------------------------------------------------------------------
(* One request's step, seen through its effects.                           *)

(* A request that reaches a state that is in order leaves all of them so.  *)
LEMMA OneRequest ==
  ASSUME RequestTypes, RequestsOK, NEW r \in Reqs,
         NEW s \in Stage, NEW m \in SUBSET Backends, NEW c \in Conns,
         NEW n \in 0 .. MaxRetries + 1, NEW o \in SUBSET Backends, NEW k \in Sched!TaskState,
         RequestOK(r, s, m, c, n, o, k),
         stage' = [stage EXCEPT ![r] = s], remaining' = [remaining EXCEPT ![r] = m],
         conn' = [conn EXCEPT ![r] = c], retries' = [retries EXCEPT ![r] = n],
         offered' = [offered EXCEPT ![r] = o], task' = [task EXCEPT ![r] = k]
  PROVE  RequestTypes' /\ RequestsOK'
<1>1. RequestTypes'
  BY DEF RequestTypes, Sched!TaskState
<1>2. ASSUME NEW q \in Reqs
      PROVE  RequestOK(q, stage'[q], remaining'[q], conn'[q], retries'[q], offered'[q], task'[q])
  <2>1. CASE q = r
    <3>1. /\ stage'[q] = s /\ remaining'[q] = m /\ conn'[q] = c /\ retries'[q] = n
          /\ offered'[q] = o /\ task'[q] = k
      BY <2>1 DEF RequestTypes
    <3>2. QED
      BY <2>1, <3>1
  <2>2. CASE q # r
    <3>1. /\ stage'[q] = stage[q] /\ remaining'[q] = remaining[q] /\ conn'[q] = conn[q]
          /\ retries'[q] = retries[q] /\ offered'[q] = offered[q] /\ task'[q] = task[q]
      BY <2>2 DEF RequestTypes
    <3>2. QED
      BY <3>1 DEF RequestsOK
  <2>3. QED
    BY <2>1, <2>2
<1>3. QED
  BY <1>1, <1>2 DEF RequestsOK

One(p) == IF p THEN 1 ELSE 0

(* Sets of requests that differ in one of them.                            *)
LEMMA CountOne ==
  ASSUME NEW r \in Reqs, NEW S \in SUBSET Reqs, NEW T \in SUBSET Reqs, S \ {r} = T \ {r}
  PROVE  /\ Cardinality(S) \in Nat /\ Cardinality(T) \in Nat
         /\ Cardinality(T) = Cardinality(S) + One(r \in T) - One(r \in S)
         /\ One(r \in S) <= Cardinality(S) /\ One(r \in T) <= Cardinality(T)
<1> DEFINE U == S \ {r}
<1>1. IsFiniteSet(S) /\ IsFiniteSet(T) /\ IsFiniteSet(U)
  BY PartsAssumption, FS_Subset
<1>2. Cardinality(U) \in Nat
  BY <1>1, FS_CardinalityType
<1>3. Cardinality(S) = Cardinality(U) + One(r \in S)
  <2>1. CASE r \in S
    <3>1. S = U \cup {r} /\ r \notin U
      BY <2>1
    <3>2. Cardinality(S) = Cardinality(U) + 1
      BY <1>1, <3>1, FS_AddElement
    <3>3. QED
      BY <2>1, <3>2 DEF One
  <2>2. CASE r \notin S
    <3>1. S = U
      BY <2>2
    <3>2. QED
      BY <1>2, <2>2, <3>1 DEF One
  <2>3. QED
    BY <2>1, <2>2
<1>4. Cardinality(T) = Cardinality(U) + One(r \in T)
  <2>1. CASE r \in T
    <3>1. T = U \cup {r} /\ r \notin U
      BY <2>1
    <3>2. Cardinality(T) = Cardinality(U) + 1
      BY <1>1, <3>1, FS_AddElement
    <3>3. QED
      BY <2>1, <3>2 DEF One
  <2>2. CASE r \notin T
    <3>1. T = U
      BY <2>2
    <3>2. QED
      BY <1>2, <2>2, <3>1 DEF One
  <2>3. QED
    BY <2>1, <2>2
<1> HIDE DEF U
<1>5. QED
  BY <1>2, <1>3, <1>4 DEF One

(* The quota is counted right when it is taken and returned with the       *)
(* stages.                                                                 *)
LEMMA QuotaStep ==
  ASSUME RequestTypes, CounterTypes, QuotaCounts, NEW r \in Reqs, NEW s \in Stage,
         stage' = [stage EXCEPT ![r] = s],
         \/ UNCHANGED tenantInflight /\ (s \in Charging <=> stage[r] \in Charging)
         \/ TakeQuota(r) /\ HasQuota(r) /\ s \in Charging /\ stage[r] \notin Charging
         \/ ReturnQuota(r) /\ s \notin Charging /\ stage[r] \in Charging
  PROVE  QuotaCounts' /\ tenantInflight' \in [Tenants -> Nat]
<1>1. Tenant[r] \in Tenants /\ MaxInflight \in Nat
  BY GatewayAssumption
<1>2. tenantInflight' \in [Tenants -> Nat]
  BY <1>1 DEF CounterTypes, TakeQuota, ReturnQuota
<1>3. ASSUME NEW t \in Tenants
      PROVE  tenantInflight'[t] = Cardinality(Charged(t)') /\ tenantInflight'[t] <= MaxInflight
  <2>1. Charged(t)' = {q \in Reqs : Tenant[q] = t /\ stage'[q] \in Charging}
    BY DEF Charged, Charging, Admitted
  <2>2. Charged(t) \ {r} = Charged(t)' \ {r}
    BY <2>1 DEF Charged, RequestTypes
  <2>3. /\ r \in Charged(t)' <=> Tenant[r] = t /\ s \in Charging
        /\ r \in Charged(t) <=> Tenant[r] = t /\ stage[r] \in Charging
    BY <2>1 DEF Charged, RequestTypes
  <2>4. /\ Cardinality(Charged(t)) \in Nat
        /\ Cardinality(Charged(t)') = Cardinality(Charged(t)) + One(r \in Charged(t)') - One(r \in Charged(t))
        /\ One(r \in Charged(t)) <= Cardinality(Charged(t))
    BY <2>2, CountOne, Charged(t) \subseteq Reqs, Charged(t)' \subseteq Reqs DEF Charged
  <2>5. tenantInflight[t] = Cardinality(Charged(t)) /\ tenantInflight[t] <= MaxInflight
    BY DEF QuotaCounts
  <2>6. CASE Tenant[r] = t
    BY <1>1, <2>3, <2>4, <2>5, <2>6 DEF One, TakeQuota, ReturnQuota, HasQuota, CounterTypes
  <2>7. CASE Tenant[r] # t
    BY <1>1, <2>3, <2>4, <2>5, <2>7 DEF One, TakeQuota, ReturnQuota, CounterTypes
  <2>8. QED
    BY <2>6, <2>7
<1>4. QED
  BY <1>2, <1>3 DEF QuotaCounts

(* Where a request is counted.                                             *)
At(s, c) == IF s \in Counted THEN DOMAIN c ELSE {}

(* The load counters follow the request that moves: it is counted where it *)
(* goes and uncounted where it was, unless that counter was reset to zero  *)
(* by a removal, or it is lost on the way.                                 *)
LEMMA LoadStep ==
  ASSUME RequestTypes, CounterTypes, LoadBounded, FixedPoolExact,
         NEW r \in Reqs, NEW s \in Stage, NEW c \in Conns,
         stage' = [stage EXCEPT ![r] = s], conn' = [conn EXCEPT ![r] = c],
         stage[r] # "500", s = "500" => "remove" \in AdminOps,
         DOMAIN reg' = DOMAIN reg,
         inflight' \in [Backends -> Nat],
         \A b \in Backends :
           \/ inflight'[b] = inflight[b] + One(b \in At(s, c)) - One(b \in At(stage[r], conn[r]))
           \/ inflight[b] = 0 /\ b \in At(stage[r], conn[r]) /\ inflight'[b] <= One(b \in At(s, c))
           \/ s = "500" /\ inflight'[b] <= inflight[b] + 1 - One(b \in At(stage[r], conn[r]))
  PROVE  LoadBounded' /\ FixedPoolExact'
<1>1. Lost' = {q \in Reqs : stage'[q] = "500"}
  BY DEF Lost
<1>2. /\ Lost' \ {r} = Lost \ {r} /\ r \notin Lost /\ (r \in Lost' <=> s = "500")
      /\ Lost \subseteq Reqs /\ Lost' \subseteq Reqs
  BY <1>1 DEF Lost, RequestTypes
<1>3. Cardinality(Lost) \in Nat /\ Cardinality(Lost') = Cardinality(Lost) + One(s = "500")
  BY <1>2, CountOne DEF One
<1>4. "remove" \notin AdminOps => NoneLost'
  BY <1>2 DEF FixedPoolExact, NoneLost
<1>5. ASSUME NEW b \in Backends
      PROVE  /\ inflight'[b] <= Cardinality(DispatchedTo(b)') + Cardinality(Lost')
             /\ "remove" \notin AdminOps => inflight'[b] = Cardinality(DispatchedTo(b)')
  <2> DEFINE D == DispatchedTo(b)
             E == DispatchedTo(b)'
  <2>1. E = {q \in Reqs : stage'[q] \in Counted /\ b \in DOMAIN conn'[q]}
    BY DEF DispatchedTo, Counted
  <2>2. /\ D \ {r} = E \ {r} /\ D \subseteq Reqs /\ E \subseteq Reqs
        /\ r \in D <=> b \in At(stage[r], conn[r])
        /\ r \in E <=> b \in At(s, c)
    BY <2>1 DEF DispatchedTo, RequestTypes, At
  <2>3. /\ Cardinality(D) \in Nat /\ Cardinality(E) \in Nat
        /\ Cardinality(E) = Cardinality(D) + One(b \in At(s, c)) - One(b \in At(stage[r], conn[r]))
        /\ One(b \in At(stage[r], conn[r])) <= Cardinality(D) /\ One(b \in At(s, c)) <= Cardinality(E)
    BY <2>2, CountOne DEF One
  <2>4. /\ inflight[b] \in Nat /\ inflight'[b] \in Nat
        /\ inflight[b] <= Cardinality(D) + Cardinality(Lost)
        /\ "remove" \notin AdminOps => inflight[b] = Cardinality(D)
    BY DEF CounterTypes, LoadBounded, FixedPoolExact
  <2>5. s = "500" => b \notin At(s, c)
    BY DEF At, Counted
  <2> HIDE DEF D, E
  <2>6. inflight'[b] <= Cardinality(E) + Cardinality(Lost')
    BY <1>3, <2>3, <2>4, <2>5 DEF One
  <2>7. "remove" \notin AdminOps => inflight'[b] = Cardinality(E)
    BY <2>3, <2>4 DEF One
  <2>8. QED
    BY <2>6, <2>7 DEF E
<1>6. QED
  BY <1>4, <1>5 DEF LoadBounded, FixedPoolExact
-----------------------------------------------------------------------------
(* The steps that choose a backend                                         *)

AttemptEffect(r, cands, load, b, s, c) ==
  /\ inflight' = [load EXCEPT ![b] = load[b] + 1]
  /\ inflight' \in [Backends -> Nat]
  /\ remaining' = [remaining EXCEPT ![r] = cands]
  /\ stage' = [stage EXCEPT ![r] = s]
  /\ conn' = [conn EXCEPT ![r] = c]
  /\ s = "connecting" => DOMAIN c = {b}
  /\ s = "500" => b \notin DOMAIN reg

(* One turn of the loop: one more request at a candidate, which is still   *)
(* there, or the request is lost.                                          *)
LEMMA AttemptKinds ==
  ASSUME PoolTypes, RequestTypes, NEW r \in Reqs, NEW cands \in SUBSET Backends,
         NEW load \in [Backends -> Nat], Attempt(r, cands, load)
  PROVE  \E b \in cands, s \in {"connecting", "500"}, c \in Conns :
           AttemptEffect(r, cands, load, b, s, c)
<1>1. PICK b \in cands :
        /\ inflight' = on_dispatch(load, b)
        /\ remaining' = [remaining EXCEPT ![r] = cands]
        /\ IF b \in DOMAIN reg
           THEN /\ stage' = [stage EXCEPT ![r] = "connecting"]
                /\ conn' = [conn EXCEPT ![r] = [x \in {b} |-> reg[x].url]]
           ELSE stage' = [stage EXCEPT ![r] = "500"] /\ UNCHANGED conn
  BY DEF Attempt
<1>2. inflight' = [load EXCEPT ![b] = load[b] + 1] /\ inflight' \in [Backends -> Nat]
  BY <1>1 DEF on_dispatch
<1>3. CASE b \in DOMAIN reg
  <2> DEFINE c == [x \in {b} |-> reg[x].url]
  <2>1. c \in [{b} -> Urls] /\ DOMAIN c = {b}
    BY <1>3 DEF PoolTypes, Record
  <2>2. c \in Conns
    BY <2>1, NewConns
  <2>3. conn' = [conn EXCEPT ![r] = c]
    BY <1>1, <1>3
  <2>4. QED
    BY <1>1, <1>2, <1>3, <2>1, <2>2, <2>3 DEF AttemptEffect
<1>4. CASE b \notin DOMAIN reg
  <2>1. conn' = [conn EXCEPT ![r] = conn[r]] /\ conn[r] \in Conns
    BY <1>1, <1>4 DEF RequestTypes
  <2>2. QED
    BY <1>1, <1>2, <1>4, <2>1 DEF AttemptEffect
<1>5. QED
  BY <1>3, <1>4

LEMMA RaceKinds ==
  ASSUME PoolTypes, RequestTypes, NEW r \in Reqs, NEW cands \in SUBSET Backends, StartRace(r, cands)
  PROVE  \E s \in {"racing", "500"}, c \in Conns :
           /\ inflight' = inflight
           /\ remaining' = [remaining EXCEPT ![r] = cands]
           /\ stage' = [stage EXCEPT ![r] = s]
           /\ conn' = [conn EXCEPT ![r] = c]
           /\ s = "500" => DOMAIN reg # Backends
<1>1. PICK S \in SUBSET cands :
        /\ remaining' = [remaining EXCEPT ![r] = cands]
        /\ IF S \subseteq DOMAIN reg
           THEN /\ stage' = [stage EXCEPT ![r] = "racing"]
                /\ conn' = [conn EXCEPT ![r] = [b \in S |-> reg[b].url]]
           ELSE stage' = [stage EXCEPT ![r] = "500"] /\ UNCHANGED conn
        /\ UNCHANGED inflight
  BY DEF StartRace
<1>2. CASE S \subseteq DOMAIN reg
  <2> DEFINE c == [b \in S |-> reg[b].url]
  <2>1. c \in [S -> Urls]
    BY <1>2 DEF PoolTypes, Record
  <2>2. c \in Conns
    BY <2>1, NewConns
  <2>3. conn' = [conn EXCEPT ![r] = c]
    BY <1>1, <1>2
  <2>4. QED
    BY <1>1, <1>2, <2>2, <2>3
<1>3. CASE ~(S \subseteq DOMAIN reg)
  <2>1. conn' = [conn EXCEPT ![r] = conn[r]] /\ conn[r] \in Conns
    BY <1>1, <1>3 DEF RequestTypes
  <2>2. DOMAIN reg # Backends
    BY <1>3
  <2>3. QED
    BY <1>1, <1>3, <2>1, <2>2
<1>4. QED
  BY <1>2, <1>3

-----------------------------------------------------------------------------
(* Pool and breaker                                                        *)

LEMMA FlagsKeepPool ==
  ASSUME PoolTypes, NEW b, NEW flag \in BOOLEAN,
         reg' = R!set_health(reg, b, flag) \/ reg' = R!set_draining(reg, b, flag)
  PROVE  PoolTypes' /\ DOMAIN reg' = DOMAIN reg
<1>1. DOMAIN reg' = DOMAIN reg
  BY DEF R!set_health, R!set_draining
<1>2. ASSUME NEW x \in DOMAIN reg PROVE reg'[x] \in Record
  BY DEF PoolTypes, Record, R!set_health, R!set_draining
<1>3. QED
  BY <1>1, <1>2 DEF PoolTypes, Record

LEMMA BreakerTypes ==
  ASSUME CB!CircuitTypeOK, NEW b \in Backends,
         CB!record_success(b) \/ CB!record_failure(b) \/ CB!CooldownElapses(b)
  PROVE  CB!CircuitTypeOK'
<1>1. FailThreshold \in Nat /\ 0 \in 0 .. FailThreshold /\ FailThreshold \in 0 .. FailThreshold
  BY PartsAssumption
<1>2. CASE CB!record_success(b)
  BY <1>1, <1>2 DEF CB!CircuitTypeOK, CB!record_success
<1>3. CASE CB!record_failure(b)
  <2> DEFINE count == IF fails[b] < FailThreshold THEN fails[b] + 1 ELSE FailThreshold
  <2>1. count \in 0 .. FailThreshold
    BY <1>1 DEF CB!CircuitTypeOK
  <2> HIDE DEF count
  <2>2. \/ circuit' = [circuit EXCEPT ![b] = "open"] /\ fails' = [fails EXCEPT ![b] = FailThreshold]
        \/ /\ fails' = [fails EXCEPT ![b] = count]
           /\ circuit' = [circuit EXCEPT ![b] = IF count >= FailThreshold THEN "open" ELSE circuit[b]]
    BY <1>3 DEF CB!record_failure, count
  <2>3. QED
    BY <1>1, <2>1, <2>2 DEF CB!CircuitTypeOK
<1>4. CASE CB!CooldownElapses(b)
  BY <1>4 DEF CB!CircuitTypeOK, CB!CooldownElapses
<1>5. QED
  BY <1>2, <1>3, <1>4

-----------------------------------------------------------------------------
(* What a step of request r has to establish to keep the invariant: its new *)
(* state is in order, and quota and load follow it.                         *)

QuotaFollows(r, s) ==
  \/ UNCHANGED tenantInflight /\ (s \in Charging <=> stage[r] \in Charging)
  \/ TakeQuota(r) /\ HasQuota(r) /\ s \in Charging /\ stage[r] \notin Charging
  \/ ReturnQuota(r) /\ s \notin Charging /\ stage[r] \in Charging

LoadFollows(r, s, c) ==
  /\ inflight' \in [Backends -> Nat]
  /\ \A b \in Backends :
       \/ inflight'[b] = inflight[b] + One(b \in At(s, c)) - One(b \in At(stage[r], conn[r]))
       \/ inflight[b] = 0 /\ b \in At(stage[r], conn[r]) /\ inflight'[b] <= One(b \in At(s, c))
       \/ s = "500" /\ inflight'[b] <= inflight[b] + 1 - One(b \in At(stage[r], conn[r]))

Moves(r, s, m, c, n, o, k) ==
  /\ RequestOK(r, s, m, c, n, o, k)
  /\ stage' = [stage EXCEPT ![r] = s] /\ remaining' = [remaining EXCEPT ![r] = m]
  /\ conn' = [conn EXCEPT ![r] = c] /\ retries' = [retries EXCEPT ![r] = n]
  /\ offered' = [offered EXCEPT ![r] = o] /\ task' = [task EXCEPT ![r] = k]
  /\ stage[r] # "500" /\ (s = "500" => "remove" \in AdminOps)
  /\ QuotaFollows(r, s) /\ LoadFollows(r, s, c)

LEMMA RequestMoves ==
  ASSUME GatewayInv, NEW r \in Reqs,
         NEW s \in Stage, NEW m \in SUBSET Backends, NEW c \in Conns,
         NEW n \in 0 .. MaxRetries + 1, NEW o \in SUBSET Backends, NEW k \in Sched!TaskState,
         Moves(r, s, m, c, n, o, k),
         PoolTypes', DOMAIN reg' = DOMAIN reg, WorldTypes', SchedP!IInv'
  PROVE  GatewayInv'
<1>1. RequestTypes' /\ RequestsOK'
  BY OneRequest DEF GatewayInv, Moves
<1>2. QuotaCounts' /\ tenantInflight' \in [Tenants -> Nat]
  BY QuotaStep DEF GatewayInv, Moves, QuotaFollows
<1>3. LoadBounded' /\ FixedPoolExact'
  BY LoadStep DEF GatewayInv, Moves, LoadFollows
<1>4. QED
  BY <1>1, <1>2, <1>3 DEF GatewayInv, CounterTypes, Moves, LoadFollows

LEMMA WorldIdle == WorldTypes /\ UNCHANGED <<breakerVars, scrapeVars, envVars>> => WorldTypes'
BY DEF WorldTypes, CB!CircuitTypeOK, breakerVars, scrapeVars, envVars

LEMMA PoolIdle == PoolTypes /\ UNCHANGED reg => PoolTypes' /\ DOMAIN reg' = DOMAIN reg
BY DEF PoolTypes

(* A request that gets its slot, at once or after it was parked.           *)
DispatchEffect(r, cands, o, s, c) ==
  /\ RequestOK(r, s, cands, c, 0, o, "holding")
  /\ remaining' = [remaining EXCEPT ![r] = cands]
  /\ stage' = [stage EXCEPT ![r] = s]
  /\ conn' = [conn EXCEPT ![r] = c]
  /\ s = "500" => "remove" \in AdminOps
  /\ LoadFollows(r, s, c)

LEMMA DispatchKinds ==
  ASSUME GatewayInv, NEW r \in Reqs, NEW cands \in SUBSET Backends, NEW o \in SUBSET Backends,
         Dispatch(r, cands), stage[r] \in {"new", "parked"},
         Mode[r] = "normal" => Cardinality(o) <= Cardinality(cands)
  PROVE  \E s \in {"connecting", "racing", "500"}, c \in Conns : DispatchEffect(r, cands, o, s, c)
<1>1. /\ PoolTypes /\ RequestTypes /\ inflight \in [Backends -> Nat] /\ MaxRetries \in Nat
      /\ At(stage[r], conn[r]) = {}
  BY GatewayAssumption DEF GatewayInv, CounterTypes, At, Counted
<1>2. "remove" \notin AdminOps => DOMAIN reg = Backends
  BY DEF GatewayInv, FixedPoolExact
<1>3. Cardinality(cands) \in Nat /\ Cardinality(o) \in Nat
  BY PartsAssumption, FS_Subset, FS_CardinalityType
<1>4. CASE Mode[r] = "speculative" /\ Cardinality(cands) > 1
  <2>1. StartRace(r, cands)
    BY <1>4 DEF Dispatch
  <2>2. PICK s \in {"racing", "500"}, c \in Conns :
          /\ inflight' = inflight
          /\ remaining' = [remaining EXCEPT ![r] = cands]
          /\ stage' = [stage EXCEPT ![r] = s]
          /\ conn' = [conn EXCEPT ![r] = c]
          /\ s = "500" => DOMAIN reg # Backends
    BY <1>1, <2>1, RaceKinds
  <2>3. At(s, c) = {} /\ RequestOK(r, s, cands, c, 0, o, "holding")
    BY <1>4, <2>2 DEF At, Counted, RequestOK, Dispatching
  <2>4. LoadFollows(r, s, c)
    BY <1>1, <2>2, <2>3 DEF LoadFollows, One
  <2>5. QED
    BY <1>2, <2>2, <2>3, <2>4 DEF DispatchEffect
<1>5. CASE ~(Mode[r] = "speculative" /\ Cardinality(cands) > 1)
  <2>1. PICK load \in [Backends -> Nat] : load = inflight
    BY <1>1
  <2>2. Attempt(r, cands, load)
    BY <1>5, <2>1 DEF Dispatch, Attempt
  <2>3. PICK b \in cands, s \in {"connecting", "500"}, c \in Conns :
           AttemptEffect(r, cands, load, b, s, c)
    BY <1>1, <2>1, <2>2, AttemptKinds
  <2>4. RequestOK(r, s, cands, c, 0, o, "holding")
    <3>1. s \notin {"racing", "new", "parked", "502"}
          /\ s \in Dispatching \cup {"500"} /\ (s \in Counted => s = "connecting")
      BY <2>3 DEF Dispatching, Counted
    <3>2. Mode[r] = "normal" => Cardinality(o) <= Cardinality(cands) + 0
      BY <1>3
    <3>3. s = "connecting" => b \in Backends /\ DOMAIN c = {b} /\ DOMAIN c \subseteq cands /\ 0 <= MaxRetries
      BY <1>1, <2>3 DEF AttemptEffect
    <3>4. "holding" # "await"
      OBVIOUS
    <3>5. QED
      BY <3>1, <3>2, <3>3, <3>4 DEF RequestOK
  <2>5. At(s, c) = IF s = "connecting" THEN {b} ELSE {}
    BY <2>3 DEF At, Counted, AttemptEffect
  <2>6. LoadFollows(r, s, c)
    BY <1>1, <2>1, <2>3, <2>5 DEF LoadFollows, AttemptEffect, One
  <2>7. s = "500" => "remove" \in AdminOps
    BY <1>2, <2>3 DEF AttemptEffect
  <2>8. QED
    BY <2>3, <2>4, <2>6, <2>7 DEF AttemptEffect, DispatchEffect
<1>6. QED
  BY <1>4, <1>5

(* A request that moves on where it is: throttled, answered early, parked, *)
(* or the end of its stream.                                               *)
LEMMA ThrottleInv ==
  ASSUME GatewayInv, NEW r \in Reqs, Throttle(r) \/ AnswerEarly(r) \/ StreamEnds(r)
  PROVE  GatewayInv'
<1>1. PICK s \in {"429", "early", "closing"} :
        /\ stage' = [stage EXCEPT ![r] = s]
        /\ \/ stage[r] = "new" /\ s \in {"429", "early"}
           \/ stage[r] = "streaming" /\ s = "closing"
        /\ UNCHANGED <<reg, inflight, tenantInflight, remaining, conn, retries, offered,
                       breakerVars, schedVars, scrapeVars, envVars>>
  BY DEF Throttle, AnswerEarly, StreamEnds
<1>2. PICK m \in SUBSET Backends, c \in Conns, n \in 0 .. MaxRetries + 1,
           o \in SUBSET Backends, k \in Sched!TaskState :
        m = remaining[r] /\ c = conn[r] /\ n = retries[r] /\ o = offered[r] /\ k = task[r]
  BY DEF GatewayInv, RequestTypes
<1>3. /\ remaining' = [remaining EXCEPT ![r] = m] /\ conn' = [conn EXCEPT ![r] = c]
      /\ retries' = [retries EXCEPT ![r] = n] /\ offered' = [offered EXCEPT ![r] = o]
      /\ task' = [task EXCEPT ![r] = k]
  BY <1>1, <1>2 DEF GatewayInv, RequestTypes, schedVars
<1>4. RequestOK(r, s, m, c, n, o, k)
  BY <1>1, <1>2 DEF GatewayInv, RequestsOK, RequestOK, Counted, Dispatching
<1>5. s \in Stage /\ s # "500" /\ stage[r] # "500" /\ (s \in Charging <=> stage[r] \in Charging)
  BY <1>1 DEF Stage, Answered, Charging, Admitted
<1>6. At(s, c) = At(stage[r], conn[r])
  BY <1>1, <1>2 DEF At, Counted
<1>7. QuotaFollows(r, s) /\ LoadFollows(r, s, c)
  BY <1>1, <1>5, <1>6 DEF GatewayInv, CounterTypes, One, QuotaFollows, LoadFollows
<1>8. PoolTypes' /\ DOMAIN reg' = DOMAIN reg /\ WorldTypes' /\ SchedP!IInv'
  BY <1>1, PoolIdle, WorldIdle, SchedulerIdle DEF GatewayInv
<1>9. Moves(r, s, m, c, n, o, k)
  BY <1>1, <1>4, <1>5, <1>7, <1>3 DEF Moves
<1>10. QED
  BY <1>5, <1>8, <1>9, RequestMoves

LEMMA ArriveAndDispatchInv ==
  ASSUME GatewayInv, NEW r \in Reqs, ArriveAndDispatch(r)
  PROVE  GatewayInv'
<1>1. PICK cands \in Narrowed(r) : Dispatch(r, cands)
  BY DEF ArriveAndDispatch
<1>2. PICK o \in SUBSET Backends : o = Candidates
  BY CandidatesInPool DEF GatewayInv, PoolTypes
<1>3. cands \in SUBSET Backends /\ (Mode[r] = "normal" => cands = o)
  BY <1>1, <1>2, CandidatesInPool DEF GatewayInv
<1>4. Cardinality(o) \in Nat
  BY PartsAssumption, FS_Subset, FS_CardinalityType
<1>5. stage[r] = "new"
  BY DEF ArriveAndDispatch
<1>6. PICK s \in {"connecting", "racing", "500"}, c \in Conns : DispatchEffect(r, cands, o, s, c)
  BY <1>1, <1>3, <1>4, <1>5, DispatchKinds
<1>7. retries[r] = 0 /\ retries' = [retries EXCEPT ![r] = 0] /\ 0 \in 0 .. MaxRetries + 1
  BY <1>5, GatewayAssumption
     DEF ArriveAndDispatch, GatewayInv, RequestsOK, RequestOK, RequestTypes
<1>8. s \in Stage /\ "holding" \in Sched!TaskState /\ QuotaFollows(r, s)
  BY <1>5, <1>6 DEF Stage, Answered, Sched!TaskState, ArriveAndDispatch, QuotaFollows, Charging, Admitted
<1>9. /\ offered' = [offered EXCEPT ![r] = o] /\ task' = [task EXCEPT ![r] = "holding"]
      /\ Sched!AcquireFree(r)
  BY <1>2 DEF ArriveAndDispatch, Sched!AcquireFree
<1>10. Moves(r, s, cands, c, 0, o, "holding")
  BY <1>5, <1>6, <1>7, <1>8, <1>9 DEF Moves, DispatchEffect
<1>11. PoolTypes' /\ DOMAIN reg' = DOMAIN reg /\ WorldTypes' /\ SchedP!IInv'
  BY <1>9, PoolIdle, WorldIdle, SchedulerStep DEF GatewayInv, ArriveAndDispatch
<1>12. QED
  BY <1>3, <1>7, <1>8, <1>10, <1>11, RequestMoves

LEMMA UnparkInv ==
  ASSUME GatewayInv, NEW r \in Reqs, Unpark(r)
  PROVE  GatewayInv'
<1>1. PICK cands \in SUBSET Backends, o \in SUBSET Backends : cands = remaining[r] /\ o = offered[r]
  BY DEF GatewayInv, RequestTypes
<1>2. Dispatch(r, cands) /\ stage[r] = "parked"
  BY <1>1 DEF Unpark, Dispatch, StartRace, Attempt
<1>3. Cardinality(o) \in Nat /\ Cardinality(cands) \in Nat
  BY PartsAssumption, FS_Subset, FS_CardinalityType
<1>4. retries[r] = 0 /\ (Mode[r] = "normal" => Cardinality(o) <= Cardinality(cands))
  BY <1>1, <1>2, <1>3 DEF GatewayInv, RequestsOK, RequestOK
<1>5. PICK s \in {"connecting", "racing", "500"}, c \in Conns : DispatchEffect(r, cands, o, s, c)
  BY <1>2, <1>4, DispatchKinds
<1>6. /\ retries' = [retries EXCEPT ![r] = 0] /\ 0 \in 0 .. MaxRetries + 1
      /\ offered' = [offered EXCEPT ![r] = o]
  BY <1>1, <1>4, GatewayAssumption DEF Unpark, GatewayInv, RequestTypes
<1>7. s \in Stage /\ "holding" \in Sched!TaskState /\ QuotaFollows(r, s)
  BY <1>2, <1>5 DEF Stage, Answered, Sched!TaskState, Unpark, QuotaFollows, Charging, Admitted
<1>8. task' = [task EXCEPT ![r] = "holding"] /\ Sched!Resume(r)
  BY DEF Unpark, Sched!Resume
<1>9. Moves(r, s, cands, c, 0, o, "holding")
  BY <1>2, <1>5, <1>6, <1>7, <1>8 DEF Moves, DispatchEffect
<1>10. PoolTypes' /\ DOMAIN reg' = DOMAIN reg /\ WorldTypes' /\ SchedP!IInv'
  BY <1>8, PoolIdle, WorldIdle, SchedulerStep DEF GatewayInv, Unpark
<1>11. QED
  BY <1>6, <1>7, <1>9, <1>10, RequestMoves

LEMMA ArriveAndParkInv ==
  ASSUME GatewayInv, NEW r \in Reqs, ArriveAndPark(r)
  PROVE  GatewayInv'
<1>1. PICK m \in Narrowed(r) : remaining' = [remaining EXCEPT ![r] = m]
  BY DEF ArriveAndPark
<1>2. PICK o \in SUBSET Backends : o = Candidates
  BY CandidatesInPool DEF GatewayInv, PoolTypes
<1>3. m \in SUBSET Backends /\ (Mode[r] = "normal" => m = o)
  BY <1>1, <1>2, CandidatesInPool DEF GatewayInv
<1>4. Cardinality(o) \in Nat
  BY PartsAssumption, FS_Subset, FS_CardinalityType
<1>5. PICK c \in Conns : c = conn[r]
  BY DEF GatewayInv, RequestTypes
<1>6. /\ stage[r] = "new" /\ stage' = [stage EXCEPT ![r] = "parked"]
      /\ conn' = [conn EXCEPT ![r] = c] /\ offered' = [offered EXCEPT ![r] = o]
      /\ Sched!AcquirePark(r) /\ task' = [task EXCEPT ![r] = "await"]
  BY <1>2, <1>5 DEF ArriveAndPark, Sched!AcquirePark, GatewayInv, RequestTypes
<1>7. retries[r] = 0 /\ retries' = [retries EXCEPT ![r] = 0] /\ 0 \in 0 .. MaxRetries + 1
  BY <1>6, GatewayAssumption DEF ArriveAndPark, GatewayInv, RequestsOK, RequestOK, RequestTypes
<1>8. RequestOK(r, "parked", m, c, 0, o, "await")
  BY <1>3, <1>4 DEF RequestOK, Counted, Dispatching
<1>9. "parked" \in Stage /\ "await" \in Sched!TaskState /\ QuotaFollows(r, "parked")
  BY <1>6 DEF Stage, Answered, Sched!TaskState, ArriveAndPark, QuotaFollows, Charging, Admitted
<1>10. LoadFollows(r, "parked", c)
  BY <1>6 DEF LoadFollows, At, Counted, One, ArriveAndPark, GatewayInv, CounterTypes
<1>11. Moves(r, "parked", m, c, 0, o, "await")
  BY <1>1, <1>6, <1>7, <1>8, <1>9, <1>10 DEF Moves
<1>12. PoolTypes' /\ DOMAIN reg' = DOMAIN reg /\ WorldTypes' /\ SchedP!IInv'
  BY <1>6, PoolIdle, WorldIdle, SchedulerStep DEF GatewayInv, ArriveAndPark
<1>13. QED
  BY <1>3, <1>7, <1>9, <1>11, <1>12, RequestMoves

-----------------------------------------------------------------------------
(* Connecting, failing over, streaming                                     *)

LEMMA ConnectedInv ==
  ASSUME GatewayInv, NEW r \in Reqs, Connected(r)
  PROVE  GatewayInv'
<1>1. PICK m \in SUBSET Backends, c \in Conns, n \in 0 .. MaxRetries + 1, o \in SUBSET Backends,
           k \in Sched!TaskState :
        m = remaining[r] /\ c = conn[r] /\ n = retries[r] /\ o = offered[r] /\ k = task[r]
  BY DEF GatewayInv, RequestTypes
<1>2. /\ stage[r] = "connecting" /\ stage' = [stage EXCEPT ![r] = "streaming"]
      /\ remaining' = [remaining EXCEPT ![r] = m] /\ conn' = [conn EXCEPT ![r] = c]
      /\ retries' = [retries EXCEPT ![r] = n] /\ offered' = [offered EXCEPT ![r] = o]
      /\ task' = [task EXCEPT ![r] = k]
  BY <1>1 DEF Connected, GatewayInv, RequestTypes, schedVars
<1>3. RequestOK(r, "streaming", m, c, n, o, k)
  BY <1>1, <1>2 DEF GatewayInv, RequestsOK, RequestOK, Counted, Dispatching
<1>4. "streaming" \in Stage /\ QuotaFollows(r, "streaming")
  BY <1>2 DEF Stage, Connected, QuotaFollows, Charging, Admitted
<1>5. LoadFollows(r, "streaming", c)
  BY <1>1, <1>2 DEF LoadFollows, At, Counted, One, Connected, GatewayInv, CounterTypes
<1>6. Moves(r, "streaming", m, c, n, o, k)
  BY <1>2, <1>3, <1>4, <1>5 DEF Moves
<1>7. PICK b \in Backends : b = Target(r)
  BY <1>2, TargetIs DEF GatewayInv, Counted
<1>8. CB!record_success(b)
  BY <1>7 DEF Connected, CB!record_success
<1>9. CB!CircuitTypeOK'
  BY <1>8, BreakerTypes DEF GatewayInv, WorldTypes
<1>10. PoolTypes' /\ DOMAIN reg' = DOMAIN reg /\ SchedP!IInv'
  BY PoolIdle, SchedulerIdle DEF GatewayInv, Connected
<1>11. WorldTypes'
  BY <1>9 DEF GatewayInv, WorldTypes, Connected, scrapeVars, envVars
<1>12. QED
  BY <1>4, <1>6, <1>10, <1>11, RequestMoves

LEMMA RaceWonInv ==
  ASSUME GatewayInv, NEW r \in Reqs, RaceWon(r)
  PROVE  GatewayInv'
<1>1. PICK m \in SUBSET Backends, n \in 0 .. MaxRetries + 1, o \in SUBSET Backends,
           k \in Sched!TaskState :
        m = remaining[r] /\ n = retries[r] /\ o = offered[r] /\ k = task[r]
  BY DEF GatewayInv, RequestTypes
<1>2. PICK b \in DOMAIN conn[r] :
        /\ inflight' = on_dispatch(inflight, b)
        /\ conn' = [conn EXCEPT ![r] = [x \in {b} |-> conn[r][x]]]
        /\ CB!record_success(b)
  BY DEF RaceWon
<1>3. b \in Backends /\ conn[r][b] \in Urls
  BY <1>2, ConnFacts DEF GatewayInv, RequestTypes
<1>4. PICK c \in Conns : c = [x \in {b} |-> conn[r][x]]
  <2>1. [x \in {b} |-> conn[r][x]] \in [{b} -> Urls]
    BY <1>3
  <2>2. [{b} -> Urls] \subseteq Conns
    BY <1>3, NewConns
  <2>3. QED
    BY <2>1, <2>2
<1>5. /\ stage[r] = "racing" /\ stage' = [stage EXCEPT ![r] = "streaming"]
      /\ remaining' = [remaining EXCEPT ![r] = m] /\ conn' = [conn EXCEPT ![r] = c]
      /\ retries' = [retries EXCEPT ![r] = n] /\ offered' = [offered EXCEPT ![r] = o]
      /\ task' = [task EXCEPT ![r] = k]
  BY <1>1, <1>2, <1>4 DEF RaceWon, GatewayInv, RequestTypes, schedVars
<1>6. DOMAIN c = {b}
  BY <1>4
<1>7. RequestOK(r, "streaming", m, c, n, o, k)
  BY <1>1, <1>3, <1>5, <1>6 DEF GatewayInv, RequestsOK, RequestOK, Counted, Dispatching
<1>8. "streaming" \in Stage /\ QuotaFollows(r, "streaming")
  BY <1>5 DEF Stage, RaceWon, QuotaFollows, Charging, Admitted
<1>9. LoadFollows(r, "streaming", c)
  BY <1>2, <1>3, <1>5, <1>6 DEF LoadFollows, At, Counted, One, on_dispatch, GatewayInv, CounterTypes
<1>10. Moves(r, "streaming", m, c, n, o, k)
  BY <1>5, <1>7, <1>8, <1>9 DEF Moves
<1>11. CB!CircuitTypeOK'
  BY <1>2, <1>3, BreakerTypes DEF GatewayInv, WorldTypes
<1>12. PoolTypes' /\ DOMAIN reg' = DOMAIN reg /\ SchedP!IInv'
  BY PoolIdle, SchedulerIdle DEF GatewayInv, RaceWon
<1>13. WorldTypes'
  BY <1>11 DEF GatewayInv, WorldTypes, RaceWon, scrapeVars, envVars
<1>14. QED
  BY <1>8, <1>10, <1>12, <1>13, RequestMoves

LEMMA RaceLostInv ==
  ASSUME GatewayInv, NEW r \in Reqs, RaceLost(r)
  PROVE  GatewayInv'
<1>1. PICK m \in SUBSET Backends, n \in 0 .. MaxRetries + 1, o \in SUBSET Backends :
        m = remaining[r] /\ n = retries[r] /\ o = offered[r]
  BY DEF GatewayInv, RequestTypes
<1>2. PICK c \in Conns : c = <<>>
  BY NewConns
<1>3. /\ stage[r] = "racing" /\ stage' = [stage EXCEPT ![r] = "502"]
      /\ remaining' = [remaining EXCEPT ![r] = m] /\ conn' = [conn EXCEPT ![r] = c]
      /\ retries' = [retries EXCEPT ![r] = n] /\ offered' = [offered EXCEPT ![r] = o]
      /\ task' = [task EXCEPT ![r] = "left"] /\ Sched!Release(r)
  BY <1>1, <1>2 DEF RaceLost, GiveUp, GatewayInv, RequestTypes, Sched!Release
<1>4. RequestOK(r, "502", m, c, n, o, "left")
  BY <1>3 DEF GatewayInv, RequestsOK, RequestOK, Counted, Dispatching
<1>5. "502" \in Stage /\ "left" \in Sched!TaskState /\ QuotaFollows(r, "502")
  BY <1>3 DEF Stage, Answered, Sched!TaskState, RaceLost, GiveUp, QuotaFollows, Charging, Admitted
<1>6. LoadFollows(r, "502", c)
  BY <1>3 DEF LoadFollows, At, Counted, One, RaceLost, GatewayInv, CounterTypes
<1>7. Moves(r, "502", m, c, n, o, "left")
  BY <1>3, <1>4, <1>5, <1>6 DEF Moves
<1>8. PoolTypes' /\ DOMAIN reg' = DOMAIN reg /\ WorldTypes' /\ SchedP!IInv'
  BY <1>3, PoolIdle, WorldIdle, SchedulerStep DEF GatewayInv, RaceLost
<1>9. QED
  BY <1>5, <1>7, <1>8, RequestMoves

LEMMA FinishInv ==
  ASSUME GatewayInv, NEW r \in Reqs, Finish(r)
  PROVE  GatewayInv'
<1>1. PICK m \in SUBSET Backends, n \in 0 .. MaxRetries + 1, o \in SUBSET Backends :
        m = remaining[r] /\ n = retries[r] /\ o = offered[r]
  BY DEF GatewayInv, RequestTypes
<1>2. PICK c \in Conns : c = <<>>
  BY NewConns
<1>3. /\ stage[r] = "closing" /\ stage' = [stage EXCEPT ![r] = "served"]
      /\ remaining' = [remaining EXCEPT ![r] = m] /\ conn' = [conn EXCEPT ![r] = c]
      /\ retries' = [retries EXCEPT ![r] = n] /\ offered' = [offered EXCEPT ![r] = o]
      /\ task' = [task EXCEPT ![r] = "left"] /\ Sched!Release(r)
  BY <1>1, <1>2 DEF Finish, GatewayInv, RequestTypes, Sched!Release
<1>4. RequestOK(r, "served", m, c, n, o, "left")
  BY DEF RequestOK, Counted, Dispatching
<1>5. "served" \in Stage /\ "left" \in Sched!TaskState /\ QuotaFollows(r, "served")
  BY <1>3 DEF Stage, Answered, Sched!TaskState, Finish, QuotaFollows, Charging, Admitted
<1>6. LoadFollows(r, "served", c)
  <2>1. Target(r) \in Backends /\ At(stage[r], conn[r]) = {Target(r)} /\ At("served", c) = {}
    BY <1>3, TargetIs DEF GatewayInv, Counted, At
  <2>2. inflight' = [inflight EXCEPT ![Target(r)] = IF inflight[Target(r)] > 0 THEN inflight[Target(r)] - 1 ELSE 0]
    BY DEF Finish, on_complete
  <2>3. QED
    BY <2>1, <2>2 DEF LoadFollows, One, GatewayInv, CounterTypes
<1>7. Moves(r, "served", m, c, n, o, "left")
  BY <1>3, <1>4, <1>5, <1>6 DEF Moves
<1>8. PoolTypes' /\ DOMAIN reg' = DOMAIN reg /\ WorldTypes' /\ SchedP!IInv'
  BY <1>3, PoolIdle, WorldIdle, SchedulerStep DEF GatewayInv, Finish
<1>9. QED
  BY <1>5, <1>7, <1>8, RequestMoves

LEMMA ConnectFailsInv ==
  ASSUME GatewayInv, NEW r \in Reqs, ConnectFails(r)
  PROVE  GatewayInv'
<1>1. PICK b \in Backends : b = Target(r) /\ DOMAIN conn[r] = {b}
  BY TargetIs DEF ConnectFails, GatewayInv, Counted
<1>2. PICK m \in SUBSET Backends, n \in 0 .. MaxRetries + 1, o \in SUBSET Backends :
        m = remaining[r] /\ n = retries[r] /\ o = offered[r]
  BY DEF GatewayInv, RequestTypes
<1>3. PICK load \in [Backends -> Nat] :
        load = [inflight EXCEPT ![b] = IF inflight[b] > 0 THEN inflight[b] - 1 ELSE 0]
  <2>1. inflight \in [Backends -> Nat] /\ (IF inflight[b] > 0 THEN inflight[b] - 1 ELSE 0) \in Nat
    BY DEF GatewayInv, CounterTypes
  <2>2. [inflight EXCEPT ![b] = IF inflight[b] > 0 THEN inflight[b] - 1 ELSE 0] \in [Backends -> Nat]
    BY <2>1
  <2>3. QED
    BY <2>2
<1> DEFINE rest == m \ {b}
<1>4. /\ stage[r] = "connecting" /\ CB!record_failure(b) /\ reg' = R!set_health(reg, b, FALSE)
      /\ retries' = [retries EXCEPT ![r] = n + 1]
      /\ \/ MayRetry(r, rest) /\ Attempt(r, rest, load) /\ UNCHANGED <<tenantInflight, schedVars>>
         \/ /\ ~MayRetry(r, rest) /\ inflight' = load
            /\ remaining' = [remaining EXCEPT ![r] = rest] /\ GiveUp(r)
      /\ UNCHANGED <<offered, scrapeVars, envVars>>
  BY <1>1, <1>2, <1>3 DEF ConnectFails, on_complete, Attempt, CB!record_failure
<1>5. /\ b \in m /\ n <= MaxRetries /\ n \in Nat /\ MaxRetries \in Nat /\ n + 1 \in 0 .. MaxRetries + 1
      /\ task[r] = "holding"
      /\ Mode[r] = "normal" => Cardinality(o) <= Cardinality(m) + n
  BY <1>1, <1>2, <1>4, GatewayAssumption DEF GatewayInv, RequestsOK, RequestOK, Dispatching
<1>6. /\ Cardinality(m) \in Nat /\ Cardinality(o) \in Nat /\ Cardinality(rest) \in Nat
      /\ Cardinality(rest) = Cardinality(m) - 1 /\ rest \in SUBSET Backends
      /\ rest = {} => Cardinality(rest) = 0
  <2>1. IsFiniteSet(m) /\ IsFiniteSet(o)
    BY PartsAssumption, FS_Subset
  <2>2. Cardinality(m) \in Nat /\ Cardinality(o) \in Nat
    BY <2>1, FS_CardinalityType
  <2>3. IsFiniteSet(rest) /\ Cardinality(rest) = Cardinality(m) - 1
    BY <1>5, <2>1, FS_RemoveElement
  <2>4. Cardinality(rest) \in Nat
    BY <2>3, FS_CardinalityType
  <2>5. rest = {} => Cardinality(rest) = 0
    BY FS_EmptySet
  <2>6. QED
    BY <2>2, <2>3, <2>4, <2>5
<1> HIDE DEF rest
<1>7. Mode[r] = "normal" => Cardinality(o) <= Cardinality(rest) + (n + 1)
  BY <1>5, <1>6
<1>8. offered' = [offered EXCEPT ![r] = o]
  BY <1>2, <1>4 DEF GatewayInv, RequestTypes
<1>9. At(stage[r], conn[r]) = {b} /\ inflight \in [Backends -> Nat]
  BY <1>1, <1>4 DEF At, Counted, GatewayInv, CounterTypes
<1>10. PoolTypes' /\ DOMAIN reg' = DOMAIN reg
  BY <1>4, FlagsKeepPool DEF GatewayInv
<1>11. CB!CircuitTypeOK'
  BY <1>4, BreakerTypes DEF GatewayInv, WorldTypes
<1>12. WorldTypes'
  BY <1>4, <1>11 DEF GatewayInv, WorldTypes, scrapeVars, envVars
<1>13. CASE MayRetry(r, rest) /\ Attempt(r, rest, load) /\ UNCHANGED <<tenantInflight, schedVars>>
  <2>1. PICK x \in rest, s \in {"connecting", "500"}, c \in Conns :
          AttemptEffect(r, rest, load, x, s, c)
    BY <1>3, <1>6, <1>13, AttemptKinds DEF GatewayInv
  <2>2. x \in Backends /\ x # b
    BY <2>1, <1>6 DEF rest
  <2>3. RequestOK(r, s, rest, c, n + 1, o, "holding")
    <3>1. s \notin {"racing", "new", "parked", "502"}
          /\ s \in Dispatching \cup {"500"} /\ (s \in Counted => s = "connecting")
      BY <2>1 DEF Dispatching, Counted
    <3>2. n + 1 <= MaxRetries
      BY <1>2, <1>5, <1>13 DEF MayRetry
    <3>3. s = "connecting" => DOMAIN c = {x} /\ DOMAIN c \subseteq rest
      BY <2>1 DEF AttemptEffect
    <3>4. "holding" # "await"
      OBVIOUS
    <3>5. QED
      BY <1>7, <2>2, <3>1, <3>2, <3>3, <3>4 DEF RequestOK
  <2>4. At(s, c) = IF s = "connecting" THEN {x} ELSE {}
    BY <2>1 DEF At, Counted, AttemptEffect
  <2>5. /\ inflight' \in [Backends -> Nat]
        /\ \A y \in Backends :
             inflight'[y] = IF y = x THEN inflight[y] + 1
                            ELSE IF y = b THEN (IF inflight[b] > 0 THEN inflight[b] - 1 ELSE 0)
                            ELSE inflight[y]
    BY <1>3, <1>9, <2>1, <2>2 DEF AttemptEffect
  <2>6. LoadFollows(r, s, c)
    BY <1>9, <2>1, <2>2, <2>4, <2>5 DEF LoadFollows, One
  <2>7. s = "500" => "remove" \in AdminOps
    BY <2>1, <2>2 DEF AttemptEffect, GatewayInv, FixedPoolExact
  <2>8. s \in Stage /\ "holding" \in Sched!TaskState /\ QuotaFollows(r, s)
    BY <1>4, <1>13, <2>1 DEF Stage, Answered, Sched!TaskState, QuotaFollows, Charging, Admitted
  <2>9. task' = [task EXCEPT ![r] = "holding"]
    BY <1>5, <1>13 DEF GatewayInv, RequestTypes, schedVars
  <2>10. Moves(r, s, rest, c, n + 1, o, "holding")
    BY <1>4, <1>8, <2>1, <2>3, <2>6, <2>7, <2>8, <2>9 DEF Moves, AttemptEffect
  <2>11. SchedP!IInv'
    BY <1>13, SchedulerIdle DEF GatewayInv
  <2>12. QED
    BY <1>5, <1>6, <1>10, <1>12, <2>8, <2>10, <2>11, RequestMoves
<1>14. CASE ~MayRetry(r, rest) /\ inflight' = load
            /\ remaining' = [remaining EXCEPT ![r] = rest] /\ GiveUp(r)
  <2>1. PICK c \in Conns : c = <<>>
    BY NewConns
  <2>2. /\ stage' = [stage EXCEPT ![r] = "502"] /\ conn' = [conn EXCEPT ![r] = c]
        /\ task' = [task EXCEPT ![r] = "left"] /\ Sched!Release(r) /\ ReturnQuota(r)
    BY <1>14, <2>1 DEF GiveUp, Sched!Release
  <2>3. Mode[r] = "normal" => n + 1 = MaxRetries + 1 \/ n + 1 >= Cardinality(o)
    BY <1>2, <1>5, <1>6, <1>7, <1>14 DEF MayRetry
  <2>4. RequestOK(r, "502", rest, c, n + 1, o, "left")
    BY <2>3 DEF RequestOK, Counted, Dispatching
  <2>5. "502" \in Stage /\ "left" \in Sched!TaskState /\ QuotaFollows(r, "502")
    BY <1>4, <2>2 DEF Stage, Answered, Sched!TaskState, QuotaFollows, Charging, Admitted
  <2>6. LoadFollows(r, "502", c)
    <3>1. At("502", c) = {}
      BY DEF At, Counted
    <3>2. QED
      BY <1>3, <1>9, <1>14, <3>1 DEF LoadFollows, One
  <2>7. Moves(r, "502", rest, c, n + 1, o, "left")
    BY <1>4, <1>8, <1>14, <2>2, <2>4, <2>5, <2>6 DEF Moves
  <2>8. SchedP!IInv'
    BY <2>2, SchedulerStep DEF GatewayInv
  <2>9. QED
    BY <1>5, <1>6, <1>10, <1>12, <2>5, <2>7, <2>8, RequestMoves
<1>15. QED
  BY <1>4, <1>13, <1>14

-----------------------------------------------------------------------------
(* The rest of the world moves no request.                                 *)

LEMMA RequestsStay ==
  ASSUME GatewayInv, UNCHANGED <<tenantInflight, reqVars, schedVars>>,
         PoolTypes', WorldTypes',
         \/ UNCHANGED inflight /\ DOMAIN reg \subseteq DOMAIN reg'
         \/ /\ "remove" \in AdminOps
            /\ \E b \in Backends : inflight' = [inflight EXCEPT ![b] = 0]
  PROVE  GatewayInv'
<1>1. SchedP!IInv'
  BY SchedulerIdle DEF GatewayInv
<1>2. RequestTypes' /\ RequestsOK'
  BY DEF GatewayInv, RequestTypes, RequestsOK, reqVars, schedVars
<1>3. QuotaCounts' /\ tenantInflight' \in [Tenants -> Nat]
  BY DEF GatewayInv, CounterTypes, QuotaCounts, Charged, reqVars
<1>4. Lost' = Lost /\ \A b \in Backends : DispatchedTo(b)' = DispatchedTo(b)
  BY DEF Lost, DispatchedTo, reqVars
<1>5. Cardinality(Lost) \in Nat /\ \A b \in Backends : Cardinality(DispatchedTo(b)) \in Nat
  BY PartsAssumption, FS_Subset, FS_CardinalityType DEF Lost, DispatchedTo
<1>6. inflight' \in [Backends -> Nat] /\ \A b \in Backends : inflight'[b] <= inflight[b]
  BY DEF GatewayInv, CounterTypes
<1>7. LoadBounded'
  BY <1>4, <1>5, <1>6 DEF GatewayInv, CounterTypes, LoadBounded
<1>8. FixedPoolExact'
  BY <1>4 DEF GatewayInv, FixedPoolExact, NoneLost, PoolTypes
<1>9. QED
  BY <1>1, <1>2, <1>3, <1>6, <1>7, <1>8 DEF GatewayInv, CounterTypes

LEMMA ScrapeInv ==
  ASSUME GatewayInv, Scrape
  PROVE  GatewayInv'
<1>1. CASE StartSweep
  <2>1. PoolTypes' /\ DOMAIN reg' = DOMAIN reg
    BY <1>1, PoolIdle DEF GatewayInv, StartSweep
  <2>2. sweep' \subseteq [id : Backends, url : Urls]
    BY <1>1 DEF GatewayInv, StartSweep, PoolTypes, Record
  <2>3. WorldTypes'
    BY <1>1, <2>2 DEF GatewayInv, WorldTypes, StartSweep, CB!CircuitTypeOK, breakerVars, envVars
  <2>4. QED
    BY <1>1, <2>1, <2>3, RequestsStay DEF StartSweep
<1>2. CASE StartProbe
  <2>1. PoolTypes' /\ DOMAIN reg' = DOMAIN reg
    BY <1>2, PoolIdle DEF GatewayInv, StartProbe
  <2>2. WorldTypes'
    BY <1>2 DEF GatewayInv, WorldTypes, StartProbe, CB!CircuitTypeOK, breakerVars, envVars
  <2>3. QED
    BY <1>2, <2>1, <2>2, RequestsStay DEF StartProbe
<1>3. CASE ProbeAnswered
  <2>1. PICK b \in Backends : b = probe.id
    BY <1>3 DEF GatewayInv, WorldTypes, ProbeAnswered
  <2>2. PICK flag \in BOOLEAN :
          reg' = R!set_health(reg, b, flag) /\ (CB!record_success(b) \/ CB!record_failure(b))
    BY <1>3, <2>1 DEF ProbeAnswered, CB!record_success, CB!record_failure
  <2>3. PoolTypes' /\ DOMAIN reg' = DOMAIN reg
    BY <2>2, FlagsKeepPool DEF GatewayInv
  <2>4. CB!CircuitTypeOK'
    BY <2>2, BreakerTypes DEF GatewayInv, WorldTypes
  <2>5. WorldTypes'
    BY <1>3, <2>4 DEF GatewayInv, WorldTypes, ProbeAnswered, envVars
  <2>6. QED
    BY <1>3, <2>3, <2>5, RequestsStay DEF ProbeAnswered
<1>4. QED
  BY <1>1, <1>2, <1>3 DEF Scrape

LEMMA OperatorInv ==
  ASSUME GatewayInv, Operator
  PROVE  GatewayInv'
<1>1. ASSUME NEW b \in Backends, AdminDrain(b) \/ AdminUndrain(b) PROVE GatewayInv'
  <2>1. PICK flag \in BOOLEAN : reg' = R!set_draining(reg, b, flag)
    BY <1>1 DEF AdminDrain, AdminUndrain
  <2>2. PoolTypes' /\ DOMAIN reg' = DOMAIN reg
    BY <2>1, FlagsKeepPool DEF GatewayInv
  <2>3. /\ admin < MaxAdmin /\ admin' = admin + 1
        /\ UNCHANGED breakerVars /\ UNCHANGED scrapeVars /\ UNCHANGED up /\ UNCHANGED faults
    BY <1>1 DEF AdminDrain, AdminUndrain, AdminCall
  <2>4. WorldTypes'
    BY <2>3, PartsAssumption DEF GatewayInv, WorldTypes, CB!CircuitTypeOK, breakerVars, scrapeVars
  <2>5. QED
    BY <1>1, <2>2, <2>4, RequestsStay DEF AdminDrain, AdminUndrain
<1>2. ASSUME NEW b \in Backends, NEW u \in Urls, AdminAdd(b, u) PROVE GatewayInv'
  <2>1. DOMAIN reg' = DOMAIN reg \cup {b}
    BY <1>2 DEF AdminAdd, R!add
  <2>2. ASSUME NEW x \in DOMAIN reg' PROVE reg'[x] \in Record
    <3>1. CASE b \in DOMAIN reg
      <4>1. reg' = [reg EXCEPT ![b].url = u]
        BY <1>2, <3>1 DEF AdminAdd, R!add
      <4>2. QED
        BY <2>1, <2>2, <3>1, <4>1 DEF GatewayInv, PoolTypes, Record
    <3>2. CASE b \notin DOMAIN reg
      <4>1. reg' = [y \in DOMAIN reg \cup {b} |-> IF y = b THEN R!Backend(u, Model, FALSE) ELSE reg[y]]
        BY <1>2, <3>2 DEF AdminAdd, R!add
      <4>2. R!Backend(u, Model, FALSE) \in Record
        BY DEF R!Backend, Record
      <4>3. QED
        BY <2>1, <2>2, <4>1, <4>2 DEF GatewayInv, PoolTypes
    <3>3. QED
      BY <3>1, <3>2
  <2>3. PoolTypes'
    BY <2>1, <2>2 DEF GatewayInv, PoolTypes, Record
  <2>4. sweep' \subseteq [id : Backends, url : Urls]
    <3>1. ASSUME NEW p \in sweep PROVE p \in [id : Backends, url : Urls] /\ [p EXCEPT !.url = u] \in [id : Backends, url : Urls]
      BY <3>1 DEF GatewayInv, WorldTypes
    <3>2. QED
      BY <1>2, <3>1 DEF AdminAdd
  <2>5. WorldTypes'
    BY <1>2, <2>4, PartsAssumption
       DEF GatewayInv, WorldTypes, AdminAdd, AdminCall, CB!CircuitTypeOK, breakerVars
  <2>6. QED
    BY <1>2, <2>1, <2>3, <2>5, RequestsStay DEF AdminAdd
<1>3. ASSUME NEW b \in Backends, AdminRemove(b) PROVE GatewayInv'
  <2>1. PoolTypes'
    BY <1>3 DEF GatewayInv, PoolTypes, Record, AdminRemove, R!remove
  <2>2. WorldTypes'
    BY <1>3, PartsAssumption
       DEF GatewayInv, WorldTypes, AdminRemove, AdminCall, CB!CircuitTypeOK, breakerVars, scrapeVars
  <2>3. QED
    BY <1>3, <2>1, <2>2, RequestsStay DEF AdminRemove, AdminCall
<1>4. QED
  BY <1>1, <1>2, <1>3 DEF Operator

LEMMA WorldInv ==
  ASSUME GatewayInv, World
  PROVE  GatewayInv'
<1>1. UNCHANGED <<reg, inflight, tenantInflight, reqVars, schedVars>>
  BY DEF World, ServerFails, ServerRecovers, CooldownElapses
<1>2. WorldTypes'
  <2>1. ASSUME NEW u \in Urls, ServerFails(u) \/ ServerRecovers(u) PROVE WorldTypes'
    BY <2>1, PartsAssumption
       DEF GatewayInv, WorldTypes, ServerFails, ServerRecovers, CB!CircuitTypeOK, breakerVars, scrapeVars
  <2>2. ASSUME NEW b \in Backends, CooldownElapses(b) PROVE WorldTypes'
    <3>1. CB!CircuitTypeOK'
      BY <2>2, BreakerTypes DEF GatewayInv, WorldTypes, CooldownElapses
    <3>2. QED
      BY <2>2, <3>1 DEF GatewayInv, WorldTypes, CooldownElapses, scrapeVars, envVars
  <2>3. QED
    BY <2>1, <2>2 DEF World
<1>3. PoolTypes' /\ DOMAIN reg' = DOMAIN reg
  BY <1>1, PoolIdle DEF GatewayInv
<1>4. QED
  BY <1>1, <1>2, <1>3, RequestsStay

-----------------------------------------------------------------------------
LEMMA GatewayInitInv == Init => GatewayInv
<1> SUFFICES ASSUME Init PROVE GatewayInv
  OBVIOUS
<1>1. DOMAIN reg = Backends /\ PoolTypes
  BY GatewayAssumption DEF Init, PoolTypes, Record, R!Backend
<1>2. RequestTypes /\ CounterTypes
  BY NewConns, GatewayAssumption
     DEF Init, RequestTypes, CounterTypes, Stage, Sched!Init, Sched!TaskState
<1>3. WorldTypes
  <2>1. CB!CircuitTypeOK
    BY PartsAssumption DEF Init, CB!CircuitInit, CB!CircuitTypeOK
  <2>2. R!Range(Home) \subseteq Urls
    BY GatewayAssumption DEF R!Range
  <2>3. QED
    BY <2>1, <2>2, PartsAssumption DEF Init, WorldTypes
<1>4. RequestsOK
  BY DEF Init, RequestsOK, RequestOK, Counted, Dispatching, Sched!Init
<1>5. SchedP!IInv
  <2>1. SchedP!Init
    BY DEF Init, Sched!Init, SchedP!Init, Sched!WFQ!WfqInit, SchedP!WFQ!WfqInit
  <2>2. QED
    BY <2>1, SchedP!InitIInv, SchedulerAssumptions
<1>6. Lost = {} /\ \A b \in Backends : DispatchedTo(b) = {}
  BY DEF Init, Lost, DispatchedTo, Counted
<1>7. \A t \in Tenants : Charged(t) = {}
  BY DEF Init, Charged, Charging, Admitted
<1>8. Cardinality({}) = 0
  BY FS_EmptySet
<1>9. QuotaCounts
  <2>1. \A t \in Tenants : tenantInflight[t] = 0
    BY DEF Init
  <2>2. ASSUME NEW t \in Tenants PROVE tenantInflight[t] = Cardinality(Charged(t)) /\ tenantInflight[t] <= MaxInflight
    <3>1. Cardinality(Charged(t)) = 0
      BY <1>7, <1>8
    <3>2. QED
      BY <2>1, <3>1, GatewayAssumption
  <2>3. QED
    BY <2>2 DEF QuotaCounts
<1>10. LoadBounded /\ FixedPoolExact
  <2>1. \A b \in Backends : inflight[b] = 0
    BY DEF Init
  <2>2. QED
    BY <1>1, <1>6, <1>8, <2>1 DEF LoadBounded, FixedPoolExact, NoneLost
<1>11. QED
  BY <1>1, <1>2, <1>3, <1>4, <1>5, <1>9, <1>10 DEF GatewayInv

LEMMA GatewayNextInv == GatewayInv /\ [Next]_vars => GatewayInv'
<1> SUFFICES ASSUME GatewayInv, [Next]_vars PROVE GatewayInv'
  OBVIOUS
<1>1. ASSUME NEW r \in Reqs, RequestStep(r) PROVE GatewayInv'
  BY <1>1, ThrottleInv, ArriveAndDispatchInv, ArriveAndParkInv, UnparkInv, ConnectedInv,
     ConnectFailsInv, RaceWonInv, RaceLostInv, FinishInv DEF RequestStep, Connect
<1>2. CASE UNCHANGED vars
  <2>1. PoolTypes' /\ DOMAIN reg' = DOMAIN reg /\ WorldTypes'
    BY <1>2, PoolIdle, WorldIdle DEF GatewayInv, vars
  <2>2. QED
    BY <1>2, <2>1, RequestsStay DEF vars
<1>3. QED
  BY <1>1, <1>2, ScrapeInv, OperatorInv, WorldInv DEF Next

(* server.py:561-1032, any pool, tenants, failures and operator calls: the *)
(* stage a request is at fixes the quota, the slot and the counts it holds, *)
(* and every counter of the gateway is the sum of what the requests hold.  *)
THEOREM GatewayInvariant == Spec => []GatewayInv
BY GatewayInitInv, GatewayNextInv, PTL DEF Spec

\* The invariant's types are the specification's.
LEMMA InvTypeOK == GatewayInv => TypeOK
<1> SUFFICES ASSUME GatewayInv PROVE TypeOK
  OBVIOUS
<1>1. \A r \in Reqs : DOMAIN conn[r] \subseteq Backends /\ R!Range(conn[r]) \subseteq Urls
  BY ConnFacts DEF GatewayInv, RequestTypes
<1>2. Sched!TypeOK
  BY SchedulerFacts DEF GatewayInv
<1>3. QED
  BY <1>1, <1>2
     DEF GatewayInv, TypeOK, PoolTypes, Record, RequestTypes, CounterTypes, WorldTypes

\* server.py:561-1032, load_tracker.py:25: whatever interleaving of requests, failovers,
\* races, probes, operator calls and faults, every variable keeps its type; no counter
\* becomes negative.
THEOREM GatewayTypes == Spec => []TypeOK
BY GatewayInvariant, InvTypeOK, PTL

\* server.py:904-945 with DESIGN.md:322: a 502 means that every candidate of the arrival was
\* tried, or max_retries + 1 of them.
THEOREM FailoverIsExhaustive == Spec => []FailoverExhaustsCandidates
<1>1. GatewayInv => FailoverExhaustsCandidates
  BY DEF GatewayInv, RequestsOK, RequestOK, FailoverExhaustsCandidates
<1>2. QED
  BY <1>1, GatewayInvariant, PTL

\* As long as no request was lost in registry.url, quota and slots are exact, whatever the
\* operator does to the pool (server.py:626-1027).
THEOREM ResourcesExactUnlessLost == Spec => [](NoneLost => HeldResourcesExact)
<1>1. GatewayInv => (NoneLost => HeldResourcesExact)
  <2> SUFFICES ASSUME GatewayInv, NoneLost PROVE HeldResourcesExact
    OBVIOUS
  <2>1. \A r \in Reqs : stage[r] # "500"
    BY DEF NoneLost, Lost
  <2>2. QuotaExact
    <3>1. ASSUME NEW t \in Tenants
          PROVE  Charged(t) = {r \in Reqs : Tenant[r] = t /\ stage[r] \in Admitted}
      BY <2>1 DEF Charged, Charging
    <3>2. QED
      BY <3>1 DEF GatewayInv, QuotaCounts, QuotaExact
  <2>3. SlotsFollowRequests
    <3>1. Sched!NoIdleSlotWhileWaiting
      BY SchedulerFacts DEF GatewayInv
    <3>2. QED
      BY <2>1, <3>1 DEF GatewayInv, RequestsOK, RequestOK, SlotsFollowRequests
  <2>4. QED
    BY <2>2, <2>3 DEF HeldResourcesExact
<1>2. QED
  BY <1>1, GatewayInvariant, PTL

\* As long as no request was lost in registry.url, no counter claims a request that is not
\* there, whatever the operator removes or adds again (load_tracker.py:24).
THEOREM CountersSaneUnlessLost == Spec => [](NoneLost => CountersAreSane)
<1>1. GatewayInv => (NoneLost => CountersAreSane)
  <2> SUFFICES ASSUME GatewayInv, NoneLost PROVE CountersAreSane
    OBVIOUS
  <2>1. Cardinality(Lost) = 0
    BY FS_EmptySet DEF NoneLost
  <2>2. ASSUME NEW b \in Backends PROVE inflight[b] <= Cardinality(DispatchedTo(b))
    <3>1. Cardinality(DispatchedTo(b)) \in Nat
      BY PartsAssumption, FS_Subset, FS_CardinalityType DEF DispatchedTo
    <3>2. QED
      BY <2>1, <3>1 DEF GatewayInv, LoadBounded
  <2>3. QED
    BY <2>2, InvTypeOK DEF CountersAreSane, NoPhantomLoad
<1>2. QED
  BY <1>1, GatewayInvariant, PTL

\* fleet.py:5 "synchronous, exact": when the operator removes no backend, every backend's
\* counter is the number of requests at it, and quota and slots are exact, through every
\* failover, race, drain and broken stream.
THEOREM ExactWithoutRemovals ==
  ASSUME "remove" \notin AdminOps
  PROVE  Spec => [](LoadExact /\ HeldResourcesExact)
<1>1. GatewayInv => LoadExact /\ NoneLost
  BY DEF GatewayInv, FixedPoolExact, LoadExact
<1>2. QED
  BY <1>1, GatewayInvariant, ResourcesExactUnlessLost, PTL
=============================================================================
