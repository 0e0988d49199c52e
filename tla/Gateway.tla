------------------------------ MODULE Gateway ------------------------------
(***************************************************************************)
(* gateway/server.py: the life of chat-completion requests in one gateway  *)
(* process, and what runs beside them: the health scrape, the operator's   *)
(* membership and drain calls, and backends that go down and come back.    *)
(*                                                                         *)
(* One step is one span of the event loop between two awaits.  A request   *)
(* awaits its fair-queue slot, the upstream connection, the chunks of the  *)
(* stream and the closing of the stream; everything else it does between   *)
(* those happens in the same step.                                         *)
(*                                                                         *)
(* The router's scores, the prefix tree, the semantic cache and the other  *)
(* affinity indexes only influence which of the candidates is chosen and   *)
(* whether a request is answered early; both are choices here.             *)
(***************************************************************************)
EXTENDS Integers, FiniteSets

CONSTANTS Reqs, Backends, Urls,
          Tenants, Tenant,       \* [Reqs -> Tenants]
          MaxInflight,           \* a tenant's in-flight cap
          Mode,                  \* [Reqs -> routing mode], see Modes
          PrefillPool,           \* backends of the prefill role, fixed at start
          Home,                  \* [Backends -> Urls]: configured at start
          MaxRetries, SpeculativeK,
          FailThreshold,
          Classes, Class, Weights, DefaultWeight, Cost, MaxConcurrency,
          MaxFaults,             \* bound: times a server goes down
          MaxAdmin,              \* bound: operator calls
          AdminOps,              \* the operator calls of this instance
          Scraping               \* whether the health scrape runs

\* How a request narrows its candidates: not at all; to the backend a
\* session pin, RAG overlap or media overlap favours; to the prefill backend
\* of disaggregated routing; or by racing several.
Modes == {"normal", "affinity", "disagg", "speculative"}

ASSUME GatewayAssumption ==
  /\ Mode \in [Reqs -> Modes] /\ Tenant \in [Reqs -> Tenants]
  /\ PrefillPool \subseteq Backends /\ Home \in [Backends -> Urls]
  /\ MaxInflight \in Nat /\ MaxRetries \in Nat /\ SpeculativeK \in Nat \ {0}
  /\ AdminOps \subseteq {"drain", "undrain", "add", "remove"}

\* What the scheduler and the breaker assume of their parameters.
ASSUME PartsAssumption ==
  /\ IsFiniteSet(Reqs) /\ IsFiniteSet(Backends) /\ Class \in [Reqs -> Classes]
  /\ MaxConcurrency \in Nat \ {0} /\ FailThreshold \in Nat
  /\ MaxFaults \in Nat /\ MaxAdmin \in Nat /\ Scraping \in BOOLEAN
  /\ \A c \in DOMAIN Weights \cap Classes : Weights[c] \in Nat \ {0}
  /\ DefaultWeight \in Nat \ {0} /\ Cost \in Nat

VARIABLES reg,             \* backend registry
          inflight,        \* LoadTracker.inflight
          tenantInflight,  \* RateLimiter.inflight
          stage, remaining, conn, retries, offered,   \* per request
          fails, circuit,
          active, task, fut, heap, lastFinish, vt, seq,
          sweep, probe,    \* the scrape loop: what is left of the pass, the open probe
          up,              \* which servers answer
          faults, admin    \* how often MaxFaults and MaxAdmin were used

R == INSTANCE BackendRegistry
CB == INSTANCE CircuitBreaker
Sched == INSTANCE FairScheduler

schedVars == <<active, task, fut, heap, lastFinish, vt, seq>>
breakerVars == <<fails, circuit>>
reqVars == <<stage, remaining, conn, retries, offered>>
scrapeVars == <<sweep, probe>>
envVars == <<up, faults, admin>>
vars == <<reg, inflight, tenantInflight, reqVars, breakerVars, schedVars, scrapeVars, envVars>>

Model == "m"
Idle == [id |-> "none", url |-> "none"]

Answered == {"429", "early", "502", "500", "served"}
Stage == {"new", "parked", "connecting", "racing", "streaming", "closing"} \cup Answered

\* A request counted by its tenant, one with a slot, one counted by a backend.
Admitted == {"parked", "connecting", "racing", "streaming", "closing"}
Dispatching == {"connecting", "racing", "streaming", "closing"}
Counted == {"connecting", "streaming", "closing"}

TypeOK ==
  /\ DOMAIN reg \subseteq Backends
  /\ \A b \in DOMAIN reg :
       reg[b] \in [url : Urls, model : {Model}, healthy : BOOLEAN, draining : BOOLEAN]
  /\ inflight \in [Backends -> Nat]
  /\ tenantInflight \in [Tenants -> Nat]
  /\ stage \in [Reqs -> Stage]
  /\ remaining \in [Reqs -> SUBSET Backends] /\ offered \in [Reqs -> SUBSET Backends]
  /\ \A r \in Reqs : DOMAIN conn[r] \subseteq Backends /\ R!Range(conn[r]) \subseteq Urls
  /\ retries \in [Reqs -> 0 .. MaxRetries + 1]
  /\ CB!CircuitTypeOK
  /\ Sched!TypeOK
  /\ sweep \subseteq [id : Backends, url : Urls]
  /\ probe \in [id : Backends, url : Urls] \cup {Idle}
  /\ up \subseteq Urls
  /\ faults \in 0 .. MaxFaults /\ admin \in 0 .. MaxAdmin

\* Start-up: every configured backend is in the pool and taken for healthy.
Init ==
  /\ reg = [b \in Backends |-> R!Backend(Home[b], Model, TRUE)]
  /\ inflight = [b \in Backends |-> 0]
  /\ tenantInflight = [t \in Tenants |-> 0]
  /\ stage = [r \in Reqs |-> "new"]
  /\ remaining = [r \in Reqs |-> {}] /\ offered = [r \in Reqs |-> {}]
  /\ conn = [r \in Reqs |-> <<>>]
  /\ retries = [r \in Reqs |-> 0]
  /\ CB!CircuitInit
  /\ Sched!Init
  /\ sweep = {} /\ probe = Idle
  /\ up = R!Range(Home)
  /\ faults = 0 /\ admin = 0

-----------------------------------------------------------------------------
(* Counters                                                                *)

on_dispatch(load, b) == [load EXCEPT ![b] = @ + 1]

\* Mutants of on_complete: it is not called; it does not stop at zero.
complete_missed(load, b) == load
on_complete(load, b) == [load EXCEPT ![b] = IF @ > 0 THEN @ - 1 ELSE 0]

ReturnNothing(r) == UNCHANGED tenantInflight

\* RateLimiter: the in-flight part of admit and release.
HasQuota(r) == tenantInflight[Tenant[r]] < MaxInflight
TakeQuota(r) == tenantInflight' = [tenantInflight EXCEPT ![Tenant[r]] = @ + 1]
ReturnQuota(r) == tenantInflight' = [tenantInflight EXCEPT ![Tenant[r]] = IF @ > 0 THEN @ - 1 ELSE 0]

-----------------------------------------------------------------------------
(* Arrival                                                                 *)

\* Healthy, not draining, circuit not open; all of the former when every
\* circuit is open.
Candidates ==
  LET ids == R!ids_for(reg, Model)
      allowed == {b \in ids : CB!allow(b)}
  IN  IF allowed = {} THEN ids ELSE allowed

\* What is left of the candidates after the opt-in routing modes.
Narrowed(r) ==
  CASE Mode[r] = "affinity" -> {Candidates} \cup {{b} : b \in Candidates}
    [] Mode[r] = "disagg"   -> {{b} : b \in PrefillPool}
    [] OTHER                -> {Candidates}

\* One turn of the failover loop, up to its await: choose, count, connect.
\* registry.url raises when the chosen backend has left the pool; nothing
\* catches that, so the request ends there.
Attempt(r, cands, load) ==
  \E b \in cands :
    /\ inflight' = on_dispatch(load, b)
    /\ remaining' = [remaining EXCEPT ![r] = cands]
    /\ IF b \in DOMAIN reg
       THEN /\ stage' = [stage EXCEPT ![r] = "connecting"]
            /\ conn' = [conn EXCEPT ![r] = [x \in {b} |-> reg[x].url]]
       ELSE /\ stage' = [stage EXCEPT ![r] = "500"]
            /\ UNCHANGED conn

\* The speculative race, up to its await; nothing is counted before it is won.
StartRace(r, cands) ==
  \E S \in SUBSET cands :
    /\ S # {} /\ Cardinality(S) <= SpeculativeK
    /\ remaining' = [remaining EXCEPT ![r] = cands]
    /\ IF S \subseteq DOMAIN reg
       THEN /\ stage' = [stage EXCEPT ![r] = "racing"]
            /\ conn' = [conn EXCEPT ![r] = [b \in S |-> reg[b].url]]
       ELSE /\ stage' = [stage EXCEPT ![r] = "500"]
            /\ UNCHANGED conn
    /\ UNCHANGED inflight

Dispatch(r, cands) ==
  IF Mode[r] = "speculative" /\ Cardinality(cands) > 1
  THEN StartRace(r, cands)
  ELSE Attempt(r, cands, inflight)

\* 429: over the in-flight cap, or out of request or token budget.
Throttle(r) ==
  /\ stage[r] = "new"
  /\ stage' = [stage EXCEPT ![r] = "429"]
  /\ UNCHANGED <<reg, inflight, tenantInflight, remaining, conn, retries, offered,
                 breakerVars, schedVars, scrapeVars, envVars>>

\* Answered before any dispatch: no candidate (503), a semantic-cache hit, not
\* admitted (503) or no capable backend (415).  The quota taken is given back
\* in the same step.
AnswerEarly(r) ==
  /\ stage[r] = "new"
  /\ HasQuota(r)
  /\ stage' = [stage EXCEPT ![r] = "early"]
  /\ UNCHANGED <<reg, inflight, tenantInflight, remaining, conn, retries, offered,
                 breakerVars, schedVars, scrapeVars, envVars>>

ArriveAndDispatch(r) ==
  /\ stage[r] = "new"
  /\ HasQuota(r)
  /\ Candidates # {}
  /\ TakeQuota(r)
  /\ offered' = [offered EXCEPT ![r] = Candidates]
  /\ Sched!AcquireFree(r)
  /\ \E cands \in Narrowed(r) : Dispatch(r, cands)
  /\ UNCHANGED <<reg, retries, breakerVars, scrapeVars, envVars>>

ArriveAndPark(r) ==
  /\ stage[r] = "new"
  /\ HasQuota(r)
  /\ Candidates # {}
  /\ TakeQuota(r)
  /\ offered' = [offered EXCEPT ![r] = Candidates]
  /\ Sched!AcquirePark(r)
  /\ \E cands \in Narrowed(r) : remaining' = [remaining EXCEPT ![r] = cands]
  /\ stage' = [stage EXCEPT ![r] = "parked"]
  /\ UNCHANGED <<reg, inflight, conn, retries, breakerVars, scrapeVars, envVars>>

\* The slot is granted: dispatch with the candidates chosen before the wait.
Unpark(r) ==
  /\ stage[r] = "parked"
  /\ Sched!Resume(r)
  /\ Dispatch(r, remaining[r])
  /\ UNCHANGED <<reg, tenantInflight, retries, offered, breakerVars, scrapeVars, envVars>>

-----------------------------------------------------------------------------
(* Connecting, failing over, streaming                                     *)

Target(r) == CHOOSE b \in DOMAIN conn[r] : TRUE

\* 502: quota and slot go back (the slot possibly straight to a waiter).
GiveUp(r) ==
  /\ stage' = [stage EXCEPT ![r] = "502"]
  /\ conn' = [conn EXCEPT ![r] = <<>>]
  /\ ReturnQuota(r)
  /\ Sched!Release(r)

Connected(r) ==
  /\ stage[r] = "connecting"
  /\ conn[r][Target(r)] \in up
  /\ CB!record_success(Target(r))
  /\ stage' = [stage EXCEPT ![r] = "streaming"]
  /\ UNCHANGED <<reg, inflight, tenantInflight, remaining, conn, retries, offered,
                 schedVars, scrapeVars, envVars>>

\* Mutant of MayRetry: one attempt fewer.
MayRetryLess(r, rest) == rest # {} /\ retries[r] + 1 < MaxRetries

\* Another turn of the loop: candidates are left and the retries not used up.
MayRetry(r, rest) == rest # {} /\ retries[r] < MaxRetries

\* The connection fails: undo the count, blame the backend, then the next
\* turn of the loop or the 502, without an await in between.
ConnectFails(r) ==
  LET b == Target(r)
      rest == remaining[r] \ {b}
      load == on_complete(inflight, b)
  IN  /\ stage[r] = "connecting"
      /\ conn[r][b] \notin up
      /\ CB!record_failure(b)
      /\ reg' = R!set_health(reg, b, FALSE)
      /\ retries' = [retries EXCEPT ![r] = @ + 1]
      /\ \/ /\ MayRetry(r, rest)
            /\ Attempt(r, rest, load)
            /\ UNCHANGED <<tenantInflight, schedVars>>
         \/ /\ ~MayRetry(r, rest)
            /\ inflight' = load
            /\ remaining' = [remaining EXCEPT ![r] = rest]
            /\ GiveUp(r)
      /\ UNCHANGED <<offered, scrapeVars, envVars>>

\* Mutant of RaceWon: the winner is not counted.
RaceWonUncounted(r) ==
  /\ stage[r] = "racing"
  /\ \E b \in DOMAIN conn[r] :
       /\ conn[r][b] \in up
       /\ conn' = [conn EXCEPT ![r] = [x \in {b} |-> @[x]]]
       /\ CB!record_success(b)
  /\ stage' = [stage EXCEPT ![r] = "streaming"]
  /\ UNCHANGED <<reg, inflight, tenantInflight, remaining, retries, offered, schedVars,
                 scrapeVars, envVars>>

RaceWon(r) ==
  /\ stage[r] = "racing"
  /\ \E b \in DOMAIN conn[r] :
       /\ conn[r][b] \in up
       /\ inflight' = on_dispatch(inflight, b)
       /\ conn' = [conn EXCEPT ![r] = [x \in {b} |-> @[x]]]
       /\ CB!record_success(b)
  /\ stage' = [stage EXCEPT ![r] = "streaming"]
  /\ UNCHANGED <<reg, tenantInflight, remaining, retries, offered, schedVars, scrapeVars, envVars>>

RaceLost(r) ==
  /\ stage[r] = "racing"
  /\ R!Range(conn[r]) \cap up = {}
  /\ GiveUp(r)
  /\ UNCHANGED <<reg, inflight, remaining, retries, offered, breakerVars, scrapeVars, envVars>>

\* The stream ends, breaks off, or the client goes: the finally clause first
\* awaits the closing of the upstream response.
StreamEnds(r) ==
  /\ stage[r] = "streaming"
  /\ stage' = [stage EXCEPT ![r] = "closing"]
  /\ UNCHANGED <<reg, inflight, tenantInflight, remaining, conn, retries, offered,
                 breakerVars, schedVars, scrapeVars, envVars>>

\* Mutant of Finish: the slot is not released.
FinishKeepsSlot(r) ==
  /\ stage[r] = "closing"
  /\ stage' = [stage EXCEPT ![r] = "served"]
  /\ conn' = [conn EXCEPT ![r] = <<>>]
  /\ inflight' = on_complete(inflight, Target(r))
  /\ ReturnQuota(r)
  /\ UNCHANGED <<reg, remaining, retries, offered, breakerVars, schedVars, scrapeVars, envVars>>

Finish(r) ==
  /\ stage[r] = "closing"
  /\ stage' = [stage EXCEPT ![r] = "served"]
  /\ conn' = [conn EXCEPT ![r] = <<>>]
  /\ inflight' = on_complete(inflight, Target(r))
  /\ Sched!Release(r)
  /\ ReturnQuota(r)
  /\ UNCHANGED <<reg, remaining, retries, offered, breakerVars, scrapeVars, envVars>>

-----------------------------------------------------------------------------
(* The scrape loop: a pass over a snapshot of the pool, one probe at a time *)

StartSweep ==
  /\ Scraping
  /\ sweep = {} /\ probe = Idle
  /\ sweep' = {[id |-> b, url |-> reg[b].url] : b \in DOMAIN reg}
  /\ UNCHANGED <<reg, inflight, tenantInflight, reqVars, breakerVars, schedVars, probe, envVars>>

StartProbe ==
  /\ probe = Idle
  /\ \E p \in sweep : probe' = p /\ sweep' = sweep \ {p}
  /\ UNCHANGED <<reg, inflight, tenantInflight, reqVars, breakerVars, schedVars, envVars>>

\* Mutant of ProbeAnswered: the breaker does not hear of the answer.
ProbeLeavesCircuit ==
  /\ probe # Idle
  /\ reg' = R!set_health(reg, probe.id, probe.url \in up)
  /\ probe' = Idle
  /\ UNCHANGED <<inflight, tenantInflight, reqVars, breakerVars, schedVars, sweep, envVars>>

\* The answer is applied to whatever the pool now holds under the probed id.
ProbeAnswered ==
  /\ probe # Idle
  /\ IF probe.url \in up
     THEN reg' = R!set_health(reg, probe.id, TRUE) /\ CB!record_success(probe.id)
     ELSE reg' = R!set_health(reg, probe.id, FALSE) /\ CB!record_failure(probe.id)
  /\ probe' = Idle
  /\ UNCHANGED <<inflight, tenantInflight, reqVars, schedVars, sweep, envVars>>

-----------------------------------------------------------------------------
(* The operator and the world                                              *)

AdminCall(op) == op \in AdminOps /\ admin < MaxAdmin /\ admin' = admin + 1

AdminDrain(b) ==
  /\ AdminCall("drain")
  /\ b \in DOMAIN reg
  /\ reg' = R!set_draining(reg, b, TRUE)
  /\ UNCHANGED <<inflight, tenantInflight, reqVars, breakerVars, schedVars, scrapeVars, up, faults>>

AdminUndrain(b) ==
  /\ AdminCall("undrain")
  /\ b \in DOMAIN reg
  /\ reg' = R!set_draining(reg, b, FALSE)
  /\ UNCHANGED <<inflight, tenantInflight, reqVars, breakerVars, schedVars, scrapeVars, up, faults>>

\* Adding a known id changes the URL of the record the pass also refers to.
AdminAdd(b, url) ==
  /\ AdminCall("add")
  /\ reg' = R!add(reg, b, url, Model)
  /\ sweep' = {IF b \in DOMAIN reg /\ p = [id |-> b, url |-> reg[b].url]
               THEN [p EXCEPT !.url = url] ELSE p : p \in sweep}
  /\ UNCHANGED <<inflight, tenantInflight, reqVars, breakerVars, schedVars, probe, up, faults>>

\* The counter of a removed backend is dropped; it reads as 0 afterwards.
AdminRemove(b) ==
  /\ AdminCall("remove")
  /\ b \in DOMAIN reg
  /\ reg' = R!remove(reg, b)
  /\ inflight' = [inflight EXCEPT ![b] = 0]
  /\ UNCHANGED <<tenantInflight, reqVars, breakerVars, schedVars, scrapeVars, up, faults>>

ServerFails(u) ==
  /\ u \in up /\ faults < MaxFaults
  /\ up' = up \ {u}
  /\ faults' = faults + 1
  /\ UNCHANGED <<reg, inflight, tenantInflight, reqVars, breakerVars, schedVars, scrapeVars, admin>>

ServerRecovers(u) ==
  /\ u \in Urls \ up
  /\ up' = up \cup {u}
  /\ UNCHANGED <<reg, inflight, tenantInflight, reqVars, breakerVars, schedVars, scrapeVars, faults, admin>>

CooldownElapses(b) ==
  /\ CB!CooldownElapses(b)
  /\ UNCHANGED <<reg, inflight, tenantInflight, reqVars, schedVars, scrapeVars, envVars>>

-----------------------------------------------------------------------------
Connect(r) == Connected(r) \/ ConnectFails(r) \/ RaceWon(r) \/ RaceLost(r)

RequestStep(r) ==
  \/ Throttle(r) \/ AnswerEarly(r) \/ ArriveAndDispatch(r) \/ ArriveAndPark(r)
  \/ Unpark(r) \/ Connect(r) \/ StreamEnds(r) \/ Finish(r)

Scrape == StartSweep \/ StartProbe \/ ProbeAnswered

Operator ==
  \/ \E b \in Backends : AdminDrain(b) \/ AdminUndrain(b) \/ AdminRemove(b)
  \/ \E b \in Backends, u \in Urls : AdminAdd(b, u)

World ==
  \/ \E u \in Urls : ServerFails(u) \/ ServerRecovers(u)
  \/ \E b \in Backends : CooldownElapses(b)

Next == (\E r \in Reqs : RequestStep(r)) \/ Scrape \/ Operator \/ World

Spec == Init /\ [][Next]_vars

\* The loop runs what is ready; connections and streams end (httpx times out
\* each connect and each read); the scrape loop never stops.
Fairness ==
  /\ \A r \in Reqs : WF_vars(Unpark(r)) /\ WF_vars(Connect(r)) /\ WF_vars(StreamEnds(r)) /\ WF_vars(Finish(r))
  /\ WF_vars(Scrape)

FairSpec == Spec /\ Fairness

-----------------------------------------------------------------------------
(* Properties                                                              *)

DispatchedTo(b) == {r \in Reqs : stage[r] \in Counted /\ b \in DOMAIN conn[r]}

\* fleet.py:5 calls the in-flight counters "synchronous, exact"; they drive the
\* router: through failovers, races and broken streams, a backend's counter is
\* the number of requests connecting to it or streaming from it.
LoadExact == \A b \in DOMAIN reg : inflight[b] = Cardinality(DispatchedTo(b))

\* load_tracker.py:24: whatever the operator removes or re-adds, a counter
\* never claims a request that is not there, so no load lingers on an idle
\* backend.
NoPhantomLoad == \A b \in Backends : inflight[b] <= Cardinality(DispatchedTo(b))

\* The types, of which the counters' is the point (load_tracker.py:25: never negative),
\* and no load that nobody causes.
CountersAreSane == TypeOK /\ NoPhantomLoad

\* tenancy.py:142-162 with server.py's many exits: a tenant's in-flight count is
\* the number of its requests between admission and their last byte, whichever
\* way they left, and it respects the cap.
QuotaExact ==
  \A t \in Tenants :
    /\ tenantInflight[t] = Cardinality({r \in Reqs : Tenant[r] = t /\ stage[r] \in Admitted})
    /\ tenantInflight[t] <= MaxInflight

\* server.py:823-838, 904, 972: a request has a dispatch slot exactly while it
\* connects, races, streams or closes, and none is idle while one is parked.
SlotsFollowRequests ==
  /\ \A r \in Reqs : stage[r] \in Dispatching <=> task[r] = "holding"
  /\ \A r \in Reqs : stage[r] = "parked" <=> task[r] = "await"
  /\ Sched!NoIdleSlotWhileWaiting

\* Quota and slot together: through every return and every exception of the handler
\* (server.py:626-1027) the limiter and the scheduler agree with the requests that are
\* still there. Cancelling the handler at its await (server.py:833), which uvicorn does
\* only when it shuts down, is no exit here: FairScheduler has it, Gateway has not.
HeldResourcesExact == QuotaExact /\ SlotsFollowRequests

\* server.py:828 "released on the 502 path and in body_iter's finally": a
\* request that was answered keeps no dispatch slot.
SlotReturned == \A r \in Reqs : stage[r] \in Answered => task[r] # "holding"

\* DESIGN.md:322 "a pre-first-byte connect failure re-routes optimally on the
\* shrinking candidate set, up to max_retries": a 502 means that every
\* candidate of the request's arrival was tried, or max_retries + 1 of them. Asked of
\* requests of mode "normal": the others were narrowed to one backend before the loop.
FailoverExhaustsCandidates ==
  \A r \in Reqs :
    (stage[r] = "502" /\ Mode[r] = "normal") =>
      \/ retries[r] = MaxRetries + 1
      \/ retries[r] >= Cardinality(offered[r])

\* backends.py:22 "a draining backend ... receives NO new requests": no request
\* is sent to a backend that is draining or gone at that moment.
NoNewWorkWhileDraining ==
  [][\A r \in Reqs : \A b \in DOMAIN conn'[r] \ DOMAIN conn[r] :
       b \in DOMAIN reg /\ ~reg[b].draining]_vars

\* server.py:561-1032: every admitted request is answered, parked ones too.
EveryRequestEnds == \A r \in Reqs : stage[r] \in Admitted ~> stage[r] \in Answered

\* DESIGN.md:329 "Automatic recovery": a server that stays up is in rotation for
\* good with its circuit closed, and one that stays down is out of rotation,
\* with no help from live traffic.
HealthFollowsReality ==
  \A b \in Backends :
    LET Alive == b \in DOMAIN reg /\ reg[b].url \in up
        Dead == b \in DOMAIN reg /\ reg[b].url \notin up
    IN  /\ <>[]Alive => <>[](reg[b].healthy /\ circuit[b] = "closed")
        /\ <>[]Dead => <>[]~reg[b].healthy
=============================================================================
