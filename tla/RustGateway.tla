---------------------------- MODULE RustGateway ----------------------------
(***************************************************************************)
(* The Rust gateway (rust/src/server.rs with circuit.rs, load.rs and the   *)
(* in-flight cap of tenancy.rs).  Requests run on several threads; each    *)
(* mutex (inner, breaker, limiter) is held for one step, except that       *)
(* /metrics takes inner and then waits for breaker.  The only await of the *)
(* handler is the connection; dropping the handler there runs no cleanup,  *)
(* the guard exists only once the upstream answered.  Scores, tree and     *)
(* token buckets are free choices.  The backends are fixed and not empty.  *)
(***************************************************************************)
EXTENDS Integers, FiniteSets, FiniteSetsExt

CONSTANTS RustReqs, RustBackends,
          ClientOf, Clients,    \* request -> tenant
          ClientCap,            \* max_inflight of every tenant
          FailLimit,            \* circuit_fail_threshold
          Retries               \* max_retries

ASSUME RustAssumption ==
  /\ IsFiniteSet(RustReqs) /\ ClientOf \in [RustReqs -> Clients]
  /\ RustBackends # {} /\ ClientCap \in Nat /\ FailLimit \in Nat \ {0} /\ Retries \in Nat

VARIABLES
  rq,         \* request -> phase, remaining backends, attempts, chosen backend
  rload,      \* LoadTracker.inflight
  rlimit,     \* RateLimiter.inflight
  rfails, rcircuit,  \* CircuitBreaker
  scraping,   \* the thread serving /metrics holds the inner mutex
  streak      \* history: failures recorded for a backend since its last success

rustVars == <<rq, rload, rlimit, rfails, rcircuit, scraping, streak>>

Idle == [phase |-> "new", cands |-> {}, tries |-> 0, backend |-> ""]

RustInit ==
  /\ rq = [r \in RustReqs |-> Idle]
  /\ rload = [b \in RustBackends |-> 0]
  /\ rlimit = [t \in Clients |-> 0]
  /\ rfails = [b \in RustBackends |-> 0]
  /\ rcircuit = [b \in RustBackends |-> "closed"]
  /\ scraping = FALSE
  /\ streak = [b \in RustBackends |-> 0]

---------------------------------------------------------------------------
Minus1(n) == IF n > 0 THEN n - 1 ELSE 0

on_dispatch(b) == rload' = [rload EXCEPT ![b] = @ + 1]

\* Mutant: a failed attempt stays counted.
on_complete_missed(b) == UNCHANGED rload

on_complete(b) == rload' = [rload EXCEPT ![b] = Minus1(@)]

release_inflight(t) == rlimit' = [rlimit EXCEPT ![t] = Minus1(@)]

allow(b) == rcircuit[b] # "open"

record_success(b) ==
  /\ rfails' = [rfails EXCEPT ![b] = 0]
  /\ rcircuit' = [rcircuit EXCEPT ![b] = "closed"]

\* Compared with the threshold only, the count is kept up to the threshold.
record_failure(b) ==
  LET n == IF rcircuit[b] = "half_open" THEN FailLimit ELSE Min({FailLimit, rfails[b] + 1})
  IN  /\ rfails' = [rfails EXCEPT ![b] = n]
      /\ rcircuit' = [rcircuit EXCEPT ![b] = IF n = FailLimit THEN "open" ELSE @]

\* The instant at which the time since opened_at reaches cooldown_s.
Cooldown(b) ==
  /\ rcircuit[b] = "open"
  /\ rcircuit' = [rcircuit EXCEPT ![b] = "half_open"]
  /\ UNCHANGED <<rq, rload, rlimit, rfails, scraping, streak>>

---------------------------------------------------------------------------
Goto(r, phase) == rq' = [rq EXCEPT ![r].phase = phase]

Ended == [Idle EXCEPT !.phase = "done"]

\* admit under the limiter's mutex.
RustAdmit(r) ==
  /\ rq[r].phase = "new"
  /\ rlimit[ClientOf[r]] < ClientCap
  /\ rlimit' = [rlimit EXCEPT ![ClientOf[r]] = @ + 1]
  /\ Goto(r, "admitted")
  /\ UNCHANGED <<rload, rfails, rcircuit, scraping, streak>>

\* 429: the in-flight cap, or a token bucket, which may refuse at any time.
RustRefuse(r) ==
  /\ rq[r].phase = "new"
  /\ rq' = [rq EXCEPT ![r] = Ended]
  /\ UNCHANGED <<rload, rlimit, rfails, rcircuit, scraping, streak>>

\* The circuit filter under the breaker's mutex; when every circuit is open, all.
RustFilter(r) ==
  LET open == {b \in RustBackends : allow(b)}
  IN  /\ rq[r].phase = "admitted"
      /\ rq' = [rq EXCEPT ![r] = [phase |-> "routed", tries |-> 0, backend |-> "",
                                  cands |-> IF open = {} THEN RustBackends ELSE open]]
      /\ UNCHANGED <<rload, rlimit, rfails, rcircuit, scraping, streak>>

\* Mutant: the loop does not notice that nothing is left to try.
MayTryAny(r) == rq[r].tries <= Retries

\* The two ways out of the loop: no backend left, no attempt left.
MayTry(r) == rq[r].cands # {} /\ rq[r].tries <= Retries

\* choose, insert and on_dispatch under one hold of the inner mutex.
RustChoose(r, b) ==
  /\ rq[r].phase = "routed" /\ ~scraping
  /\ MayTry(r) /\ b \in rq[r].cands
  /\ on_dispatch(b)
  /\ rq' = [rq EXCEPT ![r].phase = "sending", ![r].backend = b, ![r].tries = @ + 1]
  /\ UNCHANGED <<rlimit, rfails, rcircuit, scraping, streak>>

\* The upstream answered: success is recorded and the guard takes over.
RustAnswered(r) ==
  LET b == rq[r].backend
  IN  /\ rq[r].phase = "sending"
      /\ record_success(b)
      /\ streak' = [streak EXCEPT ![b] = 0]
      /\ Goto(r, "streaming")
      /\ UNCHANGED <<rload, rlimit, scraping>>

\* The connection failed: the load goes down under inner, then the failure is
\* recorded under breaker and the loop goes on without the backend.
RustFailed(r) ==
  /\ rq[r].phase = "sending" /\ ~scraping
  /\ on_complete(rq[r].backend)
  /\ Goto(r, "failing")
  /\ UNCHANGED <<rlimit, rfails, rcircuit, scraping, streak>>

RustRecord(r) ==
  LET b == rq[r].backend
  IN  /\ rq[r].phase = "failing"
      /\ record_failure(b)
      /\ streak' = [streak EXCEPT ![b] = Min({FailLimit, @ + 1})]
      /\ rq' = [rq EXCEPT ![r].phase = "routed", ![r].cands = @ \ {b}, ![r].backend = ""]
      /\ UNCHANGED <<rload, rlimit, scraping>>

\* 502.
RustGiveUp(r) ==
  /\ rq[r].phase = "routed" /\ ~MayTry(r)
  /\ release_inflight(ClientOf[r])
  /\ rq' = [rq EXCEPT ![r] = Ended]
  /\ UNCHANGED <<rload, rfails, rcircuit, scraping, streak>>

\* The stream ends, breaks or is dropped: the guard's destructor, one mutex after the other.
RustDropLoad(r) ==
  /\ rq[r].phase = "streaming" /\ ~scraping
  /\ on_complete(rq[r].backend)
  /\ Goto(r, "dropped")
  /\ UNCHANGED <<rlimit, rfails, rcircuit, scraping, streak>>

RustDropTenant(r) ==
  /\ rq[r].phase = "dropped"
  /\ release_inflight(ClientOf[r])
  /\ rq' = [rq EXCEPT ![r] = Ended]
  /\ UNCHANGED <<rload, rfails, rcircuit, scraping, streak>>

\* The client disconnects while the gateway waits for the upstream's headers: the
\* server drops the handler at its await, and nothing was guarding the counts yet.
RustAbandoned(r) ==
  /\ rq[r].phase = "sending"
  /\ Goto(r, "abandoned")
  /\ UNCHANGED <<rload, rlimit, rfails, rcircuit, scraping, streak>>

\* /metrics: inner first, breaker while inner is held.
MetricsLocks == /\ ~scraping /\ scraping' = TRUE
                /\ UNCHANGED <<rq, rload, rlimit, rfails, rcircuit, streak>>

MetricsRenders == /\ scraping /\ scraping' = FALSE
                  /\ UNCHANGED <<rq, rload, rlimit, rfails, rcircuit, streak>>

RustStep(r) ==
  \/ RustAdmit(r) \/ RustRefuse(r) \/ RustFilter(r)
  \/ \E b \in RustBackends : RustChoose(r, b)
  \/ RustAnswered(r) \/ RustFailed(r) \/ RustRecord(r) \/ RustGiveUp(r)
  \/ RustDropLoad(r) \/ RustDropTenant(r) \/ RustAbandoned(r)

RustNext ==
  \/ \E r \in RustReqs : RustStep(r)
  \/ \E b \in RustBackends : Cooldown(b)
  \/ MetricsLocks \/ MetricsRenders

RustSpec == RustInit /\ [][RustNext]_rustVars

\* Every thread that serves a request runs, the upstream answers or fails, the mutexes
\* are handed on fairly.
RustFairness ==
  /\ WF_rustVars(MetricsRenders)
  /\ \A r \in RustReqs : SF_rustVars(rq[r].phase # "new" /\ RustStep(r))

RustFairSpec == RustSpec /\ RustFairness

---------------------------------------------------------------------------
On(b, phases) == {r \in RustReqs : rq[r].backend = b /\ rq[r].phase \in phases}

\* Admitted requests of a tenant that have not ended.
Serving(t) == {r \in RustReqs : ClientOf[r] = t /\ rq[r].phase \notin {"new", "done", "abandoned"}}

\* A client of backend b, or of tenant t, went away while the gateway was connecting.
LostOn(b) == On(b, {"abandoned"}) # {}
LostBy(t) == \E r \in RustReqs : ClientOf[r] = t /\ rq[r].phase = "abandoned"

\* The in-flight count of a backend is the number of requests between dispatch and
\* completion, every failed attempt being taken back before the next one (server.rs:454,
\* 498, 161); it is never less, and more only where a connecting client was lost.
RustLoadExact ==
  \A b \in RustBackends :
    LET live == Cardinality(On(b, {"sending", "streaming"}))
    IN  rload[b] >= live /\ (~LostOn(b) => rload[b] = live)

\* A tenant occupies one place per admitted request that has not ended (server.rs:342,
\* 516, 165), with the same exception, and never more than its cap.
RustQuotaExact ==
  \A t \in Clients :
    /\ Cardinality(Serving(t)) <= rlimit[t] /\ rlimit[t] <= ClientCap
    /\ ~LostBy(t) => rlimit[t] = Cardinality(Serving(t))

\* server.rs:145-147 "so accounting can't leak even on client disconnect", and
\* rust/README.md:25 "an in-flight `Drop` guard decrements load even on client
\* disconnect": a request that is over is counted nowhere.
NoLeakOnDisconnect ==
  /\ \A b \in RustBackends : rload[b] = Cardinality(On(b, {"sending", "streaming"}))
  /\ \A t \in Clients : rlimit[t] = Cardinality(Serving(t))

\* Two requests may record the outcome of the same backend in either order: a circuit
\* is not closed exactly when fail_threshold failures were recorded since the last
\* success (circuit.rs:59-76).
CircuitCountsConsecutive ==
  \A b \in RustBackends : rcircuit[b] # "closed" <=> streak[b] = FailLimit

\* Every request is answered or abandoned, with the scraper of /metrics holding one
\* mutex while it waits for another (server.rs:241-242).
RustRequestsEnd ==
  \A r \in RustReqs : rq[r].phase # "new" ~> rq[r].phase \in {"done", "abandoned"}

\* What the threads share agrees with the requests: loads and quotas as long as no client
\* is lost while connecting, circuits always (server.rs with load.rs, tenancy.rs, circuit.rs).
RustBooksBalance == RustLoadExact /\ RustQuotaExact /\ CircuitCountsConsecutive
=============================================================================
