# Verification of the LLM inference gateway

TLA+ specifications of the gateway under `src/gateway` and of its Rust port under
`src/rust`, the TLC instances that model-check them and the TLAPS proofs about
them. The specifications are translated from the code; where a document and the
code disagree the model follows the code.

## 1. The system

The gateway is an asyncio HTTP server in front of a pool of LLM backends. A
chat-completion request is authenticated, charged to a tenant, routed to a
backend (by prefix overlap, load, affinity and many opt-in policies), given a
dispatch slot by a weighted fair queue, sent, failed over if the connection
fails, and streamed back. Beside the requests run the health scrape loop, the
cluster synchronisation loop and the operator's admin calls. Several replicas
of the gateway share operators' decisions over an unreliable bus.

All Python state of one process is touched only by coroutines of one event
loop, so the unit of interleaving is the span between two `await`s. That is the
grain of every action here. The Rust gateway runs on several threads: there the
unit is one hold of a mutex.

### Inventory

| component (source) | state | operations | hard because | correct when |
|---|---|---|---|---|
| weighted fair queue (`fairqueue.py`) | heap of (finish tag, seq, item), last finish per class, virtual time | enqueue, dequeue | tags decide overtaking | later arrivals overtake only within the tag's lead; idle classes carry no debt |
| dispatch scheduler (`fairsched.py`) | `_active`, the parked futures | acquire, release, cancellation | a grant and the resumption are different ticks; a cancellation can fall between | no slot leaks, nobody parked beside a free slot, everybody served |
| request life cycle (`server.py` 561-1032) | per-request candidates, retries, slot, quota, in-flight count | arrive, park, connect, fail over, race, stream, finish | eight exits, each owing back a quota, a slot and a count; values read before an await and used after | counters agree with the requests in every state |
| load tracker (`load_tracker.py`) | in-flight per backend | on_dispatch, on_complete, drop | completions after the counter was dropped | exact; never negative, never phantom |
| backend registry (`backends.py`) | id -> URL, model, healthy, draining | add, remove, set_health, set_draining, ids_for | shared by requests, scrape, operator and cluster sync | no new request to a draining or absent backend |
| circuit breaker (`circuit.py`) | failures, opened_at | allow, record_success, record_failure | driven by requests and probes at once | closes without live traffic once the server is back |
| health scrape (`server.py` 225-272) | the pass over a snapshot of the pool | probe, apply | the pool changes during a probe | health settles on reality |
| operator API (`server.py` 433-503) | - | drain, undrain, add, remove | runs under live requests | see registry, cluster |
| cluster drain and membership state (`cluster/*.py`) | two last-writer-wins maps with Lamport clocks per replica | publish, merge delta, merge digest, reconcile | loss, reordering, duplication, concurrent decisions, restarts | replicas converge; nothing removed comes back |
| drain snapshot (`cluster/snapshot.py`) | shared set of drained ids | record, load | best effort, written without a version | a restarted replica's flags follow its map |
| cluster bus (`cluster/bus.py`) | outbox, inbox | publish, poll | at most once, popped before it is sent, posts that arrive after the sender gave up | losses are repaired by digests and by the next snapshot |
| fleet view (`cluster/fleet.py`) | peers' load snapshots | apply, peer_inflight, peer_unhealthy | no version, no expiry | views settle on the peers' load; own load counted once |
| tenant quotas (`tenancy.py`, `tenancy.rs`) | in-flight count, two lazily refilled token buckets per tenant | admit, release, deficit_seconds | rollback when the second bucket refuses; refunds and debits in any order | throughput is bounded by burst plus rate; a refusal costs nothing; Retry-After suffices |
| prefix tree (`radix_tree.py`, `radix_tree.rs`) | radix tree with holders per node and an LRU order per backend | insert, match, evict, remove_backend | splits and evictions in the middle of a path | a match was inserted and is still held; holdings fit the budget |
| router (`router.py`, `router.rs`) | round-robin counter | choose | guardrails, hysteresis, ties; the state is another one after the await | the choice passes the guardrails and is within the hysteresis of the best |
| session affinity (`session_affinity.py`) | LRU map with idle limit | pick, remember, forget_backend | stale pins, overlapping turns | the last turn is pinned; a pin never leaves the fleet |
| semantic cache (`semantic_cache.py`) | LRU map per tenant | lookup, store | what is refreshed, what is stored after a broken stream | own tenant, recently used |
| RAG and media routing (`rag/`, `multimodal/`), LoRA filter | LRU set per backend | touch, choose | order of the narrowing steps | the backend can serve the request; indexes say what was last sent |
| speculative racing (`extensions/speculative.py`) | racing tasks and their connections | top_k_backends, race | two finish together, cancelled tasks unwind during an await | one connection stays open, or none because all failed |
| admission (`admission/`, `admission.rs`) | - | decide | thresholds | shedding is monotone; both languages agree |
| disaggregation (`disagg/`) | pools | choose_disaggregated | saturated pools, the margin | cheapest admissible plan up to the margin |
| DAG scheduler (`dag/`) | - | layers, schedule | repeated parents, cycles | exactly the schedulable graphs are planned |
| autoscaler (`autoscale/`, scrape loop) | counters, stamps of the last decisions | Erlang formulas, plan | first round, cooldown edges, a recursion in place of a closed form | spaced, bounded, every request counted once, the fewest replicas for the SLO |
| learned TTFT estimate (`ttft_predictor.py`, trainer) | loaded model, mtime | predict, blend | a file written meanwhile | between the two estimates |
| block hashing (`hashing.py`, `bpe_hashing.py`) and the backend's prefix cache (`mock_backend/app.py`) | cached blocks | hash, serve | chaining, salt, cutoff, a tokenizer that cannot be loaded | what the gateway expects is what the backend has |
| Rust gateway (`rust/src/server.rs`) | load, limiter, breaker, tree behind three mutexes | the handler, `/metrics` | threads between lock scopes, nested locks, a handler dropped at its await | counts agree with the requests; every request ends |
| event encoding (`cluster/events.py`, `receive_gossip`) | inbox | to_json, from_json, push a batch | peers of another version leave tags out, bodies that are no JSON | an event arrives as it was sent, a bad one costs no other |
| authentication (`auth.py`, tenant registry, admin guard) | configured keys and tenants | resolve a caller, guard the admin API | blank, hashed and foreign keys | a caller is who its key names, or refused |
| metrics (`metrics.py`, `/metrics`) | counters, gauges, histograms | inc, set, observe, render | the fleet moves between two calls | a page is cumulative and shows the live fleet |
| benchmarks (`bench/`) | the loops that drive tree, router and policies | replay a request, tick | books kept beside the code that is measured | load, belief and occupancy agree with what was sent |
| configuration, logging, tracing, demos, deployment | - | - | - | not modelled: no state the modelled behaviour reads |

Interactions: a request calls the rate limiter, the registry, the breaker, the
scheduler, the router and the load tracker synchronously, and awaits the
scheduler's future and the HTTP client. The scrape loop and requests both write
health and breaker. The operator writes the registry and publishes to the
cluster coordinator, whose periodic `sync` writes the registry of every other
replica.

The list of hazards, each at the line where it bites and with the properties
that would catch it, is `hazards` in `PROJECT.json`.

## 2. Modules

| module | models | role |
|---|---|---|
| `WeightedFairQueue` | `fairqueue.py` | the heap as a set of entries ordered by (finish, seq) |
| `FairScheduler` | `fairsched.py` | acquire / release / cancellation over `WeightedFairQueue` |
| `SlotPool` | - | abstract specification: who holds and who waits for a slot |
| `FairShare` | - | `FairScheduler` with a history of overtaking |
| `BackendRegistry` | `backends.py` | pure operators on the pool |
| `CircuitBreaker` | `circuit.py` | per-backend state with an abstract clock |
| `Gateway` | `server.py`, `load_tracker.py`, in-flight part of `tenancy.py` | composes `FairScheduler`, `BackendRegistry`, `CircuitBreaker` |
| `Lists` | the list comprehensions and dictionaries of the code | filters written as the loop they are, assignment to a key, with the facts about lists, folds and least numbers that several proofs use |
| `RadixTree`, `SessionAffinity`, `Router` | `radix_tree.py`, `session_affinity.py`, `router.py` | pure operators |
| `Routing` | the part of the handler that uses them | composes the three around the handler's awaits |
| `SetAffinity` | `rag/`, `multimodal/` | pure operators |
| `Selection` | `server.py` 674-830 and 984, `lora.py`, `semantic_cache.py` | the semantic cache as operators; composes caches, indexes, pins and pools into the narrowing of the candidates |
| `RateLimiter` | `tenancy.py` and its calls in `server.py` | buckets, cap, admit, release |
| `Admission`, `Disagg` | `admission/`, `disagg/` | decisions, each checked over a set of inputs |
| `Wire` | `cluster/events.py`, `receive_gossip` | encodings and the endpoint for pushed batches |
| `Access` | `auth.py`, `TenantRegistry`, the admin guard | who may call, and as whom |
| `Metrics` | `metrics.py`, `metrics_endpoint` | the collector and its page |
| `Benchmarks` | `bench/sim.py`, `matrix.py`, `cluster_bench.py`, `agentic_bench.py`, `admission_bench.py`, `disagg_bench.py` | replays through `RadixTree` and `Router`; ticks that drive `Admission` and `Disagg` |
| `Dag`, `Autoscale` | `dag/`, `autoscale/` | one state machine each |
| `Race` | `extensions/speculative.py` | the tasks of a race |
| `Estimates` | `hashing.py`, `bpe_hashing.py`, the cache of `mock_backend/app.py`; `ttft_predictor.py` with its trainer | what the router's estimate rests on: both sides of the prefix cache, and the learned model |
| `LwwMap` | what `drain_state.py` and `membership_state.py` share | pure operators on a map of versioned entries |
| `ClusterState` | `coordinator.py`, `snapshot.py`, admin calls, bus | composes two `LwwMap`s and a `BackendRegistry` per replica |
| `FleetBus` | `fleet.py`, `bus.py`, load and prefix events of `coordinator.py` | views of the fleet over three transports |
| `RustGateway` | `rust/src/server.rs`, `circuit.rs`, `load.rs` | the handler thread by thread |
| `RustRouting`, `RustLimiter` | `radix_tree.rs` and `router.rs`, `tenancy.rs` | the ports, each compared with the Python module |
| `FairSchedulerProofs`, `GatewayProofs`, `RateLimiterProofs` | - | theorems about the modules they are named after (`FairSchedulerProofs` covers `FairShare` too) |
| `ClusterProofs` | - | theorems about `ClusterState` and `FleetBus` |
| `RoutingProofs` | - | theorems about `Routing` and the `RadixTree`, `Router` and `SessionAffinity` in it, and about `RustRouting` |
| `EdgeProofs` | - | theorems about `RustLimiter`, `RustGateway`, `Access`, `Metrics` and `Estimates` |
| `DecisionProofs` | - | theorems about `Disagg`, `Autoscale`, `Admission`, `Race`, `Dag` and `Selection` |
| `MCFairScheduler`, `MCGateway`, `MCBooks`, `MCCluster`, `MCRouting`, `MCComponents`, `MCProgress` | - | instances for TLC; `MCBooks` has the two scenes of `gateway` and that of `recovery`, `MCGateway` the two `parked_*` runs |

### State and actions against the code

**FairScheduler.** `active` is `_active`; `heap`, `lastFinish`, `vt`, `seq` are
the fields of the `WeightedFairQueue` object; `fut[r]` is the state of the
future request `r` parks on and `task[r]` where its coroutine is. `AcquireFree`
and `AcquirePark` are the two branches of `acquire` up to its await; `Resume`
is the loop running the task after `set_result`; `Cancel` is `task.cancel()`
(a pending future is cancelled at once, one with a result is not); `Throw` is
the `except CancelledError` clause; `Release` is `release`, with `_grant_next`
popping cancelled entries inside the same step. Virtual times are integers:
`Cost` is a common multiple of the weights so that cost / weight is exact.

**Gateway.** `stage[r]` is the await a request is at, or how it was answered;
`remaining[r]` the shrinking candidate list; `conn[r]` the backends it is
connected or connecting to, at the URL read from the registry when it started;
`offered[r]` (history) the candidates at arrival. One action per span between
awaits: `Throttle`, `AnswerEarly`, `ArriveAndDispatch`, `ArriveAndPark`,
`Unpark`, `Connected`, `ConnectFails` (undo the count, blame the backend, then
either the next attempt or the 502, all in one step as in the code), `RaceWon`,
`RaceLost`, `StreamEnds`, `Finish`. The scrape loop is `StartSweep`,
`StartProbe`, `ProbeAnswered`. `ServerFails`, `ServerRecovers` and
`CooldownElapses` are the world and the clock. Scores, tree, caches and
affinity indexes are free choices among the candidates, so whatever holds here
holds for every scoring policy. The scheduler's cancellation is not composed in: a
handler cancelled at its await on the slot (`server.py` 833) would keep its quota,
and under uvicorn, without middleware, that happens only when the server shuts down.

**ClusterState.** Every replica has `drain`, `member` (its maps), `dclock`,
`mclock` (its Lamport clocks) and `reg`. `AdminDrain`, `AdminAdd` and
`AdminRemove` are the admin endpoint with the coordinator call it makes.
`sentDrains` and `sentMembers` keep each entry ever broadcast, so that a delta
can arrive late, repeatedly, out of order or never. `ReceiveDeltas` and
`ReceiveDigests` are `sync`: merge both maps, reconcile the drain flags if the
drain map changed, then the membership if that changed, in the code's order.
`Restart` resets a replica to its configuration and runs `warm_start`.

**Routing.** `turn[r]` walks through `Arrive` (candidates, narrowed to the pin),
the wait for a slot, `choose` with the insertion into the tree, the connection,
and the end, which remembers the pin. Membership, load reports and peers'
insertions change the tree and the fleet between any two of them. `seen` and
`lastTurn` are histories: the tree is compared with the plain set of the runs
inserted since a backend was last removed.

**Selection.** One request after the other, or side by side, passes the steps of
`server.py` in their order: LoRA filter, semantic cache, pin, chunk index,
admission, pools, media; `rag_cfg.canonicalize` is on, its default (`rag/config.py`
26), so chunks are deduplicated and sorted; the end of a stream stores the answer, remembers the
pin and touches the indexes, broken streams included, as the code does.

**RateLimiter, RustLimiter.** Time is an integer, every rate a whole number of
tokens per second, so the rounding of `Retry-After` is exact. `admit` is one
step with three refusals; a refusal of the second bucket returns what the first
gave. `RustLimiter` has the same constants; its refinement mapping reads a
bucket that was not made yet as a full one.

**RustGateway.** Each step is one hold of a mutex; `scraping` is the thread of
`/metrics` that holds one mutex while it waits for another. `RustAbandoned` is
the handler dropped at its await, before the guard exists: what it took of a
backend's count and its tenant's places stays taken.

**FleetBus.** `FleetSync` is one pass of the loop: publish the load, flush, read,
apply. Sending may fail (the popped event is lost), a post may be served after
its sender gave up, a read may break off, a replica may restart.

**Race.** `lane[b]` is the task and the connection of a backend; any number of
tasks finish between two awaits of `race`, and cancelled tasks unwind during the
closing of the losers.

**Wire.** `Push` is a POST to the gossip endpoint: every event of the body is
decoded, those that lack a tag the decoder insists on are dropped, the replica's
own are filtered out, the rest reach the inbox in order.

**Access, Metrics.** `ChatAccess` and `AdminAccess` are the two guards, with what
they count; a configuration is one of a set of small policies. `compare_digest`
raises when either of its strings is not ASCII, the key of the call or a configured
one (`Comparable`); such a call ends in a 500 and is counted by `raised` alone. `Metrics` has one
step per locked method and lets the fleet move between them, as it does between
the refresh of the gauges and the rendering.

**Benchmarks.** One step per request of the replay or offer of a tick; the
order of documents and the mix of tiers, seeded random in the code, are free
choices, so the books are checked for every stream of the given length.

**Decisions.** `Admission`, `Disagg` and the router of `RustRouting` enumerate inputs: the state
is the last input and the decisions for it.

Operators commented *Mutant* are wrong variants of the definition after
them, used only to confirm that the properties notice such an error
(`mutants` in `PROJECT.json`).

## 3. Runs

| run | instance | what it shows |
|---|---|---|
| `scheduler` | 5 requests of two tiers, 2 slots, cancellation anywhere | `SlotAccounting`: the counter is the number of slots in somebody's hands; `NoIdleSlotWhileWaiting`; `WaitersQueuedOnce`; `FairService`: later arrivals are served before a waiter only within its tag's lead, and an idle class carries no debt; `EveryWaiterServed`; the scheduler implements `SlotPool` |
| `gateway` | two scenes, of which a behaviour picks one: 4 requests (speculative, affinity, disaggregated, normal) of 2 tenants, 2 backends, 2 slots, cap 2, one retry, two server failures; and 2 requests under removal, re-adding, draining and moving of backends, scrape running | `HeldResourcesExact`: quotas and slots agree with the requests in every state, through every return and exception; `LoadExactUnlessDropped` (first scene): so do the counts; `FailoverExhaustsCandidates` (requests of mode normal): a 502 means that the candidates or the retries were used up; `CountersAreSane`: counters neither negative nor phantom |
| `recovery` | 2 requests, 1 slot, 2 failures, scrape running | `EveryRequestEnds`; `HealthFollowsReality` |
| `cluster` | two fleets, of which a behaviour picks one: 3 replicas, 2 backends, 3 add/remove calls; and 2 replicas, 2 backends, 3 drain/undrain calls, 2 restarts, a snapshot whose calls may fail | `PoolIsConsistent`; `FlagsFollowMap`; `VersionDeterminesEntry`, `EntriesOnlyGetNewer` and `ConvergeUnlessRestarted`, until a replica restarts |
| `routing` | 3 turns of 2 sessions with overlapping prompts and three strategies, 2 backends, budget of 3 blocks | `TreeAgreesWithHistory`; `LastTurnIsPinned`; `RoutingIsSound` |
| `components` | seventeen components, one per behaviour | `ThroughputBound`, `RefusalsAreHonest` (quotas: bounded throughput; a refusal is free and the wait it names suffices); `MirrorsPython` (the Rust limiter implements the Python one); `RustBooksBalance`; `RustDecidesAlike` (tree and router); `AdmissionIsFair`; `PlacementIsSound`; `SelectionIsSound`; `DagPlanIsSound`; `RecommendationsAreSound` (with the closed form of Erlang B beside the recursion); `EstimatesAreSound` (hashing on both sides, learned estimate); `EdgeIsSound` (authentication, event encoding, metrics page); `BenchesAreSound` |
| `progress` | the Rust gateway (2 requests), a race of 3 lanes, the fleet view (2 replicas, 3 transports) | `EverythingEnds`; `RaceIsSettled`; `ViewsAreSnapshots`; `ViewsFollowLoad` |
| `parked_drain`, `parked_remove`, `restart_diverges`, `rust_leak`, `auth_raises` | violation | see disagreements |

A property of several parts is a conjunction of named definitions, each with its
own comment; TLC reports the conjunction, the trace shows the part. The modules
of `components` and `progress` share no variable, so a behaviour that runs one
of them leaves the others in their initial states and every property of the
others holds there; they are checked in one run to keep the instances in one
place.

`CHECK_DEADLOCK FALSE` is set because every instance ends: its requests or its
operator calls are used up.

### Bounds, and why they are enough

Requests arrive once each, so the number of requests bounds the run. Two slots
and five requests give a heap of three with cancelled entries before, between
and after live ones, and a grant that overlaps a cancellation and an arrival.
Three gold requests are enough to overtake a bronze one as often as its lead
allows and to attempt it once more.
`MaxFaults` (a server goes down), `MaxAdmin` (operator calls), `MaxOps` and
`MaxRestarts` are counted in the guards. A tenant's cap of 2 with three of its
requests reaches and exceeds the cap. `FailThreshold` 2 makes a circuit open
after two failures, so that both the counting and the opening branch run. One
retry with two backends separates "retries used up" from "candidates used up".
Three replicas let a delta reach a replica after the digest of another that
already carries a newer decision.

A budget of 3 blocks and prompts of 2 and 3 blocks that share their first make
insertions split nodes, and evictions take inner nodes before their
descendants. Three calls of one tenant with a bucket of 3 tokens give refusals by
each of the three limits, refunds cut at the capacity and a bucket in debt, over
four seconds. The DAG part takes every graph of three jobs whose parent lists
are among eight, with repeated and unknown parents and cycles. Three lanes allow
two to finish in one wait beside one that is being cancelled. `MaxChanges`,
`MaxMoves`, `MaxLosses`, `MaxReboots`, `MaxBoots`, `Burst`, `LastRound`,
`MaxServed`, `MaxInserts` and `MaxBacklog` bound events that never end in
reality. Latencies are small integers chosen so that ties and the margins on
both sides occur.

What the bounds leave out on purpose: in the second scene of `gateway` no request
waits for a slot, and the step in which `registry.url` raises for a removed backend is
not taken, because there the code loses the slot (`parked_remove`); in the first fleet
of `cluster` no replica restarts, because there the maps may stay apart
(`restart_diverges`), and for the same reason `ConvergeUnlessRestarted`,
`VersionDeterminesEntry` and `EntriesOnlyGetNewer` promise nothing of the second once
one of its two restarts was used; the second changes no membership and the first drains
nothing and uses one model, because of the disagreements 8 and 9 below. Every keyed
caller of `components` presents ASCII; that configured keys are not is among its
policies, and `auth_raises` has the caller. What else a property leaves out although its run
reaches it is said with the disagreements.

### Fairness

- `FairScheduler`: weak fairness of `Resume` and `Throw` (the event loop runs
  every ready task) and of `Release` (a dispatched request ends, see next).
- `Gateway` (`RecoverySpec` of `MCBooks`): weak fairness of `Unpark`, `Connect`, `StreamEnds`, `Finish` and
  `Scrape`. The HTTP client bounds each connect and each read by its timeout,
  and a stream ends after finitely many chunks; the scrape loop catches the
  errors of a probe and never returns. Servers, operators and the circuit's
  clock are under no fairness at all, so recovery is shown without assuming
  that a cooldown elapses or that traffic arrives.
- `ClusterState`: weak fairness of `ReceiveDigests(p, r)` for each pair.
  `cluster_sync_loop` broadcasts both digests every eighth tick for ever and
  a fair-lossy bus delivers infinitely many of them; single deltas are under
  no fairness.
- `RustGateway`: strong fairness of each admitted request's steps (a thread that
  runs gets the mutex again and again, the upstream answers or fails within the
  client's timeout) and weak fairness of the scraper that holds a mutex.
- `Race`: weak fairness of the tasks and of `race` itself: connections have
  timeouts, and cancelling a task ends it.
- `FleetBus`: weak fairness of each replica's loop, which never returns.

## 4. Theorems

Proved with TLAPS for all values of the constants that satisfy the named
assumptions of the modules; what a theorem assumes beyond them is said here.

**`FairSchedulerProofs`** (`ReqsAssumption`, `ClassAssumption`, `SlotsAssumption`,
`WeightAssumption`: finitely many requests, each of a known class, at least one
slot, positive weights).

- `SchedulerTypeOK`, `SlotsNeverLeak` (`SlotAccounting`), `NoIdleSlot`
  (`NoIdleSlotWhileWaiting`), `NoLostWaiter` (`WaitersQueuedOnce`);
- `SchedulerIsSlotPool`: `FairScheduler` implements `SlotPool`;
- `ServiceIsFair` (`FairService`): overtaking is bounded by the lead of the tag.

The inductive invariant of the first four is `TypeOK`, `FutureMatchesTask` (which
future states go with which places of the coroutine), `WaitersQueuedOnce`,
`SlotAccounting` and `NoIdleSlotWhileWaiting` together. None of the last three is
inductive on its own: that a freed slot may be taken off the counter needs that no
live waiter exists, which needs that every pending future is in the heap, which
needs that a request parks once. The proof sorts steps into those that give a slot
up (`Release`, and `Throw` after a grant) and the rest (`StepKinds`); a giving step
either hands the slot to a waiter, so the set of holders swaps one member, or loses
one member and the counter goes down. The same case split gives the refinement.

`ServiceIsFair` adds two statements about the tags. `DebtIsBacklog`: the last
finish tag of a class exceeds any virtual time v from now on by at most one service
time for each of its entries beyond v, so a class without entries owes nothing.
`LeadsKept`: what overtook a waiter fits between the virtual time at which it
parked and the present one, and later arrivals of the overtaking class start a
service time further. A pop moves the virtual time and consumes an entry; the two
statements trade the one against the other.

**`GatewayProofs`** (`GatewayAssumption`, `PartsAssumption` and the assumptions of
`FairScheduler`). The scheduler is not proved again: its lemmas are taken from
`FairSchedulerProofs` by `INSTANCE`.

- `GatewayInvariant`, `GatewayTypes`;
- `FailoverIsExhaustive` (`FailoverExhaustsCandidates`);
- `ResourcesExactUnlessLost` (`HeldResourcesExact`) and `CountersSaneUnlessLost`
  (`CountersAreSane`), in every state in which no request was lost;
- `ExactWithoutRemovals` (`LoadExact` and `HeldResourcesExact`, with
  `"remove" \notin AdminOps`).

The invariant `GatewayInv` says for each request, by its stage, what it holds: the
place in its tenant's quota, a slot or a place in the heap, a count at each backend
it is connected or connecting to, and how its candidates shrank from those offered;
and that tenants' counters, the scheduler's state and the backends' counters are
the sums of it. Each action changes one request, so the proof has one lemma per
action and a common one that everything about the other requests stays. The
hypothesis *no request was lost* (`NoneLost`) is the disagreement `parked_remove`:
`registry.url` raises between the grant and the `try`, and what that request held
stays taken. It is a hypothesis on the state, not on the behaviour: a backend may be
removed at any time, and the books are exact until the first request is lost.

**`ClusterProofs`** (`ClusterAssumption`, `FleetAssumption`).

- `VersionNamesEntry` (`VersionDeterminesEntry`) and `NothingIsResurrected`
  (`EntriesOnlyGetNewer`), of every state and step before the first restart;
- `PoolsFollowTheMaps` (`PoolIsConsistent`), with any number of restarts;
- `FlagsFollowTheMap` (`FlagsFollowMap`), with any number of restarts and
  `Ops \subseteq {"drain", "undrain"}`;
- `FleetViewsAreSnapshots` (`ViewsAreSnapshots`), over all three transports, with any
  number of replicas, losses and restarts.

For the first two the invariant (`Versioned`, once per map) says that every entry
held or in transit was written once by its origin, with a timestamp the origin's
clock has reached, that two written entries of one version for one key are the same,
and that each replica's clock is at least every timestamp in its own map. The last
part is why a local decision wins over whatever it overwrites. That no replica has
restarted is part of both properties, not a bound: a restart resets the clock, and TLC
shows the consequence (`restart_diverges`). For the pools the invariant is per replica (`GoodReplica`) with
the well-formedness of everything in transit (`GoodWorld`); merging in any order and
reconciling afterwards restores it. The flags need the restriction on the operators'
calls: a backend added after it was drained starts undrained until the next drain
delta (disagreement 8).

`apply` overwrites a peer's snapshot without comparing versions, so that the newest
one wins is a matter of order alone. `FleetInv` says it of the whole path
(`StreamsInOrder`): what a replica has read of a peer, what waits in its inbox, what
that peer still has in its outbox and the peer's present load are snapshots of rising
versions, as long as no gossip post was lost or late; a poll takes a prefix of the
inbox, a flush moves the outbox to the back of it, a restart empties both but keeps
the count. `NoEcho` adds that only the Redis bus returns one's own events, which
`sync` drops. `InsertsArrive` does the same for the trees on the in-memory bus: what a
replica holds and what waits for it are together everything ever inserted. That the
fold over a polled batch leaves the last report of each peer is `LastReportWins`, by
the method of `SumExists` below.

**`RoutingProofs`** (`RoutingAssumption`, `RouterAssumption`, `PinAssumption`,
`TreeAssumption`: finitely many turns and backends, prompts are finite runs of block
hashes, costs and limits are natural numbers, a capacity of at least one pin, which
`SessionAffinity` enforces).

- `RoutingInvHolds`, `SessionsStayPinned` (`LastTurnIsPinned`) and
  `RoutingDecisionsAreSound` (`RoutingIsSound`, an action property);
- `TreeInvHolds` and `TreeFollowsHistory` (`TreeAgreesWithHistory`): what the prefix
  tree matches, holds and evicts, against the plain history of insertions, for every
  number of backends, budget and set of prompts;
- `RustTreeInvHolds` and `RustPortsDecideAlike` (`RustDecidesAlike`): `radix_tree.rs`
  and `router.rs` decide as their Python modules do.

`RoutingInv` types the handler's state and says that the pin table has one pin per
session (`IsTable`) and still has the pin of the last finished turn, with its time,
until that idles out (`PinKept`). The table alone is not enough: a turn that looks its
pin up moves it or drops it, and only the time in the pin says that a pin dropped as
idle was not the one promised. The router's choice is a chain of filters and minima; `EquivalentIs` and
`LeastLoadedIs` say what survives each, from the facts of `Lists` (a filter keeps an
increasing choice of the positions, `KeptInOrder`).

For the tree, `TreeOK` relates a tree to the history of the runs inserted for each
backend:

- `GoodNodes`: the nodes are nonempty runs closed under nonempty common prefixes,
  which is what makes the set of paths a radix tree (two children of a node differ in
  their first block, so a walk has one way to go);
- `Listed`: a backend's LRU list names exactly the nodes that list it as a holder, once
  each;
- `Given`: what a backend holds is a prefix of a run inserted for it;
- `Complete`: while everything inserted for a backend fits the budget, it holds every
  node that is a prefix of one of its runs;
- `Budget`: the edges of what it holds add up to at most the budget.

The budget is the hard part. An insertion splits an edge of other backends, so their
sums have to be unchanged by a split they did not ask for (`SplitBlocks`: the edges of
the two halves add up to the edge that was split, and whoever held the one holds both),
and an edge's length depends on all nodes, not on those of one backend. Completeness
needs the converse: if the runs fit the budget, nothing is evicted, because the edges
held are disjoint sets of blocks of those runs (`EdgeBlocksApart`, `SumIsCount`). A match then is the
longest node on the walk that is held without a gap, and the walk along a run meets
exactly the nodes that share a block more with it than their parent
(`MatchIs`, `MatchWasGiven`, `MatchFindsAll`).

The Rust tree keeps no list of what a backend touched last: it stamps nodes and evicts
one with the oldest stamp, in the order of a hash map. `Mirrors` says that the arena
and some tree with `TreeOK` have the same nodes and holders, whatever the order of the
latter's lists, and `RTreeInv` that there always is one. That is enough because
`DropOK`, the lemma that eviction preserves the rest, was proved for any choice of
victims (`VictimsFit`: both languages stop at the same budget). The Rust router scores
the candidates in one pass that also keeps the least loaded of the saturated ones as a fallback. By
induction over that pass the scored list is the filtered list with its estimates
(`ScoredAreFit`) and, when it is empty, the fallback is the earliest least loaded candidate
(`FallbackIs`), which is the first of those the Python filter keeps (`FallbackAgrees`);
the later filters keep the same positions in both (`FiltersAgree`, `TiesAgree`).
Assumed is only what types the inputs: `RustTreeAssumption` (prompts are runs of block
hashes) and `RustRouterAssumption` (views give every backend a match, a load and a
pressure flag; a router is asked with at least one candidate).

**`RateLimiterProofs`** (`LimiterAssumption`).

- `TenantThroughputIsBounded` (`ThroughputBound`);
- `RefusalsAreAlwaysHonest` (`RefusalsAreHonest`, an action property).

`ThroughputBound` is not inductive: it speaks of the clock, while a bucket is
refilled only when it is used. The inductive invariant `BooksBalanced` has the time
of the bucket's last refill in place of the clock, and adds that this time has passed
and that a bucket keeps its capacity and rate. A refill then adds at most the rate
times the time it covers, a consumption moves tokens from one side of the sum to the
other, and a refund is cut at the capacity, which only lowers the sum. For the
refusals `PromisesKept` follows a promised wait: as long as the tenant consumed
nothing, the tokens now plus the refill until the promised time cover the request.

**`EdgeProofs`** (`RustAssumption`; for the limiter `TiersAreSet`: what `LimiterAssumption` says of the shared
constants, as a hypothesis, because `components` uses `RustLimiter` through `INSTANCE`;
`AccessAssumption`: the pairs of a policy are strings, hashing is injective and a
digest is ASCII; `MetricsAssumption`: bounds
ascend, as `LATENCY_BUCKETS` and `BLOCK_BUCKETS` do; `PredictorAssumption`;
`CacheAssumption`: block sizes and the backend's capacity are positive, a tenant id is
not empty, which only a pair with neither key nor name would make it, and no character
of a prompt is a token id: an id is hashed as four bytes of which the last is NUL).

- `RustMirrorsPython` (`MirrorsPython`): `RustLimiter` implements `RateLimiter`, with
  a bucket that was not made yet mapped to a full one;
- `RustQuotasHold`: both results about the Python limiter hold of the Rust one;
- `RustBooksAlwaysBalance` (`RustBooksBalance`), about `RustGateway`;
- `AccessAlwaysSound` (`AccessIsSound`), for every configuration, with keys that are
  ASCII or not: what is claimed of the answers is claimed where the strings compared
  are ASCII, and of the tenant where a key was presented or none is blank in the
  configuration;
- `MetricsInvHolds` and `PagesAlwaysCumulative` (`PagesAreCumulative`);
- `BlocksAlwaysExact` (`HitsArePrefixExact`, `SameBlocksBothSides`,
  `FallbackIsHarmless`), for all prompts, block sizes, cutoffs and capacities;
- `EstimatesStayBetween` (`EstimateIsBetween`) and, with the one before,
  `EstimatesAlwaysSound` (`EstimatesAreSound`).

The invariant `RInv` adds that the buckets of a tenant with a live request exist, so
that `release`, which ignores a missing bucket, never meets one. The comparison is a
theorem about `RustLimiter` itself; `components` states it for its own instance.

For the handler the invariant `RustInv` says, per request and lock scope, what the
request holds, and that a circuit's count and opening time belong together. The
property is exact only for a backend or tenant that lost no handler at the upstream
await, and that is not inductive: `LoadCounted` and `QuotaCounted` say in its place what
the counters are in every state, the requests being served plus the handlers that were
dropped, and give the property (`LoadCountedIsExact`, `QuotaCountedIsExact`).

Who a key belongs to is a fold over the configured pairs; by a least counterexample over
its prefixes it is the last pair that names the key (`NamesLast`). That every call is
counted once is about a sum over whatever labels a counter has: the sum does not depend
on the order it is taken in (`AnyLabelFirst`), so counting one call adds one, to a label
that is there and to a new one (`CountedAddsOne`). `MetricsInv` says that buckets count
the observations up to their bound and that no page is ahead of its series; with
ascending bounds the counts of a page then ascend too. `EstimatesStayBetween` is about one
step, the blend of two numbers by a weight cut to its range (`BlendIsBetween`).

The hash of block `i` is the seed followed by the first `i` blocks (`HashesAre`), so two
hashes are equal only at the same position, under the same seed and after the same
blocks (`ChainsAgree`, `HashesMeet`), and the number of leading hashes two requests
share is a quotient: the length of the longest common prefix of their units over the
block size (`LongestIs`, `AgreementIs`). On the backend's side `CacheInv` says that the
cache lists each block once and within its capacity, that it holds nothing no request
asked for, and everything that was asked for while it is not full; one request's touches
keep that, also when they evict blocks of the request itself (`TouchIs`, `ProcessIs`).
That the longest run of hits is shared with one earlier request, and not pieced together
from several, is where the chaining is needed: the last hit already contains all blocks
before it (`HitsAre`).

**`DecisionProofs`** (`DisaggAssumption`, `AutoscaleAssumption`,
`AdmissionAssumption`, `FleetsAssumption`, `RaceAssumption`, `DagAssumption`,
`SelectionAssumption`, `AffinityAssumption`, `SemanticAssumption`: costs, limits and
loads are natural numbers, fleets finite and not empty, as the handler's guard has it;
a chunk has at least one token and a token some prefill cost, a similarity is a cosine
in percent, and images and clips have a natural size, which the parser of media does
not itself enforce).

- `PlacementsAreSound` (`PlacementIsSound`), with both pools not empty
  (disagreement 19 is the other case);
- `AdmissionIsAlwaysFair` (`AdmissionIsFair`): monotone shedding, protection of gold
  and agreement of the two languages;
- `RacesAreSettled` (`RaceIsSettled`), for any number of candidates and width;
- `DagInvHolds` and `DagPlansAreSound` (`DagPlanIsSound`), for every graph and fleet;
- `SelInvHolds` and `SelectionAlwaysSound` (`SelectionIsSound`, all seven parts, the
  action property included), for every fleet, set of requests and cache size;
- `RecommendationsAreDisciplined`: the first three parts of
  `RecommendationsAreSound`;
- `FleetIsSmallest`, with a positive service rate: no smaller fleet meets the SLO by
  the gateway's own formula. It is weaker than the fourth part, `FewestReplicas`,
  which compares the formula with the closed form.

The first rests on the least element of a set of natural numbers (`LeastNat`, from
the well-foundedness of `<`): minima over pools and candidate plans exist, and
removing the saturated nodes changes which one is least, not that it is. The sum of
the KV usage over a fleet is a fold; `SumExists` shows by a least counterexample that
its recursive equation has a solution on every finite set, and `TotalIsMonotone`
that a busier fleet has the higher sum. For the autoscaler `ScaleInv` ties the stamps
to the recommendations made, and `DecisionIsSound` says of the last decision what a
plan promises. For the race the invariant `RaceInv` adds that nobody is forgotten: a
lane that is not the winner and still holds a connection is in the list that is being
closed, or its cancelled task has not unwound yet.

For the DAG scheduler `DagInv` describes Kahn's algorithm without its counters: a layer
is exactly what is `Due` after the layers before it (not taken, all parents taken), an
in-degree is the number of edges from jobs not taken yet, with a parent that is listed
twice counted twice, and the frontier is what is due next. That layers are depths, and
that jobs left over when the frontier is empty wait for each other, then follow
without a step (`LayerIsDepth`, `LayeringEndsStep`); that a graph with such a set is
never planned is the earliest layer of the set (`PlansAreNotStuck`). Order within a
layer needs a list to exist (`SortedExists`, by counting the members below each
member). `WorkInv` carries the estimate: what a worker was given is covered by the
finished layers and what it is busy with in the current one.

`SelInv` says of each request that it streams from a backend that suits it or got its
own tenant's answer (`AskInv`), and of each chunk index and answer cache that it is
`Recent` for the log of its uses: in the order of the last uses, with nothing missing
that was used after one of its members, and full if anything is missing at all. The
content alone, which `ChunkIndexIsRecent` and `CacheKeepsRecentlyUsed` speak of, is not
inductive: which entry goes next depends on the order, and a list shorter than its
capacity must not have lost anything yet. Moving an entry to the end keeps `Recent`
(`MoveKeeps`), and so does trimming to the capacity (`TrimKeeps`); a recent list within
its capacity is the set the property names (`RecentIsLastUsed`). That shared chunks attract
is about one step: a holder of all chunks under no more load estimates strictly less
than any backend that lacks one (`RagChoiceIs`), which is where the cost of a chunk has
to be positive. The bound on an image is two rescalings in whole pixels
(`RescaledFits`).

Only model-checked:

- liveness (`EveryWaiterServed`, `EveryRequestEnds`, `HealthFollowsReality`,
  `ConvergeUnlessRestarted`, `EverythingEnds`, `ViewsFollowLoad`), which needs
  fairness and `ENABLED`, out of the prover's reach;
- `BenchesAreSound` and `FewestReplicas`: what recursive functions over replays and
  powers compute for every input; and the part `WireIsFaithful` of `EdgeIsSound`, about
  a fixed list of events.

## 5. Disagreements between code and documents

Each of the first five is a run whose property states what the code base says
and whose counterexample is what the code does.

1. `parked_remove`: `registry.url` raises for a backend removed while a request
   was parked; slot, quota and count of that request are never returned.
2. `parked_drain`: a request parked for a slot is sent to a backend drained
   while it waited ("receives NO new requests").
3. `restart_diverges`: a restarted replica reuses versions under its old id, and
   the maps stay apart for ever ("converges within a gossip round").
4. `rust_leak`: a Rust handler dropped while it awaits the upstream (`server.rs` 487)
   returns neither its backend's count nor its tenant's place, because the guard is
   made after the answer ("accounting can't leak even on client disconnect",
   `server.rs` 145-147). Beside it `RustBooksBalance` asks for exact books of every
   backend and tenant that lost no handler there, and never too small ones.
5. `auth_raises`: an API key that is not ASCII makes `hmac.compare_digest` raise, so
   the caller gets a 500 ("otherwise it is rejected with 401", `auth.py` 5-8). A
   configured key that is not ASCII does so to every caller. Beside it
   `CallersAreWhoTheySay` asks for the documented answer of all calls for which the
   strings are ASCII.

The following were seen in the same models and have no run of their own. Those marked
*outside* lie beyond the bounds of the passing runs; the others are reached there, and
no property claims the contrary.

6. Disaggregated routing chooses from the pools parsed at start, so it sends
   requests to drained backends (`server.py` 786; *outside*); modes that narrow to one
   backend before the loop leave nothing to fail over to (`server.py` 717):
   `FailoverExhaustsCandidates` is asked of the others.
7. Removing a backend drops its counter while it streams, so after a re-add it
   looks idle (`server.py` 464), and a probe of its old URL that is still open
   then speaks for the new one (`server.py` 233): `CountersAreSane` bounds counters
   from above only.
8. A drained backend that is removed and added again is not draining, although
   the drain map says so (`coordinator.py` 131; *outside*).
9. Concurrent adds of one backend with different models leave the registries
   different although the maps agree (`membership_state.py` 43; *outside*).
10. The drain snapshot is written without a version and may keep the decision
    that lost (`coordinator.py` 97).
11. A model trained while the gateway runs is never loaded: the file is looked at
    in the constructor and, while there is no model, in `predict`, which the router
    does not call then (`ttft_predictor.py` 130, `router.py` 122), against "picks up
    the new weights without restart" (`scripts/train_ttft_model.py` 8-9).
12. The autoscaler recommends one replica less with a deadband of one
    (`planner.py` 79), against "don't shrink for a <= this drop" (`config.py` 26).
13. `deficit_seconds` promises a finite wait to a request that never fits its
    bucket (`tenancy.py` 79): `RefusalsAreHonest` leaves such requests out.
14. A stream that broke off is stored in the semantic cache (`server.py` 984), against
    "Populate the semantic cache with the full response" two lines above; a request
    narrowed by its pin or its chunks may get a 415 that another backend would not have
    given (`server.py` 808); placement in pools undoes the LoRA filter (`server.py` 786):
    the adapter is asked for only where there are no pools.
15. `top_k_backends` ignores what peers report, against "same guardrails as
    Router.choose" (`speculative.py` 47-48); the admission probe advances the
    round-robin counter (`server.py` 739); the chunk and media indexes are never
    told of a removed backend (`rag/index.py` 49).
16. A tenant specification with a blank key, `=acme`, names the callers whose bearer
    header is blank when authentication is off (`tenancy.py` 111-117), against "missing
    key" being anonymous (`DESIGN.md` 341): the tenant of a blank caller is asked for
    only where no configured key is blank.
17. The gauges of a removed backend stay on the metrics page (`server.py`
    `metrics_endpoint`).
18. `disagg_bench.py` drains completions only from the head of its list (123), although
    those of the shorter phase may be due behind it, against "a split request occupies
    its prefill node for the prefill window" (31-32): `OccupancyIsReturned` asks that
    nothing due is left of the policies whose windows are all equal, not of `split` and
    `adaptive`.
19. Placement with one pool empty (`disagg/router.py` 95-99, "Degrade gracefully";
    *outside*) chooses the two phases separately from the other pool and pays a handoff
    that the comparison with one node never weighs: the plan may be worse than the
    margin allows. TLC finds it as soon as every node has the same single role;
    `PlacementsAreSound` therefore assumes that neither pool is empty.

## 6. Plan

Done: scheduler, request life cycle, registry, breaker, scrape, operator, cluster
state, fleet view and bus with its encodings, quotas, authentication, metrics, tree,
router, sessions, caches, affinity indexes, race, admission, disaggregation, DAG,
autoscaler with its queueing formulas, learned estimate, hashing, the Rust gateway
with its ports, and the benchmarks that drive the modelled policies. Theorems on the
scheduler and its fairness, the request life cycle, the race, the maps, pools and
flags of the cluster, the fleet view, the prefix tree, the router and the session
pins, the quotas in both languages, the Rust gateway, the policies of placement,
admission and autoscaling, the DAG scheduler, callers, metrics, block
hashing and the learned estimate, and the selection by session, adapter,
chunks, media and cached answer.

Next:

1. theorems: with the method of `SumExists`, the parts of `BenchesAreSound` that are sums;
2. larger instances of `routing` (a third backend, two changes), and disagreements 16
   and 18 as runs of their own;
3. the Rust gateway with its limiter and tree composed, instead of side by side.

### Not modelled

The regression behind the learned estimate and its log of observations, the
tokenizer and the hash function themselves (tokens are a table; a hash is its chain,
without collisions), the text of HTTP and JSON, logging and tracing (nothing reads
them back), configuration (the constants), the mock backend's timing and fault
injection, the remaining sweeps, tables and charts of the benchmarks,
demonstrations and deployment files.
