-------------------------------- MODULE Dag --------------------------------
(***************************************************************************)
(* The DAG scheduler (gateway/dag/graph.py, scheduler.py and the endpoint  *)
(* of server.py): validation, Kahn's layering with the in-degrees it       *)
(* counts down, then one placement after the other.  Jobs and workers are  *)
(* numbered in the order the code sorts or lists them.  How many blocks of *)
(* a prompt a worker has cached is a free choice (RadixTree has the tree). *)
(***************************************************************************)
EXTENDS Lists

CONSTANTS Jobs, ParentLists,        \* jobs; the parent lists a job may have
          Workers, WorkerLimit,     \* backends; cfg.max_inflight
          WorkerLoads,              \* in-flight counts of other traffic
          JobBlocks,                \* blocks of every prompt
          JobBlockMs, QueueMs, ParentBonus,
          Strategies

ASSUME DagAssumption ==
  /\ Jobs \subseteq Nat /\ IsFiniteSet(Jobs) /\ ParentLists \subseteq Seq(Nat)
  /\ Workers \subseteq Nat /\ IsFiniteSet(Workers) /\ Workers # {}
  /\ WorkerLimit \in Nat /\ WorkerLoads \subseteq Nat
  /\ JobBlocks \in Nat /\ JobBlockMs \in Nat /\ QueueMs \in Nat /\ ParentBonus \in Nat
  /\ Strategies \subseteq {"locality", "round_robin"}

VARIABLES
  plan,       \* phase, strategy and the work left
  parents,    \* job -> its list of parents
  indeg, frontier, layers,      \* _kahn
  carried,    \* worker -> in-flight of other traffic
  busy,       \* worker -> milliseconds in the current layer
  chosen,     \* job -> worker, for the jobs placed so far
  makespan,
  workOn      \* history: worker -> milliseconds of DAG work in all layers

dagVars == <<plan, parents, indeg, frontier, layers, carried, busy, chosen, makespan, workOn>>

NoPlan == [phase |-> "idle", strategy |-> "", layer |-> 0, todo |-> <<>>, rr |-> 0]
Zero == [w \in Workers |-> 0]

DagInit ==
  /\ plan = NoPlan
  /\ parents = [j \in Jobs |-> <<>>] /\ indeg = [j \in Jobs |-> 0]
  /\ frontier = {} /\ layers = <<>>
  /\ carried = Zero /\ busy = Zero /\ workOn = Zero
  /\ chosen = <<>> /\ makespan = 0

\* How many edges lead from S to j: a parent that is listed twice counts twice.
Edges(S, j) == Cardinality({i \in DOMAIN parents[j] : parents[j][i] \in S})

\* The endpoint: an unknown parent is an error, the rest starts the layering.
Submit(graph, strategy, loads) ==
  /\ plan.phase = "idle"
  /\ parents' = graph
  /\ carried' = loads
  /\ plan' = [plan EXCEPT !.strategy = strategy,
                !.phase = IF \E j \in Jobs : ~(ToSet(graph[j]) \subseteq Jobs)
                          THEN "error" ELSE "layering"]
  /\ indeg' = [j \in Jobs |-> Len(graph[j])]
  /\ frontier' = {j \in Jobs : graph[j] = <<>>}
  /\ UNCHANGED <<layers, busy, chosen, makespan, workOn>>

\* Mutant: a job is released by the first of its parents.
ReleasedEarly(left) == {j \in Jobs : left[j] < indeg[j]}

\* The jobs whose last in-edge was just removed.
Released(left) == {j \in Jobs : left[j] = 0 /\ indeg[j] > 0}

\* One layer of _kahn: every edge out of the frontier is counted down.
TakeLayer ==
  LET left == [j \in Jobs |-> indeg[j] - Edges(frontier, j)]
  IN  /\ plan.phase = "layering" /\ frontier # {}
      /\ layers' = Append(layers, Sorted(frontier))
      /\ indeg' = left
      /\ frontier' = Released(left)
      /\ UNCHANGED <<plan, parents, carried, busy, chosen, makespan, workOn>>

Seen == UNION {ToSet(layers[i]) : i \in DOMAIN layers}

Complete == Seen = Jobs

\* The frontier is empty: all jobs were seen, or a cycle is left.
LayeringEnds ==
  /\ plan.phase = "layering" /\ frontier = {}
  /\ plan' = [plan EXCEPT !.phase = IF Complete THEN "placing" ELSE "error"]
  /\ UNCHANGED <<parents, indeg, frontier, layers, carried, busy, chosen, makespan, workOn>>

\* A layer begins with the queue of the other traffic only.
BeginLayer ==
  /\ plan.phase = "placing" /\ plan.todo = <<>> /\ plan.layer < Len(layers)
  /\ plan' = [plan EXCEPT !.layer = @ + 1, !.todo = layers[plan.layer + 1], !.phase = "layer"]
  /\ busy' = [w \in Workers |-> carried[w] * QueueMs]
  /\ UNCHANGED <<parents, indeg, frontier, layers, carried, chosen, makespan, workOn>>

EligibleWorkers ==
  LET fit == {w \in Workers : carried[w] <= WorkerLimit} IN IF fit = {} THEN Workers ELSE fit

Work(cached) == JobBlockMs * Max({0, JobBlocks - cached})

\* Cached blocks are credited, and a worker that ran a parent; the first minimum wins.
BestWorker(j, cached) ==
  LET family == {chosen[p] : p \in ToSet(parents[j]) \cap DOMAIN chosen}
      finish(w) == busy[w] + Work(cached[w]) - (IF w \in family THEN ParentBonus ELSE 0)
  IN  CHOOSE w \in EligibleWorkers : \A v \in EligibleWorkers :
        finish(w) < finish(v) \/ (finish(w) = finish(v) /\ w <= v)

PlaceJob(cached) ==
  LET j == plan.todo[1]
      turn == Sorted(EligibleWorkers)
      w == IF plan.strategy = "round_robin" THEN turn[(plan.rr % Len(turn)) + 1]
           ELSE BestWorker(j, cached)
  IN  /\ plan.phase = "layer" /\ plan.todo # <<>>
      /\ plan' = [plan EXCEPT !.todo = Tail(@),
                    !.rr = IF plan.strategy = "round_robin" THEN @ + 1 ELSE @]
      /\ chosen' = [i \in DOMAIN chosen \cup {j} |-> IF i = j THEN w ELSE chosen[i]]
      /\ busy' = [busy EXCEPT ![w] = @ + Work(cached[w])]
      /\ workOn' = [workOn EXCEPT ![w] = @ + Work(cached[w])]
      /\ UNCHANGED <<parents, indeg, frontier, layers, carried, makespan>>

LayerTime == Max({busy[w] : w \in Workers})

\* The barrier at the end of a layer, and the end of the schedule.
EndLayer ==
  /\ plan.phase = "layer" /\ plan.todo = <<>>
  /\ makespan' = makespan + LayerTime
  /\ plan' = [plan EXCEPT !.phase = IF plan.layer = Len(layers) THEN "scheduled" ELSE "placing"]
  /\ UNCHANGED <<parents, indeg, frontier, layers, carried, busy, chosen, workOn>>

DagNext ==
  \/ \E graph \in [Jobs -> ParentLists], s \in Strategies, loads \in [Workers -> WorkerLoads] :
       Submit(graph, s, loads)
  \/ TakeLayer \/ LayeringEnds \/ BeginLayer \/ EndLayer
  \/ \E cached \in [Workers -> 0 .. JobBlocks] : PlaceJob(cached)

DagSpec == DagInit /\ [][DagNext]_dagVars

---------------------------------------------------------------------------
LayerOf(j) == CHOOSE i \in DOMAIN layers : j \in ToSet(layers[i])

\* graph.py:45 "Raise DagError if any parent is missing or the graph has a cycle", with
\* lists that repeat a parent: refused is exactly what has an unknown parent or a set of
\* jobs each of which waits for another of them.
RefusedIffUnschedulable ==
  LET stuck == \E S \in (SUBSET Jobs) \ {{}} :
                 \A j \in S : \E p \in S : p \in ToSet(parents[j])
      unknown == \E j \in Jobs : ~(ToSet(parents[j]) \subseteq Jobs)
  IN  /\ plan.phase = "error" => stuck \/ unknown
      /\ plan.phase \in {"placing", "layer", "scheduled"} => ~stuck /\ ~unknown

\* graph.py:61 "Topological layers": every job is in one layer, the one after the last
\* of its parents, so a layer is never longer delayed than its ancestors need.
LayersAreDepths ==
  plan.phase \in {"placing", "layer", "scheduled"} =>
    /\ \A j \in Jobs : Cardinality({i \in DOMAIN layers : j \in ToSet(layers[i])}) = 1
    /\ \A j \in Jobs :
         LayerOf(j) = 1 + Max({0} \cup {LayerOf(p) : p \in ToSet(parents[j])})

\* scheduler.py:84 "Plan an assignment of every DAG node to a backend": no job is placed
\* before its parents, every job is placed, never on a saturated worker if there is
\* another.
EveryJobPlaced ==
  /\ \A j \in DOMAIN chosen : ToSet(parents[j]) \subseteq DOMAIN chosen
  /\ \A j \in DOMAIN chosen : carried[chosen[j]] > WorkerLimit =>
       \A w \in Workers : carried[w] > WorkerLimit
  /\ plan.phase = "scheduled" => DOMAIN chosen = Jobs

\* scheduler.py:150: the estimate is no less than the work of any worker over all layers.
MakespanCoversWork ==
  plan.phase = "scheduled" => \A w \in Workers : workOn[w] <= makespan

\* dag/graph.py and scheduler.py: exactly the schedulable graphs are planned, in layers by
\* depth, every job once and after its parents, and the estimate covers the work.
DagPlanIsSound ==
  RefusedIffUnschedulable /\ LayersAreDepths /\ EveryJobPlaced /\ MakespanCoversWork
=============================================================================
