--------------------------- MODULE FairScheduler ---------------------------
(***************************************************************************)
(* gateway/fairsched.py: AsyncFairScheduler, a counting limit on the       *)
(* requests that are dispatched at a time whose waiters are woken in       *)
(* weighted-fair order.                                                    *)
(*                                                                         *)
(* A request calls acquire once; it is a coroutine on the asyncio loop, so *)
(* every span between two awaits is one step here.  The only await is on   *)
(* the request's future.  Setting a result on that future and resuming the *)
(* coroutine are two different steps, and so are cancelling the task and   *)
(* the delivery of CancelledError: other requests run between them.        *)
(***************************************************************************)
EXTENDS Integers, FiniteSets

CONSTANTS Reqs,            \* requests; a request's future is the heap's item
          Classes,         \* tenant classes
          Class,           \* [Reqs -> Classes]
          Weights,         \* configured weights: a function from some classes
          DefaultWeight,   \* weight of the classes that have none
          Cost,            \* work units per request, times a common multiple
                           \* of the weights so that Cost / weight is exact
          MaxConcurrency   \* dispatch slots

ASSUME ReqsAssumption == IsFiniteSet(Reqs)
ASSUME ClassAssumption == Class \in [Reqs -> Classes]
ASSUME SlotsAssumption == MaxConcurrency \in Nat \ {0}
ASSUME WeightAssumption ==
  /\ \A c \in DOMAIN Weights \cap Classes : Weights[c] \in Nat \ {0}
  /\ DefaultWeight \in Nat \ {0}
  /\ Cost \in Nat

VARIABLES active, task, fut, heap, lastFinish, vt, seq

WFQ == INSTANCE WeightedFairQueue WITH Items <- Reqs

queueVars == <<heap, lastFinish, vt, seq>>
vars == <<active, task, fut, queueVars>>

\* Where a request's coroutine is: not yet in acquire, suspended at its
\* future, about to have CancelledError raised there, past acquire, or gone.
TaskState == {"new", "await", "thrown", "holding", "left"}
FutState == {"none", "pending", "result", "cancelled"}

weight_for(c) == IF c \in DOMAIN Weights THEN Weights[c] ELSE DefaultWeight

\* Virtual time one request of class c takes up.
ServiceTime(c) == Cost \div weight_for(c)

TypeOK ==
  /\ active \in Nat
  /\ task \in [Reqs -> TaskState]
  /\ fut \in [Reqs -> FutState]
  /\ WFQ!WfqTypeOK

Init ==
  /\ active = 0
  /\ task = [r \in Reqs |-> "new"]
  /\ fut = [r \in Reqs |-> "none"]
  /\ WFQ!WfqInit

-----------------------------------------------------------------------------
(* acquire                                                                 *)

AcquireFree(r) ==
  /\ task[r] = "new"
  /\ active < MaxConcurrency
  /\ active' = active + 1
  /\ task' = [task EXCEPT ![r] = "holding"]
  /\ UNCHANGED <<fut, queueVars>>

AcquirePark(r) ==
  /\ task[r] = "new"
  /\ active >= MaxConcurrency
  /\ task' = [task EXCEPT ![r] = "await"]
  /\ fut' = [fut EXCEPT ![r] = "pending"]
  /\ WFQ!Enqueue(r, Class[r], ServiceTime(Class[r]))
  /\ UNCHANGED active

\* The loop resumes a waiter whose future has its result.
Resume(r) ==
  /\ task[r] = "await"
  /\ fut[r] = "result"
  /\ task' = [task EXCEPT ![r] = "holding"]
  /\ UNCHANGED <<active, fut, queueVars>>

-----------------------------------------------------------------------------
(* Giving a slot back                                                      *)

Live(e) == fut[e.item] # "cancelled"

\* The first live entry of the heap.
FirstLive(e) == Live(e) /\ \A d \in heap : d # e /\ Live(d) => WFQ!Before(e, d)

\* Mutant of GrantNext: the counter goes down although the slot is handed over.
GrantUncounted ==
  \E e \in heap :
    /\ FirstLive(e)
    /\ WFQ!DequeueThrough(e)
    /\ fut' = [fut EXCEPT ![e.item] = "result"]
    /\ active' = active - 1

\* Mutant of GrantNext: the entry is read but not popped.
GrantPeeked ==
  \E e \in heap :
    /\ FirstLive(e)
    /\ fut' = [fut EXCEPT ![e.item] = "result"]
    /\ UNCHANGED <<active, queueVars>>

\* _grant_next: pop entries, skip the cancelled ones, hand the slot to the
\* first live one.
GrantNext ==
  \E e \in heap :
    /\ FirstLive(e)
    /\ WFQ!DequeueThrough(e)
    /\ fut' = [fut EXCEPT ![e.item] = "result"]
    /\ UNCHANGED active

\* _grant_next finds nobody alive: it has emptied the heap, and the slot is free.
FreeSlot ==
  /\ \A e \in heap : ~Live(e)
  /\ \/ heap = {} /\ UNCHANGED queueVars
     \/ \E e \in heap :
          /\ \A d \in heap : d # e => WFQ!Before(d, e)
          /\ WFQ!DequeueThrough(e)
  /\ active' = IF active > 0 THEN active - 1 ELSE 0
  /\ UNCHANGED fut

\* Mutant of ReleaseOne: one entry is popped; when it was cancelled the slot is
\* freed without looking further.
ReleaseNoSkip ==
  \/ FreeSlot
  \/ \E e \in heap :
       /\ \A d \in heap : d # e => WFQ!Before(e, d)
       /\ WFQ!DequeueThrough(e)
       /\ IF Live(e) THEN fut' = [fut EXCEPT ![e.item] = "result"] /\ UNCHANGED active
                     ELSE active' = active - 1 /\ UNCHANGED fut

ReleaseOne == GrantNext \/ FreeSlot

Release(r) ==
  /\ task[r] = "holding"
  /\ task' = [task EXCEPT ![r] = "left"]
  /\ ReleaseOne

-----------------------------------------------------------------------------
(* Cancellation of a suspended acquire (the client disconnected)           *)

\* task.cancel(): a pending future is cancelled at once, a future that has
\* its result keeps it; CancelledError is raised when the task runs next.
Cancel(r) ==
  /\ task[r] = "await"
  /\ task' = [task EXCEPT ![r] = "thrown"]
  /\ fut' = [fut EXCEPT ![r] = IF @ = "pending" THEN "cancelled" ELSE @]
  /\ UNCHANGED <<active, queueVars>>

\* Mutant of Throw: a slot granted before the cancellation is kept.
ThrowKeeps(r) ==
  /\ task[r] = "thrown"
  /\ task' = [task EXCEPT ![r] = "left"]
  /\ UNCHANGED <<active, fut, queueVars>>

\* Mutant of Throw: a slot is given back whether or not one was granted.
ThrowReleases(r) ==
  /\ task[r] = "thrown"
  /\ task' = [task EXCEPT ![r] = "left"]
  /\ ReleaseOne

\* The except clause of acquire: a slot granted meanwhile is handed on.
Throw(r) ==
  /\ task[r] = "thrown"
  /\ task' = [task EXCEPT ![r] = "left"]
  /\ \/ fut[r] = "result" /\ ReleaseOne
     \/ fut[r] # "result" /\ UNCHANGED <<active, fut, queueVars>>

Next ==
  \E r \in Reqs :
    AcquireFree(r) \/ AcquirePark(r) \/ Resume(r) \/ Release(r) \/ Cancel(r) \/ Throw(r)

Spec == Init /\ [][Next]_vars

\* The loop runs what is ready (Resume, Throw), and a request past acquire
\* ends: its upstream call is bounded by the client's timeouts.
Fairness ==
  \A r \in Reqs : WF_vars(Resume(r)) /\ WF_vars(Throw(r)) /\ WF_vars(Release(r))

FairSpec == Spec /\ Fairness

-----------------------------------------------------------------------------
(* Properties                                                              *)

\* The requests a slot belongs to: those past acquire and those whose future
\* has its result but who have not run since, cancelled or not.
SlotHolders ==
  {r \in Reqs : task[r] = "holding"
                \/ (task[r] \in {"await", "thrown"} /\ fut[r] = "result")}

Waiting == {r \in Reqs : fut[r] = "pending"}

\* fairsched.py:32 "a parked or just-granted waiter never leaks a slot": the
\* counter is the number of slots in somebody's hands, through every grant,
\* skip and cancellation.
SlotAccounting == active = Cardinality(SlotHolders)

\* fairsched.py:85 "live waiters exist only while _active == max_concurrency":
\* nobody is left parked beside a free slot, and the limit is never exceeded.
NoIdleSlotWhileWaiting ==
  /\ active <= MaxConcurrency
  /\ Waiting # {} => active = MaxConcurrency

\* fairqueue.py:44 and :46: a live waiter is in the heap exactly once, and
\* whoever is granted has left it: no lost and no double wakeup.
WaitersQueuedOnce ==
  /\ \A r \in Waiting : \E e \in heap : e.item = r
  /\ \A d, e \in heap : d.item = e.item => d = e
  /\ \A e \in heap : fut[e.item] \in {"pending", "cancelled"}

\* fairsched.py:86 "a parked request is always eventually woken": every parked
\* request gets its slot or goes.
EveryWaiterServed == \A r \in Reqs : task[r] = "await" ~> task[r] \in {"holding", "left"}

\* The scheduler as the abstract pool sees it.
Pool == INSTANCE SlotPool WITH
  Clients <- Reqs, Slots <- MaxConcurrency, holders <- SlotHolders, waiters <- Waiting

\* fairsched.py:82-120 implements the slot pool: every grant, skip of a
\* cancelled waiter and cancellation after the grant is one pool operation or
\* none.
ImplementsSlotPool == Pool!Spec
=============================================================================
