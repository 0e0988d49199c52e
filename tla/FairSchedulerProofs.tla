------------------------ MODULE FairSchedulerProofs ------------------------
(***************************************************************************)
(* Proofs about gateway/fairsched.py for any number of requests, classes,  *)
(* weights and slots.                                                      *)
(***************************************************************************)
EXTENDS FairShare, FiniteSetTheorems, TLAPS

\* Which states of a future go with which place in the coroutine.
FutureMatchesTask ==
  \A r \in Reqs :
    /\ task[r] = "new" => fut[r] = "none"
    /\ task[r] = "await" => fut[r] \in {"pending", "result"}
    /\ task[r] = "thrown" => fut[r] \in {"result", "cancelled"}
    /\ task[r] \in {"holding", "left"} => fut[r] # "pending"

\* The part of the inductive invariant that does not count.
Shape == TypeOK /\ FutureMatchesTask /\ WaitersQueuedOnce

\* The inductive invariant.
IInv == Shape /\ SlotAccounting /\ NoIdleSlotWhileWaiting

\* A request that has a slot gives it back and goes: Release, and the except
\* clause of acquire.
GivesSlot(r) ==
  /\ r \in SlotHolders
  /\ task' = [task EXCEPT ![r] = "left"]
  /\ ReleaseOne

-----------------------------------------------------------------------------
(* The weight of a class gives a natural amount of virtual time.           *)
LEMMA ServiceTimeNat == ASSUME NEW c \in Classes PROVE ServiceTime(c) \in Nat
<1>1. weight_for(c) \in Nat \ {0}
  BY WeightAssumption DEF weight_for
<1>2. QED
  BY <1>1, WeightAssumption DEF ServiceTime

(* Requests with a slot are finitely many, so the counter can count them.  *)
LEMMA HoldersFinite == IsFiniteSet(SlotHolders) /\ Cardinality(SlotHolders) \in Nat
<1>1. SlotHolders \subseteq Reqs
  BY DEF SlotHolders
<1>2. QED
  BY <1>1, ReqsAssumption, FS_Subset, FS_CardinalityType

-----------------------------------------------------------------------------
(* What each kind of step does to the set of slot holders and of waiters.  *)

LEMMA GiveSteps ==
  ASSUME Shape, NEW r \in Reqs, GivesSlot(r)
  PROVE  \/ \E w \in Waiting :
              /\ w # r
              /\ w \notin SlotHolders
              /\ SlotHolders' = (SlotHolders \ {r}) \cup {w}
              /\ Waiting' = Waiting \ {w}
              /\ active' = active
         \/ /\ Waiting = {}
            /\ SlotHolders' = SlotHolders \ {r}
            /\ Waiting' = {}
            /\ active' = IF active > 0 THEN active - 1 ELSE 0
<1>1. r \in SlotHolders /\ r \notin Waiting /\ task' = [task EXCEPT ![r] = "left"]
  BY DEF GivesSlot, SlotHolders, Waiting, Shape, FutureMatchesTask
<1>2. CASE GrantNext
  <2>1. PICK e \in heap : Live(e) /\ fut' = [fut EXCEPT ![e.item] = "result"] /\ active' = active
    BY <1>2 DEF GrantNext, FirstLive
  <2>2. e.item \in Reqs /\ fut[e.item] = "pending"
    BY <2>1 DEF Shape, WaitersQueuedOnce, Live, TypeOK, WFQ!WfqTypeOK, WFQ!Entry
  <2>3. task[e.item] = "await" /\ e.item \in Waiting /\ e.item \notin SlotHolders /\ e.item # r
    BY <2>2, <1>1 DEF Shape, FutureMatchesTask, TypeOK, TaskState, Waiting, SlotHolders
  <2>4. SlotHolders' = (SlotHolders \ {r}) \cup {e.item}
    BY <1>1, <2>1, <2>2, <2>3 DEF SlotHolders, Shape, TypeOK
  <2>5. Waiting' = Waiting \ {e.item}
    BY <2>1, <2>2 DEF Waiting, Shape, TypeOK
  <2>6. QED
    BY <2>1, <2>3, <2>4, <2>5
<1>3. CASE FreeSlot
  <2>1. fut' = fut /\ active' = IF active > 0 THEN active - 1 ELSE 0
    BY <1>3 DEF FreeSlot
  <2>2. Waiting = {} /\ Waiting' = {}
    BY <1>3, <2>1 DEF FreeSlot, Live, Shape, WaitersQueuedOnce, Waiting
  <2>3. SlotHolders' = SlotHolders \ {r}
    BY <1>1, <2>1 DEF SlotHolders, Shape, TypeOK
  <2>4. QED
    BY <2>1, <2>2, <2>3
<1>4. QED
  BY <1>2, <1>3 DEF GivesSlot, ReleaseOne

(* A giving step keeps the shape: types, futures, and the heap's entries.  *)
LEMMA GiveShape ==
  ASSUME Shape, NEW r \in Reqs, GivesSlot(r)
  PROVE  Shape'
<1>1. /\ task' = [task EXCEPT ![r] = "left"]
      /\ fut[r] # "pending"
  BY DEF GivesSlot, SlotHolders, Shape, FutureMatchesTask
<1>2. ASSUME NEW e \in heap, WFQ!DequeueThrough(e)
      PROVE  WFQ!WfqTypeOK' /\ heap' = {d \in heap : WFQ!Before(e, d)}
  BY <1>2 DEF WFQ!DequeueThrough, WFQ!WfqTypeOK, WFQ!Entry, WFQ!Larger, Shape, TypeOK
<1>3. CASE GrantNext
  <2>1. PICK e \in heap :
          /\ Live(e)
          /\ \A d \in heap : d # e /\ Live(d) => WFQ!Before(e, d)
          /\ WFQ!DequeueThrough(e)
          /\ fut' = [fut EXCEPT ![e.item] = "result"]
          /\ UNCHANGED active
    BY <1>3 DEF GrantNext, FirstLive
  <2>2. e \in WFQ!Entry /\ fut[e.item] = "pending"
    BY <2>1 DEF Shape, WaitersQueuedOnce, Live, TypeOK, WFQ!WfqTypeOK
  <2>3. e.item \in Reqs /\ e.finish \in Nat /\ e.seq \in Nat
    BY <2>2 DEF WFQ!Entry
  <2>4. task[e.item] = "await"
    BY <2>2, <2>3 DEF Shape, FutureMatchesTask, TypeOK, TaskState
  <2>5. TypeOK'
    BY <1>1, <1>2, <2>1, <2>3 DEF Shape, TypeOK, TaskState, FutState
  <2>6. FutureMatchesTask'
    BY <1>1, <2>1, <2>3, <2>4 DEF Shape, FutureMatchesTask, TypeOK
  <2>7. heap' = {d \in heap : WFQ!Before(e, d)} /\ heap' \subseteq heap
    BY <1>2, <2>1
  <2>8. e \notin heap'
    BY <2>7, <2>3 DEF WFQ!Before
  <2>9. \A d \in heap' : d.item # e.item
    BY <2>7, <2>8 DEF Shape, WaitersQueuedOnce
  <2>10. \A q \in Waiting' : \E d \in heap' : d.item = q
    <3>1. TAKE q \in Waiting'
    <3>2. q \in Reqs /\ q # e.item /\ fut[q] = "pending"
      BY <2>1, <2>3 DEF Waiting, Shape, TypeOK
    <3>3. PICK d \in heap : d.item = q
      BY <3>2 DEF Shape, WaitersQueuedOnce, Waiting
    <3>4. d # e /\ Live(d)
      BY <3>2, <3>3 DEF Live
    <3>5. QED
      BY <2>1, <2>7, <3>3, <3>4
  <2>11. \A d \in heap' : fut'[d.item] \in {"pending", "cancelled"}
    <3>1. TAKE d \in heap'
    <3>2. d.item \in Reqs /\ d.item # e.item /\ fut[d.item] \in {"pending", "cancelled"}
      BY <2>7, <2>9 DEF Shape, WaitersQueuedOnce, TypeOK, WFQ!WfqTypeOK, WFQ!Entry
    <3>3. QED
      BY <2>1, <3>2 DEF Shape, TypeOK
  <2>12. \A c, d \in heap' : c.item = d.item => c = d
    BY <2>7 DEF Shape, WaitersQueuedOnce
  <2>13. QED
    BY <2>5, <2>6, <2>10, <2>11, <2>12 DEF Shape, WaitersQueuedOnce
<1>4. CASE FreeSlot
  <2>1. fut' = fut /\ active' = IF active > 0 THEN active - 1 ELSE 0
    BY <1>4 DEF FreeSlot
  <2>2. WFQ!WfqTypeOK' /\ heap' \subseteq heap
    BY <1>2, <1>4 DEF FreeSlot, queueVars, Shape, TypeOK, WFQ!WfqTypeOK
  <2>3. TypeOK'
    BY <1>1, <2>1, <2>2 DEF Shape, TypeOK, TaskState
  <2>4. FutureMatchesTask'
    BY <1>1, <2>1 DEF Shape, FutureMatchesTask, TypeOK
  <2>5. Waiting' = {}
    BY <1>4, <2>1 DEF FreeSlot, Live, Shape, WaitersQueuedOnce, Waiting
  <2>6. WaitersQueuedOnce'
    BY <2>1, <2>2, <2>5 DEF Shape, WaitersQueuedOnce
  <2>7. QED
    BY <2>3, <2>4, <2>6 DEF Shape
<1>5. QED
  BY <1>3, <1>4 DEF GivesSlot, ReleaseOne

(* The other steps keep the shape.                                         *)
LEMMA OtherShape ==
  ASSUME Shape, NEW r \in Reqs,
         AcquireFree(r) \/ AcquirePark(r) \/ Resume(r) \/ Cancel(r)
  PROVE  Shape'
<1>1. CASE AcquireFree(r)
  BY <1>1 DEF AcquireFree, queueVars, Shape, TypeOK, WFQ!WfqTypeOK, TaskState,
              FutureMatchesTask, WaitersQueuedOnce, Waiting
<1>2. CASE AcquirePark(r)
  <2>1. /\ task' = [task EXCEPT ![r] = "await"]
        /\ fut' = [fut EXCEPT ![r] = "pending"]
        /\ active' = active
        /\ fut[r] = "none"
    BY <1>2 DEF AcquirePark, Shape, FutureMatchesTask
  <2>2. Class[r] \in Classes /\ ServiceTime(Class[r]) \in Nat
    BY ClassAssumption, ServiceTimeNat
  <2>3. PICK e \in WFQ!Entry :
          /\ e.item = r
          /\ heap' = heap \cup {e}
          /\ WFQ!WfqTypeOK'
    <3> DEFINE e == [finish |-> WFQ!FinishTag(Class[r], ServiceTime(Class[r])),
                     seq |-> seq, item |-> r]
    <3>1. WFQ!WfqTypeOK /\ WFQ!Enqueue(r, Class[r], ServiceTime(Class[r]))
      BY <1>2 DEF AcquirePark, Shape, TypeOK
    <3>2. WFQ!FinishTag(Class[r], ServiceTime(Class[r])) \in Nat
      BY <2>2, <3>1 DEF WFQ!FinishTag, WFQ!Larger, WFQ!WfqTypeOK
    <3>3. e \in WFQ!Entry /\ e.item = r
      BY <3>1, <3>2 DEF WFQ!Entry, WFQ!WfqTypeOK
    <3>4. heap' = heap \cup {e}
      BY <3>1 DEF WFQ!Enqueue
    <3>5. WFQ!WfqTypeOK'
      BY <2>2, <3>1, <3>2, <3>3, <3>4 DEF WFQ!Enqueue, WFQ!WfqTypeOK
    <3>6. QED
      BY <3>3, <3>4, <3>5
  <2>4. TypeOK' /\ FutureMatchesTask'
    BY <2>1, <2>3 DEF Shape, TypeOK, TaskState, FutState, FutureMatchesTask
  <2>5. \A d \in heap : d.item \in Reqs /\ d.item # r
    BY <2>1 DEF Shape, WaitersQueuedOnce, TypeOK, WFQ!WfqTypeOK, WFQ!Entry
  <2>6. WaitersQueuedOnce'
    BY <2>1, <2>3, <2>5 DEF Shape, WaitersQueuedOnce, Waiting, TypeOK
  <2>7. QED
    BY <2>4, <2>6 DEF Shape
<1>3. CASE Resume(r)
  BY <1>3 DEF Resume, queueVars, Shape, TypeOK, WFQ!WfqTypeOK, TaskState,
              FutureMatchesTask, WaitersQueuedOnce, Waiting
<1>4. CASE Cancel(r)
  <2>1. TypeOK' /\ FutureMatchesTask'
    BY <1>4 DEF Cancel, queueVars, Shape, TypeOK, WFQ!WfqTypeOK, TaskState, FutState, FutureMatchesTask
  <2>2. heap' = heap /\ \A e \in heap : e.item \in Reqs
    BY <1>4 DEF Cancel, queueVars, Shape, TypeOK, WFQ!WfqTypeOK, WFQ!Entry
  <2>3. WaitersQueuedOnce'
    BY <1>4, <2>2 DEF Cancel, Shape, TypeOK, WaitersQueuedOnce, Waiting
  <2>4. QED
    BY <2>1, <2>3 DEF Shape
<1>5. QED
  BY <1>1, <1>2, <1>3, <1>4

-----------------------------------------------------------------------------
(* Every step of the scheduler gives a slot back, or changes holders and   *)
(* waiters in one of the ways below.                                       *)
LEMMA StepKinds ==
  ASSUME Shape, NEW r \in Reqs,
         \/ AcquireFree(r) \/ AcquirePark(r) \/ Resume(r)
         \/ Release(r) \/ Cancel(r) \/ Throw(r)
  PROVE  \/ GivesSlot(r)
         \/ /\ Shape'
            /\ \/ /\ r \notin SlotHolders \cup Waiting
                  /\ active < MaxConcurrency
                  /\ active' = active + 1
                  /\ SlotHolders' = SlotHolders \cup {r}
                  /\ Waiting' = Waiting
               \/ /\ r \notin SlotHolders \cup Waiting
                  /\ active >= MaxConcurrency
                  /\ active' = active
                  /\ SlotHolders' = SlotHolders
                  /\ Waiting' = Waiting \cup {r}
               \/ /\ active' = active
                  /\ SlotHolders' = SlotHolders
                  /\ Waiting' = Waiting \ {r}
<1>1. CASE AcquireFree(r)
  <2>1. Shape'
    BY <1>1, OtherShape
  <2>2. r \notin SlotHolders \cup Waiting
    BY <1>1 DEF AcquireFree, Shape, FutureMatchesTask, SlotHolders, Waiting
  <2>3. SlotHolders' = SlotHolders \cup {r} /\ Waiting' = Waiting
    BY <1>1 DEF AcquireFree, SlotHolders, Waiting, Shape, TypeOK
  <2>4. QED
    BY <1>1, <2>1, <2>2, <2>3 DEF AcquireFree
<1>2. CASE AcquirePark(r)
  <2>1. Shape'
    BY <1>2, OtherShape
  <2>2. r \notin SlotHolders \cup Waiting
    BY <1>2 DEF AcquirePark, Shape, FutureMatchesTask, SlotHolders, Waiting
  <2>3. SlotHolders' = SlotHolders
    BY <1>2 DEF AcquirePark, SlotHolders, Shape, TypeOK
  <2>4. Waiting' = Waiting \cup {r}
    BY <1>2 DEF AcquirePark, Waiting, Shape, TypeOK
  <2>5. QED
    BY <1>2, <2>1, <2>2, <2>3, <2>4 DEF AcquirePark
<1>3. CASE Resume(r)
  <2>1. Shape'
    BY <1>3, OtherShape
  <2>2. SlotHolders' = SlotHolders
    BY <1>3 DEF Resume, SlotHolders, Shape, TypeOK
  <2>3. Waiting' = Waiting \ {r} /\ active' = active
    BY <1>3 DEF Resume, Waiting
  <2>4. QED
    BY <2>1, <2>2, <2>3
<1>4. CASE Release(r)
  BY <1>4 DEF Release, GivesSlot, SlotHolders
<1>5. CASE Cancel(r)
  <2>1. Shape'
    BY <1>5, OtherShape
  <2>2. SlotHolders' = SlotHolders
    BY <1>5 DEF Cancel, SlotHolders, Shape, TypeOK
  <2>3. Waiting' = Waiting \ {r} /\ active' = active
    BY <1>5 DEF Cancel, Waiting, Shape, TypeOK
  <2>4. QED
    BY <2>1, <2>2, <2>3
<1>6. CASE Throw(r) /\ fut[r] = "result"
  BY <1>6 DEF Throw, GivesSlot, SlotHolders
<1>7. CASE Throw(r) /\ fut[r] # "result"
  <2>1. /\ task[r] = "thrown"
        /\ task' = [task EXCEPT ![r] = "left"]
        /\ UNCHANGED <<active, fut, queueVars>>
    BY <1>7 DEF Throw
  <2>2. fut[r] = "cancelled"
    BY <1>7, <2>1 DEF Shape, FutureMatchesTask
  <2>3. Shape'
    BY <2>1, <2>2 DEF queueVars, Shape, TypeOK, WFQ!WfqTypeOK, TaskState,
                      FutureMatchesTask, WaitersQueuedOnce, Waiting
  <2>4. SlotHolders' = SlotHolders
    BY <2>1, <2>2 DEF SlotHolders, Shape, TypeOK
  <2>5. Waiting' = Waiting \ {r} /\ active' = active
    BY <2>1, <2>2 DEF Waiting
  <2>6. QED
    BY <2>3, <2>4, <2>5
<1>8. QED
  BY <1>1, <1>2, <1>3, <1>4, <1>5, <1>6, <1>7

(* The pool counts its holders as the scheduler does.                      *)
LEMMA PoolCount == Pool!Cardinality(SlotHolders) = Cardinality(SlotHolders)
BY DEF Pool!Cardinality, Cardinality

-----------------------------------------------------------------------------
LEMMA InitIInv == Init => IInv
<1> SUFFICES ASSUME Init PROVE IInv
  OBVIOUS
<1>1. Shape
  BY DEF Init, WFQ!WfqInit, Shape, TypeOK, WFQ!WfqTypeOK, TaskState, FutState,
         FutureMatchesTask, WaitersQueuedOnce, Waiting
<1>2. SlotHolders = {} /\ Waiting = {}
  BY DEF Init, SlotHolders, Waiting
<1>3. QED
  BY <1>1, <1>2, FS_EmptySet, SlotsAssumption
     DEF Init, IInv, SlotAccounting, NoIdleSlotWhileWaiting

(* The invariant is inductive, and each step is a step of the pool.        *)
LEMMA NextIInv ==
  ASSUME IInv, [Next]_vars
  PROVE  IInv' /\ [Pool!Next]_(Pool!pool)
<1>0. /\ Shape
      /\ active = Cardinality(SlotHolders)
      /\ active \in Nat
      /\ active <= MaxConcurrency
      /\ Waiting # {} => active = MaxConcurrency
  BY DEF IInv, Shape, TypeOK, SlotAccounting, NoIdleSlotWhileWaiting
<1>1. CASE UNCHANGED vars
  BY <1>1 DEF vars, queueVars, IInv, Shape, TypeOK, WFQ!WfqTypeOK, FutureMatchesTask,
              WaitersQueuedOnce, SlotAccounting, NoIdleSlotWhileWaiting,
              SlotHolders, Waiting, Pool!pool
<1>2. CASE Next
  <2>1. PICK r \in Reqs :
          \/ AcquireFree(r) \/ AcquirePark(r) \/ Resume(r)
          \/ Release(r) \/ Cancel(r) \/ Throw(r)
    BY <1>2 DEF Next
  <2>2. CASE GivesSlot(r)
    <3>1. r \in SlotHolders /\ active # 0
      BY <1>0, <2>2, HoldersFinite, FS_EmptySet DEF GivesSlot
    <3>2. Cardinality(SlotHolders \ {r}) = active - 1 /\ IsFiniteSet(SlotHolders \ {r})
      BY <1>0, <3>1, HoldersFinite, FS_RemoveElement
    <3>3. Shape'
      BY <1>0, <2>2, GiveShape
    <3>4. CASE \E w \in Waiting :
                 /\ w # r
                 /\ w \notin SlotHolders
                 /\ SlotHolders' = (SlotHolders \ {r}) \cup {w}
                 /\ Waiting' = Waiting \ {w}
                 /\ active' = active
      <4>1. PICK w \in Waiting :
              /\ w # r
              /\ w \notin SlotHolders
              /\ SlotHolders' = (SlotHolders \ {r}) \cup {w}
              /\ Waiting' = Waiting \ {w}
              /\ active' = active
        BY <3>4
      <4>2. Cardinality(SlotHolders') = active
        BY <1>0, <3>2, <4>1, FS_AddElement
      <4>3. IInv'
        BY <1>0, <3>3, <4>1, <4>2 DEF IInv, SlotAccounting, NoIdleSlotWhileWaiting
      <4>4. w \in Reqs /\ Pool!HandOver(r, w)
        BY <3>1, <4>1 DEF Pool!HandOver, Waiting
      <4>5. QED
        BY <4>3, <4>4 DEF Pool!Next
    <3>5. CASE /\ Waiting = {}
               /\ SlotHolders' = SlotHolders \ {r}
               /\ Waiting' = {}
               /\ active' = IF active > 0 THEN active - 1 ELSE 0
      <4>1. active' = active - 1
        BY <1>0, <3>1, <3>5
      <4>2. IInv'
        BY <1>0, <3>1, <3>2, <3>3, <3>5, <4>1, SlotsAssumption
           DEF IInv, SlotAccounting, NoIdleSlotWhileWaiting
      <4>3. Pool!GiveBack(r)
        BY <3>1, <3>5 DEF Pool!GiveBack
      <4>4. QED
        BY <4>2, <4>3 DEF Pool!Next
    <3>6. QED
      BY <1>0, <2>2, <3>4, <3>5, GiveSteps
  <2>3. CASE /\ Shape'
             /\ r \notin SlotHolders \cup Waiting
             /\ active < MaxConcurrency
             /\ active' = active + 1
             /\ SlotHolders' = SlotHolders \cup {r}
             /\ Waiting' = Waiting
    <3>1. Cardinality(SlotHolders') = active + 1
      BY <1>0, <2>3, HoldersFinite, FS_AddElement
    <3>2. IInv'
      BY <1>0, <2>3, <3>1, SlotsAssumption DEF IInv, SlotAccounting, NoIdleSlotWhileWaiting
    <3>3. Pool!Take(r)
      BY <1>0, <2>3, PoolCount DEF Pool!Take
    <3>4. QED
      BY <3>2, <3>3 DEF Pool!Next
  <2>4. CASE /\ Shape'
             /\ r \notin SlotHolders \cup Waiting
             /\ active >= MaxConcurrency
             /\ active' = active
             /\ SlotHolders' = SlotHolders
             /\ Waiting' = Waiting \cup {r}
    <3>1. active = MaxConcurrency
      BY <1>0, <2>4, SlotsAssumption
    <3>2. IInv'
      BY <1>0, <2>4, <3>1 DEF IInv, SlotAccounting, NoIdleSlotWhileWaiting
    <3>3. Pool!Join(r)
      BY <1>0, <2>4, <3>1, PoolCount DEF Pool!Join
    <3>4. QED
      BY <3>2, <3>3 DEF Pool!Next
  <2>5. CASE /\ Shape'
             /\ active' = active
             /\ SlotHolders' = SlotHolders
             /\ Waiting' = Waiting \ {r}
    <3>1. IInv'
      BY <1>0, <2>5 DEF IInv, SlotAccounting, NoIdleSlotWhileWaiting
    <3>2. CASE r \in Waiting
      BY <2>5, <3>1, <3>2 DEF Pool!Next, Pool!Quit
    <3>3. CASE r \notin Waiting
      BY <2>5, <3>1, <3>3 DEF Pool!pool
    <3>4. QED
      BY <3>2, <3>3
  <2>6. QED
    BY <1>0, <2>1, <2>2, <2>3, <2>4, <2>5, StepKinds
<1>3. QED
  BY <1>1, <1>2

(* The counter always equals the number of slots in somebody's hands.      *)
THEOREM SchedulerInvariant == Spec => []IInv
<1>1. IInv /\ [Next]_vars => IInv'
  BY NextIInv
<1>2. QED
  BY InitIInv, <1>1, PTL DEF Spec

(* fairsched.py:59-120 keeps its variables in their types.                 *)
THEOREM SchedulerTypeOK == Spec => []TypeOK
<1>1. IInv => TypeOK
  BY DEF IInv, Shape
<1>2. QED
  BY <1>1, SchedulerInvariant, PTL

(* fairsched.py:32 for any number of requests and slots: no slot is leaked *)
(* or counted twice, whatever is cancelled and whenever.                   *)
THEOREM SlotsNeverLeak == Spec => []SlotAccounting
<1>1. IInv => SlotAccounting
  BY DEF IInv
<1>2. QED
  BY <1>1, SchedulerInvariant, PTL

(* fairsched.py:85: at most MaxConcurrency slots are out, and a request is *)
(* parked only while all of them are.                                      *)
THEOREM NoIdleSlot == Spec => []NoIdleSlotWhileWaiting
<1>1. IInv => NoIdleSlotWhileWaiting
  BY DEF IInv
<1>2. QED
  BY <1>1, SchedulerInvariant, PTL

(* fairsched.py:103-112: every waiter is in the heap exactly once until it *)
(* is granted or cancelled.                                                *)
THEOREM NoLostWaiter == Spec => []WaitersQueuedOnce
<1>1. IInv => WaitersQueuedOnce
  BY DEF IInv, Shape
<1>2. QED
  BY <1>1, SchedulerInvariant, PTL

(* fairsched.py:82-120 implements the slot pool.                           *)
THEOREM SchedulerIsSlotPool == Spec => ImplementsSlotPool
<1>1. Init => Pool!Init
  BY DEF Init, Pool!Init, SlotHolders, Waiting
<1>2. IInv /\ [Next]_vars => [Pool!Next]_(Pool!pool)
  BY NextIInv
<1>3. QED
  BY <1>1, <1>2, SchedulerInvariant, PTL DEF Spec, ImplementsSlotPool, Pool!Spec

-----------------------------------------------------------------------------
(* The order of service (FairShare): the inductive invariant.              *)

\* The heap's entries are ordered as they were pushed, and the entries of a class are a
\* service time apart.
TagsInOrder ==
  /\ IsFiniteSet(heap)
  /\ \A d \in heap : d.seq < seq /\ d.finish <= lastFinish[Class[d.item]]
  /\ \A d, e \in heap : d.seq = e.seq => d = e
  /\ \A d, e \in heap :
       Class[d.item] = Class[e.item] /\ d.seq < e.seq =>
         d.finish + ServiceTime(Class[e.item]) <= e.finish

\* The entries of class c that virtual time v has not reached.
Ahead(c, v) == {x \in heap : Class[x.item] = c /\ x.finish > v}

\* Wherever virtual time goes from here, a class is ahead of it by no more than its
\* entries beyond that time account for.
DebtIsBacklog ==
  \A c \in Classes : \A v \in Nat :
    v >= vt => lastFinish[c] <= v + ServiceTime(c) * Cardinality(Ahead(c, v))

\* Virtual time that class c was served ahead of r.
Work(r, c) == overtaken[r][c] * ServiceTime(c)

\* The waiter with entry m and class c: virtual time has passed what was served ahead
\* of m, whatever of c arrived later is tagged another service time beyond that, and
\* what was served ahead of m was tagged before m.
LeadKept(m, c) ==
  /\ parkedAt[m.item] + Work(m.item, c) <= vt
  /\ \A e \in heap : Class[e.item] = c /\ e.seq > m.seq =>
       parkedAt[m.item] + Work(m.item, c) + ServiceTime(c) <= e.finish
  /\ overtaken[m.item][c] > 0 =>
       c # Class[m.item] /\ parkedAt[m.item] + Work(m.item, c) < m.finish

LeadsKept == \A m \in heap : fut[m.item] = "pending" => \A c \in Classes : LeadKept(m, c)

HistoryTypes ==
  /\ parkedAt \in [Reqs -> Nat]
  /\ overtaken \in [Reqs -> [Classes -> Nat]]
  /\ \A r \in Reqs : task[r] = "new" => \A c \in Classes : overtaken[r][c] = 0

ShareInv == IInv /\ HistoryTypes /\ TagsInOrder /\ DebtIsBacklog /\ LeadsKept

-----------------------------------------------------------------------------
(* What is in the heap.                                                    *)
LEMMA EntryTypes ==
  ASSUME Shape, NEW e \in heap
  PROVE  /\ e.item \in Reqs /\ e.finish \in Nat /\ e.seq \in Nat
         /\ Class[e.item] \in Classes
         /\ ServiceTime(Class[e.item]) \in Nat
<1>1. e.item \in Reqs /\ e.finish \in Nat /\ e.seq \in Nat
  BY DEF Shape, TypeOK, WFQ!WfqTypeOK, WFQ!Entry
<1>2. QED
  BY <1>1, ClassAssumption, ServiceTimeNat

(* A waiter's entry is the only one with its item.                         *)
LEMMA EntryUnique ==
  ASSUME Shape, NEW e \in heap
  PROVE  EntryOf(e.item) = e
<1>1. \A d \in heap : d.item = e.item => d = e
  BY DEF Shape, WaitersQueuedOnce
<1>2. QED
  BY <1>1 DEF EntryOf

(* One more overtaking is one more service time.                           *)
LEMMA OneMore ==
  ASSUME NEW k \in Nat, NEW s \in Nat
  PROVE  k * s \in Nat /\ (k + 1) * s = k * s + s /\ 0 * s = 0
BY SMT

(* The work done ahead of a request is a natural number.                   *)
LEMMA WorkNat ==
  ASSUME HistoryTypes, NEW r \in Reqs, NEW c \in Classes
  PROVE  Work(r, c) \in Nat /\ overtaken[r][c] \in Nat /\ parkedAt[r] \in Nat /\ ServiceTime(c) \in Nat
<1>1. overtaken[r][c] \in Nat /\ parkedAt[r] \in Nat
  BY DEF HistoryTypes
<1>2. QED
  BY <1>1, ServiceTimeNat, OneMore DEF Work

-----------------------------------------------------------------------------
(* Popping entries keeps the order of the rest, and virtual time that has  *)
(* passed them leaves the same entries ahead of it.                        *)
LEMMA PopKeepsOrder ==
  ASSUME Shape, TagsInOrder, DebtIsBacklog, NEW e \in heap, WFQ!DequeueThrough(e)
  PROVE  TagsInOrder' /\ DebtIsBacklog' /\ vt' \in Nat /\ vt' >= vt /\ vt' >= e.finish
<1>1. /\ heap' = {d \in heap : WFQ!Before(e, d)}
      /\ heap' \subseteq heap
      /\ lastFinish' = lastFinish /\ seq' = seq
  BY DEF WFQ!DequeueThrough
<1>2. vt \in Nat /\ e.finish \in Nat
  BY EntryTypes DEF Shape, TypeOK, WFQ!WfqTypeOK
<1>3. vt' \in Nat /\ vt' >= vt /\ vt' >= e.finish
  BY <1>2 DEF WFQ!DequeueThrough, WFQ!Larger
<1>4. IsFiniteSet(heap')
  BY <1>1, FS_Subset DEF TagsInOrder
<1>5. TagsInOrder'
  BY <1>1, <1>4 DEF TagsInOrder
<1>6. DebtIsBacklog'
  <2>1. SUFFICES ASSUME NEW c \in Classes, NEW v \in Nat, v >= vt'
                 PROVE  lastFinish[c] <= v + ServiceTime(c) * Cardinality(Ahead(c, v)')
    BY <1>1 DEF DebtIsBacklog, Ahead
  <2>2. \A x \in heap : x.finish > v => WFQ!Before(e, x)
    <3>1. TAKE x \in heap
    <3>2. x.finish \in Nat
      BY EntryTypes
    <3>3. QED
      BY <1>2, <1>3, <2>1, <3>2 DEF WFQ!Before
  <2>3. Ahead(c, v)' = Ahead(c, v)
    BY <1>1, <2>2 DEF Ahead
  <2>4. v >= vt
    BY <1>2, <1>3, <2>1
  <2>5. QED
    BY <2>3, <2>4 DEF DebtIsBacklog
<1>7. QED
  BY <1>3, <1>5, <1>6

(* An arrival is tagged a service time after the latest of its class.      *)
LEMMA PushKeepsOrder ==
  ASSUME Shape, TagsInOrder, DebtIsBacklog, NEW r \in Reqs, fut[r] = "none",
         NEW t, t = WFQ!FinishTag(Class[r], ServiceTime(Class[r])),
         NEW m, m = [finish |-> t, seq |-> seq, item |-> r],
         WFQ!Enqueue(r, Class[r], ServiceTime(Class[r]))
  PROVE  /\ TagsInOrder' /\ DebtIsBacklog'
         /\ t \in Nat /\ t >= vt + ServiceTime(Class[r])
         /\ heap' = heap \cup {m} /\ m \notin heap
<1> DEFINE s == ServiceTime(Class[r])
<1>1. Class[r] \in Classes /\ s \in Nat
  BY ClassAssumption, ServiceTimeNat
<1>2. vt \in Nat /\ seq \in Nat /\ lastFinish \in [Classes -> Nat]
  BY DEF Shape, TypeOK, WFQ!WfqTypeOK
<1>3. lastFinish[Class[r]] \in Nat
  BY <1>1, <1>2
<1>4. /\ t \in Nat /\ t >= vt + s /\ t >= lastFinish[Class[r]] + s
      /\ t = vt + s \/ t = lastFinish[Class[r]] + s
  BY <1>1, <1>2, <1>3 DEF WFQ!FinishTag, WFQ!Larger
<1>5. /\ heap' = heap \cup {m}
      /\ lastFinish' = [lastFinish EXCEPT ![Class[r]] = t]
      /\ seq' = seq + 1 /\ vt' = vt
  BY DEF WFQ!Enqueue
<1>6. m.item = r /\ m.seq = seq /\ m.finish = t
  OBVIOUS
<1>7. \A d \in heap : d.seq \in Nat /\ d.seq < seq /\ d.finish \in Nat /\ d.item \in Reqs
  BY EntryTypes DEF TagsInOrder
<1>8. m \notin heap
  BY <1>2, <1>6, <1>7
<1>9. TagsInOrder'
  <2>1. IsFiniteSet(heap')
    BY <1>5, FS_AddElement DEF TagsInOrder
  <2>2. \A c \in Classes : lastFinish'[c] >= lastFinish[c] /\ lastFinish'[c] \in Nat /\ lastFinish[c] \in Nat
    BY <1>1, <1>2, <1>3, <1>4, <1>5
  <2>3. \A d \in heap' : d.seq < seq' /\ d.finish <= lastFinish'[Class[d.item]]
    <3>1. TAKE d \in heap'
    <3>2. CASE d = m
      BY <1>1, <1>2, <1>4, <1>5, <1>6, <3>2
    <3>3. CASE d \in heap
      <4>1. d.seq < seq /\ d.finish <= lastFinish[Class[d.item]] /\ Class[d.item] \in Classes
        BY <3>3, EntryTypes DEF TagsInOrder
      <4>2. QED
        BY <1>2, <1>5, <1>7, <2>2, <3>3, <4>1
    <3>4. QED
      BY <1>5, <3>2, <3>3
  <2>4. \A d, e \in heap' : d.seq = e.seq => d = e
    BY <1>2, <1>5, <1>6, <1>7 DEF TagsInOrder
  <2>5. \A d, e \in heap' :
          Class[d.item] = Class[e.item] /\ d.seq < e.seq =>
            d.finish + ServiceTime(Class[e.item]) <= e.finish
    <3>1. TAKE d, e \in heap'
    <3>2. HAVE Class[d.item] = Class[e.item] /\ d.seq < e.seq
    <3>3. CASE d \in heap /\ e \in heap
      BY <3>2, <3>3 DEF TagsInOrder
    <3>4. CASE d = m
      BY <1>2, <1>5, <1>6, <1>7, <3>2, <3>4
    <3>5. CASE d \in heap /\ e = m
      <4>1. d.finish <= lastFinish[Class[r]]
        BY <1>6, <3>2, <3>5 DEF TagsInOrder
      <4>2. QED
        BY <1>1, <1>3, <1>4, <1>6, <1>7, <3>5, <4>1
    <3>6. QED
      BY <1>5, <3>3, <3>4, <3>5
  <2>6. QED
    BY <2>1, <2>3, <2>4, <2>5 DEF TagsInOrder
<1>10. DebtIsBacklog'
  <2>1. SUFFICES ASSUME NEW c \in Classes, NEW v \in Nat, v >= vt
                 PROVE  lastFinish'[c] <= v + ServiceTime(c) * Cardinality(Ahead(c, v)')
    BY <1>5 DEF DebtIsBacklog, Ahead
  <2>2. lastFinish[c] <= v + ServiceTime(c) * Cardinality(Ahead(c, v))
    BY <2>1 DEF DebtIsBacklog
  <2>3. IsFiniteSet(Ahead(c, v)) /\ Cardinality(Ahead(c, v)) \in Nat
    BY FS_Subset, FS_CardinalityType DEF Ahead, TagsInOrder
  <2>4. PICK n : n = Cardinality(Ahead(c, v))
    OBVIOUS
  <2>5. CASE c # Class[r]
    <3>1. Ahead(c, v)' = Ahead(c, v)
      BY <1>5, <1>6, <2>5 DEF Ahead
    <3>2. lastFinish'[c] = lastFinish[c]
      BY <1>2, <1>5, <2>5
    <3>3. QED
      BY <2>2, <3>1, <3>2
  <2>6. CASE c = Class[r] /\ t <= v
    <3>1. IsFiniteSet(Ahead(c, v)') /\ Cardinality(Ahead(c, v)') \in Nat
      BY <1>9, FS_Subset, FS_CardinalityType DEF Ahead, TagsInOrder
    <3>2. PICK k \in Nat : k = Cardinality(Ahead(c, v)')
      BY <3>1
    <3>3. k * s \in Nat /\ s * k = k * s
      BY <1>1, <3>2, OneMore
    <3>4. lastFinish'[c] = t
      BY <1>1, <1>2, <1>5, <2>6
    <3>5. QED
      BY <1>4, <2>6, <3>2, <3>3, <3>4
  <2>7. CASE c = Class[r] /\ t > v
    <3>1. Ahead(c, v)' = Ahead(c, v) \cup {m} /\ m \notin Ahead(c, v)
      BY <1>5, <1>6, <1>8, <2>7 DEF Ahead
    <3>2. Cardinality(Ahead(c, v)') = n + 1
      BY <2>3, <2>4, <3>1, FS_AddElement
    <3>3. n \in Nat /\ n * s \in Nat /\ s * n = n * s /\ s * (n + 1) = n * s + s
      BY <1>1, <2>3, <2>4, OneMore
    <3>4. lastFinish'[c] = t
      BY <1>1, <1>2, <1>5, <2>7
    <3>5. lastFinish[c] <= v + n * s
      BY <2>2, <2>4, <2>7, <3>3
    <3>6. t <= v + (n * s + s)
      BY <1>1, <1>2, <1>3, <1>4, <2>1, <2>7, <3>3, <3>5
    <3>7. QED
      BY <2>7, <3>2, <3>3, <3>4, <3>6
  <2>8. QED
    BY <1>4, <2>5, <2>6, <2>7
<1>11. QED
  BY <1>4, <1>5, <1>8, <1>9, <1>10

-----------------------------------------------------------------------------
(* What a step writes into the history.                                    *)

\* No request is parked in this step.
NobodyParks == \A q \in Reqs : task'[q] \in {"new", "await"} => task'[q] = task[q]

LEMMA QuietHistory ==
  ASSUME HistoryTypes, RecordStep, Granted = {}, NobodyParks
  PROVE  parkedAt' = parkedAt /\ overtaken' = overtaken /\ HistoryTypes'
<1>1. parkedAt' = parkedAt
  BY DEF HistoryTypes, RecordStep, NobodyParks
<1>2. ASSUME NEW r \in Reqs, NEW c \in Classes
      PROVE  overtaken'[r][c] = overtaken[r][c]
  <2>1. {q \in Granted : Class[q] = c /\ r \in Waiting \ {q} /\ EntryOf(q).seq > EntryOf(r).seq} = {}
    OBVIOUS
  <2>2. overtaken'[r][c] = overtaken[r][c] + Cardinality({})
    BY <2>1 DEF RecordStep
  <2>3. QED
    BY <2>2, FS_EmptySet DEF HistoryTypes
<1>3. /\ overtaken' = [r \in Reqs |-> overtaken'[r]]
      /\ \A r \in Reqs : overtaken'[r] = [c \in Classes |-> overtaken'[r][c]]
  BY DEF RecordStep
<1>4. overtaken' = overtaken
  BY <1>2, <1>3 DEF HistoryTypes
<1>5. QED
  BY <1>1, <1>4 DEF HistoryTypes, NobodyParks

(* Steps that leave the queue alone.                                       *)
LEMMA QuietSteps ==
  ASSUME ShareInv, IInv', HistoryTypes',
         UNCHANGED <<queueVars, parkedAt, overtaken>>,
         \A q \in Reqs : fut'[q] = "pending" => fut[q] = "pending"
  PROVE  ShareInv'
<1>1. heap' = heap /\ lastFinish' = lastFinish /\ vt' = vt /\ seq' = seq
  BY DEF queueVars
<1>2. TagsInOrder' /\ DebtIsBacklog'
  BY <1>1 DEF ShareInv, TagsInOrder, DebtIsBacklog, Ahead
<1>3. LeadsKept'
  <2>1. SUFFICES ASSUME NEW m \in heap, fut'[m.item] = "pending", NEW c \in Classes
                 PROVE  LeadKept(m, c)'
    BY <1>1 DEF LeadsKept
  <2>2. m.item \in Reqs
    BY EntryTypes DEF ShareInv, IInv
  <2>3. LeadKept(m, c)
    BY <2>1, <2>2 DEF ShareInv, LeadsKept
  <2>4. QED
    BY <1>1, <2>3 DEF LeadKept, Work
<1>4. QED
  BY <1>2, <1>3 DEF ShareInv

(* An arrival parks: it has been overtaken by nobody, and its tag is       *)
(* beyond what its class has been served ahead of anybody.                 *)
LEMMA ParkSteps ==
  ASSUME ShareInv, IInv', NEW r \in Reqs, AcquirePark(r), RecordStep
  PROVE  ShareInv'
<1> DEFINE s == ServiceTime(Class[r])
<1>1. Shape /\ TagsInOrder /\ DebtIsBacklog /\ HistoryTypes /\ LeadsKept
  BY DEF ShareInv, IInv
<1>2. /\ task' = [task EXCEPT ![r] = "await"] /\ task[r] = "new"
      /\ fut' = [fut EXCEPT ![r] = "pending"] /\ fut[r] = "none"
      /\ WFQ!Enqueue(r, Class[r], s)
  BY <1>1 DEF AcquirePark, Shape, FutureMatchesTask
<1>3. PICK t : t = WFQ!FinishTag(Class[r], s)
  OBVIOUS
<1>4. PICK n : n = [finish |-> t, seq |-> seq, item |-> r]
  OBVIOUS
<1>5. /\ TagsInOrder' /\ DebtIsBacklog'
      /\ t \in Nat /\ t >= vt + s
      /\ heap' = heap \cup {n}
  BY <1>1, <1>2, <1>3, <1>4, PushKeepsOrder
<1>6. n.item = r /\ n.seq = seq /\ n.finish = t
  BY <1>4
<1>7. vt' = vt /\ vt \in Nat /\ seq \in Nat /\ s \in Nat /\ Class[r] \in Classes
  BY <1>1, <1>2, ClassAssumption, ServiceTimeNat DEF WFQ!Enqueue, Shape, TypeOK, WFQ!WfqTypeOK
<1>8. task \in [Reqs -> TaskState] /\ fut \in [Reqs -> FutState]
  BY <1>1 DEF Shape, TypeOK
<1>9. Granted = {}
  BY <1>2, <1>8 DEF Granted
<1>10. \A q \in Reqs : parkedAt'[q] = IF q = r THEN vt ELSE parkedAt[q]
  BY <1>2, <1>8 DEF RecordStep
<1>11. ASSUME NEW q \in Reqs, NEW c \in Classes
       PROVE  overtaken'[q][c] = overtaken[q][c]
  <2>1. {g \in Granted : Class[g] = c /\ q \in Waiting \ {g} /\ EntryOf(g).seq > EntryOf(q).seq} = {}
    BY <1>9
  <2>2. overtaken'[q][c] = overtaken[q][c] + Cardinality({})
    BY <2>1 DEF RecordStep
  <2>3. QED
    BY <1>1, <2>2, FS_EmptySet DEF HistoryTypes
<1>12. HistoryTypes'
  <2>1. parkedAt' \in [Reqs -> Nat]
    BY <1>1, <1>7, <1>10 DEF RecordStep, HistoryTypes
  <2>2. overtaken' \in [Reqs -> [Classes -> Nat]]
    <3>1. /\ overtaken' = [q \in Reqs |-> overtaken'[q]]
          /\ \A q \in Reqs : overtaken'[q] = [c \in Classes |-> overtaken'[q][c]]
      BY DEF RecordStep
    <3>2. \A q \in Reqs : \A c \in Classes : overtaken'[q][c] \in Nat
      BY <1>1, <1>11 DEF HistoryTypes
    <3>3. QED
      BY <3>1, <3>2
  <2>3. \A q \in Reqs : task'[q] = "new" => \A c \in Classes : overtaken'[q][c] = 0
    BY <1>1, <1>2, <1>8, <1>11 DEF HistoryTypes
  <2>4. QED
    BY <2>1, <2>2, <2>3 DEF HistoryTypes
<1>13. ASSUME NEW m \in heap, fut'[m.item] = "pending", NEW c \in Classes
       PROVE  LeadKept(m, c)'
  <2>1. m.item \in Reqs /\ m.seq < seq /\ m.seq \in Nat /\ m.finish \in Nat
    BY <1>1, EntryTypes DEF TagsInOrder
  <2>2. m.item # r /\ fut[m.item] = "pending"
    <3>1. fut[m.item] \in {"pending", "cancelled"}
      BY <1>1 DEF Shape, WaitersQueuedOnce
    <3>2. QED
      BY <1>2, <1>8, <1>13, <2>1, <3>1
  <2>3. LeadKept(m, c)
    BY <1>1, <2>2 DEF LeadsKept
  <2>4. parkedAt'[m.item] = parkedAt[m.item] /\ Work(m.item, c)' = Work(m.item, c)
    BY <1>10, <1>11, <2>1, <2>2 DEF Work
  <2>5. Work(m.item, c) \in Nat /\ parkedAt[m.item] \in Nat /\ ServiceTime(c) \in Nat
    BY <1>1, <2>1, WorkNat
  <2>6. ASSUME NEW e \in heap', Class[e.item] = c, e.seq > m.seq
        PROVE  parkedAt[m.item] + Work(m.item, c) + ServiceTime(c) <= e.finish
    <3>1. CASE e \in heap
      BY <2>3, <2>6, <3>1 DEF LeadKept
    <3>2. CASE e = n
      <4>1. s = ServiceTime(c) /\ e.finish = t
        BY <1>6, <2>6, <3>2
      <4>2. parkedAt[m.item] + Work(m.item, c) <= vt
        BY <2>3 DEF LeadKept
      <4>3. QED
        BY <1>5, <1>7, <2>5, <4>1, <4>2
    <3>3. QED
      BY <1>5, <3>1, <3>2
  <2>7. QED
    BY <1>7, <1>11, <2>1, <2>3, <2>4, <2>6 DEF LeadKept
<1>14. ASSUME NEW c \in Classes PROVE LeadKept(n, c)'
  <2>1. overtaken'[r][c] = 0 /\ parkedAt'[r] = vt
    BY <1>1, <1>2, <1>10, <1>11 DEF HistoryTypes
  <2>2. Work(r, c)' = 0
    BY <2>1, ServiceTimeNat, OneMore DEF Work
  <2>3. \A e \in heap' : ~(e.seq > seq)
    BY <1>5, <1>6, <1>7, <1>1, EntryTypes DEF TagsInOrder
  <2>4. QED
    BY <1>6, <1>7, <2>1, <2>2, <2>3 DEF LeadKept
<1>15. LeadsKept'
  BY <1>5, <1>13, <1>14 DEF LeadsKept
<1>16. QED
  BY <1>5, <1>12, <1>15 DEF ShareInv

(* A slot is handed to the first live entry: the waiters that are left     *)
(* behind and had arrived before it have been overtaken once more.         *)
LEMMA GrantSteps ==
  ASSUME ShareInv, IInv', NEW r \in Reqs, GivesSlot(r), GrantNext, RecordStep
  PROVE  ShareInv'
<1>1. Shape /\ TagsInOrder /\ DebtIsBacklog /\ HistoryTypes /\ LeadsKept
  BY DEF ShareInv, IInv
<1>2. PICK e \in heap :
        /\ Live(e)
        /\ WFQ!DequeueThrough(e)
        /\ fut' = [fut EXCEPT ![e.item] = "result"]
  BY DEF GrantNext, FirstLive
<1>3. /\ heap' = {d \in heap : WFQ!Before(e, d)}
      /\ lastFinish' = lastFinish /\ seq' = seq
  BY <1>2 DEF WFQ!DequeueThrough
<1>4. TagsInOrder' /\ DebtIsBacklog' /\ vt' \in Nat /\ vt' >= vt /\ vt' >= e.finish
  BY <1>1, <1>2, PopKeepsOrder
<1>5. /\ e.item \in Reqs /\ e.finish \in Nat /\ e.seq \in Nat
      /\ Class[e.item] \in Classes
      /\ fut[e.item] = "pending"
  BY <1>1, <1>2, EntryTypes DEF Shape, WaitersQueuedOnce, Live
<1>6. task \in [Reqs -> TaskState] /\ fut \in [Reqs -> FutState] /\ vt \in Nat
  BY <1>1 DEF Shape, TypeOK, WFQ!WfqTypeOK
<1>7. Granted = {e.item}
  BY <1>2, <1>5, <1>6 DEF Granted
<1>8. task' = [task EXCEPT ![r] = "left"]
  BY DEF GivesSlot
<1>9. parkedAt' = parkedAt
  BY <1>1, <1>6, <1>8 DEF RecordStep, HistoryTypes
<1> DEFINE Passed(q, c) == /\ Class[e.item] = c
                           /\ q \in Waiting \ {e.item}
                           /\ EntryOf(e.item).seq > EntryOf(q).seq
<1>10. ASSUME NEW q \in Reqs, NEW c \in Classes
       PROVE  overtaken'[q][c] = overtaken[q][c] + (IF Passed(q, c) THEN 1 ELSE 0)
  <2>1. {g \in Granted : Class[g] = c /\ q \in Waiting \ {g} /\ EntryOf(g).seq > EntryOf(q).seq}
          = IF Passed(q, c) THEN {e.item} ELSE {}
    BY <1>7
  <2>2. Cardinality(IF Passed(q, c) THEN {e.item} ELSE {}) = IF Passed(q, c) THEN 1 ELSE 0
    BY FS_EmptySet, FS_Singleton
  <2>3. overtaken'[q][c] = overtaken[q][c] + Cardinality(IF Passed(q, c) THEN {e.item} ELSE {})
    BY <2>1 DEF RecordStep
  <2>4. QED
    BY <2>2, <2>3
<1>11. HistoryTypes'
  <2>1. overtaken' \in [Reqs -> [Classes -> Nat]]
    <3>1. /\ overtaken' = [q \in Reqs |-> overtaken'[q]]
          /\ \A q \in Reqs : overtaken'[q] = [c \in Classes |-> overtaken'[q][c]]
      BY DEF RecordStep
    <3>2. \A q \in Reqs : \A c \in Classes : overtaken'[q][c] \in Nat
      <4>1. TAKE q \in Reqs
      <4>2. TAKE c \in Classes
      <4>3. overtaken[q][c] \in Nat
        BY <1>1 DEF HistoryTypes
      <4>4. QED
        BY <1>10, <4>3
    <3>3. QED
      BY <3>1, <3>2
  <2>2. ASSUME NEW q \in Reqs, task'[q] = "new", NEW c \in Classes
        PROVE  overtaken'[q][c] = 0
    <3>1. task[q] = "new"
      BY <1>6, <1>8, <2>2
    <3>2. fut[q] = "none"
      BY <1>1, <3>1 DEF Shape, FutureMatchesTask
    <3>3. ~Passed(q, c)
      BY <3>2 DEF Waiting
    <3>4. overtaken[q][c] = 0
      BY <1>1, <3>1 DEF HistoryTypes
    <3>5. QED
      BY <1>10, <3>3, <3>4
  <2>3. QED
    BY <1>1, <1>9, <2>1, <2>2 DEF HistoryTypes
<1>12. ASSUME NEW m \in heap', fut'[m.item] = "pending", NEW c \in Classes
       PROVE  LeadKept(m, c)'
  <2>1. m \in heap /\ WFQ!Before(e, m)
    BY <1>3
  <2>2. m.item \in Reqs /\ m.seq \in Nat /\ m.finish \in Nat /\ ServiceTime(c) \in Nat
    BY <1>1, <2>1, EntryTypes, ServiceTimeNat
  <2>3. m.item # e.item /\ fut[m.item] = "pending"
    BY <1>2, <1>5, <1>6, <1>12, <2>2
  <2>4. LeadKept(m, c)
    BY <1>1, <2>1, <2>3 DEF LeadsKept
  <2>5. EntryOf(m.item) = m /\ EntryOf(e.item) = e
    BY <1>1, <1>2, <2>1, EntryUnique
  <2>6. PICK p : p = parkedAt[m.item] + Work(m.item, c)
    OBVIOUS
  <2>7. p \in Nat /\ overtaken[m.item][c] \in Nat /\ parkedAt[m.item] \in Nat /\ Work(m.item, c) \in Nat
    BY <1>1, <2>2, <2>6, WorkNat
  <2>8. /\ p <= vt
        /\ \A x \in heap : Class[x.item] = c /\ x.seq > m.seq => p + ServiceTime(c) <= x.finish
        /\ overtaken[m.item][c] > 0 => c # Class[m.item] /\ p < m.finish
    BY <2>4, <2>6 DEF LeadKept
  <2>9. CASE ~(Class[e.item] = c /\ e.seq > m.seq)
    <3>1. overtaken'[m.item][c] = overtaken[m.item][c]
      BY <1>10, <2>2, <2>5, <2>7, <2>9
    <3>2. (parkedAt[m.item] + Work(m.item, c))' = p
      BY <1>9, <2>6, <3>1 DEF Work
    <3>3. p <= vt'
      BY <1>4, <1>6, <2>7, <2>8
    <3>4. QED
      BY <1>3, <1>9, <2>8, <3>1, <3>2, <3>3 DEF LeadKept, Work
  <2>10. CASE Class[e.item] = c /\ e.seq > m.seq
    <3>1. m.item \in Waiting \ {e.item}
      BY <2>2, <2>3 DEF Waiting
    <3>2. overtaken'[m.item][c] = overtaken[m.item][c] + 1
      BY <1>10, <2>2, <2>5, <2>10, <3>1
    <3>3. (parkedAt[m.item] + Work(m.item, c))' = p + ServiceTime(c)
      <4>1. (overtaken[m.item][c] + 1) * ServiceTime(c) = Work(m.item, c) + ServiceTime(c)
        BY <2>2, <2>7, OneMore DEF Work
      <4>2. Work(m.item, c)' = Work(m.item, c) + ServiceTime(c)
        BY <3>2, <4>1 DEF Work
      <4>3. QED
        BY <1>9, <2>2, <2>6, <2>7, <4>2
    <3>4. p + ServiceTime(c) <= e.finish
      BY <1>2, <2>8, <2>10
    <3>5. e.finish < m.finish
      BY <1>5, <2>1, <2>2, <2>10 DEF WFQ!Before
    <3>6. c # Class[m.item]
      <4>1. SUFFICES ASSUME c = Class[m.item] PROVE FALSE
        OBVIOUS
      <4>2. m.finish + ServiceTime(Class[e.item]) <= e.finish
        BY <1>1, <1>2, <2>1, <2>10, <4>1 DEF TagsInOrder
      <4>3. QED
        BY <1>5, <2>2, <2>10, <3>5, <4>2
    <3>7. ASSUME NEW x \in heap', Class[x.item] = c, x.seq > m.seq
          PROVE  p + ServiceTime(c) + ServiceTime(c) <= x.finish
      <4>1. x \in heap /\ WFQ!Before(e, x)
        BY <1>3
      <4>2. x.seq \in Nat /\ x.finish \in Nat
        BY <1>1, <4>1, EntryTypes
      <4>3. CASE x.seq < e.seq
        <5>1. x.finish + ServiceTime(c) <= e.finish
          BY <1>1, <1>2, <2>10, <3>7, <4>1, <4>3 DEF TagsInOrder
        <5>2. QED
          BY <1>5, <2>2, <4>1, <4>2, <4>3, <5>1 DEF WFQ!Before
      <4>4. CASE x.seq = e.seq
        <5>1. x = e
          BY <1>1, <1>2, <4>1, <4>4 DEF TagsInOrder
        <5>2. QED
          BY <1>5, <4>1, <5>1 DEF WFQ!Before
      <4>5. CASE x.seq > e.seq
        <5>1. e.finish + ServiceTime(c) <= x.finish
          BY <1>1, <1>2, <1>5, <2>10, <3>7, <4>1, <4>2, <4>5 DEF TagsInOrder
        <5>2. QED
          BY <1>5, <2>2, <2>7, <3>4, <4>2, <5>1
      <4>6. QED
        BY <1>5, <4>2, <4>3, <4>4, <4>5
    <3>8. p + ServiceTime(c) <= vt' /\ p + ServiceTime(c) < m.finish
      BY <1>4, <1>5, <2>2, <2>7, <3>4, <3>5
    <3>9. QED
      BY <3>3, <3>6, <3>7, <3>8 DEF LeadKept
  <2>11. QED
    BY <2>9, <2>10
<1>13. LeadsKept'
  BY <1>12 DEF LeadsKept
<1>14. QED
  BY <1>4, <1>11, <1>13 DEF ShareInv

(* Nobody alive is in the heap: it is emptied and the slot is free.        *)
LEMMA FreeSteps ==
  ASSUME ShareInv, IInv', NEW r \in Reqs, GivesSlot(r), FreeSlot, RecordStep
  PROVE  ShareInv'
<1>1. Shape /\ TagsInOrder /\ DebtIsBacklog /\ HistoryTypes
  BY DEF ShareInv, IInv
<1>2. fut' = fut /\ \A d \in heap : fut[d.item] = "cancelled"
  BY DEF FreeSlot, Live
<1>3. task' = [task EXCEPT ![r] = "left"] /\ task \in [Reqs -> TaskState]
  BY <1>1 DEF GivesSlot, Shape, TypeOK
<1>4. Granted = {}
  BY <1>2 DEF Granted
<1>5. NobodyParks
  BY <1>3 DEF NobodyParks
<1>6. HistoryTypes'
  BY <1>1, <1>4, <1>5, QuietHistory
<1>7. TagsInOrder' /\ DebtIsBacklog' /\ heap' \subseteq heap
  <2>1. CASE UNCHANGED queueVars
    BY <1>1, <2>1 DEF queueVars, TagsInOrder, DebtIsBacklog, Ahead
  <2>2. CASE \E e \in heap : WFQ!DequeueThrough(e)
    <3>1. PICK e \in heap : WFQ!DequeueThrough(e)
      BY <2>2
    <3>2. heap' \subseteq heap
      BY <3>1 DEF WFQ!DequeueThrough
    <3>3. QED
      BY <1>1, <3>1, <3>2, PopKeepsOrder
  <2>3. QED
    BY <2>1, <2>2 DEF FreeSlot
<1>8. LeadsKept'
  BY <1>2, <1>7 DEF LeadsKept
<1>9. QED
  BY <1>6, <1>7, <1>8 DEF ShareInv

-----------------------------------------------------------------------------
LEMMA InitShareInv == ShareInit => ShareInv
<1> SUFFICES ASSUME ShareInit PROVE ShareInv
  OBVIOUS
<1>1. IInv
  BY InitIInv DEF ShareInit
<1>2. /\ heap = {} /\ vt = 0 /\ seq = 0
      /\ lastFinish = [c \in Classes |-> 0]
      /\ parkedAt = [r \in Reqs |-> 0]
      /\ overtaken = [r \in Reqs |-> [c \in Classes |-> 0]]
  BY DEF ShareInit, Init, WFQ!WfqInit
<1>3. HistoryTypes
  BY <1>2 DEF HistoryTypes
<1>4. TagsInOrder /\ LeadsKept
  BY <1>2, FS_EmptySet DEF TagsInOrder, LeadsKept
<1>5. DebtIsBacklog
  <2>1. SUFFICES ASSUME NEW c \in Classes, NEW v \in Nat
                 PROVE  lastFinish[c] <= v + ServiceTime(c) * Cardinality(Ahead(c, v))
    BY DEF DebtIsBacklog
  <2>2. Ahead(c, v) = {}
    BY <1>2 DEF Ahead
  <2>3. ServiceTime(c) * Cardinality(Ahead(c, v)) = 0
    BY <2>2, FS_EmptySet, ServiceTimeNat
  <2>4. QED
    BY <1>2, <2>3
<1>6. QED
  BY <1>1, <1>3, <1>4, <1>5 DEF ShareInv

LEMMA NextShareInv ==
  ASSUME ShareInv, [ShareNext]_shareVars
  PROVE  ShareInv'
<1>1. CASE UNCHANGED shareVars
  <2>1. [Next]_vars /\ UNCHANGED <<queueVars, parkedAt, overtaken, task, fut>>
    BY <1>1 DEF shareVars, vars
  <2>2. IInv' /\ HistoryTypes'
    BY <2>1, NextIInv DEF ShareInv, HistoryTypes
  <2>3. QED
    BY <2>1, <2>2, QuietSteps
<1>2. CASE ShareNext
  <2>1. Next /\ RecordStep /\ IInv' /\ HistoryTypes
    BY <1>2, NextIInv DEF ShareNext, ShareInv
  <2>2. PICK r \in Reqs :
          \/ AcquireFree(r) \/ AcquirePark(r) \/ Resume(r)
          \/ Release(r) \/ Cancel(r) \/ Throw(r)
    BY <2>1 DEF Next
  <2>3. task \in [Reqs -> TaskState] /\ fut \in [Reqs -> FutState]
    BY DEF ShareInv, IInv, Shape, TypeOK
  <2>4. CASE AcquirePark(r)
    BY <2>1, <2>4, ParkSteps
  <2>5. CASE GivesSlot(r)
    BY <2>1, <2>5, GrantSteps, FreeSteps DEF GivesSlot, ReleaseOne
  <2>6. CASE AcquireFree(r) \/ Resume(r) \/ Cancel(r) \/ (Throw(r) /\ fut[r] # "result")
    <3>1. UNCHANGED queueVars
      BY <2>6 DEF AcquireFree, Resume, Cancel, Throw
    <3>2. NobodyParks
      BY <2>3, <2>6 DEF NobodyParks, AcquireFree, Resume, Cancel, Throw
    <3>3. \A q \in Reqs : fut'[q] # fut[q] => fut'[q] = "cancelled"
      BY <2>3, <2>6 DEF AcquireFree, Resume, Cancel, Throw
    <3>4. Granted = {} /\ \A q \in Reqs : fut'[q] = "pending" => fut[q] = "pending"
      BY <3>3 DEF Granted
    <3>5. parkedAt' = parkedAt /\ overtaken' = overtaken /\ HistoryTypes'
      BY <2>1, <3>2, <3>4, QuietHistory
    <3>6. QED
      BY <2>1, <3>1, <3>4, <3>5, QuietSteps
  <2>7. QED
    BY <2>2, <2>4, <2>5, <2>6 DEF Release, Throw, GivesSlot, SlotHolders
<1>3. QED
  BY <1>1, <1>2 DEF ShareNext

(* The invariant gives the two bounds on the order of service.             *)
LEMMA ShareIsFair == ASSUME ShareInv PROVE FairService
<1>1. Shape /\ TagsInOrder /\ DebtIsBacklog /\ HistoryTypes /\ LeadsKept
  BY DEF ShareInv, IInv
<1>2. BoundedOvertaking
  <2>1. SUFFICES ASSUME NEW r \in Waiting, NEW c \in Classes, overtaken[r][c] > 0
                 PROVE  /\ c # Class[r]
                        /\ Work(r, c) < EntryOf(r).finish - parkedAt[r]
    BY DEF BoundedOvertaking, Work
  <2>2. r \in Reqs /\ fut[r] = "pending"
    BY DEF Waiting
  <2>3. PICK m \in heap : m.item = r
    BY <1>1 DEF Shape, WaitersQueuedOnce
  <2>4. EntryOf(r) = m /\ m.finish \in Nat
    BY <1>1, <2>3, EntryUnique, EntryTypes
  <2>5. LeadKept(m, c)
    BY <1>1, <2>2, <2>3 DEF LeadsKept
  <2>6. c # Class[r] /\ parkedAt[r] + Work(r, c) < m.finish
    BY <2>1, <2>3, <2>5 DEF LeadKept
  <2>7. Work(r, c) \in Nat /\ parkedAt[r] \in Nat
    BY <1>1, <2>2, WorkNat
  <2>8. QED
    BY <2>4, <2>6, <2>7
<1>3. NoDebtBeyondBacklog
  <2>1. SUFFICES ASSUME NEW c \in Classes
                 PROVE  lastFinish[c] <= vt + ServiceTime(c) *
                                           Cardinality({e \in heap : Class[e.item] = c})
    BY DEF NoDebtBeyondBacklog
  <2>2. vt \in Nat /\ lastFinish[c] \in Nat /\ ServiceTime(c) \in Nat
    BY <1>1, ServiceTimeNat DEF Shape, TypeOK, WFQ!WfqTypeOK
  <2>3. PICK k : k = Cardinality(Ahead(c, vt))
    OBVIOUS
  <2>4. PICK n : n = Cardinality({e \in heap : Class[e.item] = c})
    OBVIOUS
  <2>5. k \in Nat /\ n \in Nat /\ k <= n
    <3>1. IsFiniteSet({e \in heap : Class[e.item] = c})
      BY <1>1, FS_Subset DEF TagsInOrder
    <3>2. Ahead(c, vt) \subseteq {e \in heap : Class[e.item] = c}
      BY DEF Ahead
    <3>3. QED
      BY <2>3, <2>4, <3>1, <3>2, FS_Subset, FS_CardinalityType
  <2>6. lastFinish[c] <= vt + ServiceTime(c) * k
    BY <1>1, <2>2, <2>3 DEF DebtIsBacklog
  <2>7. PICK s \in Nat : s = ServiceTime(c)
    BY <2>2
  <2>8. s * k <= s * n /\ s * k \in Nat /\ s * n \in Nat
    BY <2>5
  <2>9. QED
    BY <2>2, <2>4, <2>6, <2>7, <2>8
<1>4. QED
  BY <1>2, <1>3 DEF FairService

(* fairqueue.py:13 for any classes, weights, costs and slots, with         *)
(* cancellations anywhere: while a request waits, what arrived later of a  *)
(* class and was served first stays within the request's lead over virtual *)
(* time when it was parked, and no class carries a debt beyond its backlog.*)
THEOREM ServiceIsFair == ShareSpec => []FairService
<1>1. ShareInv /\ [ShareNext]_shareVars => ShareInv'
  BY NextShareInv
<1>2. ShareInv => FairService
  BY ShareIsFair
<1>3. QED
  BY InitShareInv, <1>1, <1>2, PTL DEF ShareSpec
=============================================================================
