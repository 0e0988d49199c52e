------------------------- MODULE WeightedFairQueue -------------------------
(***************************************************************************)
(* gateway/fairqueue.py: the heap of (virtual finish, sequence number,     *)
(* item) entries behind weighted fair queuing.  The heap is the set of its *)
(* entries; popping the least entry is popping the one Before all others.  *)
(* Virtual times are exact integers (see ServiceTime in FairScheduler)     *)
(* where the code has floats.                                              *)
(***************************************************************************)
EXTENDS Naturals

CONSTANTS Items,       \* what is queued: the futures of parked requests
          Classes      \* tenant classes (tiers)

VARIABLES heap,        \* set of [finish, seq, item]
          lastFinish,  \* class -> finish tag of its latest entry
          vt,          \* virtual time: largest finish tag popped so far
          seq          \* number of entries ever pushed

Entry == [finish : Nat, seq : Nat, item : Items]

WfqTypeOK ==
  /\ heap \subseteq Entry
  /\ lastFinish \in [Classes -> Nat]
  /\ vt \in Nat
  /\ seq \in Nat

WfqInit ==
  /\ heap = {}
  /\ lastFinish = [c \in Classes |-> 0]
  /\ vt = 0
  /\ seq = 0

Larger(m, n) == IF m > n THEN m ELSE n

\* Mutant of Before: of equal tags the later arrival goes first.
BeforeLifo(d, e) == d.finish < e.finish \/ (d.finish = e.finish /\ d.seq > e.seq)

\* Tuple order of the heap: by finish tag, ties by arrival.
Before(d, e) == d.finish < e.finish \/ (d.finish = e.finish /\ d.seq < e.seq)

\* Start tag + cost / weight, the finish tag an arrival of class c is given.
FinishTag(c, service) == Larger(vt, lastFinish[c]) + service

\* One enqueue() call: service is cost / weight of class c.
Enqueue(item, c, service) ==
  /\ heap' = heap \cup {[finish |-> FinishTag(c, service), seq |-> seq, item |-> item]}
  /\ lastFinish' = [lastFinish EXCEPT ![c] = FinishTag(c, service)]
  /\ seq' = seq + 1
  /\ UNCHANGED vt

\* dequeue() called until e comes out: e and all that is before it leave, and
\* virtual time never goes back.
DequeueThrough(e) ==
  /\ heap' = {d \in heap : Before(e, d)}
  /\ vt' = Larger(vt, e.finish)
  /\ UNCHANGED <<lastFinish, seq>>
=============================================================================
