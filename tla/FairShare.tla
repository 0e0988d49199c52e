----------------------------- MODULE FairShare -----------------------------
(***************************************************************************)
(* The service order of gateway/fairsched.py, stated over a history of the *)
(* scheduler: for every waiter, the virtual time at which it was parked    *)
(* and how many requests of each class that were parked after it have been *)
(* granted a slot before it.                                               *)
(***************************************************************************)
EXTENDS FairScheduler

VARIABLES parkedAt,     \* request -> virtual time when it was parked
          overtaken     \* request -> class -> later arrivals granted first

shareVars == <<vars, parkedAt, overtaken>>

EntryOf(r) == CHOOSE e \in heap : e.item = r

ShareInit ==
  /\ Init
  /\ parkedAt = [r \in Reqs |-> 0]
  /\ overtaken = [r \in Reqs |-> [c \in Classes |-> 0]]

\* The request this step grants, as a set of at most one.
Granted == {q \in Reqs : fut[q] = "pending" /\ fut'[q] = "result"}

RecordStep ==
  /\ parkedAt' = [r \in Reqs |->
       IF task[r] = "new" /\ task'[r] = "await" THEN vt ELSE parkedAt[r]]
  /\ overtaken' = [r \in Reqs |-> [c \in Classes |->
       overtaken[r][c] +
         Cardinality({q \in Granted :
           /\ Class[q] = c
           /\ r \in Waiting \ {q}
           /\ EntryOf(q).seq > EntryOf(r).seq})]]

ShareNext == Next /\ RecordStep
ShareSpec == ShareInit /\ [][ShareNext]_shareVars

FairShareSpec == ShareSpec /\ Fairness

\* fairqueue.py:13 "it yields to under-served classes": while r waits, the
\* work of class c that arrived later and was served first stays below what
\* r's own tag was ahead of virtual time when r was parked; within a class
\* the order is first come first served.  For a class with no backlog that
\* lead is cost/weight, so gold (2) overtakes a bronze (1) at most once.
BoundedOvertaking ==
  \A r \in Waiting : \A c \in Classes :
    overtaken[r][c] > 0 =>
      /\ c # Class[r]
      /\ overtaken[r][c] * ServiceTime(c) < EntryOf(r).finish - parkedAt[r]

\* fairqueue.py:39-41: a class never runs further ahead of virtual time than
\* its own entries in the heap account for, so an idle class keeps no debt
\* from the past (and none accrues while it is idle).
NoDebtBeyondBacklog ==
  \A c \in Classes :
    lastFinish[c] <= vt + ServiceTime(c) * Cardinality({e \in heap : Class[e.item] = c})

\* The service order of fairsched.py and fairqueue.py, forwards and backwards: nobody is
\* overtaken beyond its lead, and nobody pays later for having been alone.
FairService == BoundedOvertaking /\ NoDebtBeyondBacklog
=============================================================================
