------------------------------ MODULE MCBooks ------------------------------
(***************************************************************************)
(* The gateway in three small scenes, of which a behaviour picks one.  In  *)
(* "requests" four requests of two tenants, one in each way of choosing a  *)
(* backend, run while servers go down and come back.  In "membership" two  *)
(* more run while an operator adds, moves, drains and removes backends     *)
(* under the scrape.  In "recovery" requests, scrape and failing servers   *)
(* run without an operator.                                                *)
(***************************************************************************)
EXTENDS Gateway

CONSTANT Parts    \* the scenes of this run

VARIABLE part

TwoHomes == [b \in {"b1", "b2"} |-> IF b = "b1" THEN "u1" ELSE "u2"]
TenantOf == [r \in Reqs |-> IF r = "r4" THEN "t2" ELSE "t1"]
ClassOf == [r \in Reqs |-> IF r = "r4" THEN "gold" ELSE "bronze"]
TierWeights == [c \in {"gold", "bronze"} |-> IF c = "gold" THEN 3 ELSE 1]
AllNormal == [r \in Reqs |-> "normal"]
ModeOf == [r \in Reqs |-> CASE r = "r1" -> "speculative" [] r = "r2" -> "affinity"
                            [] r = "r3" -> "disagg" [] OTHER -> "normal"]

FailingServers ==
  \/ \E r \in {"r1", "r2", "r3", "r4"} : RequestStep(r)
  \/ \E u \in {"u1", "u2"} : ServerFails(u) \/ ServerRecovers(u)

\* A request lost in registry.url keeps what it holds (see SlotReturned).
ChangingPool ==
  \/ \E r \in {"r5", "r6"} : RequestStep(r) /\ stage'[r] # "500"
  \/ Scrape \/ Operator
  \/ \E u \in Urls : ServerRecovers(u)

Undisturbed == (\E r \in Reqs : RequestStep(r)) \/ Scrape \/ World

BooksInit == part \in Parts /\ Init

BooksNext ==
  \/ part = "requests" /\ FailingServers /\ UNCHANGED part
  \/ part = "membership" /\ ChangingPool /\ UNCHANGED part
  \/ part = "recovery" /\ Undisturbed /\ UNCHANGED part
  \/ part # "recovery" /\ (\E b \in Backends : CooldownElapses(b)) /\ UNCHANGED part

BooksSpec == BooksInit /\ [][BooksNext]_<<vars, part>>

RecoverySpec == BooksSpec /\ Fairness

\* fleet.py:5: while no operator drops a counter, in-flight counters are exact, however
\* servers fail and requests leave.
LoadExactUnlessDropped == part = "requests" => LoadExact
=============================================================================
