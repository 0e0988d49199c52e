-------------------------- MODULE MCFairScheduler --------------------------
(***************************************************************************)
(* Instance of the scheduler: five requests of two tiers, gold 2 and a     *)
(* tier that has no configured weight, two slots.                          *)
(***************************************************************************)
EXTENDS FairShare

CONSTANTS g1, g2, g3, b1, b2

MCReqs == {g1, g2, g3, b1, b2}
MCClass == [r \in MCReqs |-> IF r \in {g1, g2, g3} THEN "gold" ELSE "bronze"]
MCWeights == [c \in {"gold"} |-> 2]
=============================================================================
