----------------------------- MODULE MCGateway -----------------------------
(***************************************************************************)
(* Small instances of the gateway: two backends, two requests of one       *)
(* tenant.                                                                 *)
(***************************************************************************)
EXTENDS Gateway

CONSTANTS r1, r2, b1, b2

TwoBackends == [b \in {b1, b2} |-> IF b = b1 THEN "u1" ELSE "u2"]

TenantOf == [r \in Reqs |-> "t1"]
ClassOf == [r \in Reqs |-> "bronze"]
TierWeights == [c \in {"gold", "bronze"} |-> IF c = "gold" THEN 3 ELSE 1]
AllNormal == [r \in Reqs |-> "normal"]
=============================================================================
