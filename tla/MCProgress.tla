---------------------------- MODULE MCProgress ----------------------------
(***************************************************************************)
(* The Rust gateway, the speculative race and the load view of the fleet,  *)
(* which must make progress: a behaviour picks one of them.                *)
(***************************************************************************)
EXTENDS RustGateway, Race, FleetBus

CONSTANT Parts    \* the components of this run

VARIABLE part

MCClientOf == [r \in RustReqs |-> IF r = 1 THEN "t1" ELSE "t2"]

ProgressInit ==
  /\ part \in Parts
  /\ RustInit /\ RaceInit
  \* where Init has a choice, only the component that runs makes it
  /\ FleetInit /\ (part # "fleet" => transport = CHOOSE t \in Transports : TRUE)

ProgressNext ==
  \/ part = "rust" /\ RustNext /\ UNCHANGED <<part, raceVars, fleetVars>>
  \/ part = "race" /\ RaceNext /\ UNCHANGED <<part, rustVars, fleetVars>>
  \/ part = "fleet" /\ FleetNext /\ UNCHANGED <<part, rustVars, raceVars>>

\* The fairness of each component. RustFairness and RaceFairness ask nothing of a
\* component that was not started; FleetFairness is asked of the fleet that runs.
ProgressSpec ==
  /\ ProgressInit /\ [][ProgressNext]_<<part, rustVars, raceVars, fleetVars>>
  /\ RustFairness /\ RaceFairness
  /\ \A g \in Members : WF_fleetVars(part = "fleet" /\ FleetSync(g))

\* No request of the Rust gateway (server.rs:437-520) and no race (speculative.py:120-160)
\* stays undecided.
EverythingEnds == RustRequestsEnd /\ RaceEnds
=============================================================================
