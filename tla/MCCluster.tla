----------------------------- MODULE MCCluster -----------------------------
(***************************************************************************)
(* Two small fleets in one instance, of which a behaviour picks one.  In   *)
(* "members" operators add and remove backends at all replicas, of which   *)
(* b1 is configured at start and b3 is not.  In "drains" the operators of  *)
(* two replicas drain the backends configured at start, the replicas       *)
(* restart, and the snapshot they share may fail.                          *)
(***************************************************************************)
EXTENDS ClusterState

CONSTANT Parts    \* the fleets of this run

VARIABLE part

BootB1 == [b \in {"b1"} |-> "u1"]
BootBoth == [b \in {"b1", "b2"} |-> IF b = "b1" THEN "u1" ELSE "u2"]

\* The replicas that take steps.
Running == IF part = "drains" THEN {1, 2} ELSE Replicas

Members(r) ==
  \E b \in {"b1", "b3"} :
    AdminRemove(r, b) \/ \E u \in Urls, m \in Models : AdminAdd(r, b, u, m)

Drains(r) ==
  Restart(r) \/ \E b \in Backends, flag \in BOOLEAN : AdminDrain(r, b, flag)

ClusterInit == part \in Parts /\ Init

ClusterNext ==
  \E r \in Running :
    \/ part = "members" /\ Members(r) /\ UNCHANGED part
    \/ part = "drains" /\ Drains(r) /\ UNCHANGED part
    \/ ReceiveDeltas(r) /\ UNCHANGED part
    \/ (\E p \in Running : ReceiveDigests(p, r)) /\ UNCHANGED part

ClusterSpec ==
  /\ ClusterInit /\ [][ClusterNext]_<<vars, part>>
  /\ \A p, r \in Replicas : WF_vars({p, r} \subseteq Running /\ ReceiveDigests(p, r))

\* drain_state.py:9 "replicas converge regardless of message order or duplication": the
\* maps, and what routing sees (the same backends, at the same URLs, for the same models,
\* draining or not), in the behaviours in which no replica restarts. A snapshot that fails
\* to be written or read (snapshot.py:60-80) is not what diverges.
ConvergeUnlessRestarted ==
  <>[](restarts > 0 \/ (MapsAgree(Running) /\ RegistriesAgree(Running)))
=============================================================================
