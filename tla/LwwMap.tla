------------------------------- MODULE LwwMap -------------------------------
(***************************************************************************)
(* The last-writer-wins maps of gateway/cluster/drain_state.py and         *)
(* membership_state.py, which differ only in what an entry carries.  A map *)
(* is a function from the keys it has; every entry has a version, a        *)
(* Lamport timestamp and the id of the replica that wrote it.              *)
(***************************************************************************)
EXTENDS Naturals

CONSTANT Shown(_)     \* the part of an entry that counts as a change

\* Mutant of Newer: no tie-break.
NewerByTime(e, f) == e.ts > f.ts

Newer(e, f) == e.ts > f.ts \/ (e.ts = f.ts /\ e.origin > f.origin)

\* Mutants of Adopts: versions are ignored; a known key is never replaced.
AdoptsAlways(map, incoming, k) == k \in DOMAIN incoming
\* apply: whether the incoming entry for key k is adopted.
Adopts(map, incoming, k) ==
  k \in DOMAIN incoming /\ (k \notin DOMAIN map \/ Newer(incoming[k], map[k]))

\* merge: apply every entry of a digest; a delta is a digest of one key.
merge(map, incoming) ==
  [k \in DOMAIN map \cup DOMAIN incoming |->
     IF Adopts(map, incoming, k) THEN incoming[k] ELSE map[k]]

\* Mutant of changed: only a new key counts.
changedIfNew(map, incoming) == DOMAIN incoming \ DOMAIN map # {}

\* What apply and merge return: an adopted entry shows something else.
changed(map, incoming) ==
  \E k \in DOMAIN incoming :
    /\ Adopts(map, incoming, k)
    /\ k \notin DOMAIN map \/ Shown(incoming[k]) # Shown(map[k])

\* _observe of every entry: the clock afterwards is the largest timestamp seen,
\* the one member of this set.
Observed(clock, incoming) ==
  {c \in {clock} \cup {incoming[k].ts : k \in DOMAIN incoming} :
     c >= clock /\ \A k \in DOMAIN incoming : c >= incoming[k].ts}

\* set_local: overwrite with the next timestamp of the own clock.
set_local(map, k, entry) ==
  [j \in DOMAIN map \cup {k} |-> IF j = k THEN entry ELSE map[j]]
=============================================================================
