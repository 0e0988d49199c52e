--------------------------- MODULE ClusterProofs ----------------------------
(***************************************************************************)
(* Proofs about what gateways tell each other: the last-writer-wins maps of*)
(* gateway/cluster, until a replica restarts under an id it has used       *)
(* before, and the load view over a bus that loses and reorders, for any   *)
(* number of replicas, backends and operator calls.                        *)
(***************************************************************************)
EXTENDS ClusterState, FleetBus, FiniteSetTheorems, TLAPS

\* The entries of the map of replica r are among those ever written.
Written(map, sent) == \A b \in DOMAIN map : <<b, map[b]>> \in sent

\* One kind of map with its clocks and the entries ever written: versions are
\* unique, no entry is ahead of its writer's clock, no replica holds an entry
\* ahead of its own clock.
Versioned(map, clock, sent) ==
  /\ map = [r \in Replicas |-> map[r]] /\ clock = [r \in Replicas |-> clock[r]]
  /\ \A r \in Replicas : clock[r] \in Nat
  /\ \A s \in sent : s = <<s[1], s[2]>>
  /\ \A s \in sent : s[2].ts \in Nat /\ s[2].origin \in Replicas /\ s[2].ts <= clock[s[2].origin]
  /\ \A s, t \in sent : s[2].ts = t[2].ts /\ s[2].origin = t[2].origin => s = t
  /\ \A r \in Replicas : Written(map[r], sent)
  /\ \A r \in Replicas : \A b \in DOMAIN map[r] : map[r][b].ts <= clock[r]

\* The inductive invariant.
IInv ==
  /\ restarts \in Nat
  /\ Versioned(drain, dclock, sentDrains)
  /\ Versioned(member, mclock, sentMembers)

\* From one map to the next, entries only get newer.
Keeps(map, map2) ==
  \A q \in Replicas : \A k \in DOMAIN map[q] :
    k \in DOMAIN map2[q] /\ (map2[q][k] = map[q][k] \/ D!Newer(map2[q][k], map[q][k]))

\* Replica r decides: one new entry under the next timestamp of its clock.
Decides(r, map, clock, sent, map2, clock2, sent2) ==
  \E b, entry :
    /\ entry.ts = clock[r] + 1 /\ entry.origin = r
    /\ map2 = [map EXCEPT ![r] = D!set_local(map[r], b, entry)]
    /\ clock2 = [clock EXCEPT ![r] = clock[r] + 1]
    /\ sent2 = sent \cup {<<b, entry>>}

\* Replica r merges entries that were written.
Merges(r, map, clock, sent, map2, clock2) ==
  \E incoming : \E c \in D!Observed(clock[r], incoming) :
    /\ Written(incoming, sent)
    /\ map2 = [map EXCEPT ![r] = D!merge(map[r], incoming)]
    /\ clock2 = [clock EXCEPT ![r] = c]

-----------------------------------------------------------------------------
(* A local decision takes a fresh version.                                 *)
LEMMA WriteVersioned ==
  ASSUME NEW r \in Replicas, NEW map, NEW clock, NEW sent, NEW map2, NEW clock2, NEW sent2,
         Versioned(map, clock, sent), Decides(r, map, clock, sent, map2, clock2, sent2)
  PROVE  Versioned(map2, clock2, sent2) /\ Keeps(map, map2)
<1>0. PICK b, entry :
        /\ entry.ts = clock[r] + 1 /\ entry.origin = r
        /\ map2 = [map EXCEPT ![r] = D!set_local(map[r], b, entry)]
        /\ clock2 = [clock EXCEPT ![r] = clock[r] + 1]
        /\ sent2 = sent \cup {<<b, entry>>}
  BY DEF Decides
<1>a. /\ map = [q \in Replicas |-> map[q]] /\ clock = [q \in Replicas |-> clock[q]]
      /\ \A q \in Replicas : clock[q] \in Nat
  BY DEF Versioned
<1>b. /\ map2 = [q \in Replicas |-> map2[q]]
      /\ map2[r] = D!set_local(map[r], b, entry)
      /\ \A q \in Replicas : q # r => map2[q] = map[q]
  BY <1>0, <1>a
<1>c. /\ clock2 = [q \in Replicas |-> clock2[q]]
      /\ clock2[r] = clock[r] + 1
      /\ \A q \in Replicas : q # r => clock2[q] = clock[q]
  BY <1>0, <1>a
<1>1. /\ clock[r] \in Nat /\ clock2[r] = clock[r] + 1
      /\ \A q \in Replicas : clock2[q] \in Nat /\ clock[q] <= clock2[q]
      /\ \A q \in Replicas : q # r => map2[q] = map[q] /\ clock2[q] = clock[q]
      /\ map2[r] = D!set_local(map[r], b, entry)
      /\ map2 = [q \in Replicas |-> map2[q]] /\ clock2 = [q \in Replicas |-> clock2[q]]
  BY <1>a, <1>b, <1>c
<1>2. /\ DOMAIN map2[r] = DOMAIN map[r] \cup {b}
      /\ map2[r][b] = entry
      /\ \A k \in DOMAIN map[r] : k # b => map2[r][k] = map[r][k]
  BY <1>1 DEF D!set_local
<1>3. \A s \in sent : s[2].ts \in Nat /\ s[2].origin \in Replicas /\ s[2].ts <= clock[s[2].origin]
  BY DEF Versioned
<1>4. \A s \in sent \cup {<<b, entry>>} :
        s[2].ts \in Nat /\ s[2].origin \in Replicas /\ s[2].ts <= clock2[s[2].origin]
  <2>1. TAKE s \in sent \cup {<<b, entry>>}
  <2>2. CASE s \in sent
    BY <1>0, <1>1, <1>3, <2>2
  <2>3. CASE s = <<b, entry>>
    BY <1>0, <1>1, <2>3
  <2>4. QED
    BY <2>2, <2>3
<1>5. \A s, t \in sent \cup {<<b, entry>>} :
        s[2].ts = t[2].ts /\ s[2].origin = t[2].origin => s = t
  <2>1. \A s \in sent : ~(s[2].ts = entry.ts /\ s[2].origin = entry.origin)
    BY <1>0, <1>1, <1>3
  <2>2. QED
    BY <2>1 DEF Versioned
<1>6. \A q \in Replicas : Written(map2[q], sent \cup {<<b, entry>>})
  BY <1>1, <1>2 DEF Versioned, Written
<1>7. \A q \in Replicas : \A k \in DOMAIN map2[q] : map2[q][k].ts <= clock2[q]
  <2>1. \A q \in Replicas : \A k \in DOMAIN map[q] : map[q][k].ts \in Nat /\ map[q][k].ts <= clock[q]
    <3>1. TAKE q \in Replicas
    <3>2. TAKE k \in DOMAIN map[q]
    <3>3. <<k, map[q][k]>> \in sent
      BY DEF Versioned, Written
    <3>4. QED
      BY <1>3, <3>3 DEF Versioned
  <2>2. QED
    BY <1>0, <1>1, <1>2, <2>1
<1>8. \A k \in DOMAIN map[r] : map2[r][k] = map[r][k] \/ D!Newer(map2[r][k], map[r][k])
  <2>1. TAKE k \in DOMAIN map[r]
  <2>2. <<k, map[r][k]>> \in sent
    BY DEF Versioned, Written
  <2>3. map[r][k].ts \in Nat /\ map[r][k].ts < entry.ts
    BY <1>0, <1>1, <1>3, <2>2 DEF Versioned
  <2>4. CASE k = b
    BY <1>0, <1>1, <1>2, <2>3, <2>4 DEF D!Newer
  <2>5. CASE k # b
    BY <1>2, <2>5
  <2>6. QED
    BY <2>4, <2>5
<1>9. \A s \in sent2 : s = <<s[1], s[2]>>
  BY <1>0 DEF Versioned
<1>10. Versioned(map2, clock2, sent2)
  BY <1>0, <1>1, <1>4, <1>5, <1>6, <1>7, <1>9 DEF Versioned
<1>11. Keeps(map, map2)
  BY <1>1, <1>2, <1>8 DEF Keeps
<1>12. QED
  BY <1>10, <1>11

(* Merging entries that were written keeps the versions in order.          *)
LEMMA MergeVersioned ==
  ASSUME NEW r \in Replicas, NEW map, NEW clock, NEW sent, NEW map2, NEW clock2,
         Versioned(map, clock, sent), Merges(r, map, clock, sent, map2, clock2)
  PROVE  Versioned(map2, clock2, sent) /\ Keeps(map, map2)
<1>0. PICK incoming, c :
        /\ c \in D!Observed(clock[r], incoming)
        /\ Written(incoming, sent)
        /\ map2 = [map EXCEPT ![r] = D!merge(map[r], incoming)]
        /\ clock2 = [clock EXCEPT ![r] = c]
  BY DEF Merges
<1>1. \A k \in DOMAIN incoming : incoming[k].ts \in Nat /\ c >= incoming[k].ts
  <2>1. TAKE k \in DOMAIN incoming
  <2>2. <<k, incoming[k]>> \in sent
    BY <1>0 DEF Written
  <2>3. QED
    BY <1>0, <2>2 DEF Versioned, D!Observed
<1>2. clock[r] \in Nat /\ c \in Nat /\ c >= clock[r]
  BY <1>0, <1>1 DEF Versioned, D!Observed
<1>a. /\ map = [q \in Replicas |-> map[q]] /\ clock = [q \in Replicas |-> clock[q]]
      /\ \A q \in Replicas : clock[q] \in Nat
  BY DEF Versioned
<1>b. /\ map2 = [q \in Replicas |-> map2[q]]
      /\ map2[r] = D!merge(map[r], incoming)
      /\ \A q \in Replicas : q # r => map2[q] = map[q]
  BY <1>0, <1>a
<1>c. /\ clock2 = [q \in Replicas |-> clock2[q]]
      /\ clock2[r] = c
      /\ \A q \in Replicas : q # r => clock2[q] = clock[q]
  BY <1>0, <1>a
<1>3. /\ \A q \in Replicas : clock2[q] \in Nat /\ clock[q] <= clock2[q] /\ clock[q] \in Nat
      /\ \A q \in Replicas : q # r => map2[q] = map[q] /\ clock2[q] = clock[q]
      /\ map2[r] = D!merge(map[r], incoming) /\ clock2[r] = c
      /\ map2 = [q \in Replicas |-> map2[q]] /\ clock2 = [q \in Replicas |-> clock2[q]]
  BY <1>2, <1>a, <1>b, <1>c
<1>4. /\ DOMAIN map2[r] = DOMAIN map[r] \cup DOMAIN incoming
      /\ \A k \in DOMAIN map2[r] :
           \/ k \in DOMAIN map[r] /\ map2[r][k] = map[r][k]
           \/ /\ k \in DOMAIN incoming /\ map2[r][k] = incoming[k]
              /\ k \in DOMAIN map[r] => D!Newer(incoming[k], map[r][k])
  BY <1>3 DEF D!merge, D!Adopts
<1>5. \A s \in sent : s[2].ts \in Nat /\ s[2].origin \in Replicas /\ s[2].ts <= clock2[s[2].origin]
  BY <1>3 DEF Versioned
<1>6. \A q \in Replicas : Written(map2[q], sent)
  BY <1>0, <1>3, <1>4 DEF Versioned, Written
<1>7. \A q \in Replicas : \A k \in DOMAIN map2[q] : map2[q][k].ts <= clock2[q]
  <2>1. \A q \in Replicas : \A k \in DOMAIN map[q] : map[q][k].ts \in Nat /\ map[q][k].ts <= clock[q]
    <3>1. TAKE q \in Replicas
    <3>2. TAKE k \in DOMAIN map[q]
    <3>3. <<k, map[q][k]>> \in sent
      BY DEF Versioned, Written
    <3>4. QED
      BY <3>3 DEF Versioned
  <2>2. QED
    BY <1>1, <1>2, <1>3, <1>4, <2>1
<1>8. Keeps(map, map2)
  BY <1>3, <1>4 DEF Keeps
<1>9. Versioned(map2, clock2, sent)
  BY <1>3, <1>5, <1>6, <1>7 DEF Versioned
<1>10. QED
  BY <1>8, <1>9

(* The two instances of LwwMap differ in Shown only.                       *)
LEMMA SameMaps ==
  /\ \A e, f : M!Newer(e, f) <=> D!Newer(e, f)
  /\ \A map, incoming : M!merge(map, incoming) = D!merge(map, incoming)
  /\ \A map, k, entry : M!set_local(map, k, entry) = D!set_local(map, k, entry)
  /\ \A clock, incoming : M!Observed(clock, incoming) = D!Observed(clock, incoming)
<1>1. \A e, f : M!Newer(e, f) <=> D!Newer(e, f)
  BY DEF M!Newer, D!Newer
<1>2. \A map, incoming : M!merge(map, incoming) = D!merge(map, incoming)
  BY DEF M!merge, D!merge, M!Adopts, D!Adopts, M!Newer, D!Newer
<1>3. \A map, k, entry : M!set_local(map, k, entry) = D!set_local(map, k, entry)
  BY DEF M!set_local, D!set_local
<1>4. \A clock, incoming : M!Observed(clock, incoming) = D!Observed(clock, incoming)
  BY DEF M!Observed, D!Observed
<1>5. QED
  BY <1>1, <1>2, <1>3, <1>4

(* A delta that can arrive has been written.                               *)
LEMMA DeltasWritten ==
  ASSUME NEW sent, \A s \in sent : s = <<s[1], s[2]>>,
         NEW r, NEW ds \in Deltas(sent, r)
  PROVE  Written(ds, sent)
<1>1. CASE ds = Empty
  BY <1>1 DEF Empty, Written
<1>2. CASE ds # Empty
  <2>1. PICK s \in sent : ds = [b \in {s[1]} |-> s[2]]
    BY <1>2 DEF Deltas
  <2>2. \A b \in DOMAIN ds : <<b, ds[b]>> = s
    BY <2>1
  <2>3. QED
    BY <2>2 DEF Written
<1>3. QED
  BY <1>1, <1>2

(* A sync merges into both maps.                                           *)
LEMMA SyncStep ==
  ASSUME IInv, NEW r \in Replicas, NEW ds, NEW ms,
         Written(ds, sentDrains), Written(ms, sentMembers), Sync(r, ds, ms)
  PROVE  IInv' /\ OnlyNewer
<1>1. Merges(r, drain, dclock, sentDrains, drain', dclock')
  BY DEF Sync, Merges
<1>2. Merges(r, member, mclock, sentMembers, member', mclock')
  BY SameMaps DEF Sync, Merges
<1>3. sentDrains' = sentDrains /\ sentMembers' = sentMembers /\ restarts' = restarts
  BY DEF Sync
<1>4. Versioned(drain', dclock', sentDrains) /\ Keeps(drain, drain')
  BY <1>1, MergeVersioned DEF IInv
<1>5. Versioned(member', mclock', sentMembers) /\ Keeps(member, member')
  BY <1>2, MergeVersioned DEF IInv
<1>6. QED
  BY <1>3, <1>4, <1>5, SameMaps DEF IInv, OnlyNewer, Keeps

(* An operator's drain call writes one drain entry.                        *)
LEMMA DrainStep ==
  ASSUME IInv, NEW r \in Replicas, NEW b, NEW flag, AdminDrain(r, b, flag)
  PROVE  IInv' /\ OnlyNewer
<1>1. Decides(r, drain, dclock, sentDrains, drain', dclock', sentDrains')
  BY DEF AdminDrain, Tick, Decides
<1>2. UNCHANGED <<member, mclock, sentMembers, restarts>>
  BY DEF AdminDrain
<1>3. Versioned(drain', dclock', sentDrains') /\ Keeps(drain, drain')
  BY <1>1, WriteVersioned DEF IInv
<1>4. QED
  BY <1>2, <1>3 DEF IInv, OnlyNewer, Keeps

(* An operator's add or remove writes one membership entry.                *)
LEMMA MemberStep ==
  ASSUME IInv, NEW r \in Replicas,
         Decides(r, member, mclock, sentMembers, member', mclock', sentMembers'),
         UNCHANGED <<drain, dclock, sentDrains, restarts>>
  PROVE  IInv' /\ OnlyNewer
<1>1. Versioned(member', mclock', sentMembers') /\ Keeps(member, member')
  BY WriteVersioned DEF IInv
<1>2. QED
  BY <1>1, SameMaps DEF IInv, OnlyNewer, Keeps

-----------------------------------------------------------------------------
(* At the start no entry has been written.                                 *)
LEMMA InitVersioned == Init => IInv
<1> SUFFICES ASSUME Init PROVE IInv
  OBVIOUS
<1>1. restarts \in Nat
  BY DEF Init
<1>2. Versioned(drain, dclock, sentDrains)
  BY DEF Init, Versioned, Written, Empty
<1>3. Versioned(member, mclock, sentMembers)
  BY DEF Init, Versioned, Written, Empty
<1>4. QED
  BY <1>1, <1>2, <1>3 DEF IInv

(* One step of any action, none of them a restart.                         *)
LEMMA NextVersioned ==
  ASSUME restarts' = 0, IInv, [Next]_vars
  PROVE  IInv' /\ OnlyNewer
<1>1. CASE UNCHANGED vars
  BY <1>1 DEF vars, IInv, Versioned, Written, OnlyNewer
<1>2. CASE Next
  <2>1. PICK r \in Replicas :
          \/ OperatorStep(r) \/ ReceiveDeltas(r)
          \/ (\E p \in Replicas : ReceiveDigests(p, r)) \/ Restart(r)
    BY <1>2 DEF Next
  <2>2. CASE OperatorStep(r)
    <3>1. CASE \E b \in Backends, flag \in BOOLEAN : AdminDrain(r, b, flag)
      BY <3>1, DrainStep
    <3>2. ASSUME NEW b, NEW u, NEW m, AdminAdd(r, b, u, m) PROVE IInv' /\ OnlyNewer
      <4>1. Decides(r, member, mclock, sentMembers, member', mclock', sentMembers')
        BY <3>2, SameMaps DEF AdminAdd, Tick, Decides
      <4>2. UNCHANGED <<drain, dclock, sentDrains, restarts>>
        BY <3>2 DEF AdminAdd
      <4>3. QED
        BY <4>1, <4>2, MemberStep
    <3>3. ASSUME NEW b, AdminRemove(r, b) PROVE IInv' /\ OnlyNewer
      <4>1. Decides(r, member, mclock, sentMembers, member', mclock', sentMembers')
        BY <3>3, SameMaps DEF AdminRemove, Tick, Decides
      <4>2. UNCHANGED <<drain, dclock, sentDrains, restarts>>
        BY <3>3 DEF AdminRemove
      <4>3. QED
        BY <4>1, <4>2, MemberStep
    <3>4. QED
      BY <2>2, <3>1, <3>2, <3>3 DEF OperatorStep
  <2>3. CASE ReceiveDeltas(r)
    <3>1. PICK ds \in Deltas(sentDrains, r), ms \in Deltas(sentMembers, r) : Sync(r, ds, ms)
      BY <2>3 DEF ReceiveDeltas
    <3>2. Written(ds, sentDrains) /\ Written(ms, sentMembers)
      <4>1. Written(ds, sentDrains)
        BY DeltasWritten DEF IInv, Versioned
      <4>2. Written(ms, sentMembers)
        BY DeltasWritten DEF IInv, Versioned
      <4>3. QED
        BY <4>1, <4>2
    <3>3. QED
      BY <3>1, <3>2, SyncStep
  <2>4. CASE \E p \in Replicas : ReceiveDigests(p, r)
    <3>1. PICK p \in Replicas : Sync(r, drain[p], member[p])
      BY <2>4 DEF ReceiveDigests
    <3>2. Written(drain[p], sentDrains) /\ Written(member[p], sentMembers)
      BY DEF IInv, Versioned
    <3>3. QED
      BY <3>1, <3>2, SyncStep
  <2>5. CASE Restart(r)
    BY <2>5 DEF Restart, IInv
  <2>6. QED
    BY <2>1, <2>2, <2>3, <2>4, <2>5
<1>3. QED
  BY <1>1, <1>2

(* Restarts are counted, never forgotten.                                  *)
LEMMA RestartsAreCounted ==
  ASSUME restarts \in Nat, [Next]_vars
  PROVE  restarts' \in Nat /\ (restarts' = 0 => restarts = 0)
<1>1. restarts' = restarts \/ restarts' = restarts + 1
  <2>1. CASE UNCHANGED vars
    BY <2>1 DEF vars
  <2>2. CASE Next
    <3>1. PICK r \in Replicas :
            \/ OperatorStep(r) \/ ReceiveDeltas(r)
            \/ (\E p \in Replicas : ReceiveDigests(p, r)) \/ Restart(r)
      BY <2>2 DEF Next
    <3>2. ASSUME NEW ds, NEW ms, Sync(r, ds, ms) PROVE restarts' = restarts
      BY <3>2 DEF Sync
    <3>3. CASE OperatorStep(r)
      BY <3>3 DEF OperatorStep, AdminDrain, AdminAdd, AdminRemove
    <3>4. CASE ReceiveDeltas(r) \/ \E p \in Replicas : ReceiveDigests(p, r)
      BY <3>2, <3>4 DEF ReceiveDeltas, ReceiveDigests
    <3>5. CASE Restart(r)
      BY <3>5 DEF Restart
    <3>6. QED
      BY <3>1, <3>3, <3>4, <3>5
  <2>3. QED
    BY <2>1, <2>2
<1>2. QED
  BY <1>1

UntilRestart == restarts \in Nat /\ (restarts = 0 => IInv)

-----------------------------------------------------------------------------
(* The versions of drain_state.py:33-57 and membership_state.py:32-53 stay *)
(* in order: the inductive invariant holds until a replica restarts.       *)
THEOREM VersionsInOrder == Spec => []UntilRestart
<1>1. Init => UntilRestart
  BY InitVersioned DEF UntilRestart, IInv
<1>2. UntilRestart /\ [Next]_vars => UntilRestart'
  BY RestartsAreCounted, NextVersioned DEF UntilRestart
<1>3. QED
  BY <1>1, <1>2, PTL DEF Spec

(* Any two entries for one key that differ are ordered by their versions.  *)
LEMMA VersionsAreTotal ==
  ASSUME NEW map, NEW clock, NEW sent, Versioned(map, clock, sent),
         NEW p \in Replicas, NEW r \in Replicas,
         NEW b \in DOMAIN map[p] \cap DOMAIN map[r]
  PROVE  D!Newer(map[p][b], map[r][b]) \/ D!Newer(map[r][b], map[p][b]) \/ map[p][b] = map[r][b]
<1>1. <<b, map[p][b]>> \in sent /\ <<b, map[r][b]>> \in sent
  BY DEF Versioned, Written
<1>2. /\ map[p][b].ts \in Nat /\ map[r][b].ts \in Nat
      /\ map[p][b].origin \in Replicas /\ map[r][b].origin \in Replicas
  BY <1>1 DEF Versioned
<1>3. map[p][b].origin \in Nat /\ map[r][b].origin \in Nat
  BY <1>2, ClusterAssumption
<1>4. CASE map[p][b].ts = map[r][b].ts /\ map[p][b].origin = map[r][b].origin
  BY <1>1, <1>4 DEF Versioned
<1>5. CASE ~(map[p][b].ts = map[r][b].ts /\ map[p][b].origin = map[r][b].origin)
  BY <1>2, <1>3, <1>5 DEF D!Newer
<1>6. QED
  BY <1>4, <1>5

(* drain_state.py:7: until a replica restarts, a version names one         *)
(* entry: replicas never hold two different entries of the same version,   *)
(* whatever is lost, repeated or reordered between them.                   *)
THEOREM VersionNamesEntry == Spec => []VersionDeterminesEntry
<1>1. UntilRestart => VersionDeterminesEntry
  <2> SUFFICES ASSUME IInv, NEW p \in Replicas, NEW r \in Replicas
               PROVE /\ \A b \in DOMAIN drain[p] \cap DOMAIN drain[r] :
                          D!Newer(drain[p][b], drain[r][b]) \/ D!Newer(drain[r][b], drain[p][b])
                            \/ drain[p][b] = drain[r][b]
                     /\ \A b \in DOMAIN member[p] \cap DOMAIN member[r] :
                          M!Newer(member[p][b], member[r][b]) \/ M!Newer(member[r][b], member[p][b])
                            \/ member[p][b] = member[r][b]
    BY DEF VersionDeterminesEntry, UntilRestart
  <2>1. Versioned(drain, dclock, sentDrains) /\ Versioned(member, mclock, sentMembers)
    BY DEF IInv
  <2>2. \A b \in DOMAIN drain[p] \cap DOMAIN drain[r] :
          D!Newer(drain[p][b], drain[r][b]) \/ D!Newer(drain[r][b], drain[p][b])
            \/ drain[p][b] = drain[r][b]
    BY <2>1, VersionsAreTotal
  <2>3. \A b \in DOMAIN member[p] \cap DOMAIN member[r] :
          D!Newer(member[p][b], member[r][b]) \/ D!Newer(member[r][b], member[p][b])
            \/ member[p][b] = member[r][b]
    BY <2>1, VersionsAreTotal
  <2>4. QED
    BY <2>2, <2>3, SameMaps
<1>2. QED
  BY <1>1, VersionsInOrder, PTL

(* membership_state.py:10: until a replica restarts, no step of any        *)
(* replica replaces an entry by an older one or forgets it, the local      *)
(* operator's own writes included.                                         *)
THEOREM NothingIsResurrected == Spec => EntriesOnlyGetNewer
<1>1. UntilRestart /\ [Next]_vars => [restarts' = 0 => OnlyNewer]_vars
  BY RestartsAreCounted, NextVersioned DEF UntilRestart
<1>2. QED
  BY <1>1, VersionsInOrder, PTL DEF Spec, EntriesOnlyGetNewer

-----------------------------------------------------------------------------
(* From here on replicas may restart, and the snapshot may fail: what a    *)
(* registry makes of its own maps does not rest on the versions.           *)

Record == [url : Urls, model : Models, healthy : BOOLEAN, draining : BOOLEAN]

\* A present entry says where the backend is.
HasUrl(e) == e.present => e.url \in Urls

Follows(pool, map) ==
  \A b \in DOMAIN map :
    IF map[b].present THEN b \in DOMAIN pool /\ pool[b].url = map[b].url ELSE b \notin DOMAIN pool

Flagged(pool, map) == \A b \in DOMAIN pool : pool[b].draining <=> b \in drained(map)

\* What can be said of one replica whose maps are d and m and whose pool is g.
GoodReplica(d, dc, m, mc, g) ==
  /\ IsMap(d, DrainEntry) /\ dc \in Nat
  /\ IsMap(m, MemberEntry) /\ mc \in Nat
  /\ \A b \in DOMAIN m : HasUrl(m[b])
  /\ IsMap(g, Record)
  /\ Follows(g, m)

\* What the replicas share: the network, the snapshot and the counts.
GoodWorld ==
  /\ sentDrains \subseteq Backends \X DrainEntry
  /\ sentMembers \subseteq Backends \X MemberEntry
  /\ \A s \in sentMembers : HasUrl(s[2])
  /\ store \subseteq Backends
  /\ ops \in 0 .. MaxOps /\ restarts \in 0 .. MaxRestarts

\* The inductive invariant of the pools.
PoolInv ==
  /\ drain = [r \in Replicas |-> drain[r]] /\ dclock = [r \in Replicas |-> dclock[r]]
  /\ member = [r \in Replicas |-> member[r]] /\ mclock = [r \in Replicas |-> mclock[r]]
  /\ reg = [r \in Replicas |-> reg[r]]
  /\ \A r \in Replicas : GoodReplica(drain[r], dclock[r], member[r], mclock[r], reg[r])
  /\ GoodWorld

\* A step of replica r alone, which leaves it with these maps, clocks and pool.
Local(r, d, dc, m, mc, g) ==
  /\ drain' = [drain EXCEPT ![r] = d] /\ dclock' = [dclock EXCEPT ![r] = dc]
  /\ member' = [member EXCEPT ![r] = m] /\ mclock' = [mclock EXCEPT ![r] = mc]
  /\ reg' = [reg EXCEPT ![r] = g]

(* Setting flags touches nothing else.                                     *)
LEMMA FlagsReconciled ==
  ASSUME NEW g, IsMap(g, Record), NEW map
  PROVE  /\ IsMap(reconcile_drains(g, map), Record)
         /\ DOMAIN reconcile_drains(g, map) = DOMAIN g
         /\ \A b \in DOMAIN g : reconcile_drains(g, map)[b].url = g[b].url
         /\ Flagged(reconcile_drains(g, map), map)
<1> DEFINE h == reconcile_drains(g, map)
<1>1. DOMAIN h = DOMAIN g /\ \A b \in DOMAIN g : h[b] = [g[b] EXCEPT !.draining = b \in drained(map)]
  BY DEF reconcile_drains
<1>2. \A b \in DOMAIN g : b \in Backends /\ g[b] \in Record
  BY DEF IsMap
<1> HIDE DEF h
<1>3. ASSUME NEW b \in DOMAIN g
      PROVE  h[b] \in Record /\ h[b].url = g[b].url /\ (h[b].draining <=> b \in drained(map))
  <2>0. (b \in drained(map)) \in BOOLEAN
    OBVIOUS
  <2>1. PICK f \in BOOLEAN : f = (b \in drained(map))
    BY <2>0, Zenon
  <2>2. h[b] = [g[b] EXCEPT !.draining = f]
    BY <1>1, <2>1
  <2>3. h[b].draining = f /\ h[b].url = g[b].url /\ h[b] \in Record
    BY <1>2, <2>2 DEF Record
  <2>4. QED
    BY <2>1, <2>3
<1>4. IsMap(h, Record)
  BY <1>1, <1>2, <1>3 DEF IsMap
<1>5. QED
  BY <1>1, <1>3, <1>4 DEF Flagged, h

Added(g, b, url, h) ==
  /\ IsMap(h, Record) /\ DOMAIN h = DOMAIN g \cup {b}
  /\ h[b].url = url /\ h[b] \in Record
  /\ \A x \in DOMAIN g : x # b => h[x] = g[x]

(* registry.add at one id.                                                 *)
LEMMA AddOne ==
  ASSUME NEW g, IsMap(g, Record), NEW b \in Backends, NEW url \in Urls, NEW model \in Models
  PROVE  Added(g, b, url, R!add(g, b, url, model))
<1> DEFINE h == R!add(g, b, url, model)
<1>1. \A x \in DOMAIN g : x \in Backends /\ g[x] \in Record
  BY DEF IsMap
<1>2. CASE b \in DOMAIN g
  <2>1. h = [g EXCEPT ![b].url = url]
    BY <1>2 DEF R!add
  <2>2. DOMAIN h = DOMAIN g /\ h[b] = [g[b] EXCEPT !.url = url]
    BY <1>2, <2>1
  <2>3. \A x \in DOMAIN g : x # b => h[x] = g[x]
    BY <2>1
  <2> HIDE DEF h
  <2>4. h[b].url = url /\ h[b] \in Record
    BY <1>1, <1>2, <2>2 DEF Record
  <2>5. IsMap(h, Record)
    BY <1>1, <2>2, <2>3, <2>4 DEF IsMap
  <2>6. QED
    BY <1>2, <2>2, <2>3, <2>4, <2>5 DEF h, Added
<1>3. CASE b \notin DOMAIN g
  <2>1. h = [x \in DOMAIN g \cup {b} |-> IF x = b THEN R!Backend(url, model, FALSE) ELSE g[x]]
    BY <1>3 DEF R!add
  <2>2. DOMAIN h = DOMAIN g \cup {b} /\ h[b] = R!Backend(url, model, FALSE)
        /\ \A x \in DOMAIN g : x # b => h[x] = g[x]
    BY <2>1
  <2> HIDE DEF h
  <2>3. h[b].url = url /\ h[b] \in Record
    BY <2>2 DEF Record, R!Backend
  <2>4. IsMap(h, Record)
    BY <1>1, <2>2, <2>3 DEF IsMap
  <2>5. QED
    BY <2>2, <2>3, <2>4 DEF h, Added
<1>4. QED
  BY <1>2, <1>3

(* A pool that is made to follow a map does.                               *)
LEMMA MembersReconciled ==
  ASSUME NEW g, IsMap(g, Record), NEW m, IsMap(m, MemberEntry), \A b \in DOMAIN m : HasUrl(m[b])
  PROVE  IsMap(reconcile_membership(g, m), Record) /\ Follows(reconcile_membership(g, m), m)
<1> DEFINE h == reconcile_membership(g, m)
<1>1. /\ DOMAIN h = (DOMAIN g \cup DOMAIN m) \ (DOMAIN m \ present(m))
      /\ \A b \in DOMAIN h : h[b] = IF b \in DOMAIN m
                                    THEN R!add(g, b, m[b].url, ModelOf(m[b].model))[b] ELSE g[b]
  BY DEF reconcile_membership
<1> HIDE DEF h
<1>2. /\ \A b \in DOMAIN g : b \in Backends /\ g[b] \in Record
      /\ \A b \in DOMAIN m : b \in Backends /\ m[b] \in MemberEntry
  BY DEF IsMap
<1>3. \A b \in DOMAIN m : b \in DOMAIN h <=> m[b].present
  BY <1>1 DEF present
<1>4. ASSUME NEW b \in DOMAIN m, b \in DOMAIN h
      PROVE  h[b] \in Record /\ h[b].url = m[b].url /\ b \in Backends
  <2>1. m[b] \in MemberEntry /\ b \in Backends /\ m[b].url \in Urls
    BY <1>2, <1>3, <1>4 DEF HasUrl
  <2>2. PICK v \in Models : v = ModelOf(m[b].model)
    <3>1. m[b].model \in Models \cup {""}
      BY <2>1 DEF MemberEntry
    <3>2. QED
      BY <3>1, ClusterAssumption DEF ModelOf
  <2>3. PICK u \in Urls : u = m[b].url
    BY <2>1
  <2>4. h[b] = R!add(g, b, u, v)[b]
    BY <1>1, <1>4, <2>2, <2>3
  <2>5. Added(g, b, u, R!add(g, b, u, v))
    BY <2>1, AddOne
  <2>6. QED
    BY <2>1, <2>3, <2>4, <2>5 DEF Added
<1>5. ASSUME NEW b \in DOMAIN h, b \notin DOMAIN m PROVE h[b] \in Record /\ b \in Backends
  BY <1>1, <1>2, <1>5
<1>6. IsMap(h, Record)
  BY <1>4, <1>5 DEF IsMap
<1>7. Follows(h, m)
  BY <1>3, <1>4 DEF Follows
<1>8. QED
  BY <1>6, <1>7 DEF h

(* What a merge leaves of types, and of what a map shows.                  *)
LEMMA MergeKeepsTypes ==
  ASSUME NEW V, NEW m, IsMap(m, V), NEW in, IsMap(in, V)
  PROVE  IsMap(D!merge(m, in), V)
BY DEF IsMap, D!merge, D!Adopts

LEMMA ObservedIsNat ==
  ASSUME NEW c \in Nat, NEW in, \A k \in DOMAIN in : in[k].ts \in Nat,
         NEW o \in D!Observed(c, in)
  PROVE  o \in Nat
BY DEF D!Observed

LEMMA ShownUnchanged ==
  ASSUME NEW m, NEW in, ~M!changed(m, in), NEW g, Follows(g, m)
  PROVE  Follows(g, M!merge(m, in))
<1> DEFINE h == M!merge(m, in)
<1>1. /\ DOMAIN h = DOMAIN m \cup DOMAIN in
      /\ \A k \in DOMAIN h : h[k] = IF M!Adopts(m, in, k) THEN in[k] ELSE m[k]
  BY DEF M!merge
<1> HIDE DEF h
<1>2. \A k \in DOMAIN in : M!Adopts(m, in, k) =>
        k \in DOMAIN m /\ MemberShown(in[k]) = MemberShown(m[k])
  BY DEF M!changed
<1>3. \A k \in DOMAIN in : k \notin DOMAIN m => M!Adopts(m, in, k)
  BY DEF M!Adopts
<1>4. \A k \in DOMAIN h : k \in DOMAIN m /\ MemberShown(h[k]) = MemberShown(m[k])
  BY <1>1, <1>2, <1>3 DEF M!Adopts
<1>5. \A k \in DOMAIN h : k \in DOMAIN m /\ h[k].present = m[k].present /\ h[k].url = m[k].url
  BY <1>4 DEF MemberShown
<1>6. QED
  BY <1>5 DEF Follows, h

LEMMA DrainedUnchanged ==
  ASSUME NEW m, NEW in, ~D!changed(m, in)
  PROVE  drained(D!merge(m, in)) = drained(m)
<1> DEFINE h == D!merge(m, in)
<1>1. /\ DOMAIN h = DOMAIN m \cup DOMAIN in
      /\ \A k \in DOMAIN h : h[k] = IF D!Adopts(m, in, k) THEN in[k] ELSE m[k]
  BY DEF D!merge
<1> HIDE DEF h
<1>2. \A k \in DOMAIN in : D!Adopts(m, in, k) =>
        k \in DOMAIN m /\ DrainShown(in[k]) = DrainShown(m[k])
  BY DEF D!changed
<1>3. \A k \in DOMAIN in : k \notin DOMAIN m => D!Adopts(m, in, k)
  BY DEF D!Adopts
<1>4. DOMAIN h = DOMAIN m /\ \A k \in DOMAIN h : h[k].draining = m[k].draining
  BY <1>1, <1>2, <1>3 DEF D!Adopts, DrainShown
<1>5. QED
  BY <1>4 DEF drained, h

(* A replica that stays good on its own leaves the fleet good.             *)
LEMMA LocalStep ==
  ASSUME PoolInv, NEW r \in Replicas, NEW d, NEW dc, NEW m, NEW mc, NEW g,
         Local(r, d, dc, m, mc, g), GoodReplica(d, dc, m, mc, g), GoodWorld'
  PROVE  PoolInv'
<1>1. /\ drain' = [q \in Replicas |-> drain'[q]] /\ drain'[r] = d
      /\ \A q \in Replicas : q # r => drain'[q] = drain[q]
  BY DEF PoolInv, Local
<1>2. /\ dclock' = [q \in Replicas |-> dclock'[q]] /\ dclock'[r] = dc
      /\ \A q \in Replicas : q # r => dclock'[q] = dclock[q]
  BY DEF PoolInv, Local
<1>3. /\ member' = [q \in Replicas |-> member'[q]] /\ member'[r] = m
      /\ \A q \in Replicas : q # r => member'[q] = member[q]
  BY DEF PoolInv, Local
<1>4. /\ mclock' = [q \in Replicas |-> mclock'[q]] /\ mclock'[r] = mc
      /\ \A q \in Replicas : q # r => mclock'[q] = mclock[q]
  BY DEF PoolInv, Local
<1>5. /\ reg' = [q \in Replicas |-> reg'[q]] /\ reg'[r] = g
      /\ \A q \in Replicas : q # r => reg'[q] = reg[q]
  BY DEF PoolInv, Local
<1>6. ASSUME NEW q \in Replicas
      PROVE  GoodReplica(drain'[q], dclock'[q], member'[q], mclock'[q], reg'[q])
  <2>1. CASE q = r
    BY <1>1, <1>2, <1>3, <1>4, <1>5, <2>1
  <2>2. CASE q # r
    BY <1>1, <1>2, <1>3, <1>4, <1>5, <2>2 DEF PoolInv
  <2>3. QED
    BY <2>1, <2>2
<1>7. QED
  BY <1>1, <1>2, <1>3, <1>4, <1>5, <1>6 DEF PoolInv

(* admin_drain and admin_undrain.                                          *)
LEMMA DrainKeepsPool ==
  ASSUME PoolInv, NEW r \in Replicas, NEW b \in Backends, NEW flag \in BOOLEAN,
         AdminDrain(r, b, flag)
  PROVE  PoolInv' /\ Flagged(reg'[r], drain'[r])
<1> DEFINE entry == [draining |-> flag, ts |-> dclock[r] + 1, origin |-> r]
           map == D!set_local(drain[r], b, entry)
           pool == R!set_draining(reg[r], b, flag)
           g == reconcile_drains(pool, map)
<1>1. GoodReplica(drain[r], dclock[r], member[r], mclock[r], reg[r]) /\ b \in DOMAIN reg[r]
  BY DEF PoolInv, AdminDrain
<1>2. entry \in DrainEntry /\ dclock[r] + 1 \in Nat
  BY <1>1 DEF GoodReplica, DrainEntry
<1>3. IsMap(map, DrainEntry)
  <2> HIDE DEF entry
  <2>1. QED
    BY <1>1, <1>2 DEF IsMap, GoodReplica, D!set_local
<1>4. /\ IsMap(pool, Record) /\ DOMAIN pool = DOMAIN reg[r]
      /\ \A x \in DOMAIN reg[r] : pool[x].url = reg[r][x].url
  <2>1. IsMap(reg[r], Record)
    BY <1>1 DEF GoodReplica
  <2>2. pool = [reg[r] EXCEPT ![b].draining = flag]
    BY <1>1 DEF R!set_draining
  <2>3. /\ DOMAIN pool = DOMAIN reg[r] /\ pool[b] = [reg[r][b] EXCEPT !.draining = flag]
        /\ \A x \in DOMAIN reg[r] : x # b => pool[x] = reg[r][x]
    BY <1>1, <2>2
  <2> HIDE DEF pool
  <2>4. reg[r][b] \in Record
    BY <1>1, <2>1 DEF IsMap
  <2>5. pool[b] \in Record /\ pool[b].url = reg[r][b].url
    BY <2>3, <2>4 DEF Record
  <2>6. QED
    BY <2>1, <2>3, <2>5 DEF IsMap
<1>5. /\ IsMap(g, Record) /\ DOMAIN g = DOMAIN reg[r] /\ Flagged(g, map)
      /\ \A x \in DOMAIN reg[r] : g[x].url = reg[r][x].url
  <2> HIDE DEF pool, map
  <2>1. QED
    BY <1>4, FlagsReconciled
<1>6. Follows(g, member[r])
  <2> HIDE DEF g
  <2>1. QED
    BY <1>1, <1>5 DEF Follows, GoodReplica
<1>7. Local(r, map, dclock[r] + 1, member[r], mclock[r], g)
  BY DEF AdminDrain, Local, Tick, PoolInv
<1>8. /\ sentDrains' = sentDrains \cup {<<b, entry>>} /\ sentMembers' = sentMembers
      /\ restarts' = restarts /\ ops < MaxOps /\ ops' = ops + 1
      /\ store' \subseteq store \cup {b}
  BY DEF AdminDrain, Call, record_drain
<1> HIDE DEF entry, map, pool, g
<1>9. GoodWorld'
  BY <1>2, <1>8, ClusterAssumption DEF GoodWorld, PoolInv
<1>10. GoodReplica(map, dclock[r] + 1, member[r], mclock[r], g)
  BY <1>1, <1>2, <1>3, <1>5, <1>6 DEF GoodReplica
<1>11. PoolInv'
  BY <1>7, <1>9, <1>10, LocalStep
<1>12. reg'[r] = g /\ drain'[r] = map
  BY <1>7 DEF Local, PoolInv
<1>13. QED
  BY <1>5, <1>11, <1>12

(* admin_add_backend.                                                      *)
LEMMA AddKeepsPool ==
  ASSUME PoolInv, NEW r \in Replicas, NEW b \in Backends, NEW url \in Urls, NEW model \in Models,
         AdminAdd(r, b, url, model)
  PROVE  PoolInv'
<1> DEFINE entry == [present |-> TRUE, url |-> url, model |-> model, ts |-> mclock[r] + 1, origin |-> r]
           map == M!set_local(member[r], b, entry)
           g == R!add(reg[r], b, url, ModelOf(model))
<1>1. GoodReplica(drain[r], dclock[r], member[r], mclock[r], reg[r])
  BY DEF PoolInv
<1>2. /\ entry \in MemberEntry /\ mclock[r] + 1 \in Nat /\ HasUrl(entry)
      /\ entry.present = TRUE /\ entry.url = url
  <2>1. PICK ts \in Nat : ts = mclock[r] + 1
    BY <1>1 DEF GoodReplica
  <2>2. entry = [present |-> TRUE, url |-> url, model |-> model, ts |-> ts, origin |-> r]
    BY <2>1
  <2> HIDE DEF entry
  <2>3. entry \in MemberEntry /\ entry.present = TRUE /\ entry.url = url
    BY <2>2 DEF MemberEntry
  <2>4. QED
    BY <2>1, <2>3 DEF HasUrl
<1>3. Local(r, drain[r], dclock[r], map, mclock[r] + 1, g)
  <2>1. drain' = [drain EXCEPT ![r] = drain[r]] /\ dclock' = [dclock EXCEPT ![r] = dclock[r]]
    BY DEF AdminAdd, PoolInv
  <2>2. /\ member' = [member EXCEPT ![r] = map] /\ mclock' = [mclock EXCEPT ![r] = mclock[r] + 1]
        /\ reg' = [reg EXCEPT ![r] = g]
    BY DEF AdminAdd, Tick
  <2>3. QED
    BY <2>1, <2>2 DEF Local
<1>4. /\ sentMembers' = sentMembers \cup {<<b, entry>>} /\ sentDrains' = sentDrains
      /\ restarts' = restarts /\ ops < MaxOps /\ ops' = ops + 1 /\ store' = store
  BY DEF AdminAdd, Call
<1> HIDE DEF entry
<1>5. /\ DOMAIN map = DOMAIN member[r] \cup {b} /\ map[b] = entry
      /\ \A x \in DOMAIN member[r] : x # b => map[x] = member[r][x]
  BY DEF M!set_local
<1>6. Added(reg[r], b, url, g)
  <2>1. PICK v \in Models : v = ModelOf(model)
    BY ClusterAssumption DEF ModelOf
  <2>2. QED
    BY <1>1, <2>1, AddOne DEF GoodReplica
<1> HIDE DEF map, g
<1>7. IsMap(map, MemberEntry) /\ \A x \in DOMAIN map : HasUrl(map[x])
  BY <1>1, <1>2, <1>5 DEF IsMap, GoodReplica
<1>8. Follows(g, map)
  <2>1. ASSUME NEW x \in DOMAIN map
        PROVE  IF map[x].present THEN x \in DOMAIN g /\ g[x].url = map[x].url ELSE x \notin DOMAIN g
    <3>1. CASE x = b
      BY <1>2, <1>5, <1>6, <3>1 DEF Added
    <3>2. CASE x # b
      BY <1>1, <1>5, <1>6, <3>2 DEF Added, GoodReplica, Follows
    <3>3. QED
      BY <3>1, <3>2
  <2>2. QED
    BY <2>1 DEF Follows
<1>9. GoodReplica(drain[r], dclock[r], map, mclock[r] + 1, g)
  BY <1>1, <1>2, <1>6, <1>7, <1>8 DEF GoodReplica, Added
<1>10. GoodWorld'
  <2>1. \A s \in sentMembers' : HasUrl(s[2])
    BY <1>2, <1>4 DEF GoodWorld, PoolInv
  <2>2. QED
    BY <1>2, <1>4, <2>1, ClusterAssumption DEF GoodWorld, PoolInv
<1>11. QED
  BY <1>3, <1>9, <1>10, LocalStep

(* admin_remove_backend.                                                   *)
LEMMA RemoveKeepsPool ==
  ASSUME PoolInv, NEW r \in Replicas, NEW b \in Backends, AdminRemove(r, b)
  PROVE  PoolInv'
<1> DEFINE entry == [present |-> FALSE, url |-> "", model |-> "", ts |-> mclock[r] + 1, origin |-> r]
           map == M!set_local(member[r], b, entry)
           g == R!remove(reg[r], b)
<1>1. GoodReplica(drain[r], dclock[r], member[r], mclock[r], reg[r])
  BY DEF PoolInv
<1>2. entry \in MemberEntry /\ mclock[r] + 1 \in Nat /\ HasUrl(entry) /\ ~entry.present
  <2>1. PICK ts \in Nat : ts = mclock[r] + 1
    BY <1>1 DEF GoodReplica
  <2>2. entry = [present |-> FALSE, url |-> "", model |-> "", ts |-> ts, origin |-> r]
    BY <2>1
  <2> HIDE DEF entry
  <2>3. entry \in MemberEntry /\ entry.present = FALSE
    BY <2>2 DEF MemberEntry
  <2>4. QED
    BY <2>1, <2>3 DEF HasUrl
<1>3. Local(r, drain[r], dclock[r], map, mclock[r] + 1, g)
  <2>1. drain' = [drain EXCEPT ![r] = drain[r]] /\ dclock' = [dclock EXCEPT ![r] = dclock[r]]
    BY DEF AdminRemove, PoolInv
  <2>2. /\ member' = [member EXCEPT ![r] = map] /\ mclock' = [mclock EXCEPT ![r] = mclock[r] + 1]
        /\ reg' = [reg EXCEPT ![r] = g]
    BY DEF AdminRemove, Tick
  <2>3. QED
    BY <2>1, <2>2 DEF Local
<1>4. /\ sentMembers' = sentMembers \cup {<<b, entry>>} /\ sentDrains' = sentDrains
      /\ restarts' = restarts /\ ops < MaxOps /\ ops' = ops + 1 /\ store' = store
  BY DEF AdminRemove, Call
<1> HIDE DEF entry
<1>5. /\ DOMAIN map = DOMAIN member[r] \cup {b} /\ map[b] = entry
      /\ \A x \in DOMAIN member[r] : x # b => map[x] = member[r][x]
  BY DEF M!set_local
<1>6. DOMAIN g = DOMAIN reg[r] \ {b} /\ \A x \in DOMAIN g : g[x] = reg[r][x]
  BY DEF R!remove
<1> HIDE DEF map, g
<1>7. IsMap(map, MemberEntry) /\ \A x \in DOMAIN map : HasUrl(map[x])
  BY <1>1, <1>2, <1>5 DEF IsMap, GoodReplica
<1>8. IsMap(g, Record)
  BY <1>1, <1>6 DEF IsMap, GoodReplica
<1>9. Follows(g, map)
  <2>1. ASSUME NEW x \in DOMAIN map
        PROVE  IF map[x].present THEN x \in DOMAIN g /\ g[x].url = map[x].url ELSE x \notin DOMAIN g
    <3>1. CASE x = b
      BY <1>2, <1>5, <1>6, <3>1
    <3>2. CASE x # b
      BY <1>1, <1>5, <1>6, <3>2 DEF GoodReplica, Follows
    <3>3. QED
      BY <3>1, <3>2
  <2>2. QED
    BY <2>1 DEF Follows
<1>10. GoodReplica(drain[r], dclock[r], map, mclock[r] + 1, g)
  BY <1>1, <1>2, <1>7, <1>8, <1>9 DEF GoodReplica
<1>11. GoodWorld'
  <2>1. \A s \in sentMembers' : HasUrl(s[2])
    BY <1>2, <1>4 DEF GoodWorld, PoolInv
  <2>2. QED
    BY <1>2, <1>4, <2>1, ClusterAssumption DEF GoodWorld, PoolInv
<1>12. QED
  BY <1>3, <1>10, <1>11, LocalStep

(* sync with any typed entries: the flags are set before the members.      *)
LEMMA SyncKeepsPool ==
  ASSUME PoolInv, NEW r \in Replicas, NEW ds, NEW ms,
         IsMap(ds, DrainEntry), IsMap(ms, MemberEntry), \A b \in DOMAIN ms : HasUrl(ms[b]),
         Sync(r, ds, ms)
  PROVE  /\ PoolInv'
         /\ ~M!changed(member[r], ms) /\ Flagged(reg[r], drain[r]) => Flagged(reg'[r], drain'[r])
<1> DEFINE dmap == D!merge(drain[r], ds)
           mmap == M!merge(member[r], ms)
           flagged == IF D!changed(drain[r], ds) THEN reconcile_drains(reg[r], dmap) ELSE reg[r]
           g == IF M!changed(member[r], ms) THEN reconcile_membership(flagged, mmap) ELSE flagged
<1>1. GoodReplica(drain[r], dclock[r], member[r], mclock[r], reg[r])
  BY DEF PoolInv
<1>2. PICK dc, mc : /\ dc \in D!Observed(dclock[r], ds) /\ mc \in M!Observed(mclock[r], ms)
                    /\ Local(r, dmap, dc, mmap, mc, g)
  BY DEF Sync, Local
<1>3. UNCHANGED <<sentDrains, sentMembers, store, ops, restarts>>
  BY DEF Sync
<1>4. IsMap(dmap, DrainEntry)
  BY <1>1, MergeKeepsTypes DEF GoodReplica
<1>5. IsMap(mmap, MemberEntry)
  BY <1>1, MergeKeepsTypes, SameMaps DEF GoodReplica
<1>6. \A b \in DOMAIN mmap : HasUrl(mmap[b])
  BY <1>1 DEF GoodReplica, M!merge, M!Adopts
<1>7. dc \in Nat
  <2>1. \A k \in DOMAIN ds : ds[k].ts \in Nat
    BY DEF IsMap, DrainEntry
  <2>2. QED
    BY <1>1, <1>2, <2>1, ObservedIsNat DEF GoodReplica
<1>8. mc \in Nat
  <2>1. \A k \in DOMAIN ms : ms[k].ts \in Nat
    BY DEF IsMap, MemberEntry
  <2>2. mc \in D!Observed(mclock[r], ms)
    BY <1>2, SameMaps
  <2>3. QED
    BY <1>1, <2>1, <2>2, ObservedIsNat DEF GoodReplica
<1> HIDE DEF dmap, mmap
<1>9. IsMap(flagged, Record) /\ Follows(flagged, member[r])
  <2>1. IsMap(reg[r], Record) /\ Follows(reg[r], member[r])
    BY <1>1 DEF GoodReplica
  <2>2. CASE D!changed(drain[r], ds)
    <3>1. flagged = reconcile_drains(reg[r], dmap)
      BY <2>2
    <3> HIDE DEF flagged
    <3>2. /\ IsMap(flagged, Record) /\ DOMAIN flagged = DOMAIN reg[r]
          /\ \A b \in DOMAIN reg[r] : flagged[b].url = reg[r][b].url
      BY <2>1, <3>1, FlagsReconciled
    <3>3. QED
      BY <2>1, <3>2 DEF Follows
  <2>3. CASE ~D!changed(drain[r], ds)
    BY <2>1, <2>3
  <2>4. QED
    BY <2>2, <2>3
<1>10. Flagged(reg[r], drain[r]) => Flagged(flagged, dmap)
  <2>1. IsMap(reg[r], Record)
    BY <1>1 DEF GoodReplica
  <2>2. CASE D!changed(drain[r], ds)
    BY <2>1, <2>2, FlagsReconciled
  <2>3. CASE ~D!changed(drain[r], ds)
    <3>1. drained(dmap) = drained(drain[r])
      BY <2>3, DrainedUnchanged DEF dmap
    <3>2. QED
      BY <2>3, <3>1 DEF Flagged
  <2>4. QED
    BY <2>2, <2>3
<1> HIDE DEF flagged
<1>11. IsMap(g, Record) /\ Follows(g, mmap)
  <2>1. CASE M!changed(member[r], ms)
    BY <1>5, <1>6, <1>9, <2>1, MembersReconciled
  <2>2. CASE ~M!changed(member[r], ms)
    BY <1>9, <2>2, ShownUnchanged DEF mmap
  <2>3. QED
    BY <2>1, <2>2
<1>12. ~M!changed(member[r], ms) => g = flagged
  OBVIOUS
<1> HIDE DEF g
<1>13. GoodReplica(dmap, dc, mmap, mc, g)
  BY <1>4, <1>5, <1>6, <1>7, <1>8, <1>11 DEF GoodReplica
<1>14. GoodWorld'
  BY <1>3 DEF GoodWorld, PoolInv
<1>15. PoolInv'
  BY <1>2, <1>13, <1>14, LocalStep
<1>16. reg'[r] = g /\ drain'[r] = dmap
  BY <1>2 DEF Local, PoolInv
<1>17. QED
  BY <1>10, <1>12, <1>15, <1>16

(* The pool of the configuration: nothing drains.                          *)
LEMMA BootIsGood == IsMap(BootRegistry, Record) /\ \A b \in DOMAIN BootRegistry : ~BootRegistry[b].draining
<1>1. DOMAIN BootRegistry = DOMAIN Boot
      /\ \A b \in DOMAIN Boot : BootRegistry[b] = R!Backend(Boot[b], DefaultModel, TRUE)
  BY DEF BootRegistry
<1>2. \A b \in DOMAIN Boot : b \in Backends /\ Boot[b] \in Urls /\ DefaultModel \in Models
  BY ClusterAssumption
<1>3. ASSUME NEW b \in DOMAIN Boot PROVE BootRegistry[b] \in Record /\ ~BootRegistry[b].draining
  <2>1. PICK u \in Urls, m \in Models : BootRegistry[b] = R!Backend(u, m, TRUE)
    BY <1>1, <1>2
  <2>2. QED
    BY <2>1 DEF R!Backend, Record
<1>4. QED
  BY <1>1, <1>2, <1>3 DEF IsMap

(* A restart, whatever can be read of the snapshot.                        *)
LEMMA RestartKeepsPool ==
  ASSUME PoolInv, NEW r \in Replicas, Restart(r)
  PROVE  PoolInv' /\ Flagged(reg'[r], drain'[r])
<1>1. PICK read \in {store} \cup (IF StoreFails THEN {{}} ELSE {}) :
        \E order \in R!Bijection(read, 1 .. Cardinality(read)) :
          LET map == [b \in read |-> [draining |-> TRUE, ts |-> order[b], origin |-> r]]
          IN  /\ drain' = [drain EXCEPT ![r] = map]
              /\ dclock' = [dclock EXCEPT ![r] = Cardinality(read)]
              /\ reg' = [reg EXCEPT ![r] = WarmRegistry(map)]
  BY DEF Restart
<1>2. read \subseteq Backends
  BY <1>1 DEF PoolInv, GoodWorld
<1>3. PICK n \in Nat : n = Cardinality(read)
  BY <1>2, ClusterAssumption, FS_Subset, FS_CardinalityType
<1>4. PICK order \in R!Bijection(read, 1 .. n) :
        LET map == [b \in read |-> [draining |-> TRUE, ts |-> order[b], origin |-> r]]
        IN  /\ drain' = [drain EXCEPT ![r] = map]
            /\ dclock' = [dclock EXCEPT ![r] = n]
            /\ reg' = [reg EXCEPT ![r] = WarmRegistry(map)]
  BY <1>1, <1>3
<1>5. \A b \in read : order[b] \in Nat
  BY <1>4 DEF R!Bijection, R!Injection
<1>6. PICK map : map = [b \in read |-> [draining |-> TRUE, ts |-> order[b], origin |-> r]]
  OBVIOUS
<1>7. IsMap(map, DrainEntry)
  BY <1>2, <1>5, <1>6 DEF IsMap, DrainEntry
<1>8. PICK g : g = WarmRegistry(map)
  OBVIOUS
<1>9. IsMap(g, Record) /\ Flagged(g, map)
  BY <1>8, BootIsGood, FlagsReconciled DEF WarmRegistry
<1>10. Local(r, map, n, Empty, 0, g)
  BY <1>4, <1>6, <1>8 DEF Restart, Local
<1>11. GoodReplica(map, n, Empty, 0, g)
  BY <1>7, <1>9 DEF GoodReplica, IsMap, Follows, Empty
<1>12. GoodWorld'
  BY ClusterAssumption DEF Restart, GoodWorld, PoolInv
<1>13. PoolInv'
  BY <1>10, <1>11, <1>12, LocalStep
<1>14. reg'[r] = g /\ drain'[r] = map
  BY <1>10 DEF Local, PoolInv
<1>15. QED
  BY <1>9, <1>13, <1>14

(* A delta on its way is typed.                                            *)
LEMMA DeltasTyped ==
  ASSUME NEW V, NEW sent, sent \subseteq Backends \X V, NEW r, NEW ds \in Deltas(sent, r)
  PROVE  IsMap(ds, V) /\ \A b \in DOMAIN ds : <<b, ds[b]>> \in sent
<1>1. CASE ds = Empty
  BY <1>1 DEF Empty, IsMap
<1>2. CASE ds # Empty
  <2>1. PICK s \in sent : ds = [b \in {s[1]} |-> s[2]]
    BY <1>2 DEF Deltas
  <2>2. s[1] \in Backends /\ s[2] \in V /\ s = <<s[1], s[2]>>
    OBVIOUS
  <2>3. DOMAIN ds = {s[1]} /\ ds[s[1]] = s[2]
    BY <2>1
  <2>4. QED
    BY <2>2, <2>3 DEF IsMap
<1>3. QED
  BY <1>1, <1>2

LEMMA PoolInit == Init => PoolInv
<1> SUFFICES ASSUME Init PROVE PoolInv
  OBVIOUS
<1>1. GoodReplica(Empty, 0, Empty, 0, BootRegistry)
  BY BootIsGood DEF GoodReplica, IsMap, Follows, Empty
<1>2. GoodWorld
  BY ClusterAssumption DEF Init, GoodWorld
<1>3. \A r \in Replicas : /\ drain[r] = Empty /\ dclock[r] = 0 /\ member[r] = Empty /\ mclock[r] = 0
                          /\ reg[r] = BootRegistry
  BY DEF Init
<1>4. /\ drain = [r \in Replicas |-> drain[r]] /\ dclock = [r \in Replicas |-> dclock[r]]
      /\ member = [r \in Replicas |-> member[r]] /\ mclock = [r \in Replicas |-> mclock[r]]
      /\ reg = [r \in Replicas |-> reg[r]]
  BY DEF Init
<1>5. QED
  BY <1>1, <1>2, <1>3, <1>4 DEF PoolInv

(* What arrives at a replica is a sync with typed entries.                 *)
LEMMA ArrivalIsSync ==
  ASSUME PoolInv, NEW r \in Replicas, ReceiveDeltas(r) \/ \E p \in Replicas : ReceiveDigests(p, r)
  PROVE  \E ds, ms : /\ IsMap(ds, DrainEntry) /\ IsMap(ms, MemberEntry)
                     /\ \A b \in DOMAIN ms : HasUrl(ms[b])
                     /\ Sync(r, ds, ms)
                     /\ ms \in Deltas(sentMembers, r) \/ \E p \in Replicas : ms = member[p]
<1>1. CASE ReceiveDeltas(r)
  <2>1. PICK ds \in Deltas(sentDrains, r), ms \in Deltas(sentMembers, r) : Sync(r, ds, ms)
    BY <1>1 DEF ReceiveDeltas
  <2>2. IsMap(ds, DrainEntry)
    BY DeltasTyped DEF PoolInv, GoodWorld
  <2>3. IsMap(ms, MemberEntry) /\ \A b \in DOMAIN ms : <<b, ms[b]>> \in sentMembers
    BY DeltasTyped DEF PoolInv, GoodWorld
  <2>4. \A b \in DOMAIN ms : HasUrl(ms[b])
    <3>1. TAKE b \in DOMAIN ms
    <3>2. PICK s \in sentMembers : s = <<b, ms[b]>>
      BY <2>3
    <3>3. HasUrl(s[2]) /\ s[2] = ms[b]
      BY <3>2 DEF PoolInv, GoodWorld
    <3>4. QED
      BY <3>3
  <2>5. QED
    BY <2>1, <2>2, <2>3, <2>4
<1>2. CASE \E p \in Replicas : ReceiveDigests(p, r)
  <2>1. PICK p \in Replicas : Sync(r, drain[p], member[p])
    BY <1>2 DEF ReceiveDigests
  <2>2. /\ IsMap(drain[p], DrainEntry) /\ IsMap(member[p], MemberEntry)
        /\ \A b \in DOMAIN member[p] : HasUrl(member[p][b])
    BY DEF PoolInv, GoodReplica
  <2>3. QED
    BY <2>1, <2>2
<1>3. QED
  BY <1>1, <1>2

LEMMA PoolStep == PoolInv /\ [Next]_vars => PoolInv'
<1> SUFFICES ASSUME PoolInv, [Next]_vars PROVE PoolInv'
  OBVIOUS
<1>1. CASE UNCHANGED vars
  BY <1>1 DEF vars, PoolInv, GoodWorld
<1>2. CASE Next
  <2>1. PICK r \in Replicas :
          \/ OperatorStep(r) \/ ReceiveDeltas(r)
          \/ (\E p \in Replicas : ReceiveDigests(p, r)) \/ Restart(r)
    BY <1>2 DEF Next
  <2>2. CASE OperatorStep(r)
    BY <2>2, DrainKeepsPool, AddKeepsPool, RemoveKeepsPool DEF OperatorStep
  <2>3. CASE ReceiveDeltas(r) \/ \E p \in Replicas : ReceiveDigests(p, r)
    <3>1. PICK ds, ms : /\ IsMap(ds, DrainEntry) /\ IsMap(ms, MemberEntry)
                        /\ \A b \in DOMAIN ms : HasUrl(ms[b])
                        /\ Sync(r, ds, ms)
      BY <2>3, ArrivalIsSync
    <3>2. QED
      BY <3>1, SyncKeepsPool
  <2>4. CASE Restart(r)
    BY <2>4, RestartKeepsPool
  <2>5. QED
    BY <2>1, <2>2, <2>3, <2>4
<1>3. QED
  BY <1>1, <1>2

(* coordinator.py:52: whatever operators decide where, whatever is lost,   *)
(* repeated or reordered, and whoever restarts, a backend is in a          *)
(* replica's pool under the URL of the replica's map exactly when that map *)
(* has it present.                                                         *)
THEOREM PoolsFollowTheMaps == Spec => []PoolIsConsistent
<1>1. PoolInv => PoolIsConsistent
  BY DEF PoolInv, GoodReplica, GoodWorld, Follows, PoolIsConsistent, TypeOK, PoolFollowsMap, Record
<1>2. QED
  BY <1>1, PoolInit, PoolStep, PTL DEF Spec

\* The inductive invariant of the flags, where the pool is the configured one.
FlagInv ==
  /\ PoolInv
  /\ sentMembers = {} /\ \A r \in Replicas : DOMAIN member[r] = {}
  /\ \A r \in Replicas : Flagged(reg[r], drain[r])

(* Only replica r moves, and no membership entry appears.                  *)
LEMMA FlagsLocal ==
  ASSUME FlagInv, PoolInv', NEW r \in Replicas, Flagged(reg'[r], drain'[r]),
         sentMembers' = {}, DOMAIN member'[r] = {},
         \A q \in Replicas : q # r => /\ reg'[q] = reg[q] /\ drain'[q] = drain[q]
                                      /\ member'[q] = member[q]
  PROVE  FlagInv'
<1>1. \A q \in Replicas : DOMAIN member'[q] = {} /\ Flagged(reg'[q], drain'[q])
  <2>1. TAKE q \in Replicas
  <2>2. CASE q = r
    BY <2>2
  <2>3. CASE q # r
    BY <2>3 DEF FlagInv
  <2>4. QED
    BY <2>2, <2>3
<1>2. QED
  BY <1>1 DEF FlagInv

LEMMA FlagStep ==
  ASSUME Ops \subseteq {"drain", "undrain"}, FlagInv, [Next]_vars
  PROVE  FlagInv'
<1>1. PoolInv /\ PoolInv'
  BY PoolStep DEF FlagInv
<1>2. CASE UNCHANGED vars
  BY <1>1, <1>2 DEF vars, FlagInv
<1>3. CASE Next
  <2>1. PICK r \in Replicas :
          \/ OperatorStep(r) \/ ReceiveDeltas(r)
          \/ (\E p \in Replicas : ReceiveDigests(p, r)) \/ Restart(r)
    BY <1>3 DEF Next
  <2>2. CASE OperatorStep(r)
    <3>1. PICK b \in Backends, flag \in BOOLEAN : AdminDrain(r, b, flag)
      BY <2>2 DEF OperatorStep, AdminAdd, AdminRemove, Call
    <3>2. Flagged(reg'[r], drain'[r])
      BY <1>1, <3>1, DrainKeepsPool
    <3>3. /\ \A q \in Replicas : q # r => reg'[q] = reg[q] /\ drain'[q] = drain[q]
          /\ member' = member /\ sentMembers' = sentMembers
      BY <1>1, <3>1 DEF AdminDrain, PoolInv
    <3>4. QED
      BY <1>1, <3>2, <3>3, FlagsLocal DEF FlagInv
  <2>3. CASE ReceiveDeltas(r) \/ \E p \in Replicas : ReceiveDigests(p, r)
    <3>1. PICK ds, ms : /\ IsMap(ds, DrainEntry) /\ IsMap(ms, MemberEntry)
                        /\ \A b \in DOMAIN ms : HasUrl(ms[b])
                        /\ Sync(r, ds, ms)
                        /\ ms \in Deltas(sentMembers, r) \/ \E p \in Replicas : ms = member[p]
      BY <1>1, <2>3, ArrivalIsSync
    <3>2. DOMAIN ms = {}
      <4>1. CASE ms \in Deltas(sentMembers, r)
        BY <4>1 DEF FlagInv, Deltas, Empty
      <4>2. CASE \E p \in Replicas : ms = member[p]
        BY <4>2 DEF FlagInv
      <4>3. QED
        BY <3>1, <4>1, <4>2
    <3>3. ~M!changed(member[r], ms)
      BY <3>2 DEF M!changed
    <3>4. Flagged(reg'[r], drain'[r])
      BY <1>1, <3>1, <3>3, SyncKeepsPool DEF FlagInv
    <3>5. /\ \A q \in Replicas : q # r => /\ reg'[q] = reg[q] /\ drain'[q] = drain[q]
                                          /\ member'[q] = member[q]
          /\ member'[r] = M!merge(member[r], ms) /\ sentMembers' = sentMembers
      BY <1>1, <3>1 DEF Sync, PoolInv
    <3>6. DOMAIN member'[r] = {}
      BY <3>2, <3>5 DEF M!merge, FlagInv
    <3>7. QED
      BY <1>1, <3>4, <3>5, <3>6, FlagsLocal DEF FlagInv
  <2>4. CASE Restart(r)
    <3>1. Flagged(reg'[r], drain'[r])
      BY <1>1, <2>4, RestartKeepsPool
    <3>2. /\ \A q \in Replicas : q # r => /\ reg'[q] = reg[q] /\ drain'[q] = drain[q]
                                          /\ member'[q] = member[q]
          /\ member'[r] = Empty /\ sentMembers' = sentMembers
      BY <1>1, <2>4 DEF Restart, PoolInv
    <3>3. DOMAIN member'[r] = {}
      BY <3>2 DEF Empty
    <3>4. QED
      BY <1>1, <3>1, <3>2, <3>3, FlagsLocal DEF FlagInv
  <2>5. QED
    BY <2>1, <2>2, <2>3, <2>4
<1>4. QED
  BY <1>2, <1>3

(* coordinator.py:50: where operators drain and undrain and the pool stays *)
(* as configured, the flags of every registry are those of its drain map   *)
(* after every step: lost, late and repeated messages, restarts and        *)
(* failures of the snapshot included.                                      *)
THEOREM FlagsFollowTheMap ==
  ASSUME Ops \subseteq {"drain", "undrain"}
  PROVE  Spec => []FlagsFollowMap
<1>1. Init => FlagInv
  <2> SUFFICES ASSUME Init PROVE FlagInv
    OBVIOUS
  <2>1. PoolInv
    BY PoolInit
  <2>2. \A r \in Replicas : /\ drain[r] = Empty /\ member[r] = Empty /\ reg[r] = BootRegistry
    BY DEF Init
  <2>3. drained(Empty) = {} /\ DOMAIN Empty = {}
    BY DEF drained, Empty
  <2>4. Flagged(BootRegistry, Empty)
    BY <2>3, BootIsGood DEF Flagged
  <2>5. sentMembers = {}
    BY DEF Init
  <2>6. QED
    BY <2>1, <2>2, <2>3, <2>4, <2>5 DEF FlagInv
<1>2. FlagInv /\ [Next]_vars => FlagInv'
  BY FlagStep
<1>3. FlagInv => FlagsFollowMap
  BY DEF FlagInv, Flagged, FlagsFollowMap
<1>4. QED
  BY <1>1, <1>2, <1>3, PTL DEF Spec

-----------------------------------------------------------------------------
(* What gateways tell each other: the load view and the shared prefixes.   *)

Snapshots == [load : [Hosts -> Nat], shed : SUBSET Hosts, ver : Nat]

LoadEvents == [kind : {"load"}, origin : Members, snap : Snapshots]
PrefixEvents == [kind : {"insert", "remove_backend"}, origin : Members, host : Hosts]
Events == LoadEvents \cup PrefixEvents

Trees == SUBSET Hosts
Views == [Members -> Snapshots \cup {Unseen}]

(* Event e reports the load of replica p.                                  *)
Reports(e, p) == e.kind = "load" /\ e.origin = p

LEMMA EventKinds ==
  ASSUME NEW e \in Events
  PROVE  /\ e.origin \in Members
         /\ e.kind = "load" => e.snap \in Snapshots /\ e.snap.ver \in Nat
         /\ e.kind # "load" => e.host \in Hosts /\ e.kind \in {"insert", "remove_backend"}
<1>1. CASE e \in LoadEvents
  BY <1>1 DEF LoadEvents, Snapshots
<1>2. CASE e \in PrefixEvents
  BY <1>2 DEF PrefixEvents
<1>3. QED
  BY <1>1, <1>2 DEF Events

-----------------------------------------------------------------------------
(* The two folds of sync(), as loops over the events.                      *)

ViewAfter(u, v, s) ==
  /\ u[0] = v
  /\ \A k \in 1 .. Len(s) : u[k] = apply(u[k - 1], s[k])

LEMMA ApplyType ==
  ASSUME NEW v \in Views, NEW e \in Events
  PROVE  apply(v, e) \in Views
BY EventKinds DEF apply, Views

LEMMA ApplyIsLoop ==
  ASSUME NEW v \in Views, NEW s \in Seq(Events)
  PROVE  \E u \in [0 .. Len(s) -> Views] : ViewAfter(u, v, s) /\ FoldLeft(apply, v, s) = u[Len(s)]
<1> DEFINE F == [x \in Views \X Events |-> apply(x[1], x[2])]
           Loop(g) == g = [S \in SUBSET DOMAIN s |->
                             IF S = {} THEN v ELSE apply(g[S \ {Max(S)}], s[Max(S)])]
<1>1. F \in [Views \X Events -> Views] /\ \A x \in Views, e \in Events : F[<<x, e>>] = apply(x, e)
  BY ApplyType
<1>2. FoldLeft(apply, v, s) = (CHOOSE g : Loop(g))[DOMAIN s]
  BY DEF FoldLeft, MapThenFoldSet
<1> HIDE DEF F
<1>3. \E g : Loop(g)
  <2>1. PICK g \in [SUBSET DOMAIN s -> Views] : IsFold(g, F, v, s)
    BY <1>1, FoldExists
  <2>2. ASSUME NEW S \in SUBSET DOMAIN s, S # {}
        PROVE  F[<<g[S \ {Max(S)}], s[Max(S)]>>] = apply(g[S \ {Max(S)}], s[Max(S)])
    <3>1. PICK m : m = Max(S)
      OBVIOUS
    <3>2. m \in DOMAIN s
      <4>1. DOMAIN s = 1 .. Len(s) /\ Len(s) \in Nat /\ S \in SUBSET (0 .. Len(s))
        OBVIOUS
      <4>2. QED
        BY <2>2, <3>1, <4>1, MaxIsGreatest
    <3>3. g[S \ {m}] \in Views /\ s[m] \in Events
      BY <3>2
    <3>4. QED
      BY <1>1, <3>1, <3>3
  <2>3. Loop(g)
    BY <2>1, <2>2 DEF IsFold
  <2>4. QED
    BY <2>3
<1>4. PICK g : g = CHOOSE x : Loop(x)
  OBVIOUS
<1> HIDE DEF Loop
<1>5. Loop(g)
  BY <1>3, <1>4
<1>6. PICK u : u = [k \in 0 .. Len(s) |-> g[1 .. k]]
  OBVIOUS
<1>7. u[0] = v /\ \A k \in 1 .. Len(s) : u[k] = apply(u[k - 1], s[k])
  <2>1. u[0] = v
    <3>1. 1 .. 0 = {} /\ {} \in SUBSET DOMAIN s /\ 0 \in 0 .. Len(s)
      OBVIOUS
    <3>2. QED
      BY <1>5, <1>6, <3>1 DEF Loop
  <2>2. ASSUME NEW k \in 1 .. Len(s) PROVE u[k] = apply(u[k - 1], s[k])
    <3>1. 1 .. k \in SUBSET DOMAIN s /\ k \in Nat /\ k > 0 /\ k - 1 \in 0 .. Len(s) /\ k \in 0 .. Len(s)
      OBVIOUS
    <3>2. 1 .. k # {} /\ Max(1 .. k) = k /\ (1 .. k) \ {k} = 1 .. (k - 1)
      BY <3>1, LastPosition
    <3>3. g[1 .. k] = apply(g[1 .. (k - 1)], s[k])
      BY <1>5, <3>1, <3>2 DEF Loop
    <3>4. QED
      BY <1>6, <3>1, <3>3
  <2>3. QED
    BY <2>1, <2>2
<1>8. \A k \in 0 .. Len(s) : u[k] \in Views
  <2> DEFINE T == {k \in 0 .. Len(s) : u[k] \in Views}
  <2>1. Len(s) \in Nat /\ 0 \in 0 .. Len(s)
    OBVIOUS
  <2>2. 0 \in T
    BY <1>7, <2>1
  <2>3. ASSUME NEW k \in 1 .. Len(s), k - 1 \in T PROVE k \in T
    <3>1. u[k - 1] \in Views /\ s[k] \in Events /\ k \in 0 .. Len(s)
      BY <2>3
    <3>2. QED
      BY <1>7, <3>1, ApplyType
  <2>4. \A k \in 0 .. Len(s) : k \in T
    BY <2>1, <2>2, <2>3, UpToN
  <2>5. QED
    BY <2>4
<1>9. u \in [0 .. Len(s) -> Views] /\ ViewAfter(u, v, s)
  BY <1>6, <1>7, <1>8 DEF ViewAfter
<1>10. FoldLeft(apply, v, s) = u[Len(s)]
  <2>1. DOMAIN s = 1 .. Len(s) /\ Len(s) \in 0 .. Len(s)
    OBVIOUS
  <2>2. QED
    BY <1>2, <1>4, <1>6, <2>1
<1>11. QED
  BY <1>9, <1>10

TreeAfter(u, v, s) ==
  /\ u[0] = v
  /\ \A k \in 1 .. Len(s) : u[k] = applyPrefix(u[k - 1], s[k])

LEMMA ApplyPrefixType ==
  ASSUME NEW v \in Trees, NEW e \in Events
  PROVE  applyPrefix(v, e) \in Trees
BY EventKinds DEF applyPrefix, Trees

LEMMA ApplyPrefixIsLoop ==
  ASSUME NEW v \in Trees, NEW s \in Seq(Events)
  PROVE  \E u \in [0 .. Len(s) -> Trees] : TreeAfter(u, v, s) /\ FoldLeft(applyPrefix, v, s) = u[Len(s)]
<1> DEFINE F == [x \in Trees \X Events |-> applyPrefix(x[1], x[2])]
           Loop(g) == g = [S \in SUBSET DOMAIN s |->
                             IF S = {} THEN v ELSE applyPrefix(g[S \ {Max(S)}], s[Max(S)])]
<1>1. F \in [Trees \X Events -> Trees] /\ \A x \in Trees, e \in Events : F[<<x, e>>] = applyPrefix(x, e)
  BY ApplyPrefixType
<1>2. FoldLeft(applyPrefix, v, s) = (CHOOSE g : Loop(g))[DOMAIN s]
  BY DEF FoldLeft, MapThenFoldSet
<1> HIDE DEF F
<1>3. \E g : Loop(g)
  <2>1. PICK g \in [SUBSET DOMAIN s -> Trees] : IsFold(g, F, v, s)
    BY <1>1, FoldExists
  <2>2. ASSUME NEW S \in SUBSET DOMAIN s, S # {}
        PROVE  F[<<g[S \ {Max(S)}], s[Max(S)]>>] = applyPrefix(g[S \ {Max(S)}], s[Max(S)])
    <3>1. PICK m : m = Max(S)
      OBVIOUS
    <3>2. m \in DOMAIN s
      <4>1. DOMAIN s = 1 .. Len(s) /\ Len(s) \in Nat /\ S \in SUBSET (0 .. Len(s))
        OBVIOUS
      <4>2. QED
        BY <2>2, <3>1, <4>1, MaxIsGreatest
    <3>3. g[S \ {m}] \in Trees /\ s[m] \in Events
      BY <3>2
    <3>4. QED
      BY <1>1, <3>1, <3>3
  <2>3. Loop(g)
    BY <2>1, <2>2 DEF IsFold
  <2>4. QED
    BY <2>3
<1>4. PICK g : g = CHOOSE x : Loop(x)
  OBVIOUS
<1> HIDE DEF Loop
<1>5. Loop(g)
  BY <1>3, <1>4
<1>6. PICK u : u = [k \in 0 .. Len(s) |-> g[1 .. k]]
  OBVIOUS
<1>7. u[0] = v /\ \A k \in 1 .. Len(s) : u[k] = applyPrefix(u[k - 1], s[k])
  <2>1. u[0] = v
    <3>1. 1 .. 0 = {} /\ {} \in SUBSET DOMAIN s /\ 0 \in 0 .. Len(s)
      OBVIOUS
    <3>2. QED
      BY <1>5, <1>6, <3>1 DEF Loop
  <2>2. ASSUME NEW k \in 1 .. Len(s) PROVE u[k] = applyPrefix(u[k - 1], s[k])
    <3>1. 1 .. k \in SUBSET DOMAIN s /\ k \in Nat /\ k > 0 /\ k - 1 \in 0 .. Len(s) /\ k \in 0 .. Len(s)
      OBVIOUS
    <3>2. 1 .. k # {} /\ Max(1 .. k) = k /\ (1 .. k) \ {k} = 1 .. (k - 1)
      BY <3>1, LastPosition
    <3>3. g[1 .. k] = applyPrefix(g[1 .. (k - 1)], s[k])
      BY <1>5, <3>1, <3>2 DEF Loop
    <3>4. QED
      BY <1>6, <3>1, <3>3
  <2>3. QED
    BY <2>1, <2>2
<1>8. \A k \in 0 .. Len(s) : u[k] \in Trees
  <2> DEFINE T == {k \in 0 .. Len(s) : u[k] \in Trees}
  <2>1. Len(s) \in Nat /\ 0 \in 0 .. Len(s)
    OBVIOUS
  <2>2. 0 \in T
    BY <1>7, <2>1
  <2>3. ASSUME NEW k \in 1 .. Len(s), k - 1 \in T PROVE k \in T
    <3>1. u[k - 1] \in Trees /\ s[k] \in Events /\ k \in 0 .. Len(s)
      BY <2>3
    <3>2. QED
      BY <1>7, <3>1, ApplyPrefixType
  <2>4. \A k \in 0 .. Len(s) : k \in T
    BY <2>1, <2>2, <2>3, UpToN
  <2>5. QED
    BY <2>4
<1>9. u \in [0 .. Len(s) -> Trees] /\ TreeAfter(u, v, s)
  BY <1>6, <1>7, <1>8 DEF TreeAfter
<1>10. FoldLeft(applyPrefix, v, s) = u[Len(s)]
  <2>1. DOMAIN s = 1 .. Len(s) /\ Len(s) \in 0 .. Len(s)
    OBVIOUS
  <2>2. QED
    BY <1>2, <1>4, <1>6, <2>1
<1>11. QED
  BY <1>9, <1>10

-----------------------------------------------------------------------------
(* What the loops leave.                                                   *)

(* After n events w shows of p the last report among them, or what v showed. *)
Shows(w, v, s, n, p) ==
  \/ w[p] = v[p] /\ \A i \in 1 .. n : ~Reports(s[i], p)
  \/ \E i \in 1 .. n : /\ Reports(s[i], p) /\ w[p] = s[i].snap
                        /\ \A j \in 1 .. n : j > i => ~Reports(s[j], p)

LEMMA ShowsStep ==
  ASSUME NEW w \in Views, NEW v \in Views, NEW s \in Seq(Events), NEW k \in 1 .. Len(s),
         NEW p \in Members, Shows(w, v, s, k - 1, p)
  PROVE  Shows(apply(w, s[k]), v, s, k, p)
<1>0. s[k] \in Events
  OBVIOUS
<1>1. CASE Reports(s[k], p)
  <2>1. apply(w, s[k])[p] = s[k].snap
    BY <1>1 DEF apply, Reports, Views
  <2>2. k \in 1 .. k /\ \A j \in 1 .. k : ~(j > k)
    OBVIOUS
  <2>3. QED
    BY <1>1, <2>1, <2>2 DEF Shows
<1>2. CASE ~Reports(s[k], p)
  <2>1. apply(w, s[k])[p] = w[p]
    BY <1>0, <1>2 DEF apply, Reports, Views
  <2>2. \A i \in 1 .. k : i = k \/ i \in 1 .. (k - 1)
    OBVIOUS
  <2>3. CASE w[p] = v[p] /\ \A i \in 1 .. (k - 1) : ~Reports(s[i], p)
    BY <1>2, <2>1, <2>2, <2>3 DEF Shows
  <2>4. CASE \E i \in 1 .. (k - 1) : /\ Reports(s[i], p) /\ w[p] = s[i].snap
                                    /\ \A j \in 1 .. (k - 1) : j > i => ~Reports(s[j], p)
    <3>1. PICK i \in 1 .. (k - 1) : /\ Reports(s[i], p) /\ w[p] = s[i].snap
                                   /\ \A j \in 1 .. (k - 1) : j > i => ~Reports(s[j], p)
      BY <2>4
    <3>2. i \in 1 .. k /\ \A j \in 1 .. k : j > i => ~Reports(s[j], p)
      BY <1>2, <2>2, <3>1
    <3>3. QED
      BY <2>1, <3>1, <3>2 DEF Shows
  <2>5. QED
    BY <2>3, <2>4 DEF Shows
<1>3. QED
  BY <1>1, <1>2

LEMMA LastReportWins ==
  ASSUME NEW v \in Views, NEW s \in Seq(Events)
  PROVE  /\ FoldLeft(apply, v, s) \in Views
         /\ \A p \in Members : Shows(FoldLeft(apply, v, s), v, s, Len(s), p)
<1>1. PICK u \in [0 .. Len(s) -> Views] : ViewAfter(u, v, s) /\ FoldLeft(apply, v, s) = u[Len(s)]
  BY ApplyIsLoop
<1>2. Len(s) \in Nat /\ 0 \in 0 .. Len(s) /\ Len(s) \in 0 .. Len(s)
  OBVIOUS
<1>3. ASSUME NEW p \in Members PROVE Shows(u[Len(s)], v, s, Len(s), p)
  <2> DEFINE T == {k \in 0 .. Len(s) : Shows(u[k], v, s, k, p)}
  <2>1. 0 \in T
    <3>1. u[0] = v /\ 1 .. 0 = {}
      BY <1>1 DEF ViewAfter
    <3>2. QED
      BY <1>2, <3>1 DEF Shows
  <2>2. ASSUME NEW k \in 1 .. Len(s), k - 1 \in T PROVE k \in T
    <3>1. k \in 0 .. Len(s) /\ u[k - 1] \in Views /\ Shows(u[k - 1], v, s, k - 1, p)
      BY <2>2
    <3>2. u[k] = apply(u[k - 1], s[k])
      BY <1>1 DEF ViewAfter
    <3>3. QED
      BY <3>1, <3>2, ShowsStep
  <2>3. \A k \in 0 .. Len(s) : k \in T
    BY <1>2, <2>1, <2>2, UpToN
  <2>4. QED
    BY <1>2, <2>3
<1>4. QED
  BY <1>1, <1>2, <1>3

(* The hosts that events insert.                                           *)
Inserted(s) == {s[i].host : i \in {j \in DOMAIN s : s[j].kind = "insert"}}

(* Without removals, a tree gains exactly what is inserted.                *)
LEMMA TreeGrows ==
  ASSUME NEW v \in Trees, NEW s \in Seq(Events)
  PROVE  /\ FoldLeft(applyPrefix, v, s) \in Trees
         /\ (\A i \in DOMAIN s : s[i].kind # "remove_backend")
              => FoldLeft(applyPrefix, v, s) = v \cup Inserted(s)
<1>1. PICK u \in [0 .. Len(s) -> Trees] :
        TreeAfter(u, v, s) /\ FoldLeft(applyPrefix, v, s) = u[Len(s)]
  BY ApplyPrefixIsLoop
<1>2. Len(s) \in Nat /\ 0 \in 0 .. Len(s) /\ Len(s) \in 0 .. Len(s) /\ DOMAIN s = 1 .. Len(s)
  OBVIOUS
<1>3. ASSUME \A i \in DOMAIN s : s[i].kind # "remove_backend" PROVE u[Len(s)] = v \cup Inserted(s)
  <2> DEFINE Upto(k) == {s[i].host : i \in {j \in 1 .. k : s[j].kind = "insert"}}
             T == {k \in 0 .. Len(s) : u[k] = v \cup Upto(k)}
  <2>1. 0 \in T
    <3>1. u[0] = v /\ 1 .. 0 = {}
      BY <1>1 DEF TreeAfter
    <3>2. QED
      BY <1>2, <3>1
  <2>2. ASSUME NEW k \in 1 .. Len(s), k - 1 \in T PROVE k \in T
    <3>1. k \in 0 .. Len(s) /\ u[k - 1] = v \cup Upto(k - 1)
      BY <2>2
    <3>2. u[k] = applyPrefix(u[k - 1], s[k])
      BY <1>1 DEF TreeAfter
    <3>3. s[k] \in Events /\ s[k].kind # "remove_backend"
      BY <1>2, <1>3
    <3>4. 1 .. k = (1 .. (k - 1)) \cup {k}
      OBVIOUS
    <3>5. CASE s[k].kind = "insert"
      <4>1. Upto(k) = Upto(k - 1) \cup {s[k].host}
        BY <3>4, <3>5
      <4>2. u[k] = u[k - 1] \cup {s[k].host}
        BY <3>2, <3>5 DEF applyPrefix
      <4>3. QED
        BY <3>1, <4>1, <4>2
    <3>6. CASE s[k].kind # "insert"
      <4>1. Upto(k) = Upto(k - 1)
        BY <3>4, <3>6
      <4>2. u[k] = u[k - 1]
        BY <3>2, <3>3, <3>6 DEF applyPrefix
      <4>3. QED
        BY <3>1, <4>1, <4>2
    <3>7. QED
      BY <3>5, <3>6
  <2> HIDE DEF Upto
  <2>3. \A k \in 0 .. Len(s) : k \in T
    BY <1>2, <2>1, <2>2, UpToN
  <2>4. u[Len(s)] = v \cup Upto(Len(s))
    BY <1>2, <2>3
  <2>5. QED
    BY <1>2, <2>4 DEF Upto, Inserted
<1>4. QED
  BY <1>1, <1>2, <1>3

-----------------------------------------------------------------------------
(* The order of the reports of one replica p along lists of events.        *)

Rising(a, p) ==
  \A i, j \in DOMAIN a : i < j /\ Reports(a[i], p) /\ Reports(a[j], p) => a[i].snap.ver <= a[j].snap.ver

Before(a, b, p) ==
  \A i \in DOMAIN a, j \in DOMAIN b :
    Reports(a[i], p) /\ Reports(b[j], p) => a[i].snap.ver <= b[j].snap.ver

Within(a, p, lo, hi) ==
  \A i \in DOMAIN a : Reports(a[i], p) => lo <= a[i].snap.ver /\ a[i].snap.ver <= hi

(* a has arrived, b will be sent later: together they rise from lo to hi.  *)
Ordered(a, b, p, lo, hi) ==
  /\ Rising(a, p) /\ Rising(b, p) /\ Before(a, b, p)
  /\ Within(a, p, lo, hi) /\ Within(b, p, lo, hi)

(* Every event of t is one of s.                                           *)
Among(t, s) == \A i \in DOMAIN t : \E j \in DOMAIN s : t[i] = s[j]

(* t is what is left of s when some events are dropped.                    *)
Thinned(t, s) ==
  \E f : /\ \A i \in DOMAIN t : f[i] \in DOMAIN s /\ t[i] = s[f[i]]
         /\ \A i, j \in DOMAIN t : i < j => f[i] < f[j]

LEMMA ThinnedIsAmong ==
  ASSUME NEW t \in Seq(Events), NEW s \in Seq(Events), Thinned(t, s)
  PROVE  Among(t, s)
BY DEF Thinned, Among

LEMMA ThinnedRises ==
  ASSUME NEW t \in Seq(Events), NEW s \in Seq(Events), Thinned(t, s), NEW p, Rising(s, p)
  PROVE  Rising(t, p)
<1>1. PICK f : /\ \A i \in DOMAIN t : f[i] \in DOMAIN s /\ t[i] = s[f[i]]
               /\ \A i, j \in DOMAIN t : i < j => f[i] < f[j]
  BY DEF Thinned
<1>2. QED
  BY <1>1 DEF Rising

(* The other two only look at which events there are.                      *)
LEMMA AmongBounds ==
  ASSUME NEW t \in Seq(Events), NEW s \in Seq(Events), Among(t, s), NEW p, NEW lo, NEW hi
  PROVE  /\ Within(s, p, lo, hi) => Within(t, p, lo, hi)
         /\ \A b \in Seq(Events) : Before(s, b, p) => Before(t, b, p)
         /\ \A b \in Seq(Events) : Before(b, s, p) => Before(b, t, p)
BY DEF Among, Within, Before

LEMMA FilterThins ==
  ASSUME NEW s \in Seq(Events), NEW g
  PROVE  /\ Foreign(g, s) \in Seq(Events) /\ Thinned(Foreign(g, s), s)
         /\ \A i \in DOMAIN Foreign(g, s) : Foreign(g, s)[i].origin # g
<1>1. PICK I : I = {i \in DOMAIN s : s[i].origin # g}
  OBVIOUS
<1>2. Foreign(g, s) = Kept(s, I)
  BY <1>1 DEF Foreign, Where
<1>3. PICK t \in Seq(Events) : t = Kept(s, I)
  BY KeptInOrder
<1>4. PICK f : Embedding(f, t, s, Len(s), I)
  BY <1>3, KeptInOrder
<1>5. DOMAIN s = 1 .. Len(s)
  OBVIOUS
<1>6. Thinned(t, s)
  BY <1>4, <1>5 DEF Embedding, Thinned
<1>7. \A i \in DOMAIN t : t[i].origin # g
  BY <1>1, <1>4 DEF Embedding
<1>8. QED
  BY <1>2, <1>3, <1>6, <1>7

LEMMA SubSeqThins ==
  ASSUME NEW s \in Seq(Events), NEW m \in Nat, m >= 1, NEW n \in Nat, n <= Len(s)
  PROVE  SubSeq(s, m, n) \in Seq(Events) /\ Thinned(SubSeq(s, m, n), s)
<1>1. PICK t : t = SubSeq(s, m, n)
  OBVIOUS
<1>2. t \in Seq(Events) /\ \A i \in DOMAIN t : i + m - 1 \in DOMAIN s /\ t[i] = s[i + m - 1] /\ i \in Nat
  BY <1>1
<1>3. PICK f : f = [i \in DOMAIN t |-> i + m - 1]
  OBVIOUS
<1>4. \A i \in DOMAIN t : f[i] = i + m - 1 /\ f[i] \in DOMAIN s /\ t[i] = s[f[i]]
  BY <1>2, <1>3
<1>5. \A i, j \in DOMAIN t : i < j => f[i] < f[j]
  BY <1>2, <1>4
<1>6. Thinned(t, s)
  BY <1>4, <1>5 DEF Thinned
<1>7. QED
  BY <1>1, <1>2, <1>6

(* Concatenation                                                           *)
LEMMA ConcatEvents ==
  ASSUME NEW a \in Seq(Events), NEW b \in Seq(Events)
  PROVE  /\ a \o b \in Seq(Events) /\ Len(a \o b) = Len(a) + Len(b)
         /\ \A i \in DOMAIN (a \o b) :
              \/ i \in DOMAIN a /\ (a \o b)[i] = a[i]
              \/ i > Len(a) /\ i - Len(a) \in DOMAIN b /\ (a \o b)[i] = b[i - Len(a)]
OBVIOUS

LEMMA ConcatOrder ==
  ASSUME NEW a \in Seq(Events), NEW b \in Seq(Events), NEW p
  PROVE  /\ Rising(a, p) /\ Rising(b, p) /\ Before(a, b, p) => Rising(a \o b, p)
         /\ \A lo, hi : Within(a, p, lo, hi) /\ Within(b, p, lo, hi) => Within(a \o b, p, lo, hi)
         /\ \A c \in Seq(Events) : Before(a, c, p) /\ Before(b, c, p) => Before(a \o b, c, p)
         /\ \A c \in Seq(Events) : Before(c, a, p) /\ Before(c, b, p) => Before(c, a \o b, p)
<1>1. PICK s \in Seq(Events) : s = a \o b
  BY ConcatEvents
<1>2. \A i \in DOMAIN s : \/ i \in DOMAIN a /\ s[i] = a[i] /\ i <= Len(a)
                          \/ i > Len(a) /\ i - Len(a) \in DOMAIN b /\ s[i] = b[i - Len(a)]
  BY <1>1, ConcatEvents
<1>3. ASSUME Rising(a, p), Rising(b, p), Before(a, b, p) PROVE Rising(s, p)
  <2> SUFFICES ASSUME NEW i \in DOMAIN s, NEW j \in DOMAIN s, i < j, Reports(s[i], p), Reports(s[j], p)
               PROVE  s[i].snap.ver <= s[j].snap.ver
    BY DEF Rising
  <2>0. i \in Nat /\ j \in Nat /\ Len(a) \in Nat
    OBVIOUS
  <2>1. CASE i \in DOMAIN a /\ s[i] = a[i] /\ j \in DOMAIN a /\ s[j] = a[j]
    BY <1>3, <2>1 DEF Rising
  <2>2. CASE i \in DOMAIN a /\ s[i] = a[i] /\ j - Len(a) \in DOMAIN b /\ s[j] = b[j - Len(a)]
    BY <1>3, <2>2 DEF Before
  <2>3. CASE i > Len(a) /\ i - Len(a) \in DOMAIN b /\ s[i] = b[i - Len(a)]
    <3>1. j > Len(a) /\ ~(j <= Len(a)) /\ i - Len(a) < j - Len(a)
      BY <2>0, <2>3
    <3>2. j - Len(a) \in DOMAIN b /\ s[j] = b[j - Len(a)]
      BY <1>2, <3>1
    <3>3. QED
      BY <1>3, <2>3, <3>1, <3>2 DEF Rising
  <2>4. QED
    BY <1>2, <2>1, <2>2, <2>3
<1>4. \A lo, hi : Within(a, p, lo, hi) /\ Within(b, p, lo, hi) => Within(s, p, lo, hi)
  BY <1>2 DEF Within
<1>5. \A c \in Seq(Events) : Before(a, c, p) /\ Before(b, c, p) => Before(s, c, p)
  BY <1>2 DEF Before
<1>6. \A c \in Seq(Events) : Before(c, a, p) /\ Before(c, b, p) => Before(c, s, p)
  BY <1>2 DEF Before
<1>7. QED
  BY <1>1, <1>3, <1>4, <1>5, <1>6

(* Events that report nothing of p are always in order.                    *)
Silent(a, p) == \A i \in DOMAIN a : ~Reports(a[i], p)

LEMMA SilentOrder ==
  ASSUME NEW a \in Seq(Events), NEW p, Silent(a, p)
  PROVE  /\ Rising(a, p)
         /\ \A lo, hi : Within(a, p, lo, hi)
         /\ \A b \in Seq(Events) : Before(a, b, p) /\ Before(b, a, p)
BY DEF Silent, Rising, Within, Before

-----------------------------------------------------------------------------
(* The invariant                                                           *)

FleetTypeOK ==
  /\ transport \in {"memory", "redis", "gossip"} /\ losses \in Nat /\ removals \in BOOLEAN
  /\ mine \in [Members -> Snapshots]
  /\ view \in [Members -> Views]
  /\ held \in [Members -> Trees] /\ everHeld \in Trees
  /\ outbox \in [Members -> Seq(Events)]
  /\ inbox \in [Members -> Seq(Events)]
  /\ late \in SUBSET (Members \X Seq(Events))

(* No post can be overtaken.                                               *)
InOrder == transport # "gossip" \/ losses = 0

OutboxIsOwn == \A g \in Members : \A i \in DOMAIN outbox[g] : outbox[g][i].origin = g

(* Only Redis echoes; the other transports filter before the inbox.        *)
NoEcho == transport # "redis" => \A g \in Members : \A i \in DOMAIN inbox[g] : inbox[g][i].origin # g

(* What g has read, what waits for it and what p still has to send are     *)
(* snapshots of p in the order p took them.                                *)
StreamsInOrder ==
  InOrder =>
    /\ late = {}
    /\ newest \in [Members -> [Members -> Nat]]
    /\ \A g, p \in Members :
         /\ view[g][p].ver = newest[g][p] /\ newest[g][p] <= mine[p].ver
         /\ Ordered(inbox[g], outbox[p], p, newest[g][p], mine[p].ver)

(* On the in-memory bus every insertion is in a tree or on its way there.  *)
InsertsArrive ==
  transport = "memory" =>
    /\ \A g \in Members : outbox[g] = <<>>
    /\ ~removals => \A g \in Members :
         /\ \A i \in DOMAIN inbox[g] : inbox[g][i].kind # "remove_backend"
         /\ held[g] \cup Inserted(inbox[g]) = everHeld

FleetInv ==
  FleetTypeOK /\ OutboxIsOwn /\ NoEcho /\ OwnLoadCountedOnce /\ StreamsInOrder /\ InsertsArrive

LEMMA FreshIsSnapshot ==
  ASSUME NEW n \in Nat PROVE Fresh(n) \in Snapshots /\ Fresh(n).ver = n
BY DEF Fresh, Snapshots

LEMMA UnseenVer == Unseen.ver = 0
BY DEF Unseen

LEMMA EmptyOrder ==
  ASSUME NEW p, NEW lo, NEW hi
  PROVE  Ordered(<<>>, <<>>, p, lo, hi)
<1>1. DOMAIN <<>> = {}
  OBVIOUS
<1>2. QED
  BY <1>1, Zenon DEF Ordered, Rising, Before, Within

LEMMA FleetInitInv == FleetInit => FleetInv
<1> SUFFICES ASSUME FleetInit PROVE FleetInv
  OBVIOUS
<1>1. FleetTypeOK
  <2>1. transport \in {"memory", "redis", "gossip"} /\ losses \in Nat /\ removals \in BOOLEAN
    BY FleetAssumption DEF FleetInit
  <2>2. mine \in [Members -> Snapshots]
    BY FreshIsSnapshot DEF FleetInit
  <2>3. view \in [Members -> Views]
    BY DEF FleetInit, Views
  <2>4. held \in [Members -> Trees] /\ everHeld \in Trees
    BY DEF FleetInit, Trees
  <2>5. outbox \in [Members -> Seq(Events)] /\ inbox \in [Members -> Seq(Events)]
    BY DEF FleetInit
  <2>6. late \in SUBSET (Members \X Seq(Events))
    BY DEF FleetInit
  <2>7. QED
    BY <2>1, <2>2, <2>3, <2>4, <2>5, <2>6 DEF FleetTypeOK
<1>2. \A g \in Members : outbox[g] = <<>> /\ inbox[g] = <<>> /\ DOMAIN <<>> = {}
  BY DEF FleetInit
<1>3. OutboxIsOwn /\ NoEcho
  BY <1>2 DEF OutboxIsOwn, NoEcho
<1>4. OwnLoadCountedOnce
  BY DEF FleetInit, OwnLoadCountedOnce
<1>5. StreamsInOrder
  <2>1. late = {} /\ newest \in [Members -> [Members -> Nat]]
    BY DEF FleetInit
  <2>2. ASSUME NEW g \in Members, NEW p \in Members
        PROVE  /\ view[g][p].ver = newest[g][p] /\ newest[g][p] <= mine[p].ver
               /\ Ordered(inbox[g], outbox[p], p, newest[g][p], mine[p].ver)
    <3>1. view[g][p] = Unseen /\ newest[g][p] = 0
      BY DEF FleetInit
    <3>2. mine[p].ver = 1
      BY FreshIsSnapshot DEF FleetInit
    <3>3. QED
      BY <1>2, <3>1, <3>2, UnseenVer, EmptyOrder
  <2>3. QED
    BY <2>1, <2>2 DEF StreamsInOrder
<1>6. InsertsArrive
  <2>1. Inserted(<<>>) = {}
    BY <1>2 DEF Inserted
  <2>2. held = [g \in Members |-> {}] /\ everHeld = {}
    BY DEF FleetInit
  <2>3. QED
    BY <1>2, <2>1, <2>2 DEF InsertsArrive
<1>7. QED
  BY <1>1, <1>3, <1>4, <1>5, <1>6 DEF FleetInv

-----------------------------------------------------------------------------
(* Reading: what the loop read is at least as new as what it showed.       *)

NewestOf(n, s, p) ==
  Max({n} \cup {e.snap.ver : e \in {d \in ToSet(s) : d.kind = "load" /\ d.origin = p}})

LEMMA ReadInOrder ==
  ASSUME NEW v \in Views, NEW s \in Seq(Events), NEW p \in Members, NEW n \in Nat, NEW hi \in Nat,
         v[p].ver = n, n <= hi, Rising(s, p), Within(s, p, n, hi)
  PROVE  /\ NewestOf(n, s, p) \in Nat /\ NewestOf(n, s, p) <= hi
         /\ FoldLeft(apply, v, s)[p].ver = NewestOf(n, s, p)
         /\ \/ NewestOf(n, s, p) = n
            \/ \E i \in DOMAIN s : Reports(s[i], p) /\ NewestOf(n, s, p) = s[i].snap.ver
<1>1. PICK w \in Views : w = FoldLeft(apply, v, s) /\ Shows(w, v, s, Len(s), p)
  BY LastReportWins
<1>2. DOMAIN s = 1 .. Len(s) /\ \A i \in DOMAIN s : s[i] \in Events
  OBVIOUS
<1>3. PICK A : A = {n} \cup {e.snap.ver : e \in {d \in ToSet(s) : d.kind = "load" /\ d.origin = p}}
  OBVIOUS
<1>4. \A x : x \in A <=> x = n \/ \E i \in DOMAIN s : Reports(s[i], p) /\ x = s[i].snap.ver
  BY <1>3 DEF ToSet, Reports
<1>5. NewestOf(n, s, p) = CHOOSE x \in A : \A y \in A : x >= y
  BY <1>3 DEF NewestOf, Max
<1>6. \A x \in A : x \in Nat
  BY <1>2, <1>4, EventKinds DEF Reports
<1>7. CASE w[p] = v[p] /\ \A i \in 1 .. Len(s) : ~Reports(s[i], p)
  <2>1. n \in A /\ \A y \in A : n >= y /\ y = n
    BY <1>2, <1>4, <1>7
  <2>2. NewestOf(n, s, p) = n
    BY <1>5, <2>1
  <2>3. QED
    BY <1>1, <1>7, <2>2
<1>8. CASE \E i \in 1 .. Len(s) : /\ Reports(s[i], p) /\ w[p] = s[i].snap
                                 /\ \A j \in 1 .. Len(s) : j > i => ~Reports(s[j], p)
  <2>1. PICK i \in 1 .. Len(s) : /\ Reports(s[i], p) /\ w[p] = s[i].snap
                                /\ \A j \in 1 .. Len(s) : j > i => ~Reports(s[j], p)
    BY <1>8
  <2>2. PICK m : m = s[i].snap.ver
    OBVIOUS
  <2>3. m \in A /\ m \in Nat /\ n <= m /\ m <= hi
    BY <1>2, <1>4, <1>6, <2>1, <2>2 DEF Within
  <2>4. ASSUME NEW j \in DOMAIN s, Reports(s[j], p) PROVE s[j].snap.ver <= m
    <3>1. j = i \/ j < i
      BY <1>2, <2>1, <2>4
    <3>2. CASE j < i
      BY <1>2, <2>1, <2>2, <2>4, <3>2 DEF Rising
    <3>3. CASE j = i
      BY <2>2, <2>3, <3>3
    <3>4. QED
      BY <3>1, <3>2, <3>3
  <2>5. \A y \in A : m >= y
    BY <1>4, <1>6, <2>3, <2>4
  <2>6. NewestOf(n, s, p) = m
    <3>1. ASSUME NEW y \in A, \A z \in A : y >= z PROVE y = m
      <4>1. y >= m /\ m >= y
        BY <2>3, <2>5, <3>1
      <4>2. y \in Nat /\ m \in Nat
        BY <1>6, <2>3
      <4>3. QED
        BY ONLY <4>1, <4>2
    <3>2. QED
      BY <1>5, <2>3, <2>5, <3>1
  <2>7. QED
    BY <1>1, <1>2, <2>1, <2>2, <2>3, <2>6
<1>9. QED
  BY <1>1, <1>7, <1>8 DEF Shows

(* What is still to come is at least as new as what was read.              *)
LEMMA ReadThenOrdered ==
  ASSUME NEW v \in Views, NEW c \in Seq(Events), NEW s \in Seq(Events), NEW b \in Seq(Events),
         NEW p \in Members, NEW n \in Nat, NEW hi \in Nat,
         v[p].ver = n, n <= hi, Ordered(c, b, p, n, hi), Thinned(s, c)
  PROVE  /\ NewestOf(n, s, p) \in Nat /\ NewestOf(n, s, p) <= hi
         /\ FoldLeft(apply, v, s)[p].ver = NewestOf(n, s, p)
         /\ Ordered(<<>>, b, p, NewestOf(n, s, p), hi)
<1>1. Rising(c, p) /\ Before(c, b, p) /\ Within(c, p, n, hi) /\ Rising(b, p) /\ Within(b, p, n, hi)
  BY DEF Ordered
<1>2. Rising(s, p)
  BY <1>1, ThinnedRises
<1>3. Before(s, b, p) /\ Within(s, p, n, hi)
  BY <1>1, ThinnedIsAmong, AmongBounds
<1>4. PICK m : m = NewestOf(n, s, p)
  OBVIOUS
<1>5. /\ m \in Nat /\ m <= hi /\ FoldLeft(apply, v, s)[p].ver = m
      /\ m = n \/ \E i \in DOMAIN s : Reports(s[i], p) /\ m = s[i].snap.ver
  <2>1. /\ NewestOf(n, s, p) \in Nat /\ NewestOf(n, s, p) <= hi
        /\ FoldLeft(apply, v, s)[p].ver = NewestOf(n, s, p)
        /\ \/ NewestOf(n, s, p) = n
           \/ \E i \in DOMAIN s : Reports(s[i], p) /\ NewestOf(n, s, p) = s[i].snap.ver
    BY <1>2, <1>3, ReadInOrder
  <2>2. QED
    BY <1>4, <2>1
<1>6. Within(b, p, m, hi)
  <2>1. CASE m = n
    BY <1>1, <2>1
  <2>2. CASE \E i \in DOMAIN s : Reports(s[i], p) /\ m = s[i].snap.ver
    BY <1>1, <1>3, <2>2 DEF Within, Before
  <2>3. QED
    BY <1>5, <2>1, <2>2
<1>7. Silent(<<>>, p) /\ <<>> \in Seq(Events)
  BY DEF Silent
<1>8. Rising(<<>>, p) /\ Before(<<>>, b, p) /\ Within(<<>>, p, m, hi)
  BY <1>7, SilentOrder
<1>9. Ordered(<<>>, b, p, m, hi)
  BY <1>1, <1>6, <1>8 DEF Ordered
<1>10. QED
  BY <1>4, <1>5, <1>9

(* Sending: g moves events from its outbox, and its load, to an inbox.     *)
LEMMA SendKeepsOrder ==
  ASSUME NEW a \in Seq(Events), NEW o \in Seq(Events), NEW e \in Events,
         NEW sent \in Seq(Events), NEW left \in Seq(Events),
         NEW g \in Members, NEW lo \in Nat, NEW hi \in Nat, lo <= hi,
         Ordered(a, o, g, lo, hi), Reports(e, g) => e.snap.ver = hi,
         Thinned(sent \o left, o \o <<e>>)
  PROVE  Ordered(a \o sent, left, g, lo, hi)
<1>1. PICK x \in Seq(Events) : x = <<e>>
  <2>1. <<e>> \in Seq(Events)
    OBVIOUS
  <2>2. QED
    BY <2>1
<1>2. PICK w \in Seq(Events) : w = o \o x
  <2>1. o \o x \in Seq(Events)
    OBVIOUS
  <2>2. QED
    BY <2>1
<1>3. PICK t \in Seq(Events) : t = sent \o left
  <2>1. sent \o left \in Seq(Events)
    OBVIOUS
  <2>2. QED
    BY <2>1
<1>4. /\ Rising(a, g) /\ Rising(o, g) /\ Before(a, o, g)
      /\ Within(a, g, lo, hi) /\ Within(o, g, lo, hi)
  BY DEF Ordered
<1>5. Rising(x, g) /\ Within(x, g, lo, hi) /\ Before(o, x, g) /\ Before(a, x, g)
  <2>1. DOMAIN x = {1} /\ x[1] = e
    BY <1>1
  <2>2. Rising(x, g)
    BY <2>1 DEF Rising
  <2>3. Within(x, g, lo, hi)
    BY <2>1 DEF Within
  <2>4. Before(o, x, g) /\ Before(a, x, g)
    BY <1>4, <2>1 DEF Before, Within
  <2>5. QED
    BY <2>2, <2>3, <2>4
<1>6. Rising(w, g) /\ Within(w, g, lo, hi) /\ Before(a, w, g)
  BY <1>2, <1>4, <1>5, ConcatOrder
<1>7. Thinned(t, w)
  BY <1>1, <1>2, <1>3
<1>8. Rising(t, g)
  BY <1>6, <1>7, ThinnedRises
<1>9. Within(t, g, lo, hi) /\ Before(a, t, g)
  BY <1>6, <1>7, ThinnedIsAmong, AmongBounds
<1>10. /\ \A i \in DOMAIN sent : i \in DOMAIN t /\ t[i] = sent[i] /\ i <= Len(sent) /\ i \in Nat
       /\ \A i \in DOMAIN left : i + Len(sent) \in DOMAIN t /\ t[i + Len(sent)] = left[i] /\ i \in Nat /\ i >= 1
       /\ Len(sent) \in Nat
  BY <1>3, SMTT(20)
<1>11. Rising(sent, g)
  BY <1>8, <1>10 DEF Rising
<1>12. Rising(left, g)
  <2> SUFFICES ASSUME NEW i \in DOMAIN left, NEW j \in DOMAIN left, i < j,
                      Reports(left[i], g), Reports(left[j], g)
               PROVE  left[i].snap.ver <= left[j].snap.ver
    BY DEF Rising
  <2>1. i + Len(sent) < j + Len(sent)
    BY <1>10
  <2>2. QED
    BY <1>8, <1>10, <2>1 DEF Rising
<1>13. Before(sent, left, g)
  <2> SUFFICES ASSUME NEW i \in DOMAIN sent, NEW j \in DOMAIN left, Reports(sent[i], g), Reports(left[j], g)
               PROVE  sent[i].snap.ver <= left[j].snap.ver
    BY DEF Before
  <2>1. i < j + Len(sent)
    BY <1>10
  <2>2. QED
    BY <1>8, <1>10, <2>1 DEF Rising
<1>14. /\ Within(sent, g, lo, hi) /\ Within(left, g, lo, hi)
       /\ Before(a, sent, g) /\ Before(a, left, g)
  <2>1. Among(sent, t) /\ Among(left, t)
    BY <1>10 DEF Among
  <2>2. QED
    BY <1>9, <2>1, AmongBounds
<1>15. Rising(a \o sent, g) /\ Within(a \o sent, g, lo, hi) /\ Before(a \o sent, left, g)
  BY <1>4, <1>11, <1>13, <1>14, ConcatOrder
<1>16. QED
  BY <1>12, <1>14, <1>15 DEF Ordered

(* What others send changes nothing in the order of p's reports.           *)
LEMMA OthersKeepOrder ==
  ASSUME NEW a \in Seq(Events), NEW b \in Seq(Events), NEW sent \in Seq(Events),
         NEW p \in Members, NEW lo, NEW hi, Ordered(a, b, p, lo, hi), Silent(sent, p)
  PROVE  Ordered(a \o sent, b, p, lo, hi) /\ Ordered(a, b \o sent, p, lo, hi)
<1>1. /\ Rising(a, p) /\ Rising(b, p) /\ Before(a, b, p)
      /\ Within(a, p, lo, hi) /\ Within(b, p, lo, hi)
  BY DEF Ordered
<1>2. /\ Rising(sent, p) /\ Within(sent, p, lo, hi)
      /\ \A c \in Seq(Events) : Before(sent, c, p) /\ Before(c, sent, p)
  BY SilentOrder
<1>3. Rising(a \o sent, p) /\ Within(a \o sent, p, lo, hi) /\ Before(a \o sent, b, p)
  BY <1>1, <1>2, ConcatOrder
<1>4. Rising(b \o sent, p) /\ Within(b \o sent, p, lo, hi) /\ Before(a, b \o sent, p)
  BY <1>1, <1>2, ConcatOrder
<1>5. QED
  BY <1>1, <1>3, <1>4 DEF Ordered

(* Dropping part of what arrived keeps the order.                          *)
LEMMA DroppedKeepsOrder ==
  ASSUME NEW a \in Seq(Events), NEW b \in Seq(Events), NEW t \in Seq(Events),
         NEW p, NEW lo, NEW hi, Ordered(a, b, p, lo, hi), Thinned(t, a)
  PROVE  Ordered(t, b, p, lo, hi)
<1>1. /\ Rising(a, p) /\ Rising(b, p) /\ Before(a, b, p)
      /\ Within(a, p, lo, hi) /\ Within(b, p, lo, hi)
  BY DEF Ordered
<1>2. Rising(t, p)
  BY <1>1, ThinnedRises
<1>3. Within(t, p, lo, hi) /\ Before(t, b, p)
  BY <1>1, ThinnedIsAmong, AmongBounds
<1>4. QED
  BY <1>1, <1>2, <1>3 DEF Ordered

-----------------------------------------------------------------------------
(* A pass of the loop                                                      *)

LEMMA LoadEventIs ==
  ASSUME FleetTypeOK, NEW g \in Members
  PROVE  /\ LoadEvent(g) \in Events /\ LoadEvent(g).origin = g /\ LoadEvent(g).kind = "load"
         /\ Reports(LoadEvent(g), g) /\ LoadEvent(g).snap.ver = mine[g].ver
         /\ mine[g].ver \in Nat
<1>1. mine[g] \in Snapshots
  BY DEF FleetTypeOK
<1>2. LoadEvent(g) \in LoadEvents
  BY <1>1 DEF LoadEvent, LoadEvents
<1>3. QED
  BY <1>1, <1>2 DEF LoadEvent, Events, Reports, Snapshots

(* What g sends is what was in its outbox and its load: its own events.    *)
LEMMA OutIsOwn ==
  ASSUME FleetTypeOK, OutboxIsOwn, NEW g \in Members
  PROVE  /\ outbox[g] \o publish_load(g) \in Seq(Events)
         /\ publish_load(g) = <<LoadEvent(g)>>
         /\ \A i \in DOMAIN (outbox[g] \o publish_load(g)) : (outbox[g] \o publish_load(g))[i].origin = g
<1>1. LoadEvent(g) \in Events /\ LoadEvent(g).origin = g
  BY LoadEventIs
<1>2. PICK e \in Events : e = LoadEvent(g)
  BY <1>1
<1>3. PICK o \in Seq(Events) : o = outbox[g] /\ \A i \in DOMAIN o : o[i].origin = g
  BY DEF FleetTypeOK, OutboxIsOwn
<1>4. PICK x \in Seq(Events) : x = <<e>>
  <2>1. <<e>> \in Seq(Events)
    OBVIOUS
  <2>2. QED
    BY <2>1
<1>5. DOMAIN x = {1} /\ x[1] = e
  BY <1>4
<1>6. /\ o \o x \in Seq(Events)
      /\ \A i \in DOMAIN (o \o x) :
           \/ i \in DOMAIN o /\ (o \o x)[i] = o[i]
           \/ i > Len(o) /\ i - Len(o) \in DOMAIN x /\ (o \o x)[i] = x[i - Len(o)]
  BY ConcatEvents, Zenon
<1>7. \A i \in DOMAIN (o \o x) : (o \o x)[i].origin = g
  <2>1. \A i \in DOMAIN x : x[i].origin = g
    BY <1>1, <1>2, <1>5
  <2>2. QED
    BY <1>3, <1>6, <2>1
<1>8. publish_load(g) = x
  BY <1>2, <1>4 DEF publish_load
<1>9. QED
  BY <1>2, <1>3, <1>4, <1>6, <1>7, <1>8

LEMMA SyncStreams ==
  ASSUME FleetInv, InOrder, NEW g \in Members,
         NEW sent \in [Members -> Seq(Events)], NEW left \in Seq(Events), NEW read \in Seq(Events),
         \A q \in Members : Thinned(sent[q] \o left, outbox[g] \o publish_load(g)),
         outbox' = [outbox EXCEPT ![g] = left], UNCHANGED mine,
         inbox' \in [Members -> Seq(Events)],
         \A q \in Members \ {g} : inbox'[q] = inbox[q] \o sent[q],
         \/ Applied(g, read) /\ Thinned(read, inbox[g] \o sent[g]) /\ inbox'[g] = <<>>
         \/ UNCHANGED <<view, newest>> /\ Thinned(inbox'[g], inbox[g] \o sent[g])
  PROVE  /\ newest' \in [Members -> [Members -> Nat]]
         /\ \A q, p \in Members :
              /\ view'[q][p].ver = newest'[q][p] /\ newest'[q][p] <= mine'[p].ver
              /\ Ordered(inbox'[q], outbox'[p], p, newest'[q][p], mine'[p].ver)
<1>0. /\ FleetTypeOK /\ OutboxIsOwn /\ newest \in [Members -> [Members -> Nat]]
      /\ \A q, p \in Members :
           /\ view[q][p].ver = newest[q][p] /\ newest[q][p] <= mine[p].ver
           /\ Ordered(inbox[q], outbox[p], p, newest[q][p], mine[p].ver)
  BY DEF FleetInv, StreamsInOrder
<1>1. /\ inbox \in [Members -> Seq(Events)] /\ outbox \in [Members -> Seq(Events)]
      /\ view \in [Members -> Views] /\ \A p \in Members : mine[p].ver \in Nat
  BY <1>0, LoadEventIs DEF FleetTypeOK
<1>2. outbox'[g] = left /\ \A p \in Members \ {g} : outbox'[p] = outbox[p]
  BY <1>1
<1>3. ASSUME NEW q \in Members, NEW p \in Members
      PROVE  Ordered(inbox[q] \o sent[q], outbox'[p], p, newest[q][p], mine[p].ver)
  <2>1. PICK a \in Seq(Events), x \in Seq(Events) : a = inbox[q] /\ x = sent[q]
    BY <1>1
  <2>2. newest[q][p] \in Nat /\ Ordered(a, outbox[p], p, newest[q][p], mine[p].ver)
    BY <1>0, <2>1
  <2>3. CASE p = g
    <3>1. PICK e \in Events : e = LoadEvent(g) /\ e.snap.ver = mine[g].ver
      BY <1>0, LoadEventIs
    <3>2. Thinned(x \o left, outbox[g] \o <<e>>)
      BY <1>0, <2>1, <3>1, OutIsOwn
    <3>3. Ordered(a \o x, left, g, newest[q][g], mine[g].ver)
      BY <1>0, <1>1, <2>2, <2>3, <3>1, <3>2, SendKeepsOrder
    <3>4. QED
      BY <1>2, <2>1, <2>3, <3>3
  <2>4. CASE p # g
    <3>1. Silent(x, p)
      <4>1. PICK w \in Seq(Events) :
              w = outbox[g] \o publish_load(g) /\ \A i \in DOMAIN w : w[i].origin = g
        BY <1>0, OutIsOwn
      <4>2. PICK t \in Seq(Events) : t = x \o left
        BY ConcatEvents
      <4>3. Among(t, w)
        BY <2>1, <4>1, <4>2, ThinnedIsAmong
      <4>4. \A i \in DOMAIN x : i \in DOMAIN t /\ t[i] = x[i]
        BY <4>2, SMTT(20)
      <4>5. ASSUME NEW i \in DOMAIN x PROVE x[i].origin = g
        <5>1. i \in DOMAIN t /\ t[i] = x[i]
          BY <4>4
        <5>2. PICK j \in DOMAIN w : t[i] = w[j]
          BY <4>3, <5>1 DEF Among
        <5>3. QED
          BY <4>1, <5>1, <5>2
      <4>6. QED
        BY <2>4, <4>5 DEF Silent, Reports
    <3>2. Ordered(a \o x, outbox[p], p, newest[q][p], mine[p].ver)
      BY <1>1, <2>2, <3>1, OthersKeepOrder
    <3>3. QED
      BY <1>2, <2>1, <2>4, <3>2
  <2>5. QED
    BY <2>3, <2>4
<1>4. ASSUME NEW q \in Members \ {g}, view'[q] = view[q], newest'[q] = newest[q], NEW p \in Members
      PROVE  /\ view'[q][p].ver = newest'[q][p] /\ newest'[q][p] <= mine'[p].ver
             /\ Ordered(inbox'[q], outbox'[p], p, newest'[q][p], mine'[p].ver)
  BY <1>0, <1>3, <1>4
<1>5. PICK c \in Seq(Events) : c = inbox[g] \o sent[g]
  BY <1>1, ConcatEvents
<1>6. CASE Applied(g, read) /\ Thinned(read, inbox[g] \o sent[g]) /\ inbox'[g] = <<>>
  <2>1. /\ view' = [view EXCEPT ![g] = FoldLeft(apply, view[g], read)]
        /\ newest' = [newest EXCEPT ![g] = [p \in Members |-> NewestOf(newest[g][p], read, p)]]
    BY <1>6 DEF Applied, NewestOf
  <2>2. /\ \A q \in Members \ {g} : view'[q] = view[q] /\ newest'[q] = newest[q]
        /\ view'[g] = FoldLeft(apply, view[g], read)
        /\ \A p \in Members : newest'[g][p] = NewestOf(newest[g][p], read, p)
    BY <1>0, <1>1, <2>1
  <2>3. ASSUME NEW p \in Members
        PROVE  /\ newest'[g][p] \in Nat /\ newest'[g][p] <= mine[p].ver
               /\ view'[g][p].ver = newest'[g][p]
               /\ Ordered(<<>>, outbox'[p], p, newest'[g][p], mine[p].ver)
    <3>1. PICK b \in Seq(Events) : b = outbox'[p]
      BY <1>1, <1>2
    <3>2. PICK v \in Views : v = view[g]
      BY <1>1
    <3>3. PICK n \in Nat : n = newest[g][p]
      BY <1>0
    <3>4. PICK hi \in Nat : hi = mine[p].ver
      BY <1>1
    <3>5. v[p].ver = n /\ n <= hi /\ Ordered(c, b, p, n, hi) /\ Thinned(read, c)
      BY <1>0, <1>3, <1>5, <1>6, <3>1, <3>2, <3>3, <3>4
    <3>6. /\ NewestOf(n, read, p) \in Nat /\ NewestOf(n, read, p) <= hi
          /\ FoldLeft(apply, v, read)[p].ver = NewestOf(n, read, p)
          /\ Ordered(<<>>, b, p, NewestOf(n, read, p), hi)
      BY <3>5, ReadThenOrdered
    <3>7. QED
      BY <2>2, <3>1, <3>2, <3>3, <3>4, <3>6
  <2>4. newest' \in [Members -> [Members -> Nat]]
    BY <1>0, <2>1, <2>2, <2>3
  <2>5. QED
    BY <1>4, <1>6, <2>2, <2>3, <2>4
<1>7. CASE UNCHANGED <<view, newest>> /\ Thinned(inbox'[g], inbox[g] \o sent[g])
  <2>1. ASSUME NEW p \in Members PROVE Ordered(inbox'[g], outbox'[p], p, newest[g][p], mine[p].ver)
    <3>1. PICK t \in Seq(Events) : t = inbox'[g]
      OBVIOUS
    <3>2. PICK b \in Seq(Events) : b = outbox'[p]
      BY <1>1, <1>2
    <3>3. Ordered(c, b, p, newest[g][p], mine[p].ver) /\ Thinned(t, c)
      BY <1>3, <1>5, <1>7, <3>1, <3>2
    <3>4. QED
      BY <3>1, <3>2, <3>3, DroppedKeepsOrder
  <2>2. \A q \in Members \ {g} : view'[q] = view[q] /\ newest'[q] = newest[q]
    BY <1>7
  <2>3. QED
    BY <1>0, <1>4, <1>7, <2>1, <2>2
<1>8. QED
  BY <1>6, <1>7

LEMMA BroadcastOne ==
  ASSUME NEW boxes \in [Members -> Seq(Events)], NEW e \in Events
  PROVE  /\ FoldLeft(broadcast, boxes, <<e>>) = broadcast(boxes, e)
         /\ broadcast(boxes, e) \in [Members -> Seq(Events)]
<1> DEFINE V == [Members -> Seq(Events)]
           F == [x \in V \X Events |-> broadcast(x[1], x[2])]
           Loop(g) == g = [S \in SUBSET {1} |->
                             IF S = {} THEN boxes ELSE broadcast(g[S \ {Max(S)}], <<e>>[Max(S)])]
<1>0. \A v \in V, d \in Events : broadcast(v, d) \in V
  BY DEF broadcast
<1>1. PICK s \in Seq(Events) : s = <<e>>
  <2>1. <<e>> \in Seq(Events)
    OBVIOUS
  <2>2. QED
    BY <2>1
<1>2. DOMAIN s = {1} /\ s[1] = e
  BY <1>1
<1>3. FoldLeft(broadcast, boxes, <<e>>) = (CHOOSE g : Loop(g))[{1}]
  <2>1. DOMAIN <<e>> = {1}
    OBVIOUS
  <2>2. QED
    BY <2>1 DEF FoldLeft, MapThenFoldSet
<1>4. Max({1}) = 1 /\ {1} \ {1} = {} /\ {1} # {}
  BY DEF Max
<1>5. \E g : Loop(g)
  <2>1. PICK g : g = [S \in SUBSET {1} |-> IF S = {} THEN boxes ELSE broadcast(boxes, e)]
    OBVIOUS
  <2>2. g[{}] = boxes /\ \A S \in SUBSET {1} : S = {} \/ S = {1}
    BY <2>1
  <2>3. \A S \in SUBSET {1} : S # {} => broadcast(g[S \ {Max(S)}], s[Max(S)]) = broadcast(boxes, e)
    BY <1>2, <1>4, <2>2
  <2>4. Loop(g)
    BY <1>1, <2>1, <2>3
  <2>5. QED
    BY <2>4
<1>6. PICK g : g = CHOOSE x : Loop(x)
  OBVIOUS
<1>7. Loop(g)
  <2> HIDE DEF Loop
  <2> QED
    BY <1>5, <1>6
<1>8. g[{}] = boxes /\ g[{1}] = broadcast(boxes, e)
  <2>1. g[{}] = boxes
    BY <1>7
  <2>2. g[{1}] = broadcast(g[{1} \ {1}], s[1])
    BY <1>1, <1>4, <1>7
  <2>3. QED
    BY <1>2, <1>4, <2>1, <2>2
<1>9. QED
  BY <1>0, <1>3, <1>6, <1>8

(* The parts of the invariant that do not speak of order.                  *)
LEMMA PassKeeps ==
  ASSUME FleetTypeOK, OutboxIsOwn, NoEcho, OwnLoadCountedOnce, NEW g \in Members,
         NEW sent \in [Members -> Seq(Events)], NEW left \in Seq(Events), NEW read \in Seq(Events),
         UNCHANGED <<transport, mine, everHeld, removals>>, losses' \in Nat,
         late' \in SUBSET (Members \X Seq(Events)),
         outbox' = [outbox EXCEPT ![g] = left], \A i \in DOMAIN left : left[i].origin = g,
         \A q \in Members : \A i \in DOMAIN sent[q] : sent[q][i].origin = g,
         inbox' \in [Members -> Seq(Events)],
         \A q \in Members \ {g} : inbox'[q] = inbox[q] \o sent[q],
         \/ Applied(g, read) /\ inbox'[g] = <<>> /\ \A i \in DOMAIN read : read[i].origin # g
         \/ UNCHANGED <<view, held>> /\ transport = "redis"
  PROVE  FleetTypeOK' /\ OutboxIsOwn' /\ NoEcho' /\ OwnLoadCountedOnce'
<1>1. /\ inbox \in [Members -> Seq(Events)] /\ outbox \in [Members -> Seq(Events)]
      /\ view \in [Members -> Views] /\ held \in [Members -> Trees]
  BY DEF FleetTypeOK
<1>2. OutboxIsOwn' /\ outbox' \in [Members -> Seq(Events)]
  <2>1. outbox'[g] = left /\ \A p \in Members \ {g} : outbox'[p] = outbox[p]
    BY <1>1
  <2>2. ASSUME NEW p \in Members PROVE \A i \in DOMAIN outbox'[p] : outbox'[p][i].origin = p
    BY <2>1 DEF OutboxIsOwn
  <2>3. outbox' \in [Members -> Seq(Events)]
    BY <1>1
  <2>4. QED
    BY <2>2, <2>3 DEF OutboxIsOwn
<1>3. NoEcho'
  <2> SUFFICES ASSUME transport # "redis", NEW q \in Members
               PROVE  \A i \in DOMAIN inbox'[q] : inbox'[q][i].origin # q
    BY DEF NoEcho
  <2>1. CASE q = g
    <3>1. inbox'[q] = <<>> /\ DOMAIN <<>> = {}
      BY <2>1
    <3>2. QED
      BY <3>1
  <2>2. CASE q # g
    <3>1. PICK a \in Seq(Events), x \in Seq(Events), t \in Seq(Events) :
             a = inbox[q] /\ x = sent[q] /\ t = inbox'[q] /\ t = a \o x
      <4>1. inbox[q] \in Seq(Events) /\ sent[q] \in Seq(Events) /\ inbox'[q] \in Seq(Events)
        BY <1>1
      <4>2. inbox'[q] = inbox[q] \o sent[q]
        BY <2>2
      <4>3. QED
        BY <4>1, <4>2
    <3>2. \A i \in DOMAIN a : a[i].origin # q
      BY <3>1 DEF NoEcho
    <3>3. \A i \in DOMAIN x : x[i].origin # q
      BY <2>2, <3>1
    <3>4. \A i \in DOMAIN t : (i \in DOMAIN a /\ t[i] = a[i])
                              \/ (i - Len(a) \in DOMAIN x /\ t[i] = x[i - Len(a)])
      BY <3>1, ConcatEvents
    <3>5. \A i \in DOMAIN t : t[i].origin # q
      BY <3>2, <3>3, <3>4
    <3>6. QED
      BY <3>1, <3>5
  <2>3. QED
    BY <2>1, <2>2
<1>4. view' \in [Members -> Views] /\ held' \in [Members -> Trees] /\ OwnLoadCountedOnce'
  <2>1. CASE UNCHANGED <<view, held>>
    BY <1>1, <2>1 DEF OwnLoadCountedOnce
  <2>2. CASE Applied(g, read) /\ \A i \in DOMAIN read : read[i].origin # g
    <3>1. /\ view' = [view EXCEPT ![g] = FoldLeft(apply, view[g], read)]
          /\ held' = [held EXCEPT ![g] = FoldLeft(applyPrefix, held[g], read)]
      BY <2>2 DEF Applied
    <3>2. PICK v \in Views : v = view[g]
      BY <1>1
    <3>3. PICK h \in Trees : h = held[g]
      BY <1>1
    <3>4. PICK w \in Views : w = FoldLeft(apply, v, read) /\ Shows(w, v, read, Len(read), g)
      BY LastReportWins
    <3>5. FoldLeft(applyPrefix, h, read) \in Trees
      BY TreeGrows
    <3>6. \A i \in 1 .. Len(read) : ~Reports(read[i], g)
      BY <2>2 DEF Reports
    <3>7. w[g] = v[g]
      BY <3>4, <3>6 DEF Shows
    <3>8. view' = [view EXCEPT ![g] = w] /\ w[g] = Unseen
      BY <3>1, <3>2, <3>4, <3>7 DEF OwnLoadCountedOnce
    <3>9. QED
      BY <1>1, <3>1, <3>3, <3>5, <3>8 DEF OwnLoadCountedOnce
  <2>3. QED
    BY <2>1, <2>2
<1>5. FleetTypeOK'
  BY <1>2, <1>4 DEF FleetTypeOK
<1>6. QED
  BY <1>2, <1>3, <1>4, <1>5

(* One pass of the loop at g: what it sends to each replica, what stays in  *)
(* its outbox and what it reads.                                           *)
Pass(g, sent, left, read) ==
  /\ UNCHANGED <<transport, mine, everHeld, removals>>
  /\ losses' \in Nat /\ (losses' = 0 => losses = 0)
  /\ late' \in SUBSET (Members \X Seq(Events))
  /\ outbox' = [outbox EXCEPT ![g] = left] /\ \A i \in DOMAIN left : left[i].origin = g
  /\ \A q \in Members : \A i \in DOMAIN sent[q] : sent[q][i].origin = g
  /\ inbox' \in [Members -> Seq(Events)]
  /\ \A q \in Members \ {g} : inbox'[q] = inbox[q] \o sent[q]
  /\ \/ /\ Applied(g, read) /\ inbox'[g] = <<>> /\ Thinned(read, inbox[g] \o sent[g])
        /\ \A i \in DOMAIN read : read[i].origin # g
     \/ UNCHANGED <<view, held, newest>> /\ transport = "redis" /\ Thinned(inbox'[g], inbox[g] \o sent[g])
  /\ InOrder' => /\ late' = {}
                 /\ \A q \in Members : Thinned(sent[q] \o left, outbox[g] \o publish_load(g))

LEMMA PassInv ==
  ASSUME FleetInv, NEW g \in Members, NEW sent \in [Members -> Seq(Events)],
         NEW left \in Seq(Events), NEW read \in Seq(Events),
         Pass(g, sent, left, read), InsertsArrive'
  PROVE  FleetInv'
<1>1. FleetTypeOK' /\ OutboxIsOwn' /\ NoEcho' /\ OwnLoadCountedOnce'
  <2>1. FleetTypeOK /\ OutboxIsOwn /\ NoEcho /\ OwnLoadCountedOnce
    BY DEF FleetInv
  <2>2. QED
    BY <2>1, PassKeeps DEF Pass
<1>2. StreamsInOrder'
  <2> SUFFICES ASSUME InOrder'
               PROVE  (/\ late = {}
                       /\ newest \in [Members -> [Members -> Nat]]
                       /\ \A q, p \in Members :
                            /\ view[q][p].ver = newest[q][p] /\ newest[q][p] <= mine[p].ver
                            /\ Ordered(inbox[q], outbox[p], p, newest[q][p], mine[p].ver))'
    BY DEF StreamsInOrder
  <2>1. InOrder
    BY DEF InOrder, Pass
  <2>2. late' = {} /\ \A q \in Members : Thinned(sent[q] \o left, outbox[g] \o publish_load(g))
    BY DEF Pass
  <2>3. /\ newest' \in [Members -> [Members -> Nat]]
        /\ \A q, p \in Members :
             /\ view'[q][p].ver = newest'[q][p] /\ newest'[q][p] <= mine'[p].ver
             /\ Ordered(inbox'[q], outbox'[p], p, newest'[q][p], mine'[p].ver)
    <3>1. \/ Applied(g, read) /\ Thinned(read, inbox[g] \o sent[g]) /\ inbox'[g] = <<>>
          \/ UNCHANGED <<view, newest>> /\ Thinned(inbox'[g], inbox[g] \o sent[g])
      BY DEF Pass
    <3>2. /\ outbox' = [outbox EXCEPT ![g] = left] /\ UNCHANGED mine
          /\ inbox' \in [Members -> Seq(Events)]
          /\ \A q \in Members \ {g} : inbox'[q] = inbox[q] \o sent[q]
      BY DEF Pass
    <3>3. QED
      BY <2>1, <2>2, <3>1, <3>2, SyncStreams
  <2>4. QED
    BY <2>2, <2>3 DEF Ordered, Rising, Before, Within, Reports
<1>3. QED
  BY <1>1, <1>2 DEF FleetInv

LEMMA ThinnedSelf ==
  ASSUME NEW s \in Seq(Events)
  PROVE  /\ Thinned(s, s) /\ Thinned(<<>>, s) /\ s \o <<>> = s /\ <<>> \o s = s /\ <<>> \in Seq(Events)
<1>1. Thinned(s, s)
  <2>1. PICK f : f = [i \in DOMAIN s |-> i]
    OBVIOUS
  <2>2. QED
    BY <2>1 DEF Thinned
<1>2. Thinned(<<>>, s)
  <2>1. DOMAIN <<>> = {}
    OBVIOUS
  <2>2. QED
    BY <2>1, Zenon DEF Thinned
<1>3. s \o <<>> = s /\ <<>> \o s = s /\ <<>> \in Seq(Events)
  OBVIOUS
<1>4. QED
  BY <1>1, <1>2, <1>3

LEMMA AppendIsConcat ==
  ASSUME NEW s \in Seq(Events), NEW e \in Events
  PROVE  Append(s, e) = s \o <<e>> /\ <<e>> \in Seq(Events)
OBVIOUS

(* What is left of own events are own events.                              *)
LEMMA ThinnedOwn ==
  ASSUME NEW t \in Seq(Events), NEW s \in Seq(Events), Thinned(t, s), NEW g,
         \A i \in DOMAIN s : s[i].origin = g
  PROVE  \A i \in DOMAIN t : t[i].origin = g
<1>1. Among(t, s)
  BY ThinnedIsAmong
<1>2. QED
  BY <1>1 DEF Among

LEMMA Deliveries ==
  ASSUME FleetTypeOK, NEW g \in Members, NEW out \in Seq(Events), NEW x \in Seq(Events),
         inbox' = [Delivered(out) EXCEPT ![g] = x]
  PROVE  /\ inbox' \in [Members -> Seq(Events)] /\ inbox'[g] = x
         /\ \A q \in Members \ {g} : inbox'[q] = inbox[q] \o out
<1>1. PICK boxes : boxes = Delivered(out)
  OBVIOUS
<1>2. \A q \in Members : inbox[q] \o out \in Seq(Events)
  BY ConcatEvents DEF FleetTypeOK
<1>3. boxes \in [Members -> Seq(Events)]
  BY <1>1, <1>2 DEF Delivered
<1>4. \A q \in Members : boxes[q] = inbox[q] \o out
  BY <1>1 DEF Delivered
<1>5. inbox' = [boxes EXCEPT ![g] = x]
  BY <1>1
<1>6. inbox' \in [Members -> Seq(Events)] /\ inbox'[g] = x
  BY <1>3, <1>5
<1>7. \A q \in Members \ {g} : inbox'[q] = boxes[q]
  BY <1>3, <1>5
<1>8. QED
  BY <1>4, <1>6, <1>7

LEMMA RedisSyncInv == ASSUME FleetInv, NEW g \in Members, RedisSync(g) PROVE FleetInv'
<1>1. FleetTypeOK /\ OutboxIsOwn /\ transport = "redis" /\ transport' = "redis"
  BY DEF FleetInv, RedisSync
<1>2. PICK out \in Seq(Events) :
        out = outbox[g] \o publish_load(g) /\ \A i \in DOMAIN out : out[i].origin = g
  BY <1>1, OutIsOwn
<1>3. PICK sent \in [Members -> Seq(Events)] : sent = [q \in Members |-> out]
  <2>1. [q \in Members |-> out] \in [Members -> Seq(Events)]
    OBVIOUS
  <2>2. QED
    BY <2>1
<1>4. PICK a \in Seq(Events) : a = inbox[g] \o out
  <2>1. inbox[g] \in Seq(Events)
    BY <1>1 DEF FleetTypeOK
  <2>2. QED
    BY <2>1, ConcatEvents
<1>5. PICK read \in Seq(Events) :
        read = Foreign(g, a) /\ Thinned(read, a) /\ \A i \in DOMAIN read : read[i].origin # g
  BY FilterThins
<1>6. inbox' = [Delivered(out) EXCEPT ![g] = <<>>] /\ Applied(g, read)
  BY <1>2, <1>4, <1>5 DEF RedisSync, Delivered
<1>7. inbox'[g] = <<>> /\ inbox' \in [Members -> Seq(Events)]
      /\ \A q \in Members \ {g} : inbox'[q] = inbox[q] \o sent[q]
  BY <1>1, <1>3, <1>6, ThinnedSelf, Deliveries
<1>8. Thinned(out \o <<>>, out)
  BY ThinnedSelf
<1>9. Pass(g, sent, <<>>, read)
  <2>1. /\ UNCHANGED <<transport, mine, everHeld, removals, late, losses>>
        /\ outbox' = [outbox EXCEPT ![g] = <<>>]
    BY DEF RedisSync
  <2>2. losses' \in Nat /\ late' \in SUBSET (Members \X Seq(Events))
    BY <1>1, <2>1 DEF FleetTypeOK
  <2>3. \A q \in Members : sent[q] = out
    BY <1>3
  <2>4. InOrder' => late' = {}
    BY <1>1, <2>1 DEF FleetInv, StreamsInOrder, InOrder
  <2>5. DOMAIN <<>> = {}
    OBVIOUS
  <2>6. QED
    BY <1>2, <1>4, <1>5, <1>6, <1>7, <1>8, <2>1, <2>2, <2>3, <2>4, <2>5 DEF Pass
<1>10. InsertsArrive' /\ <<>> \in Seq(Events)
  BY <1>1 DEF InsertsArrive
<1>11. QED
  BY <1>9, <1>10, PassInv

(* An outbox without its k-th event.                                       *)
LEMMA SkipThins ==
  ASSUME NEW s \in Seq(Events), NEW k \in DOMAIN s
  PROVE  /\ SubSeq(s, 1, k - 1) \in Seq(Events) /\ LeftToSend(s, k) \in Seq(Events)
         /\ Thinned(SubSeq(s, 1, k - 1), s) /\ Thinned(LeftToSend(s, k), s)
         /\ Thinned(SubSeq(s, 1, k - 1) \o LeftToSend(s, k), s)
<1>0. PICK n \in Nat : n = Len(s) /\ DOMAIN s = 1 .. n /\ k \in 1 .. n
  OBVIOUS
<1>1. PICK a \in Seq(Events), b \in Seq(Events) : a = SubSeq(s, 1, k - 1) /\ b = SubSeq(s, k + 1, n)
                                               /\ Thinned(a, s) /\ Thinned(b, s)
  <2>1. k - 1 \in Nat /\ k - 1 <= Len(s) /\ k + 1 \in Nat /\ k + 1 >= 1 /\ n <= Len(s) /\ 1 \in Nat /\ 1 >= 1
    BY <1>0
  <2>2. SubSeq(s, 1, k - 1) \in Seq(Events) /\ Thinned(SubSeq(s, 1, k - 1), s)
    BY <2>1, SubSeqThins
  <2>3. SubSeq(s, k + 1, n) \in Seq(Events) /\ Thinned(SubSeq(s, k + 1, n), s)
    BY <2>1, SubSeqThins
  <2>4. QED
    BY <2>2, <2>3
<1>2. /\ Len(a) = k - 1 /\ \A i \in DOMAIN a : i \in 1 .. (k - 1) /\ a[i] = s[i]
      /\ \A i \in DOMAIN b : i \in 1 .. (n - k) /\ b[i] = s[i + k]
  <2>1. Len(a) = k - 1 /\ \A i \in DOMAIN a : i \in 1 .. (k - 1) /\ a[i] = s[i]
    BY <1>0, <1>1
  <2>2. \A i \in DOMAIN b : i \in 1 .. (n - k) /\ b[i] = s[i + (k + 1) - 1]
    BY <1>0, <1>1, SMTT(20)
  <2>3. \A i \in 1 .. (n - k) : i + (k + 1) - 1 = i + k
    BY <1>0
  <2>4. QED
    BY <2>1, <2>2, <2>3
<1>3. PICK t \in Seq(Events) : t = a \o b
  BY ConcatEvents
<1>4. \A i \in DOMAIN t : \/ i \in DOMAIN a /\ t[i] = a[i]
                          \/ i > Len(a) /\ i - Len(a) \in DOMAIN b /\ t[i] = b[i - Len(a)]
  BY <1>3, ConcatEvents
<1>5. PICK f : f = [i \in DOMAIN t |-> IF i < k THEN i ELSE i + 1]
  OBVIOUS
<1>6. ASSUME NEW i \in DOMAIN t PROVE f[i] \in DOMAIN s /\ t[i] = s[f[i]]
  <2>1. f[i] = IF i < k THEN i ELSE i + 1
    BY <1>5
  <2>2. CASE i \in DOMAIN a /\ t[i] = a[i]
    BY <1>0, <1>2, <2>1, <2>2
  <2>3. CASE i > Len(a) /\ i - Len(a) \in DOMAIN b /\ t[i] = b[i - Len(a)]
    <3>0. PICK j \in DOMAIN b : j = i - Len(a) /\ t[i] = b[j]
      BY <2>3
    <3>1. j \in 1 .. (n - k) /\ j = i - (k - 1) /\ t[i] = s[j + k] /\ i \in Nat
      BY <1>2, <3>0
    <3>2. j + k = i + 1 /\ ~(i < k) /\ i + 1 \in 1 .. n
      BY <1>0, <3>1
    <3>3. QED
      BY <1>0, <2>1, <3>1, <3>2
  <2>4. QED
    BY <1>4, <2>2, <2>3
<1>7. \A i, j \in DOMAIN t : i < j => f[i] < f[j]
  BY <1>0, <1>5
<1>8. Thinned(t, s)
  BY <1>6, <1>7 DEF Thinned
<1>9. QED
  BY <1>0, <1>1, <1>3, <1>8 DEF LeftToSend

LEMMA RedisPublishFailsInv == ASSUME FleetInv, NEW g \in Members, RedisPublishFails(g) PROVE FleetInv'
<1>1. FleetTypeOK /\ OutboxIsOwn /\ transport = "redis" /\ transport' = "redis"
  BY DEF FleetInv, RedisPublishFails
<1>2. PICK out \in Seq(Events) :
        out = outbox[g] \o publish_load(g) /\ \A i \in DOMAIN out : out[i].origin = g
  BY <1>1, OutIsOwn
<1>3. PICK k \in DOMAIN out :
        /\ Applied(g, Foreign(g, Delivered(SubSeq(out, 1, k - 1))[g]))
        /\ inbox' = [Delivered(SubSeq(out, 1, k - 1)) EXCEPT ![g] = <<>>]
        /\ outbox' = [outbox EXCEPT ![g] = LeftToSend(out, k)]
        /\ losses' = losses + 1
        /\ UNCHANGED <<transport, mine, late, everHeld, removals>>
  BY <1>2 DEF RedisPublishFails
<1>4. PICK x \in Seq(Events), left \in Seq(Events) :
        /\ x = SubSeq(out, 1, k - 1) /\ left = LeftToSend(out, k)
        /\ Thinned(x, out) /\ Thinned(left, out) /\ Thinned(x \o left, out)
  BY SkipThins
<1>5. PICK sent \in [Members -> Seq(Events)] : sent = [q \in Members |-> x]
  <2>1. [q \in Members |-> x] \in [Members -> Seq(Events)]
    OBVIOUS
  <2>2. QED
    BY <2>1
<1>6. PICK a \in Seq(Events) : a = inbox[g] \o x
  <2>1. inbox[g] \in Seq(Events)
    BY <1>1 DEF FleetTypeOK
  <2>2. QED
    BY <2>1, ConcatEvents
<1>7. PICK read \in Seq(Events) :
        read = Foreign(g, a) /\ Thinned(read, a) /\ \A i \in DOMAIN read : read[i].origin # g
  BY FilterThins
<1>8. Applied(g, read)
  BY <1>3, <1>4, <1>6, <1>7 DEF Delivered
<1>9. /\ inbox' \in [Members -> Seq(Events)] /\ inbox'[g] = <<>>
      /\ \A q \in Members \ {g} : inbox'[q] = inbox[q] \o sent[q]
  BY <1>1, <1>3, <1>4, <1>5, ThinnedSelf, Deliveries
<1>10. (\A i \in DOMAIN x : x[i].origin = g) /\ \A i \in DOMAIN left : left[i].origin = g
  <2>1. Among(x, out) /\ Among(left, out)
    BY <1>4, ThinnedIsAmong
  <2>2. \A i \in DOMAIN x : x[i].origin = g
    BY <1>2, <2>1, ZenonT(30) DEF Among
  <2>3. \A i \in DOMAIN left : left[i].origin = g
    BY <1>2, <2>1, ZenonT(30) DEF Among
  <2>4. QED
    BY <2>2, <2>3
<1>11. Pass(g, sent, left, read)
  <2>1. /\ UNCHANGED <<transport, mine, everHeld, removals, late>>
        /\ outbox' = [outbox EXCEPT ![g] = left]
    BY <1>3, <1>4
  <2>2. losses' \in Nat /\ losses' # 0 /\ late' \in SUBSET (Members \X Seq(Events))
    BY <1>1, <1>3 DEF FleetTypeOK
  <2>3. \A q \in Members : sent[q] = x
    BY <1>5
  <2>4. InOrder' => late' = {}
    BY <1>1, <2>1 DEF FleetInv, StreamsInOrder, InOrder
  <2>5. QED
    BY <1>2, <1>4, <1>6, <1>7, <1>8, <1>9, <1>10, <2>1, <2>2, <2>3, <2>4, ZenonT(30) DEF Pass
<1>12. InsertsArrive'
  BY <1>1 DEF InsertsArrive
<1>13. QED
  BY <1>11, <1>12, PassInv

LEMMA RedisReadFailsInv == ASSUME FleetInv, NEW g \in Members, RedisReadFails(g) PROVE FleetInv'
<1>1. FleetTypeOK /\ OutboxIsOwn /\ transport = "redis" /\ transport' = "redis"
  BY DEF FleetInv, RedisReadFails
<1>2. PICK out \in Seq(Events) :
        out = outbox[g] \o publish_load(g) /\ \A i \in DOMAIN out : out[i].origin = g
  BY <1>1, OutIsOwn
<1>3. PICK sent \in [Members -> Seq(Events)] : sent = [q \in Members |-> out]
  <2>1. [q \in Members |-> out] \in [Members -> Seq(Events)]
    OBVIOUS
  <2>2. QED
    BY <2>1
<1>4. PICK a \in Seq(Events) : a = inbox[g] \o out
  <2>1. inbox[g] \in Seq(Events)
    BY <1>1 DEF FleetTypeOK
  <2>2. QED
    BY <2>1, ConcatEvents
<1>5. Delivered(out)[g] = a
  BY <1>4 DEF Delivered
<1>6. PICK j \in 0 .. Len(a) :
        /\ inbox' = [Delivered(out) EXCEPT ![g] = SubSeq(a, j + 1, Len(a))]
        /\ outbox' = [outbox EXCEPT ![g] = <<>>] /\ losses' = losses + 1
        /\ UNCHANGED <<transport, mine, view, held, late, newest, everHeld, removals>>
  BY <1>2, <1>5 DEF RedisReadFails
<1>7. PICK x \in Seq(Events) : x = SubSeq(a, j + 1, Len(a)) /\ Thinned(x, a)
  <2>1. j + 1 \in Nat /\ j + 1 >= 1 /\ Len(a) \in Nat /\ Len(a) <= Len(a)
    OBVIOUS
  <2>2. QED
    BY <2>1, SubSeqThins
<1>8. /\ inbox' \in [Members -> Seq(Events)] /\ inbox'[g] = x
      /\ \A q \in Members \ {g} : inbox'[q] = inbox[q] \o sent[q]
  BY <1>1, <1>3, <1>6, <1>7, Deliveries
<1>9. Thinned(out \o <<>>, out)
  BY ThinnedSelf
<1>10. Pass(g, sent, <<>>, <<>>)
  <2>1. losses' \in Nat /\ losses' # 0 /\ late' \in SUBSET (Members \X Seq(Events))
    BY <1>1, <1>6 DEF FleetTypeOK
  <2>2. \A q \in Members : sent[q] = out
    BY <1>3
  <2>3. InOrder' => late' = {}
    BY <1>1, <1>6 DEF FleetInv, StreamsInOrder, InOrder
  <2>4. DOMAIN <<>> = {}
    OBVIOUS
  <2>5. QED
    BY <1>1, <1>2, <1>4, <1>6, <1>7, <1>8, <1>9, <2>1, <2>2, <2>3, <2>4 DEF Pass
<1>11. InsertsArrive' /\ <<>> \in Seq(Events)
  BY <1>1 DEF InsertsArrive
<1>12. QED
  BY <1>10, <1>11, PassInv

LEMMA GossipSyncInv == ASSUME FleetInv, NEW g \in Members, GossipSync(g) PROVE FleetInv'
<1>1. /\ FleetTypeOK /\ OutboxIsOwn /\ NoEcho /\ transport = "gossip" /\ transport' = "gossip"
      /\ inbox \in [Members -> Seq(Events)] /\ losses \in Nat
  BY DEF FleetInv, FleetTypeOK, GossipSync
<1>2. PICK out \in Seq(Events) :
        out = outbox[g] \o publish_load(g) /\ \A i \in DOMAIN out : out[i].origin = g
  BY <1>1, OutIsOwn
<1>3. PICK served \in SUBSET (Members \ {g}) : \E slow \in SUBSET (Members \ ({g} \cup served)) :
        /\ losses' = IF served = Members \ {g} THEN losses ELSE losses + 1
        /\ late' = late \cup (slow \X {out})
        /\ inbox' = [p \in Members |-> IF p = g THEN <<>>
                                       ELSE IF p \in served THEN inbox[p] \o Foreign(p, out)
                                       ELSE inbox[p]]
        /\ outbox' = [outbox EXCEPT ![g] = <<>>]
        /\ Applied(g, inbox[g])
        /\ UNCHANGED <<transport, mine, everHeld, removals>>
  BY <1>2, ZenonT(30) DEF GossipSync
<1>4. PICK slow \in SUBSET (Members \ ({g} \cup served)) :
        /\ losses' = IF served = Members \ {g} THEN losses ELSE losses + 1
        /\ late' = late \cup (slow \X {out})
        /\ inbox' = [p \in Members |-> IF p = g THEN <<>>
                                       ELSE IF p \in served THEN inbox[p] \o Foreign(p, out)
                                       ELSE inbox[p]]
        /\ outbox' = [outbox EXCEPT ![g] = <<>>]
        /\ Applied(g, inbox[g])
        /\ UNCHANGED <<transport, mine, everHeld, removals>>
  BY <1>3
<1>5. PICK sent : sent = [q \in Members |-> IF q \in served THEN Foreign(q, out) ELSE <<>>]
  OBVIOUS
<1>6. ASSUME NEW q \in Members
      PROVE  /\ sent[q] \in Seq(Events) /\ Thinned(sent[q], out)
             /\ \A i \in DOMAIN sent[q] : sent[q][i].origin = g
  <2>1. sent[q] \in Seq(Events) /\ Thinned(sent[q], out)
    <3>1. CASE q \in served
      <4>1. sent[q] = Foreign(q, out)
        BY <1>5, <3>1
      <4>2. Foreign(q, out) \in Seq(Events) /\ Thinned(Foreign(q, out), out)
        BY FilterThins
      <4>3. QED
        BY <4>1, <4>2
    <3>2. CASE q \notin served
      <4>1. sent[q] = <<>>
        BY <1>5, <3>2
      <4>2. QED
        BY <4>1, ThinnedSelf
    <3>3. QED
      BY <3>1, <3>2
  <2>2. QED
    BY <1>2, <2>1, ThinnedOwn, ZenonT(30)
<1>7. sent \in [Members -> Seq(Events)]
  BY <1>5, <1>6
<1>8. \A q \in Members \ {g} : inbox'[q] = inbox[q] \o sent[q]
  <2> SUFFICES ASSUME NEW q \in Members \ {g} PROVE inbox'[q] = inbox[q] \o sent[q]
    OBVIOUS
  <2>1. CASE q \in served
    BY <1>4, <1>5, <2>1
  <2>2. CASE q \notin served
    <3>1. inbox'[q] = inbox[q] /\ sent[q] = <<>> /\ inbox[q] \in Seq(Events)
      BY <1>1, <1>4, <1>5, <2>2
    <3>2. inbox[q] \o <<>> = inbox[q]
      BY <3>1, ThinnedSelf
    <3>3. QED
      BY <3>1, <3>2
  <2>3. QED
    BY <2>1, <2>2
<1>9. inbox'[g] = <<>> /\ inbox' \in [Members -> Seq(Events)]
  <2>1. inbox'[g] = <<>> /\ DOMAIN inbox' = Members
    BY <1>4
  <2>2. \A q \in Members \ {g} : inbox[q] \o sent[q] \in Seq(Events)
    BY <1>1, <1>6, ConcatEvents
  <2>3. ASSUME NEW q \in Members PROVE inbox'[q] \in Seq(Events)
    <3>1. CASE q = g
      BY <2>1, <3>1
    <3>2. CASE q # g
      BY <1>8, <2>2, <3>2
    <3>3. QED
      BY <3>1, <3>2
  <2>4. inbox' = [q \in Members |-> inbox'[q]]
    BY <1>4
  <2>5. QED
    BY <2>1, <2>3, <2>4
<1>10. Pass(g, sent, <<>>, inbox[g])
  <2>1. losses' \in Nat /\ (losses' = 0 => losses = 0 /\ served = Members \ {g})
    BY <1>1, <1>4
  <2>2. late' \in SUBSET (Members \X Seq(Events))
    BY <1>1, <1>4 DEF FleetTypeOK
  <2>3. InOrder' => late' = {}
    <3> SUFFICES ASSUME InOrder' PROVE late' = {}
      OBVIOUS
    <3>1. losses' = 0
      BY <1>1 DEF InOrder
    <3>2. slow = {} /\ losses = 0
      BY <2>1, <3>1
    <3>3. late = {}
      BY <3>2 DEF FleetInv, StreamsInOrder, InOrder
    <3>4. QED
      BY <1>4, <3>2, <3>3
  <2>4. ASSUME NEW q \in Members PROVE Thinned(sent[q] \o <<>>, out)
    BY <1>6, ThinnedSelf
  <2>5. Thinned(inbox[g], inbox[g] \o sent[g])
    <3>1. g \notin served
      BY <1>3
    <3>2. sent[g] = <<>>
      BY <1>5, <3>1
    <3>3. inbox[g] \in Seq(Events)
      BY <1>1
    <3>4. QED
      BY <3>2, <3>3, ThinnedSelf
  <2>6. \A i \in DOMAIN inbox[g] : inbox[g][i].origin # g
    BY <1>1 DEF NoEcho
  <2>7. DOMAIN <<>> = {}
    OBVIOUS
  <2>8. QED
    BY <1>2, <1>4, <1>6, <1>8, <1>9, <2>1, <2>2, <2>3, <2>4, <2>5, <2>6, <2>7 DEF Pass
<1>11. InsertsArrive' /\ <<>> \in Seq(Events) /\ inbox[g] \in Seq(Events)
  BY <1>1 DEF InsertsArrive
<1>12. QED
  BY <1>7, <1>10, <1>11, PassInv

LEMMA MemorySyncInv == ASSUME FleetInv, NEW g \in Members, MemorySync(g) PROVE FleetInv'
<1>1. /\ FleetTypeOK /\ OutboxIsOwn /\ NoEcho /\ transport = "memory" /\ transport' = "memory"
      /\ inbox \in [Members -> Seq(Events)] /\ outbox \in [Members -> Seq(Events)]
      /\ held \in [Members -> Trees] /\ losses \in Nat
  BY DEF FleetInv, FleetTypeOK, MemorySync
<1>2. \A p \in Members : outbox[p] = <<>>
  BY <1>1 DEF FleetInv, InsertsArrive
<1>3. PICK e \in Events : /\ e = LoadEvent(g) /\ e.origin = g /\ e.kind = "load"
  BY <1>1, LoadEventIs
<1>4. PICK x \in Seq(Events) : x = <<e>>
  <2>1. <<e>> \in Seq(Events)
    OBVIOUS
  <2>2. QED
    BY <2>1
<1>5. DOMAIN x = {1} /\ x[1] = e
  BY <1>4
<1>6. publish_load(g) = x
  BY <1>3, <1>4 DEF publish_load
<1>7. outbox[g] \o publish_load(g) = x
  BY <1>2, <1>6, ThinnedSelf
<1>8. PICK boxes \in [Members -> Seq(Events)] :
        boxes = FoldLeft(broadcast, inbox, publish_load(g)) /\ boxes = broadcast(inbox, e)
  BY <1>1, <1>4, <1>6, BroadcastOne
<1>9. boxes[g] = inbox[g] /\ \A q \in Members \ {g} : boxes[q] = inbox[q] \o x
  <2>1. boxes[g] = inbox[g]
    BY <1>3, <1>8 DEF broadcast
  <2>2. ASSUME NEW q \in Members \ {g} PROVE boxes[q] = inbox[q] \o x
    <3>1. boxes[q] = Append(inbox[q], e)
      BY <1>3, <1>8 DEF broadcast
    <3>2. inbox[q] \in Seq(Events)
      BY <1>1
    <3>3. QED
      BY <1>4, <3>1, <3>2, AppendIsConcat
  <2>3. QED
    BY <2>1, <2>2
<1>10. Applied(g, inbox[g]) /\ inbox' = [boxes EXCEPT ![g] = <<>>]
  BY <1>8, <1>9 DEF MemorySync, Drained
<1>11. PICK sent \in [Members -> Seq(Events)] : sent = [q \in Members |-> IF q = g THEN <<>> ELSE x]
  <2>1. [q \in Members |-> IF q = g THEN <<>> ELSE x] \in [Members -> Seq(Events)]
    OBVIOUS
  <2>2. QED
    BY <2>1
<1>12. /\ inbox' \in [Members -> Seq(Events)] /\ inbox'[g] = <<>>
       /\ \A q \in Members \ {g} : inbox'[q] = inbox[q] \o sent[q] /\ sent[q] = x
  <2>1. inbox' \in [Members -> Seq(Events)] /\ inbox'[g] = <<>>
    BY <1>10
  <2>2. \A q \in Members \ {g} : inbox'[q] = boxes[q] /\ sent[q] = x
    BY <1>10, <1>11
  <2>3. QED
    BY <1>9, <2>1, <2>2
<1>13. Pass(g, sent, <<>>, inbox[g])
  <2>1. UNCHANGED <<transport, mine, everHeld, removals, late, losses, outbox>>
    BY DEF MemorySync
  <2>2. outbox' = [outbox EXCEPT ![g] = <<>>]
    BY <1>1, <1>2, <2>1
  <2>3. losses' \in Nat /\ late' \in SUBSET (Members \X Seq(Events))
    BY <1>1, <2>1 DEF FleetTypeOK
  <2>4. InOrder' => late' = {}
    BY <1>1, <2>1 DEF FleetInv, StreamsInOrder, InOrder
  <2>5. sent[g] = <<>> /\ \A q \in Members : sent[q] = <<>> \/ sent[q] = x
    BY <1>11
  <2>6. ASSUME NEW q \in Members
        PROVE Thinned(sent[q] \o <<>>, x) /\ \A i \in DOMAIN sent[q] : sent[q][i].origin = g
    <3>1. DOMAIN <<>> = {}
      OBVIOUS
    <3>2. \A i \in DOMAIN sent[q] : sent[q][i].origin = g
      BY <1>3, <1>5, <2>5, <3>1
    <3>3. Thinned(sent[q], x) /\ sent[q] \in Seq(Events)
      BY <2>5, ThinnedSelf
    <3>4. QED
      BY <3>2, <3>3, ThinnedSelf
  <2>7. Thinned(inbox[g], inbox[g] \o sent[g])
    <3>1. inbox[g] \in Seq(Events)
      BY <1>1
    <3>2. QED
      BY <2>5, <3>1, ThinnedSelf
  <2>8. \A i \in DOMAIN inbox[g] : inbox[g][i].origin # g
    BY <1>1 DEF NoEcho
  <2>9. DOMAIN <<>> = {}
    OBVIOUS
  <2>10. QED
    BY <1>7, <1>10, <1>12, <2>1, <2>2, <2>3, <2>4, <2>6, <2>7, <2>8, <2>9 DEF Pass
<1>14. InsertsArrive'
  <2>1. \A q \in Members : outbox'[q] = <<>>
    BY <1>2 DEF MemorySync
  <2>2. ASSUME ~removals', NEW q \in Members
        PROVE  /\ \A i \in DOMAIN inbox'[q] : inbox'[q][i].kind # "remove_backend"
               /\ held'[q] \cup Inserted(inbox'[q]) = everHeld'
    <3>1. ~removals /\ everHeld' = everHeld
      BY <2>2 DEF MemorySync
    <3>2. \A p \in Members : /\ \A i \in DOMAIN inbox[p] : inbox[p][i].kind # "remove_backend"
                             /\ held[p] \cup Inserted(inbox[p]) = everHeld
      BY <1>1, <3>1 DEF FleetInv, InsertsArrive
    <3>3. held' = [held EXCEPT ![g] = FoldLeft(applyPrefix, held[g], inbox[g])]
      BY <1>10 DEF Applied
    <3>4. CASE q = g
      <4>1. held[g] \in Trees /\ inbox[g] \in Seq(Events)
        BY <1>1
      <4>2. held'[g] = held[g] \cup Inserted(inbox[g])
        <5>1. FoldLeft(applyPrefix, held[g], inbox[g]) = held[g] \cup Inserted(inbox[g])
          BY <3>2, <4>1, TreeGrows
        <5>2. QED
          BY <1>1, <3>3, <5>1
      <4>3. Inserted(<<>>) = {} /\ DOMAIN <<>> = {}
        BY DEF Inserted
      <4>4. QED
        BY <1>12, <3>1, <3>2, <3>4, <4>2, <4>3
    <3>5. CASE q # g
      <4>1. held'[q] = held[q] /\ inbox'[q] = inbox[q] \o x
        BY <1>1, <1>12, <3>3, <3>5
      <4>2. PICK a \in Seq(Events) : a = inbox[q]
        BY <1>1
      <4>3. PICK t \in Seq(Events) : t = a \o x
        BY ConcatEvents
      <4>4. /\ \A i \in DOMAIN a : i \in DOMAIN t /\ t[i] = a[i]
            /\ \A i \in DOMAIN t : i \in DOMAIN a \/ t[i] = e
        <5>1. \A i \in DOMAIN a : i \in DOMAIN t /\ t[i] = a[i]
          BY <4>3
        <5>2. \A i \in DOMAIN t : i \in DOMAIN a \/ (i - Len(a) \in DOMAIN x /\ t[i] = x[i - Len(a)])
          BY <4>3, ConcatEvents
        <5>3. QED
          BY <1>5, <5>1, <5>2
      <4>5. Inserted(t) = Inserted(a)
        BY <1>3, <4>4 DEF Inserted
      <4>6. \A i \in DOMAIN t : t[i].kind # "remove_backend"
        BY <1>3, <3>2, <4>2, <4>4
      <4>7. QED
        BY <3>1, <3>2, <4>1, <4>2, <4>3, <4>5, <4>6
    <3>6. QED
      BY <3>4, <3>5
  <2>3. QED
    BY <2>1, <2>2 DEF InsertsArrive, Inserted
<1>15. <<>> \in Seq(Events) /\ inbox[g] \in Seq(Events)
  BY <1>1
<1>16. QED
  BY <1>13, <1>14, <1>15, PassInv

-----------------------------------------------------------------------------
(* Everything else that happens at a replica                               *)

LEMMA LatePostInv == ASSUME FleetInv, LatePost PROVE FleetInv'
<1>1. PICK m \in late :
        /\ late' = late \ {m}
        /\ inbox' = [inbox EXCEPT ![m[1]] = inbox[m[1]] \o Foreign(m[1], m[2])]
        /\ UNCHANGED <<transport, mine, view, held, outbox, losses, newest, everHeld, removals>>
  BY DEF LatePost
<1>2. FleetTypeOK /\ OutboxIsOwn /\ NoEcho /\ OwnLoadCountedOnce /\ StreamsInOrder
      /\ inbox \in [Members -> Seq(Events)] /\ late \in SUBSET (Members \X Seq(Events))
  BY DEF FleetInv, FleetTypeOK
<1>3. ~InOrder /\ ~InOrder' /\ transport = "gossip"
  BY <1>1, <1>2 DEF StreamsInOrder, InOrder
<1>4. PICK p \in Members, s \in Seq(Events) : m = <<p, s>>
  BY <1>1, <1>2
<1>5. PICK t \in Seq(Events) : t = Foreign(p, s) /\ \A i \in DOMAIN t : t[i].origin # p
  BY FilterThins
<1>6. PICK a \in Seq(Events), c \in Seq(Events) : a = inbox[p] /\ c = a \o t
  <2>1. inbox[p] \in Seq(Events)
    BY <1>2
  <2>2. inbox[p] \o t \in Seq(Events)
    BY <2>1, ConcatEvents
  <2>3. QED
    BY <2>1, <2>2
<1>7. inbox' = [inbox EXCEPT ![p] = c]
  BY <1>1, <1>4, <1>5, <1>6
<1>8. inbox' \in [Members -> Seq(Events)] /\ late' \in SUBSET (Members \X Seq(Events))
  BY <1>1, <1>2, <1>7
<1>9. FleetTypeOK'
  BY <1>1, <1>2, <1>8 DEF FleetTypeOK
<1>10. OutboxIsOwn' /\ OwnLoadCountedOnce' /\ StreamsInOrder' /\ InsertsArrive'
  BY <1>1, <1>2, <1>3 DEF OutboxIsOwn, OwnLoadCountedOnce, StreamsInOrder, InsertsArrive
<1>11. NoEcho'
  <2> SUFFICES ASSUME NEW q \in Members PROVE \A i \in DOMAIN inbox'[q] : inbox'[q][i].origin # q
    BY DEF NoEcho
  <2>1. CASE q # p
    BY <1>2, <1>3, <1>7, <2>1 DEF NoEcho
  <2>2. CASE q = p
    <3>1. inbox'[q] = c
      BY <1>2, <1>7, <2>2
    <3>2. \A i \in DOMAIN a : a[i].origin # p
      BY <1>2, <1>3, <1>6 DEF NoEcho
    <3>3. \A i \in DOMAIN c : (i \in DOMAIN a /\ c[i] = a[i])
                              \/ (i - Len(a) \in DOMAIN t /\ c[i] = t[i - Len(a)])
      BY <1>6, ConcatEvents
    <3>4. \A i \in DOMAIN c : c[i].origin # p
      BY <1>5, <3>2, <3>3
    <3>5. QED
      BY <2>2, <3>1, <3>4
  <2>3. QED
    BY <2>1, <2>2
<1>12. QED
  BY <1>9, <1>10, <1>11 DEF FleetInv

LEMMA OrderedWidens ==
  ASSUME NEW a \in Seq(Events), NEW b \in Seq(Events), NEW p \in Members,
         NEW lo \in Nat, NEW hi \in Nat, NEW low \in Nat, NEW high \in Nat,
         Ordered(a, b, p, lo, hi), low <= lo, hi <= high
  PROVE  Ordered(a, b, p, low, high)
<1>1. ASSUME NEW s \in Seq(Events), Within(s, p, lo, hi) PROVE Within(s, p, low, high)
  <2>1. \A i \in DOMAIN s : Reports(s[i], p) => s[i].snap.ver \in Nat
    BY EventKinds DEF Reports
  <2>2. QED
    BY <1>1, <2>1 DEF Within
<1>2. Within(a, p, low, high) /\ Within(b, p, low, high)
  BY <1>1 DEF Ordered
<1>3. QED
  BY <1>2 DEF Ordered

LEMMA LoadMovesInv ==
  ASSUME FleetInv, NEW g \in Members, NEW h \in Hosts, NEW n \in 0 .. 1, NEW shed \in {{}, {h}},
         LoadMoves(g, h, n, shed)
  PROVE  FleetInv'
<1>1. /\ mine' = [mine EXCEPT ![g] = [load |-> [mine[g].load EXCEPT ![h] = n], shed |-> shed,
                                      ver |-> mine[g].ver + 1]]
      /\ UNCHANGED <<transport, view, held, outbox, inbox, late, losses, newest, everHeld, removals>>
  BY DEF LoadMoves
<1>2. FleetTypeOK /\ OutboxIsOwn /\ NoEcho /\ OwnLoadCountedOnce /\ StreamsInOrder /\ InsertsArrive
      /\ inbox \in [Members -> Seq(Events)] /\ outbox \in [Members -> Seq(Events)]
      /\ mine \in [Members -> Snapshots]
  BY DEF FleetInv, FleetTypeOK
<1>3. mine' \in [Members -> Snapshots] /\ \A p \in Members : mine[p].ver \in Nat /\ mine'[p].ver \in Nat
                                                          /\ mine[p].ver <= mine'[p].ver
  <2>1. mine[g].load \in [Hosts -> Nat] /\ mine[g].ver \in Nat
    BY <1>2 DEF Snapshots
  <2>2. PICK y \in Snapshots : /\ y = [load |-> [mine[g].load EXCEPT ![h] = n], shed |-> shed,
                                      ver |-> mine[g].ver + 1]
                               /\ y.ver = mine[g].ver + 1
    <3>1. [mine[g].load EXCEPT ![h] = n] \in [Hosts -> Nat] /\ shed \in SUBSET Hosts
      BY <2>1
    <3>2. [load |-> [mine[g].load EXCEPT ![h] = n], shed |-> shed, ver |-> mine[g].ver + 1] \in Snapshots
      BY <2>1, <3>1 DEF Snapshots
    <3>3. QED
      BY <3>2
  <2>3. mine' = [mine EXCEPT ![g] = y]
    BY <1>1, <2>2
  <2>4. mine' \in [Members -> Snapshots] /\ mine'[g] = y /\ \A p \in Members \ {g} : mine'[p] = mine[p]
    BY <1>2, <2>3
  <2>5. \A p \in Members : mine[p].ver \in Nat
    BY <1>2 DEF Snapshots
  <2>6. QED
    BY <2>2, <2>4, <2>5
<1>4. FleetTypeOK'
  BY <1>1, <1>2, <1>3 DEF FleetTypeOK
<1>5. OutboxIsOwn' /\ NoEcho' /\ OwnLoadCountedOnce' /\ InsertsArrive'
  BY <1>1, <1>2 DEF OutboxIsOwn, NoEcho, OwnLoadCountedOnce, InsertsArrive, Inserted
<1>6. StreamsInOrder'
  <2> SUFFICES ASSUME InOrder
               PROVE  /\ late = {} /\ newest \in [Members -> [Members -> Nat]]
                      /\ \A q, p \in Members :
                           /\ view[q][p].ver = newest[q][p] /\ newest[q][p] <= mine'[p].ver
                           /\ Ordered(inbox[q], outbox[p], p, newest[q][p], mine'[p].ver)
    BY <1>1 DEF StreamsInOrder, InOrder, Ordered, Rising, Before, Within, Reports
  <2>1. /\ late = {} /\ newest \in [Members -> [Members -> Nat]]
        /\ \A q, p \in Members :
             /\ view[q][p].ver = newest[q][p] /\ newest[q][p] <= mine[p].ver
             /\ Ordered(inbox[q], outbox[p], p, newest[q][p], mine[p].ver)
    BY <1>2 DEF StreamsInOrder
  <2>2. ASSUME NEW q \in Members, NEW p \in Members
        PROVE  newest[q][p] <= mine'[p].ver /\ Ordered(inbox[q], outbox[p], p, newest[q][p], mine'[p].ver)
    <3>1. PICK lo \in Nat, hi \in Nat, high \in Nat :
            lo = newest[q][p] /\ hi = mine[p].ver /\ high = mine'[p].ver /\ hi <= high /\ lo <= hi /\ lo <= lo
      <4>1. newest[q][p] \in Nat /\ newest[q][p] <= mine[p].ver
        BY <2>1
      <4>2. QED
        BY <1>3, <4>1
    <3>2. PICK a \in Seq(Events), b \in Seq(Events) : a = inbox[q] /\ b = outbox[p]
      BY <1>2
    <3>3. Ordered(a, b, p, lo, hi)
      BY <2>1, <3>1, <3>2
    <3>4. Ordered(a, b, p, lo, high)
      BY <3>1, <3>3, OrderedWidens
    <3>5. QED
      BY <3>1, <3>2, <3>4
  <2>3. QED
    BY <2>1, <2>2
<1>7. QED
  BY <1>4, <1>5, <1>6 DEF FleetInv

LEMMA RebootInv == ASSUME FleetInv, NEW g \in Members, Reboot(g) PROVE FleetInv'
<1>1. /\ mine' = [mine EXCEPT ![g] = Fresh(mine[g].ver + 1)]
      /\ view' = [view EXCEPT ![g] = [p \in Members |-> Unseen]]
      /\ newest' = [newest EXCEPT ![g] = [p \in Members |-> 0]]
      /\ held' = [held EXCEPT ![g] = {}]
      /\ outbox' = [outbox EXCEPT ![g] = <<>>] /\ inbox' = [inbox EXCEPT ![g] = <<>>]
      /\ late' = {m \in late : m[1] # g}
      /\ UNCHANGED <<transport, losses, everHeld, removals>> /\ transport # "memory"
  BY DEF Reboot
<1>2. FleetTypeOK /\ OutboxIsOwn /\ NoEcho /\ OwnLoadCountedOnce /\ StreamsInOrder
      /\ inbox \in [Members -> Seq(Events)] /\ outbox \in [Members -> Seq(Events)]
      /\ mine \in [Members -> Snapshots] /\ view \in [Members -> Views] /\ held \in [Members -> Trees]
  BY DEF FleetInv, FleetTypeOK
<1>3. mine' \in [Members -> Snapshots] /\ \A p \in Members : mine[p].ver \in Nat /\ mine'[p].ver \in Nat
                                                          /\ mine[p].ver <= mine'[p].ver
  <2>1. \A p \in Members : mine[p].ver \in Nat
    BY <1>2 DEF Snapshots
  <2>2. PICK y \in Snapshots : y = Fresh(mine[g].ver + 1) /\ y.ver = mine[g].ver + 1
    BY <2>1, FreshIsSnapshot
  <2>3. mine' \in [Members -> Snapshots] /\ mine'[g] = y /\ \A p \in Members \ {g} : mine'[p] = mine[p]
    BY <1>1, <1>2, <2>2
  <2>4. QED
    BY <2>1, <2>2, <2>3
<1>4. /\ view' \in [Members -> Views] /\ held' \in [Members -> Trees]
      /\ \A p \in Members : view'[g][p] = Unseen
      /\ \A q \in Members \ {g} : view'[q] = view[q]
  <2>1. [p \in Members |-> Unseen] \in Views /\ {} \in Trees
    BY DEF Views, Trees
  <2>2. QED
    BY <1>1, <1>2, <2>1
<1>5. /\ inbox' \in [Members -> Seq(Events)] /\ outbox' \in [Members -> Seq(Events)]
      /\ inbox'[g] = <<>> /\ outbox'[g] = <<>>
      /\ \A q \in Members \ {g} : inbox'[q] = inbox[q] /\ outbox'[q] = outbox[q]
  BY <1>1, <1>2
<1>6. FleetTypeOK'
  BY <1>1, <1>2, <1>3, <1>4, <1>5 DEF FleetTypeOK
<1>7. OutboxIsOwn' /\ NoEcho'
  <2>1. DOMAIN <<>> = {}
    OBVIOUS
  <2>2. OutboxIsOwn'
    BY <1>2, <1>5, <2>1 DEF OutboxIsOwn
  <2>3. NoEcho'
    BY <1>1, <1>2, <1>5, <2>1 DEF NoEcho
  <2>4. QED
    BY <2>2, <2>3
<1>8. OwnLoadCountedOnce' /\ InsertsArrive'
  BY <1>1, <1>2, <1>4 DEF OwnLoadCountedOnce, InsertsArrive
<1>9. StreamsInOrder'
  <2> SUFFICES ASSUME InOrder
               PROVE  /\ late' = {} /\ newest' \in [Members -> [Members -> Nat]]
                      /\ \A q, p \in Members :
                           /\ view'[q][p].ver = newest'[q][p] /\ newest'[q][p] <= mine'[p].ver
                           /\ Ordered(inbox'[q], outbox'[p], p, newest'[q][p], mine'[p].ver)
    BY <1>1 DEF StreamsInOrder, InOrder, Ordered, Rising, Before, Within, Reports
  <2>1. /\ late = {} /\ newest \in [Members -> [Members -> Nat]]
        /\ \A q, p \in Members :
             /\ view[q][p].ver = newest[q][p] /\ newest[q][p] <= mine[p].ver
             /\ Ordered(inbox[q], outbox[p], p, newest[q][p], mine[p].ver)
    BY <1>2 DEF StreamsInOrder
  <2>2. /\ late' = {} /\ newest' \in [Members -> [Members -> Nat]]
        /\ \A p \in Members : newest'[g][p] = 0
        /\ \A q \in Members \ {g} : newest'[q] = newest[q]
    BY <1>1, <2>1
  <2>3. ASSUME NEW q \in Members, NEW p \in Members
        PROVE  /\ view'[q][p].ver = newest'[q][p] /\ newest'[q][p] <= mine'[p].ver
               /\ Ordered(inbox'[q], outbox'[p], p, newest'[q][p], mine'[p].ver)
    <3>1. PICK lo \in Nat, hi \in Nat, low \in Nat, high \in Nat :
            /\ lo = newest[q][p] /\ hi = mine[p].ver /\ high = mine'[p].ver /\ hi <= high
            /\ lo <= hi /\ low = newest'[q][p] /\ low <= lo
      <4>1. newest'[q][p] <= newest[q][p]
        BY <2>1, <2>2
      <4>2. QED
        BY <1>3, <2>1, <2>2, <4>1
    <3>2. PICK a \in Seq(Events), b \in Seq(Events), x \in Seq(Events), y \in Seq(Events) :
            a = inbox[q] /\ b = outbox[p] /\ x = inbox'[q] /\ y = outbox'[p]
      BY <1>2, <1>5
    <3>3. (x = a \/ x = <<>>) /\ (y = b \/ y = <<>>)
      BY <1>5, <3>2
    <3>4. Ordered(a, b, p, low, high)
      BY <2>1, <3>1, <3>2, OrderedWidens
    <3>5. Ordered(x, y, p, low, high)
      <4>1. DOMAIN <<>> = {}
        OBVIOUS
      <4>2. QED
        BY <3>3, <3>4, <4>1 DEF Ordered, Rising, Before, Within
    <3>6. view'[q][p].ver = newest'[q][p]
      BY <1>4, <2>1, <2>2, UnseenVer
    <3>7. QED
      BY <3>1, <3>2, <3>5, <3>6
  <2>4. QED
    BY <2>2, <2>3
<1>10. QED
  BY <1>6, <1>7, <1>8, <1>9 DEF FleetInv

(* A prefix event in a list changes nothing in the order of the reports.    *)
LEMMA PublishKeeps ==
  ASSUME FleetInv, NEW g \in Members, NEW e \in PrefixEvents, e.origin = g, publish(g, e),
         UNCHANGED <<transport, mine, view, late, losses, newest>>,
         held' \in [Members -> Trees], everHeld' \in Trees, removals' \in BOOLEAN, InsertsArrive'
  PROVE  FleetInv'
<1>1. FleetTypeOK /\ OutboxIsOwn /\ NoEcho /\ OwnLoadCountedOnce /\ StreamsInOrder
      /\ inbox \in [Members -> Seq(Events)] /\ outbox \in [Members -> Seq(Events)]
  BY DEF FleetInv, FleetTypeOK
<1>2. e \in Events /\ \A p : ~Reports(e, p)
  BY DEF Events, PrefixEvents, Reports
<1>3. PICK x \in Seq(Events) : x = <<e>> /\ DOMAIN x = {1} /\ x[1] = e
  <2>1. <<e>> \in Seq(Events)
    BY <1>2
  <2>2. DOMAIN <<e>> = {1} /\ <<e>>[1] = e
    OBVIOUS
  <2>3. QED
    BY <2>1, <2>2
<1>4. \A p : Silent(x, p)
  BY <1>2, <1>3 DEF Silent
<1>5. ASSUME NEW q \in Members
      PROVE  /\ inbox'[q] \in Seq(Events)
             /\ inbox'[q] = inbox[q] \/ (q # g /\ transport = "memory" /\ inbox'[q] = inbox[q] \o x)
  <2>1. PICK a \in Seq(Events) : a = inbox[q]
    BY <1>1
  <2>2. a \o x \in Seq(Events) /\ Append(a, e) = a \o x
    <3>1. a \o x \in Seq(Events)
      BY ConcatEvents
    <3>2. Append(a, e) = a \o x
      BY <1>2, <1>3, AppendIsConcat
    <3>3. QED
      BY <3>1, <3>2
  <2>3. inbox'[q] = inbox[q] \/ (q # g /\ transport = "memory" /\ inbox'[q] = Append(inbox[q], e))
    BY DEF publish, broadcast
  <2>4. QED
    BY <2>1, <2>2, <2>3
<1>6. ASSUME NEW q \in Members
      PROVE  /\ outbox'[q] \in Seq(Events)
             /\ outbox'[q] = outbox[q] \/ (q = g /\ outbox'[q] = outbox[q] \o x)
  <2>1. PICK a \in Seq(Events) : a = outbox[q]
    BY <1>1
  <2>2. a \o x \in Seq(Events) /\ Append(a, e) = a \o x
    <3>1. a \o x \in Seq(Events)
      BY ConcatEvents
    <3>2. Append(a, e) = a \o x
      BY <1>2, <1>3, AppendIsConcat
    <3>3. QED
      BY <3>1, <3>2
  <2>3. outbox'[q] = outbox[q] \/ (q = g /\ outbox'[q] = Append(outbox[q], e))
    BY <1>1 DEF publish
  <2>4. QED
    BY <2>1, <2>2, <2>3
<1>7. inbox' \in [Members -> Seq(Events)] /\ outbox' \in [Members -> Seq(Events)]
  <2>1. CASE transport = "memory"
    <3>1. inbox' = broadcast(inbox, e) /\ outbox' = outbox
      BY <2>1 DEF publish
    <3>2. inbox' = [q \in Members |-> inbox'[q]]
      BY <3>1 DEF broadcast
    <3>3. QED
      BY <1>1, <1>5, <3>1, <3>2
  <2>2. CASE transport # "memory"
    <3>1. outbox' = [outbox EXCEPT ![g] = Append(@, e)] /\ inbox' = inbox
      BY <2>2 DEF publish
    <3>2. outbox' = [q \in Members |-> outbox'[q]]
      BY <1>1, <3>1
    <3>3. QED
      BY <1>1, <1>6, <3>1, <3>2
  <2>3. QED
    BY <2>1, <2>2
<1>8. FleetTypeOK'
  BY <1>1, <1>7 DEF FleetTypeOK
<1>9. ASSUME NEW a \in Seq(Events)
      PROVE  \A i \in DOMAIN (a \o x) : (i \in DOMAIN a /\ (a \o x)[i] = a[i]) \/ (a \o x)[i] = e
  <2>1. PICK t \in Seq(Events) : t = a \o x
    BY ConcatEvents
  <2>2. \A i \in DOMAIN t : (i \in DOMAIN a /\ t[i] = a[i])
                            \/ (i - Len(a) \in DOMAIN x /\ t[i] = x[i - Len(a)])
    BY <2>1, ConcatEvents
  <2>3. \A i \in DOMAIN t : (i \in DOMAIN a /\ t[i] = a[i]) \/ t[i] = e
    BY <1>3, <2>2
  <2>4. QED
    BY <2>1, <2>3
<1>10. OutboxIsOwn'
  <2> SUFFICES ASSUME NEW q \in Members PROVE \A i \in DOMAIN outbox'[q] : outbox'[q][i].origin = q
    BY DEF OutboxIsOwn
  <2>1. PICK a \in Seq(Events) : a = outbox[q] /\ \A i \in DOMAIN a : a[i].origin = q
    BY <1>1 DEF OutboxIsOwn
  <2>2. CASE outbox'[q] = a
    BY <2>1, <2>2
  <2>3. CASE q = g /\ outbox'[q] = a \o x
    <3>1. \A i \in DOMAIN (a \o x) : (a \o x)[i].origin = q
      BY <1>9, <2>1, <2>3
    <3>2. QED
      BY <2>3, <3>1
  <2>4. QED
    BY <1>6, <2>1, <2>2, <2>3
<1>11. NoEcho'
  <2> SUFFICES ASSUME transport # "redis", NEW q \in Members
               PROVE  \A i \in DOMAIN inbox'[q] : inbox'[q][i].origin # q
    BY DEF NoEcho
  <2>1. PICK a \in Seq(Events) : a = inbox[q] /\ \A i \in DOMAIN a : a[i].origin # q
    BY <1>1 DEF NoEcho
  <2>2. CASE inbox'[q] = a
    BY <2>1, <2>2
  <2>3. CASE q # g /\ inbox'[q] = a \o x
    <3>1. \A i \in DOMAIN (a \o x) : (a \o x)[i].origin # q
      BY <1>9, <2>1, <2>3
    <3>2. QED
      BY <2>3, <3>1
  <2>4. QED
    BY <1>5, <2>1, <2>2, <2>3
<1>12. OwnLoadCountedOnce'
  BY <1>1 DEF OwnLoadCountedOnce
<1>13. StreamsInOrder'
  <2> SUFFICES ASSUME InOrder
               PROVE  /\ late = {} /\ newest \in [Members -> [Members -> Nat]]
                      /\ \A q, p \in Members :
                           /\ view[q][p].ver = newest[q][p] /\ newest[q][p] <= mine[p].ver
                           /\ Ordered(inbox'[q], outbox'[p], p, newest[q][p], mine[p].ver)
    BY DEF StreamsInOrder, InOrder, Ordered, Rising, Before, Within, Reports
  <2>1. /\ late = {} /\ newest \in [Members -> [Members -> Nat]]
        /\ \A q, p \in Members :
             /\ view[q][p].ver = newest[q][p] /\ newest[q][p] <= mine[p].ver
             /\ Ordered(inbox[q], outbox[p], p, newest[q][p], mine[p].ver)
    BY <1>1 DEF StreamsInOrder
  <2>2. ASSUME NEW q \in Members, NEW p \in Members
        PROVE  Ordered(inbox'[q], outbox'[p], p, newest[q][p], mine[p].ver)
    <3>1. PICK a \in Seq(Events), b \in Seq(Events), y \in Seq(Events), z \in Seq(Events) :
            a = inbox[q] /\ b = outbox[p] /\ y = inbox'[q] /\ z = outbox'[p]
      BY <1>1, <1>7
    <3>2. PICK lo, hi : lo = newest[q][p] /\ hi = mine[p].ver
      OBVIOUS
    <3>3. Ordered(a, b, p, lo, hi)
      BY <2>1, <3>1, <3>2
    <3>4. (y = a \/ y = a \o x) /\ (z = b \/ z = b \o x)
      BY <1>5, <1>6, <3>1
    <3>5. Silent(x, p)
      BY <1>4
    <3>6. Ordered(y, b, p, lo, hi)
      BY <3>3, <3>4, <3>5, OthersKeepOrder
    <3>7. Ordered(y, z, p, lo, hi)
      BY <3>4, <3>5, <3>6, OthersKeepOrder
    <3>8. QED
      BY <3>1, <3>2, <3>7
  <2>3. QED
    BY <2>1, <2>2
<1>14. QED
  BY <1>8, <1>10, <1>11, <1>12, <1>13 DEF FleetInv

LEMMA PrefixEventIs ==
  ASSUME NEW kind \in {"insert", "remove_backend"}, NEW g \in Members, NEW h \in Hosts
  PROVE  /\ PrefixEvent(kind, g, h) \in PrefixEvents
         /\ PrefixEvent(kind, g, h).origin = g /\ PrefixEvent(kind, g, h).kind = kind
         /\ PrefixEvent(kind, g, h).host = h
BY DEF PrefixEvent, PrefixEvents

LEMMA HostLostInv ==
  ASSUME FleetInv, NEW g \in Members, NEW h \in Hosts, HostLost(g, h) PROVE FleetInv'
<1>1. PICK e \in PrefixEvents : e = PrefixEvent("remove_backend", g, h) /\ e.origin = g
  BY PrefixEventIs
<1>2. /\ publish(g, e) /\ held' = [held EXCEPT ![g] = @ \ {h}] /\ removals' = TRUE
      /\ UNCHANGED <<transport, mine, view, late, losses, newest, everHeld>>
  BY <1>1 DEF HostLost
<1>3. held' \in [Members -> Trees] /\ everHeld' \in Trees
  BY <1>2 DEF FleetInv, FleetTypeOK, Trees
<1>4. InsertsArrive'
  <2>1. transport = "memory" => \A q \in Members : outbox'[q] = <<>>
    BY <1>2 DEF publish, FleetInv, InsertsArrive
  <2>2. QED
    BY <1>2, <2>1 DEF InsertsArrive
<1>5. QED
  BY <1>1, <1>2, <1>3, <1>4, PublishKeeps

LEMMA DispatchedInv ==
  ASSUME FleetInv, NEW g \in Members, NEW h \in Hosts, Dispatched(g, h) PROVE FleetInv'
<1>1. PICK e \in PrefixEvents :
        e = PrefixEvent("insert", g, h) /\ e.origin = g /\ e.kind = "insert" /\ e.host = h
  BY PrefixEventIs
<1>2. /\ publish(g, e) /\ held' = [held EXCEPT ![g] = held[g] \cup {h}] /\ everHeld' = everHeld \cup {h}
      /\ UNCHANGED <<transport, mine, view, late, losses, newest, removals>>
  BY <1>1 DEF Dispatched
<1>3. /\ held \in [Members -> Trees] /\ everHeld \in Trees /\ removals \in BOOLEAN
      /\ inbox \in [Members -> Seq(Events)] /\ InsertsArrive
  BY DEF FleetInv, FleetTypeOK
<1>4. held' \in [Members -> Trees] /\ everHeld' \in Trees
  BY <1>2, <1>3 DEF Trees
<1>5. InsertsArrive'
  <2> SUFFICES ASSUME transport = "memory"
               PROVE  /\ \A q \in Members : outbox'[q] = <<>>
                      /\ ~removals => \A q \in Members :
                           /\ \A i \in DOMAIN inbox'[q] : inbox'[q][i].kind # "remove_backend"
                           /\ held'[q] \cup Inserted(inbox'[q]) = everHeld'
    BY <1>2 DEF InsertsArrive, Inserted
  <2>1. \A q \in Members : outbox'[q] = <<>>
    BY <1>2, <1>3 DEF publish, InsertsArrive
  <2>2. ASSUME ~removals, NEW q \in Members
        PROVE  /\ \A i \in DOMAIN inbox'[q] : inbox'[q][i].kind # "remove_backend"
               /\ held'[q] \cup Inserted(inbox'[q]) = everHeld'
    <3>1. PICK a \in Seq(Events) :
            /\ a = inbox[q] /\ \A i \in DOMAIN a : a[i].kind # "remove_backend"
            /\ held[q] \cup Inserted(a) = everHeld
      BY <1>3, <2>2 DEF InsertsArrive
    <3>2. inbox'[q] = IF q = g THEN a ELSE Append(a, e)
      BY <1>1, <1>2, <3>1 DEF publish, broadcast
    <3>3. CASE q = g
      <4>1. held'[q] = held[q] \cup {h}
        BY <1>2, <1>3, <3>3
      <4>2. QED
        BY <1>2, <3>1, <3>2, <3>3, <4>1
    <3>4. CASE q # g
      <4>1. held'[q] = held[q]
        BY <1>2, <1>3, <3>4
      <4>2. PICK t : t = Append(a, e)
        OBVIOUS
      <4>3. /\ \A i \in DOMAIN a : i \in DOMAIN t /\ t[i] = a[i]
            /\ \A i \in DOMAIN t : i \in DOMAIN a \/ t[i] = e
            /\ \E i \in DOMAIN t : t[i] = e
        BY <4>2
      <4>4. Inserted(t) = Inserted(a) \cup {h}
        BY <1>1, <4>3 DEF Inserted
      <4>5. \A i \in DOMAIN t : t[i].kind # "remove_backend"
        BY <1>1, <3>1, <4>3
      <4>6. QED
        BY <1>2, <3>1, <3>2, <3>4, <4>1, <4>2, <4>4, <4>5
    <3>5. QED
      BY <3>3, <3>4
  <2>3. QED
    BY <2>1, <2>2
<1>6. QED
  BY <1>1, <1>2, <1>3, <1>4, <1>5, PublishKeeps

-----------------------------------------------------------------------------
LEMMA FleetStep == ASSUME FleetInv, [FleetNext]_fleetVars PROVE FleetInv'
<1>1. CASE UNCHANGED fleetVars
  <2>1. FleetTypeOK' /\ OutboxIsOwn' /\ NoEcho' /\ OwnLoadCountedOnce'
    BY <1>1 DEF FleetInv, fleetVars, FleetTypeOK, OutboxIsOwn, NoEcho, OwnLoadCountedOnce
  <2>2. StreamsInOrder'
    BY <1>1 DEF FleetInv, fleetVars, StreamsInOrder, InOrder, Ordered, Rising, Before, Within, Reports
  <2>3. InsertsArrive'
    BY <1>1 DEF FleetInv, fleetVars, InsertsArrive, Inserted
  <2>4. QED
    BY <2>1, <2>2, <2>3 DEF FleetInv
<1>2. CASE FleetNext
  <2>1. CASE LatePost
    BY <2>1, LatePostInv
  <2>2. ASSUME NEW g \in Members, FleetSync(g) PROVE FleetInv'
    BY <2>2, MemorySyncInv, RedisSyncInv, RedisPublishFailsInv, RedisReadFailsInv, GossipSyncInv
       DEF FleetSync
  <2>3. ASSUME NEW g \in Members, Reboot(g) PROVE FleetInv'
    BY <2>3, RebootInv
  <2>4. ASSUME NEW g \in Members, NEW h \in Hosts, Dispatched(g, h) \/ HostLost(g, h) PROVE FleetInv'
    BY <2>4, DispatchedInv, HostLostInv
  <2>5. ASSUME NEW g \in Members, NEW h \in Hosts, NEW n \in 0 .. 1, NEW shed \in {{}, {h}},
               LoadMoves(g, h, n, shed)
        PROVE  FleetInv'
    BY <2>5, LoadMovesInv
  <2>6. QED
    BY <1>2, <2>1, <2>2, <2>3, <2>4, <2>5 DEF FleetNext
<1>3. QED
  BY <1>1, <1>2

LEMMA FleetInvGives == FleetInv => ViewsAreSnapshots
<1> SUFFICES ASSUME FleetInv PROVE ViewsAreSnapshots
  OBVIOUS
<1>1. OwnLoadCountedOnce
  BY DEF FleetInv
<1>2. NewestSnapshotWins
  BY DEF FleetInv, StreamsInOrder, InOrder, NewestSnapshotWins
<1>3. TreesAreUnions
  <2> SUFFICES ASSUME NEW g \in Members, transport = "memory", ~removals,
                      \A i \in DOMAIN inbox[g] : inbox[g][i].kind = "load"
               PROVE  held[g] = everHeld
    BY DEF TreesAreUnions
  <2>1. held[g] \cup Inserted(inbox[g]) = everHeld
    BY DEF FleetInv, InsertsArrive
  <2>2. Inserted(inbox[g]) = {}
    BY DEF Inserted
  <2>3. QED
    BY <2>1, <2>2
<1>4. QED
  BY <1>1, <1>2, <1>3 DEF ViewsAreSnapshots

(* coordinator.py and fleet.py over all three buses, for any number of      *)
(* replicas, backends, losses and restarts: the own load never enters the   *)
(* own view; unless a gossip post was lost or late a view shows the newest  *)
(* snapshot its replica has read, although apply() compares no sequence     *)
(* numbers; and on the in-memory bus trees are the union of all inserts.    *)
THEOREM FleetViewsAreSnapshots == FleetSpec => []ViewsAreSnapshots
<1>1. FleetInit => FleetInv
  BY FleetInitInv
<1>2. FleetInv /\ [FleetNext]_fleetVars => FleetInv'
  BY FleetStep
<1>3. FleetInv => ViewsAreSnapshots
  BY FleetInvGives
<1>4. QED
  BY <1>1, <1>2, <1>3, PTL DEF FleetSpec
=============================================================================
