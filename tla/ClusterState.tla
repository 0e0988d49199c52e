---------------------------- MODULE ClusterState ----------------------------
(***************************************************************************)
(* gateway/cluster: how operators' drain and membership decisions made at  *)
(* one gateway replica reach the registries of all replicas.               *)
(*                                                                         *)
(* Every replica has two last-writer-wins maps and a registry that is made *)
(* to follow them.  A decision is broadcast once as a delta, which may be  *)
(* lost, delayed, repeated or overtaken; the digests of the full maps that *)
(* are broadcast periodically repair that.  A message is the entries it    *)
(* carries; since entries stay in sent for good, a delta may arrive at any *)
(* later time, in any order, any number of times, or never.  A sync that   *)
(* finds several entries for one key keeps the newest, so it is a sync     *)
(* with at most one entry per key.                                         *)
(***************************************************************************)
EXTENDS Naturals, FiniteSets, TLC

CONSTANTS Replicas,     \* numbers: ids are compared as tie-breakers
          Backends, Urls, Models,
          Boot,         \* start-up configuration: [some backends -> url]
          DefaultModel,
          SharedStore,  \* whether a durable drain snapshot is shared (Redis)
          StoreFails,   \* whether calls to the snapshot may fail
          Ops,          \* operator calls of this instance
          MaxOps,       \* bound: operator calls in total
          MaxRestarts   \* bound: restarts in total

ASSUME ClusterAssumption ==
  /\ Replicas \subseteq Nat
  /\ IsFiniteSet(Backends)
  /\ DOMAIN Boot \subseteq Backends /\ \A b \in DOMAIN Boot : Boot[b] \in Urls
  /\ DefaultModel \in Models
  /\ Ops \subseteq {"drain", "undrain", "add", "remove"}
  /\ MaxOps \in Nat /\ MaxRestarts \in Nat

VARIABLES drain, dclock,      \* DrainState of each replica
          member, mclock,     \* MembershipState of each replica
          reg,                \* BackendRegistry of each replica
          sentDrains, sentMembers,   \* entries ever written: <<key, entry>>
          store,              \* the durable snapshot: drained ids
          ops, restarts

DrainShown(e) == e.draining
MemberShown(e) == <<e.present, e.url>>

R == INSTANCE BackendRegistry
D == INSTANCE LwwMap WITH Shown <- DrainShown
M == INSTANCE LwwMap WITH Shown <- MemberShown

vars == <<drain, dclock, member, mclock, reg, sentDrains, sentMembers, store, ops, restarts>>

Empty == <<>>
BootRegistry == [b \in DOMAIN Boot |-> R!Backend(Boot[b], DefaultModel, TRUE)]

DrainEntry == [draining : BOOLEAN, ts : Nat, origin : Replicas]
MemberEntry == [present : BOOLEAN, url : Urls \cup {""}, model : Models \cup {""},
                ts : Nat, origin : Replicas]

IsMap(f, V) == DOMAIN f \subseteq Backends /\ \A b \in DOMAIN f : f[b] \in V

TypeOK ==
  /\ \A r \in Replicas :
       /\ IsMap(drain[r], DrainEntry) /\ dclock[r] \in Nat
       /\ IsMap(member[r], MemberEntry) /\ mclock[r] \in Nat
       /\ IsMap(reg[r], [url : Urls, model : Models, healthy : BOOLEAN, draining : BOOLEAN])
  /\ sentDrains \subseteq Backends \X DrainEntry
  /\ sentMembers \subseteq Backends \X MemberEntry
  /\ store \subseteq Backends
  /\ ops \in 0 .. MaxOps /\ restarts \in 0 .. MaxRestarts

Init ==
  /\ drain = [r \in Replicas |-> Empty] /\ dclock = [r \in Replicas |-> 0]
  /\ member = [r \in Replicas |-> Empty] /\ mclock = [r \in Replicas |-> 0]
  /\ reg = [r \in Replicas |-> BootRegistry]
  /\ sentDrains = {} /\ sentMembers = {}
  /\ store = {}
  /\ ops = 0 /\ restarts = 0

-----------------------------------------------------------------------------
(* Reconciling a registry with the maps                                    *)

drained(map) == {b \in DOMAIN map : map[b].draining}
present(map) == {b \in DOMAIN map : map[b].present}

reconcile_drains(registry, map) ==
  [b \in DOMAIN registry |-> [registry[b] EXCEPT !.draining = b \in drained(map)]]

\* The model a registry record gets: "" stands for none given.
ModelOf(m) == IF m = "" THEN DefaultModel ELSE m

\* Mutant of reconcile_membership: nothing is removed.
reconcile_adds(registry, map) ==
  [b \in DOMAIN registry \cup present(map) |->
     IF b \in present(map)
     THEN R!add(registry, b, map[b].url, ModelOf(map[b].model))[b]
     ELSE registry[b]]

\* Add every present entry, then remove every tombstoned id.
reconcile_membership(registry, map) ==
  [b \in (DOMAIN registry \cup DOMAIN map) \ (DOMAIN map \ present(map)) |->
     IF b \in DOMAIN map
     THEN R!add(registry, b, map[b].url, ModelOf(map[b].model))[b]
     ELSE registry[b]]

-----------------------------------------------------------------------------
(* The operator's calls at replica r                                       *)

\* set_local advances the own clock.
Tick(clock, r) == [clock EXCEPT ![r] = @ + 1]

Call(op) == op \in Ops /\ ops < MaxOps /\ ops' = ops + 1

\* The snapshot is best effort: an error is swallowed.
record_drain(b, flag) ==
  \/ SharedStore /\ store' = IF flag THEN store \cup {b} ELSE store \ {b}
  \/ (~SharedStore \/ StoreFails) /\ UNCHANGED store

\* admin_drain and admin_undrain: set the flag, then publish_drain.
AdminDrain(r, b, flag) ==
  LET entry == [draining |-> flag, ts |-> dclock[r] + 1, origin |-> r]
      map == D!set_local(drain[r], b, entry)
  IN  /\ Call(IF flag THEN "drain" ELSE "undrain")
      /\ b \in DOMAIN reg[r]
      /\ drain' = [drain EXCEPT ![r] = map]
      /\ dclock' = Tick(dclock, r)
      /\ sentDrains' = sentDrains \cup {<<b, entry>>}
      /\ record_drain(b, flag)
      /\ reg' = [reg EXCEPT ![r] = reconcile_drains(R!set_draining(@, b, flag), map)]
      /\ UNCHANGED <<member, mclock, sentMembers, restarts>>

\* admin_add_backend: registry.add, then publish_member_add.
AdminAdd(r, b, url, model) ==
  LET entry == [present |-> TRUE, url |-> url, model |-> model, ts |-> mclock[r] + 1, origin |-> r]
  IN  /\ Call("add")
      /\ reg' = [reg EXCEPT ![r] = R!add(@, b, url, ModelOf(model))]
      /\ member' = [member EXCEPT ![r] = M!set_local(@, b, entry)]
      /\ mclock' = Tick(mclock, r)
      /\ sentMembers' = sentMembers \cup {<<b, entry>>}
      /\ UNCHANGED <<drain, dclock, sentDrains, store, restarts>>

\* admin_remove_backend: registry.remove, then publish_member_remove, which
\* leaves a tombstone in the map.
AdminRemove(r, b) ==
  LET entry == [present |-> FALSE, url |-> "", model |-> "", ts |-> mclock[r] + 1, origin |-> r]
  IN  /\ Call("remove")
      /\ b \in DOMAIN reg[r]
      /\ reg' = [reg EXCEPT ![r] = R!remove(@, b)]
      /\ member' = [member EXCEPT ![r] = M!set_local(@, b, entry)]
      /\ mclock' = Tick(mclock, r)
      /\ sentMembers' = sentMembers \cup {<<b, entry>>}
      /\ UNCHANGED <<drain, dclock, sentDrains, store, restarts>>

-----------------------------------------------------------------------------
(* sync() at replica r with the drain entries ds and membership entries ms *)

\* First the maps, then the drain flags, then the membership.
Sync(r, ds, ms) ==
  LET dmap == D!merge(drain[r], ds)
      mmap == M!merge(member[r], ms)
      flagged == IF D!changed(drain[r], ds) THEN reconcile_drains(reg[r], dmap) ELSE reg[r]
  IN  /\ drain' = [drain EXCEPT ![r] = dmap]
      /\ \E c \in D!Observed(dclock[r], ds) : dclock' = [dclock EXCEPT ![r] = c]
      /\ member' = [member EXCEPT ![r] = mmap]
      /\ \E c \in M!Observed(mclock[r], ms) : mclock' = [mclock EXCEPT ![r] = c]
      /\ reg' = [reg EXCEPT ![r] =
           IF M!changed(member[r], ms) THEN reconcile_membership(flagged, mmap) ELSE flagged]
      /\ UNCHANGED <<sentDrains, sentMembers, store, ops, restarts>>

\* Deltas of other replicas arrive: up to one of each kind in a sync.
Deltas(sent, r) == {Empty} \cup {[b \in {s[1]} |-> s[2]] : s \in {d \in sent : d[2].origin # r}}

ReceiveDeltas(r) ==
  \E ds \in Deltas(sentDrains, r), ms \in Deltas(sentMembers, r) :
    /\ ds # Empty \/ ms # Empty
    /\ Sync(r, ds, ms)

\* The two digests of peer p arrive together.
ReceiveDigests(p, r) ==
  /\ p # r
  /\ drain[p] # Empty \/ member[p] # Empty
  /\ Sync(r, drain[p], member[p])

-----------------------------------------------------------------------------
\* Mutant of WarmRegistry: the snapshot does not reach the flags.
WarmRegistryCold(map) == BootRegistry

\* The registry after warm_start.
WarmRegistry(map) == reconcile_drains(BootRegistry, map)

\* A replica restarts under the same id: maps and clocks start afresh and the
\* registry from the configuration; warm_start then drains, as new local
\* decisions in some order, what it reads from the snapshot.
Restart(r) ==
  /\ restarts < MaxRestarts /\ restarts' = restarts + 1
  /\ \E read \in {store} \cup (IF StoreFails THEN {{}} ELSE {}) :
       LET n == Cardinality(read)
       IN  \E order \in R!Bijection(read, 1 .. n) :
             LET map == [b \in read |-> [draining |-> TRUE, ts |-> order[b], origin |-> r]]
             IN  /\ drain' = [drain EXCEPT ![r] = map]
                 /\ dclock' = [dclock EXCEPT ![r] = n]
                 /\ reg' = [reg EXCEPT ![r] = WarmRegistry(map)]
  /\ member' = [member EXCEPT ![r] = Empty]
  /\ mclock' = [mclock EXCEPT ![r] = 0]
  /\ UNCHANGED <<sentDrains, sentMembers, store, ops>>

-----------------------------------------------------------------------------
OperatorStep(r) ==
  \/ \E b \in Backends, flag \in BOOLEAN : AdminDrain(r, b, flag)
  \/ \E b \in Backends, u \in Urls, m \in Models : AdminAdd(r, b, u, m)
  \/ \E b \in Backends : AdminRemove(r, b)

Next ==
  \E r \in Replicas :
    \/ OperatorStep(r)
    \/ ReceiveDeltas(r)
    \/ \E p \in Replicas : ReceiveDigests(p, r)
    \/ Restart(r)

Spec == Init /\ [][Next]_vars

\* Every replica's digests reach every other replica again and again
\* (cluster_sync_loop sends them every eighth tick, for ever); deltas need not.
Fairness == \A p, r \in Replicas : WF_vars(ReceiveDigests(p, r))

FairSpec == Spec /\ Fairness

-----------------------------------------------------------------------------
(* Properties                                                              *)

\* drain_state.py:7 "a version (ts, origin) ... and the highest version wins":
\* until a replica restarts, two replicas never hold different entries for a backend
\* under one version; without this, neither adopts the other's and they stay apart.
VersionDeterminesEntry ==
  restarts = 0 => \A p, r \in Replicas :
    /\ \A b \in DOMAIN drain[p] \cap DOMAIN drain[r] :
         D!Newer(drain[p][b], drain[r][b]) \/ D!Newer(drain[r][b], drain[p][b])
           \/ drain[p][b] = drain[r][b]
    /\ \A b \in DOMAIN member[p] \cap DOMAIN member[r] :
         M!Newer(member[p][b], member[r][b]) \/ M!Newer(member[r][b], member[p][b])
           \/ member[p][b] = member[r][b]

OnlyNewer ==
  \A r \in Replicas :
    /\ \A b \in DOMAIN drain[r] :
         b \in DOMAIN drain'[r] /\ (drain'[r][b] = drain[r][b] \/ D!Newer(drain'[r][b], drain[r][b]))
    /\ \A b \in DOMAIN member[r] :
         b \in DOMAIN member'[r]
         /\ (member'[r][b] = member[r][b] \/ M!Newer(member'[r][b], member[r][b]))

\* membership_state.py:10 "a stale 'still present' can't resurrect it", for both
\* maps: until a replica restarts, an entry is only ever replaced by one of a newer
\* version, the local operator's overwrites included.
EntriesOnlyGetNewer == [][restarts' = 0 => OnlyNewer]_vars

\* coordinator.py:52 "LWW membership map: runtime backend add/removes the
\* registry reconciles to": a backend is in the pool under the map's URL exactly
\* when the map has it present, whatever arrived, in whatever order.
PoolFollowsMap ==
  \A r \in Replicas : \A b \in DOMAIN member[r] :
    IF member[r][b].present
    THEN b \in DOMAIN reg[r] /\ reg[r][b].url = member[r][b].url
    ELSE b \notin DOMAIN reg[r]

\* coordinator.py:50 "LWW drain map: source of truth the registry's draining
\* flags reconcile to".
FlagsFollowMap ==
  \A r \in Replicas : \A b \in DOMAIN reg[r] : reg[r][b].draining <=> b \in drained(drain[r])

MapsAgree(S) == \A p, r \in S : drain[p] = drain[r] /\ member[p] = member[r]

RegistriesAgree(S) ==
  \A p, r \in S :
    /\ DOMAIN reg[p] = DOMAIN reg[r]
    /\ \A b \in DOMAIN reg[p] :
         [reg[p][b] EXCEPT !.healthy = TRUE] = [reg[r][b] EXCEPT !.healthy = TRUE]

\* membership_state.py and coordinator.py:120-140: every replica's state keeps its types and
\* its pool is the one its map says.
PoolIsConsistent == TypeOK /\ PoolFollowsMap

\* drain_state.py:9 "replicas converge regardless of message order or
\* duplication": once the operators stop, all replicas end up with equal maps.
MapsConverge == <>[]MapsAgree(Replicas)
=============================================================================
