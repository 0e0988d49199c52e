------------------------------ MODULE FleetBus ------------------------------
(***************************************************************************)
(* What gateway replicas tell each other about load and prefixes:          *)
(* FleetLoadView (cluster/fleet.py) over the three transports of           *)
(* cluster/bus.py, with publish_* and sync() of cluster/coordinator.py and *)
(* the loop of server.py that calls them.  Drain and membership events     *)
(* travel on the same bus and are modelled in ClusterState.  The hot path  *)
(* only buffers; one pass of the loop publishes the load, flushes, reads   *)
(* and applies without an await.  A replica's tree is abstracted to the    *)
(* backends it believes hold one prefix.                                   *)
(***************************************************************************)
EXTENDS Lists

CONSTANTS Members,         \* gateway replicas
          Hosts,           \* backends
          Transports,      \* of "memory", "redis", "gossip"
          MaxMoves,        \* bound: changes of load, health and prefixes
          MaxLosses,       \* bound: failed, late or broken off transfers
          MaxReboots,      \* bound: restarts
          MaxBacklog       \* bound: unread load events of one replica at another

ASSUME FleetAssumption ==
  /\ Members # {} /\ IsFiniteSet(Hosts) /\ Transports \subseteq {"memory", "redis", "gossip"}
  /\ MaxMoves \in Nat /\ MaxLosses \in Nat /\ MaxReboots \in Nat /\ MaxBacklog \in Nat \ {0}

VARIABLES
  transport,
  mine,       \* replica -> its own load, shed backends; ver counts the changes (history)
  view,       \* FleetLoadView: replica -> origin -> its last snapshot
  held,       \* replica -> backends its tree lists for the prefix
  outbox, inbox,
  late,       \* <<peer, batch>>: posts the sender gave up on that may still be served
  moves, losses, reboots,
  \* history
  newest,              \* replica -> origin -> newest version it has read
  everHeld, removals   \* backends ever inserted; whether one was ever removed

fleetVars == <<transport, mine, view, held, outbox, inbox, late, moves, losses, reboots,
               newest, everHeld, removals>>

Unseen == [ver |-> 0]
Fresh(ver) == [load |-> [h \in Hosts |-> 0], shed |-> {}, ver |-> ver]

FleetInit ==
  /\ transport \in Transports
  /\ mine = [g \in Members |-> Fresh(1)]
  /\ view = [g \in Members |-> [p \in Members |-> Unseen]]
  /\ held = [g \in Members |-> {}]
  /\ outbox = [g \in Members |-> <<>>] /\ inbox = [g \in Members |-> <<>>]
  /\ late = {}
  /\ moves = 0 /\ losses = 0 /\ reboots = 0
  /\ newest = [g \in Members |-> [p \in Members |-> 0]]
  /\ everHeld = {} /\ removals = FALSE

---------------------------------------------------------------------------
(* FleetLoadView as the router reads it                                    *)

Heard(g) == {p \in Members : view[g][p] # Unseen}

peer_inflight(g, h) == MapThenSumSet(LAMBDA p : view[g][p].load[h], Heard(g))

peer_unhealthy(g, h) == \E p \in Heard(g) : h \in view[g][p].shed

---------------------------------------------------------------------------
(* The buses                                                               *)

PrefixEvent(kind, g, h) == [kind |-> kind, origin |-> g, host |-> h]
LoadEvent(g) == [kind |-> "load", origin |-> g, snap |-> mine[g]]

\* Load events of g that p has not read.
Unread(g, p) ==
  Cardinality({i \in DOMAIN inbox[p] : inbox[p][i].kind = "load" /\ inbox[p][i].origin = g})

\* InMemoryBroker.broadcast: to every inbox but the producer's.
broadcast(boxes, e) == [p \in Members |-> IF p = e.origin THEN boxes[p] ELSE Append(boxes[p], e)]

\* publish on the hot path: an append, to the peers' inboxes or to the own outbox.
publish(g, e) ==
  IF transport = "memory" THEN inbox' = broadcast(inbox, e) /\ UNCHANGED outbox
  ELSE outbox' = [outbox EXCEPT ![g] = Append(@, e)] /\ UNCHANGED inbox

\* Mutant: the echo of the replica's own events is applied.
Foreign_all(g, events) == events

\* RedisBus.poll and HttpGossipBus.ingest drop what the replica itself sent.
Foreign(g, events) == Where(events, LAMBDA e : e.origin # g)

\* InMemoryBroker.drain.
Drained(box) == box

---------------------------------------------------------------------------
(* sync(): the events in order                                             *)

\* FleetLoadView.apply replaces the origin's snapshot, whatever its number.
apply(v, e) == IF e.kind = "load" THEN [v EXCEPT ![e.origin] = e.snap] ELSE v

applyPrefix(tree, e) == CASE e.kind = "insert" -> tree \cup {e.host}
                          [] e.kind = "remove_backend" -> tree \ {e.host}
                          [] OTHER -> tree

Applied(g, read) ==
  \E events \in {read} :
    /\ view' = [view EXCEPT ![g] = FoldLeft(apply, @, events)]
    /\ held' = [held EXCEPT ![g] = FoldLeft(applyPrefix, @, events)]
    /\ newest' = [newest EXCEPT ![g] = [p \in Members |-> Max({@[p]} \cup
         {e.snap.ver : e \in {d \in ToSet(events) : d.kind = "load" /\ d.origin = p}})]]

\* Mutant: an idle replica does not report.
publish_load_busy(g) == IF \E h \in Hosts : mine[g].load[h] > 0 THEN <<LoadEvent(g)>> ELSE <<>>

\* What a pass of the loop adds to the outbox.
publish_load(g) == <<LoadEvent(g)>>

\* The bound on the buffers; a replica that has something to read is never held up.
Room(g) == inbox[g] # <<>> \/ \A p \in Members \ {g} : Unread(g, p) < MaxBacklog

MemorySync(g) ==
  LET boxes == FoldLeft(broadcast, inbox, publish_load(g))
  IN  /\ transport = "memory" /\ Room(g)
      /\ Applied(g, Drained(boxes[g]))
      /\ inbox' = [boxes EXCEPT ![g] = <<>>]
      /\ UNCHANGED <<transport, mine, outbox, late, moves, losses, reboots, everHeld, removals>>

\* Redis hands every published event to every subscriber, the publisher included.
Delivered(events) == [p \in Members |-> inbox[p] \o events]

\* The outbox after publishing event k raised: event k was popped before.
LeftToSend(out, k) == SubSeq(out, k + 1, Len(out))

RedisSync(g) ==
  LET out == outbox[g] \o publish_load(g)
      boxes == Delivered(out)
  IN  /\ transport = "redis" /\ Room(g)
      /\ Applied(g, Foreign(g, boxes[g]))
      /\ inbox' = [boxes EXCEPT ![g] = <<>>]
      /\ outbox' = [outbox EXCEPT ![g] = <<>>]
      /\ UNCHANGED <<transport, mine, late, moves, losses, reboots, everHeld, removals>>

\* publish raises at event k of the outbox; what is in the subscription is still read.
RedisPublishFails(g) ==
  LET out == outbox[g] \o publish_load(g)
  IN  \E k \in DOMAIN out :
        LET boxes == Delivered(SubSeq(out, 1, k - 1))
        IN  /\ transport = "redis" /\ losses < MaxLosses /\ Room(g)
            /\ Applied(g, Foreign(g, boxes[g]))
            /\ inbox' = [boxes EXCEPT ![g] = <<>>]
            /\ outbox' = [outbox EXCEPT ![g] = LeftToSend(out, k)]
            /\ losses' = losses + 1
            /\ UNCHANGED <<transport, mine, late, moves, reboots, everHeld, removals>>

\* get_message raises after j events: the loop swallows the error, and the events
\* already read are gone.
RedisReadFails(g) ==
  LET out == outbox[g] \o publish_load(g)
      boxes == Delivered(out)
  IN  \E j \in 0 .. Len(boxes[g]) :
        /\ transport = "redis" /\ losses < MaxLosses /\ Room(g)
        /\ inbox' = [boxes EXCEPT ![g] = SubSeq(@, j + 1, Len(@))]
        /\ outbox' = [outbox EXCEPT ![g] = <<>>]
        /\ losses' = losses + 1
        /\ UNCHANGED <<transport, mine, view, held, late, moves, reboots, newest, everHeld, removals>>

\* One post per peer with the whole batch, each served, refused or given up on; the
\* outbox is cleared whatever happened.
GossipSync(g) ==
  LET batch == outbox[g] \o publish_load(g)
  IN  \E served \in SUBSET (Members \ {g}) :
      \E slow \in SUBSET (Members \ ({g} \cup served)) :
        /\ transport = "gossip" /\ Room(g)
        /\ served # Members \ {g} => losses < MaxLosses
        /\ losses' = IF served = Members \ {g} THEN losses ELSE losses + 1
        /\ late' = late \cup (slow \X {batch})
        /\ inbox' = [p \in Members |-> IF p = g THEN <<>>
                                       ELSE IF p \in served THEN inbox[p] \o Foreign(p, batch)
                                       ELSE inbox[p]]
        /\ outbox' = [outbox EXCEPT ![g] = <<>>]
        /\ Applied(g, inbox[g])
        /\ UNCHANGED <<transport, mine, moves, reboots, everHeld, removals>>

\* The endpoint of the peer gets to a post after the sender's timeout.
LatePost ==
  \E m \in late :
    /\ late' = late \ {m}
    /\ inbox' = [inbox EXCEPT ![m[1]] = @ \o Foreign(m[1], m[2])]
    /\ UNCHANGED <<transport, mine, view, held, outbox, moves, losses, reboots, newest, everHeld, removals>>

---------------------------------------------------------------------------
(* What happens at a replica between two passes                            *)

Moves == moves < MaxMoves /\ moves' = moves + 1

\* Requests start and end, backends are shed and come back.
LoadMoves(g, h, n, shed) ==
  /\ Moves
  /\ mine' = [mine EXCEPT ![g] = [load |-> [@.load EXCEPT ![h] = n], shed |-> shed, ver |-> @.ver + 1]]
  /\ mine'[g].load # mine[g].load \/ shed # mine[g].shed
  /\ UNCHANGED <<transport, view, held, outbox, inbox, late, losses, reboots, newest, everHeld, removals>>

\* A dispatch: local insert, then publish_insert.
Dispatched(g, h) ==
  /\ Moves
  /\ held' = [held EXCEPT ![g] = @ \cup {h}]
  /\ publish(g, PrefixEvent("insert", g, h))
  /\ everHeld' = everHeld \cup {h}
  /\ UNCHANGED <<transport, mine, view, late, losses, reboots, newest, removals>>

\* The scrape loop could not reach the backend: local remove, then publish_remove.
HostLost(g, h) ==
  /\ Moves
  /\ held' = [held EXCEPT ![g] = @ \ {h}]
  /\ publish(g, PrefixEvent("remove_backend", g, h))
  /\ removals' = TRUE
  /\ UNCHANGED <<transport, mine, view, late, losses, reboots, newest, everHeld>>

\* A replica restarts under its configured id; posts it was late to serve die with it.
Reboot(g) ==
  /\ transport # "memory" /\ reboots < MaxReboots
  /\ reboots' = reboots + 1
  /\ mine' = [mine EXCEPT ![g] = Fresh(@.ver + 1)]
  /\ view' = [view EXCEPT ![g] = [p \in Members |-> Unseen]]
  /\ newest' = [newest EXCEPT ![g] = [p \in Members |-> 0]]
  /\ held' = [held EXCEPT ![g] = {}]
  /\ outbox' = [outbox EXCEPT ![g] = <<>>] /\ inbox' = [inbox EXCEPT ![g] = <<>>]
  /\ late' = {m \in late : m[1] # g}
  /\ UNCHANGED <<transport, moves, losses, everHeld, removals>>

FleetSync(g) ==
  MemorySync(g) \/ RedisSync(g) \/ RedisPublishFails(g) \/ RedisReadFails(g) \/ GossipSync(g)

FleetNext ==
  \/ \E g \in Members :
       \/ FleetSync(g) \/ Reboot(g)
       \/ \E h \in Hosts :
            \/ Dispatched(g, h) \/ HostLost(g, h)
            \/ \E n \in 0 .. 1, shed \in {{}, {h}} : LoadMoves(g, h, n, shed)
  \/ LatePost

\* cluster_sync_loop never stops: every replica keeps passing.
FleetFairness == \A g \in Members : WF_fleetVars(FleetSync(g))

FleetSpec == FleetInit /\ [][FleetNext]_fleetVars /\ FleetFairness

---------------------------------------------------------------------------
\* fleet.py:11 "Holds only PEERS' snapshots ... no double counting", with Redis echoing
\* every event to its publisher: a replica's own load never enters its view.
OwnLoadCountedOnce == \A g \in Members : view[g][g] = Unseen

\* fleet.py:13 "until they publish a fresher one": although apply compares no sequence
\* numbers, a view shows the newest snapshot that was ever read, also after an outbox
\* was sent in parts, unless a post was served after its sender's timeout.
NewestSnapshotWins ==
  transport # "gossip" \/ losses = 0 => \A g, p \in Members : view[g][p].ver = newest[g][p]

\* coordinator.py:14 "each replica's tree is the union of its own and its peers'
\* inserts": true as long as no backend was lost, once everything was read.
TreesAreUnions ==
  \A g \in Members :
    (transport = "memory" /\ ~removals /\ \A i \in DOMAIN inbox[g] : inbox[g][i].kind = "load")
      => held[g] = everHeld

\* "re-converges via the periodic load re-publish" (bus.py:148): when the load stops
\* changing, every view ends up right and stays so, after lost, late and overtaken
\* snapshots, failed reads and restarts.
ViewsFollowLoad ==
  <>[](\A g \in Members, h \in Hosts :
         /\ peer_inflight(g, h) = MapThenSumSet(LAMBDA q : mine[q].load[h], Members \ {g})
         /\ peer_unhealthy(g, h) <=> \E q \in Members \ {g} : h \in mine[q].shed)

\* fleet.py and coordinator.py:172-192: what a replica knows of its peers is what they
\* last said, and never its own echo.
ViewsAreSnapshots == OwnLoadCountedOnce /\ NewestSnapshotWins /\ TreesAreUnions
=============================================================================
