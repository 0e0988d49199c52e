------------------------------ MODULE Routing ------------------------------
(***************************************************************************)
(* How the chat handler uses the prefix tree, the router and the session   *)
(* table around its two awaits: between narrowing the candidates and       *)
(* dispatching it may wait for a slot, and connecting is an await of its   *)
(* own.  Removing and adding backends, health and load reports and peers'  *)
(* insertions happen in between.                                           *)
(***************************************************************************)
EXTENDS RadixTree, SessionAffinity, Router

CONSTANTS Turns,            \* requests
          SessionOf,        \* request -> session id, or NoSession
          NoSession,
          PromptOf,         \* request -> its hash run, after the cutoff
          StrategyOf,       \* request -> routing strategy it asks for
          MaxChanges,       \* bound on membership, load and peer events
          MaxClock          \* bound on the clock of the session table

ASSUME RoutingAssumption ==
  /\ MaxChanges \in Nat /\ MaxClock \in Nat
  /\ IsFiniteSet(Turns) /\ PromptOf \in [Turns -> Seq(Nat)]

VARIABLES
  fleet,      \* registered backends, in the order of the registry's dictionary
  tree, pins, rr,
  inflight, kvHigh, peerBad,   \* LoadTracker and FleetLoadView as the router reads them
  turn,       \* request -> phase, remaining candidates, chosen backend
  now, changes,
  seen,       \* history: the runs inserted for a backend since it was last removed
  lastTurn    \* history: the session turn that finished last

routingVars ==
  <<fleet, tree, pins, rr, inflight, kvHigh, peerBad, turn, now, changes, seen, lastTurn>>

NoTurn == [sid |-> NoSession, backend |-> "", at |-> 0]

RoutingInit ==
  /\ fleet = SetToSeq(Holders)
  /\ tree = EmptyTree
  /\ pins = <<>>
  /\ rr = 0
  /\ inflight = [b \in Holders |-> 0]
  /\ kvHigh = [b \in Holders |-> FALSE]
  /\ peerBad = [b \in Holders |-> FALSE]
  /\ turn = [r \in Turns |-> [phase |-> "new", cands |-> <<>>, backend |-> ""]]
  /\ now = 0
  /\ changes = 0
  /\ seen = [b \in Holders |-> {}]
  /\ lastTurn = NoTurn

Over == [phase |-> "done", cands |-> <<>>, backend |-> ""]

Prompts == {PromptOf[r] : r \in Turns}

View(h) ==
  [match |-> match(tree, h), inflight |-> inflight, kvHigh |-> kvHigh, peerBad |-> peerBad]

\* Candidates, narrowed to the session's pin when that is one of them.
Arrive(r) ==
  LET hit == pick(pins, SessionOf[r], ToSet(fleet), now)
      mine == SessionOf[r] # NoSession
  IN  /\ turn[r].phase = "new"
      /\ fleet # <<>>
      /\ pins' = IF mine THEN hit.table ELSE pins
      /\ turn' = [turn EXCEPT ![r] =
           [phase |-> "routed", backend |-> "",
            cands |-> IF mine /\ hit.backend # {} THEN SetToSeq(hit.backend) ELSE fleet]]
      /\ UNCHANGED <<fleet, tree, rr, inflight, kvHigh, peerBad, now, changes, seen, lastTurn>>

\* One round of the failover loop up to the connection: the decision is written to
\* the tree and the load before connecting.  The URL of a backend removed since the
\* candidates were computed raises, with both already written.
Dispatch(r) ==
  LET t == turn[r]
      h == PromptOf[r]
      c == choose(StrategyOf[r], View(h), h, t.cands, rr)
      b == c.backend
  IN  /\ t.phase = "routed"
      /\ t.cands # <<>>
      /\ rr' = c.rr
      /\ tree' = insert(tree, h, b)
      /\ seen' = [seen EXCEPT ![b] = @ \cup {h}]
      /\ inflight' = [inflight EXCEPT ![b] = @ + 1]
      /\ turn' = [turn EXCEPT ![r].backend = b,
                              ![r].phase = IF b \in ToSet(fleet) THEN "connecting" ELSE "crashed"]
      /\ UNCHANGED <<fleet, pins, kvHigh, peerBad, now, changes, lastTurn>>

Completed(b) == [inflight EXCEPT ![b] = IF @ > 0 THEN @ - 1 ELSE 0]

\* The tree keeps what it believes of a backend that refused the connection.  The
\* loop goes on with the other candidates unless there is none or max_retries is used
\* up, which is left open here.
ConnectFails(r, next) ==
  LET b == turn[r].backend
      rest == Where(turn[r].cands, LAMBDA c : c # b)
  IN  /\ turn[r].phase = "connecting"
      /\ next = "routed" => rest # <<>>
      /\ inflight' = Completed(b)
      /\ turn' = [turn EXCEPT ![r] = IF next = "done" THEN Over ELSE [@ EXCEPT !.cands = rest, !.phase = next]]
      /\ UNCHANGED <<fleet, tree, pins, rr, kvHigh, peerBad, now, changes, seen, lastTurn>>

\* The end of the stream: the session is pinned to the backend that served it.
Finish(r, status) ==
  LET b == turn[r].backend
      sid == SessionOf[r]
      pinned == sid # NoSession /\ status = 200
  IN  /\ turn[r].phase = "connecting"
      /\ inflight' = Completed(b)
      /\ pins' = IF pinned THEN remember(pins, sid, b, now) ELSE pins
      /\ lastTurn' = IF pinned THEN [sid |-> sid, backend |-> b, at |-> now] ELSE lastTurn
      /\ turn' = [turn EXCEPT ![r] = Over]
      /\ UNCHANGED <<fleet, tree, rr, kvHigh, peerBad, now, changes, seen>>

Change == changes < MaxChanges /\ changes' = changes + 1

\* The operator removes a backend: tree, load and pins forget it.
AdminRemove(b) ==
  /\ Change
  /\ b \in ToSet(fleet)
  /\ fleet' = Where(fleet, LAMBDA c : c # b)
  /\ tree' = remove_backend(tree, b)
  /\ inflight' = [inflight EXCEPT ![b] = 0]
  /\ kvHigh' = [kvHigh EXCEPT ![b] = FALSE]
  /\ pins' = forget_backend(pins, b)
  /\ seen' = [seen EXCEPT ![b] = {}]
  /\ lastTurn' = IF lastTurn.backend = b THEN NoTurn ELSE lastTurn
  /\ UNCHANGED <<rr, peerBad, turn, now>>

\* Added again, and found healthy by the next scrape.
AdminAdd(b) ==
  /\ b \notin ToSet(fleet)
  /\ fleet' = Append(fleet, b)
  /\ UNCHANGED <<tree, pins, rr, inflight, kvHigh, peerBad, turn, now, changes, seen, lastTurn>>

\* A scrape or a peer's load snapshot changes what the guardrails see.
ReportLoad(b) ==
  /\ Change
  /\ b \in ToSet(fleet)
  /\ \/ kvHigh' = [kvHigh EXCEPT ![b] = ~@] /\ UNCHANGED peerBad
     \/ peerBad' = [peerBad EXCEPT ![b] = ~@] /\ UNCHANGED kvHigh
  /\ UNCHANGED <<fleet, tree, pins, rr, inflight, turn, now, seen, lastTurn>>

\* An insertion replicated from a peer; peers may still route to a removed backend.
PeerInsert(b, h) ==
  /\ Change
  /\ tree' = insert(tree, h, b)
  /\ seen' = [seen EXCEPT ![b] = @ \cup {h}]
  /\ UNCHANGED <<fleet, pins, rr, inflight, kvHigh, peerBad, turn, now, lastTurn>>

PinsAge ==
  /\ now < MaxClock
  /\ now' = now + 1
  /\ UNCHANGED <<fleet, tree, pins, rr, inflight, kvHigh, peerBad, turn, changes, seen, lastTurn>>

RoutingNext ==
  \/ \E r \in Turns :
       \/ Arrive(r)
       \/ Dispatch(r)
       \/ \E next \in {"routed", "done"} : ConnectFails(r, next)
       \/ \E code \in {200, 500} : Finish(r, code)
  \/ \E b \in Holders : AdminRemove(b) \/ AdminAdd(b) \/ ReportLoad(b)
  \/ \E b \in Holders, h \in Prompts : PeerInsert(b, h)
  \/ PinsAge

RoutingSpec == RoutingInit /\ [][RoutingNext]_routingVars

---------------------------------------------------------------------------
\* The longest prefix of h among the runs inserted for b: what match promises.
Reference(b, h) == Max({0} \cup {Shared(h, s) : s \in seen[b]})

\* Blocks b would hold if nothing were evicted.
Footprint(b) == Cardinality(UNION {Prefixes(s) \ {<<>>} : s \in seen[b]})

\* match never credits a backend with a prefix it was not given since it was last
\* removed or that has an evicted gap, and finds the longest one as long as nothing had
\* to be evicted; splits by other backends' insertions change neither
\* (radix_tree.py:39-66, 97-108).
MatchAgreesWithHistory ==
  LET roomy == {b \in Holders : Footprint(b) <= CacheBlocks}
  IN  \A h \in Prompts :
        LET found == match(tree, h)
            walk == Visited(TreeNodes(tree), h)
        IN  \A b \in Holders :
              LET ref == Reference(b, h)
              IN  /\ found[b] <= ref
                  /\ \A p \in walk : Len(p) <= found[b] => b \in tree.holders[p]
                  /\ b \in roomy => found[b] = ref

\* No backend is believed to cache more blocks than its budget, also after another
\* backend's insertion split its nodes (radix_tree.py:134-140).
WithinBudget == \A b \in Holders : held_blocks(tree, b) <= CacheBlocks

\* The LRU list and the holders on the nodes describe the same holdings; a holder that
\* is not listed could never be evicted or removed (radix_tree.py:101-103, 118).
ListedIffHolding ==
  \A b \in Holders :
    /\ ToSet(tree.lru[b]) = {p \in TreeNodes(tree) : b \in tree.holders[p]}
    /\ Cardinality(ToSet(tree.lru[b])) = Len(tree.lru[b])

\* A saturated backend gets a request only when every remaining candidate is
\* saturated; otherwise no candidate promised an answer sooner than the chosen one by
\* more than the hysteresis (router.py:85-113).
PrefixChoiceIsSound ==
  [][\A r \in Turns :
       (turn[r].phase = "routed" /\ turn'[r].phase \in {"connecting", "crashed"}) =>
         LET h == PromptOf[r]
             v == View(h)
             b == turn'[r].backend
             est(c) == _est_ttft(v, Len(h) * BlockTokens, c)
             fit == {c \in ToSet(turn[r].cands) : ~Saturated(v, c)}
         IN  StrategyOf[r] = "prefix_tree" =>
               IF fit = {} THEN \A c \in ToSet(turn[r].cands) : v.inflight[b] <= v.inflight[c]
               ELSE b \in fit /\ \A c \in fit : est(b) <= est(c) + Hysteresis]_routingVars

\* A stream that outlives its backend pins its session to a backend that is gone; no
\* later turn is confined to it (session_affinity.py:48, server.py:999).
PinnedTurnsStayInFleet ==
  [][\A r \in Turns : (turn[r].phase = "new" /\ turn'[r].phase = "routed") =>
        ToSet(turn'[r].cands) \subseteq ToSet(fleet)]_routingVars

\* The table may be full of other sessions: the session whose turn finished last is
\* pinned to the backend that served it until it idles out (session_affinity.py:53-62).
LastTurnIsPinned ==
  (lastTurn # NoTurn /\ now - lastTurn.at <= PinTtl) =>
    \E i \in DOMAIN pins : pins[i].sid = lastTurn.sid /\ pins[i].backend = lastTurn.backend

\* radix_tree.py: what is matched was inserted and is still held, holdings are those the
\* LRU order lists, and they fit the budget.
TreeAgreesWithHistory == MatchAgreesWithHistory /\ WithinBudget /\ ListedIffHolding

\* router.py:62-112 and session_affinity.py:36-53: a turn goes to a backend of the fleet,
\* and the backend chosen passes the guardrails.
RoutingIsSound == PrefixChoiceIsSound /\ PinnedTurnsStayInFleet
=============================================================================
