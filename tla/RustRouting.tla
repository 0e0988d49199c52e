---------------------------- MODULE RustRouting -----------------------------
(***************************************************************************)
(* The prefix tree and the router of the Rust gateway (rust/src/radix_tree.rs,*)
(* rust/src/router.rs), checked against the decisions of the Python code that*)
(* they mirror.  The tree is that of RadixTree with another LRU: each backend*)
(* maps its nodes to the clock of the insertion that touched them; all nodes*)
(* of one insertion carry the same clock, and a victim is any node with the*)
(* least one (min_by_key over a HashMap), so an insertion has several      *)
(* outcomes.  The router makes one pass over the candidates that scores the*)
(* fit ones and remembers a fallback.                                      *)
(***************************************************************************)
EXTENDS RadixTree, Router

CONSTANTS Runs,        \* hash runs that are inserted
          MaxInserts   \* bound on the clock

ASSUME RustTreeAssumption == Runs \subseteq Seq(Nat) /\ MaxInserts \in Nat

VARIABLES
  arena,     \* [holders, lru]: lru maps a backend to (node -> last seen)
  ticks,     \* RadixTree.clock
  inserted   \* history: the runs inserted for a backend since it was last removed

rtreeVars == <<arena, ticks, inserted>>

RTreeInit ==
  /\ arena = [holders |-> <<>>, lru |-> [b \in Holders |-> <<>>]]
  /\ ticks = 0
  /\ inserted = [b \in Holders |-> {}]

match_prefix(h) == match(arena, h)

Blocks(N, S) == MapThenSumSet(LAMBDA p : EdgeLen(N, p), S)

\* Mutant: a split forgets who holds the shortened node.
inherit_none(h, p) == IF p \in TreeNodes(arena) THEN arena.holders[p] ELSE {}

inherit(h, p) == Inherited(arena, h, p)

\* The holders of every node once b has inserted h.
hold(h, b) ==
  LET path == PathNodes(TreeNodes(arena), h)
  IN  [p \in TreeNodes(arena) \cup path |-> inherit(h, p) \cup (IF p \in path THEN {b} ELSE {})]

\* The nodes that get the present clock in x's map.
Touched(h, b, x) ==
  LET N == TreeNodes(arena)
  IN  IF x = b THEN PathNodes(N, h) ELSE {s \in SplitAt(N, h) : x \in inherit(h, s)}

track(h, b, x) ==
  LET new == Touched(h, b, x)
  IN  [p \in DOMAIN arena.lru[x] \cup new |-> IF p \in new THEN ticks + 1 ELSE arena.lru[x][p]]

\* The sets of nodes evict may remove: oldest first, ties in any order, and no more
\* than needed.
Victims(N, seen) ==
  LET held == DOMAIN seen
  IN  IF Blocks(N, held) <= CacheBlocks THEN {{}}
      ELSE {V \in SUBSET held :
              /\ Blocks(N, held \ V) <= CacheBlocks
              /\ \A v \in V, u \in held \ V : seen[v] <= seen[u]
              /\ \E last \in V : /\ \A v \in V : seen[v] <= seen[last]
                                 /\ Blocks(N, held \ (V \ {last})) > CacheBlocks}

\* insert, with evict for the inserting backend only.
RustInsert(h, b) ==
  LET grown == hold(h, b)
      lists == [x \in Holders |-> track(h, b, x)]
  IN  /\ h # <<>> /\ ticks < MaxInserts
      /\ ticks' = ticks + 1
      /\ \E V \in Victims(DOMAIN grown, lists[b]) :
           arena' = [holders |-> [p \in DOMAIN grown |->
                                    grown[p] \ (IF p \in V THEN {b} ELSE {})],
                     lru |-> [lists EXCEPT ![b] = [p \in DOMAIN @ \ V |-> @[p]]]]
      /\ inserted' = [inserted EXCEPT ![b] = @ \cup {h}]

RustRemove(b) ==
  /\ arena' = [holders |-> [p \in TreeNodes(arena) |->
                  arena.holders[p] \ (IF p \in DOMAIN arena.lru[b] THEN {b} ELSE {})],
               lru |-> [arena.lru EXCEPT ![b] = <<>>]]
  /\ inserted' = [inserted EXCEPT ![b] = {}]
  /\ UNCHANGED ticks

RTreeNext ==
  \/ \E h \in Runs, b \in Holders : RustInsert(h, b)
  \/ \E b \in Holders : DOMAIN arena.lru[b] # {} /\ RustRemove(b)

RTreeSpec == RTreeInit /\ [][RTreeNext]_rtreeVars

---------------------------------------------------------------------------
\* Whatever victim the hash map's order picks among equally old nodes, a match is a
\* prefix the backend was given, without a gap, and is the longest one as long as
\* nothing had to be evicted (radix_tree.rs:40-78, 165-181).
RustMatchAgrees ==
  \A h \in Runs, b \in Holders :
    LET found == match_prefix(h)[b]
        best == Max({0} \cup {Shared(h, s) : s \in inserted[b]})
    IN  /\ found <= best
        /\ \A p \in Visited(TreeNodes(arena), h) : Len(p) <= found => b \in arena.holders[p]
        /\ Cardinality(UNION {Prefixes(s) \ {<<>>} : s \in inserted[b]}) <= CacheBlocks => found = best

\* The map of a backend and the holders on the nodes agree, and stay within the budget
\* when other backends' insertions split its nodes (radix_tree.rs:117-122, 165-181).
RustHoldingsBounded ==
  \A b \in Holders :
    /\ DOMAIN arena.lru[b] = {p \in TreeNodes(arena) : b \in arena.holders[p]}
    /\ Blocks(TreeNodes(arena), DOMAIN arena.lru[b]) <= CacheBlocks

-----------------------------------------------------------------------------
(* The router                                                              *)

CONSTANTS SomeViews,    \* match, inflight and kvHigh of the backends
          Orders,       \* candidate lists
          HashRuns,     \* hash runs of prompts
          Counters      \* values of the round-robin counter

\* There is always a candidate to choose.
ASSUME RustRouterAssumption ==
  /\ SomeViews \subseteq [match : [Holders -> Nat], inflight : [Holders -> Nat],
                          kvHigh : [Holders -> BOOLEAN]]
  /\ Orders \subseteq Seq(Holders) \ {<<>>}
  /\ HashRuns \subseteq Seq(Nat) /\ Counters \subseteq Nat

VARIABLE routed     \* the last call: its arguments

Unasked == [strategy |-> "none"]

est_ttft(view, tokens, b) ==
  LET cached == view.match[b] * BlockTokens
  IN  PrefillMs * (IF cached >= tokens THEN 0 ELSE tokens - cached)
        + view.inflight[b] * ServiceMs

\* saturated_fallback after one more saturated backend, as a sequence of at most one.
Fallback(view, old, b) ==
  IF old = <<>> \/ view.inflight[b] < view.inflight[old[1]] THEN <<b>> ELSE old

\* One round of the loop over the candidates.
ScoreOne(view, tokens, acc, b) ==
  IF view.kvHigh[b] \/ view.inflight[b] > InflightLimit
  THEN [acc EXCEPT !.fallback = Fallback(view, @, b)]
  ELSE [acc EXCEPT !.scored = Append(@, [ttft |-> est_ttft(view, tokens, b), backend |-> b])]

\* The loop over the candidates.
ScoreAll(view, tokens, cands) ==
  FoldLeft(LAMBDA acc, b : ScoreOne(view, tokens, acc, b), [scored |-> <<>>, fallback |-> <<>>], cands)

rust_prefix_tree(view, h, cands, rr) ==
  LET pass == ScoreAll(view, Len(h) * BlockTokens, cands)
      min_ttft == Min({s.ttft : s \in ToSet(pass.scored)})
      good == Where(pass.scored, LAMBDA s : s.ttft <= min_ttft + Hysteresis)
      min_load == Min({view.inflight[s.backend] : s \in ToSet(good)})
      tied == Where(good, LAMBDA s : view.inflight[s.backend] = min_load)
  IN  IF pass.scored = <<>> THEN [backend |-> pass.fallback[1], rr |-> rr]
      ELSE [backend |-> tied[(rr % Len(tied)) + 1].backend, rr |-> rr + 1]

rust_choose(strategy, view, h, cands, rr) ==
  CASE strategy = "round_robin" -> [backend |-> cands[(rr % Len(cands)) + 1], rr |-> rr + 1]
    [] strategy = "consistent_hash" ->
         [backend |-> cands[((IF h = <<>> THEN 0 ELSE h[1]) % Len(cands)) + 1], rr |-> rr]
    [] OTHER -> rust_prefix_tree(view, h, cands, rr)

RustRouterInit == routed = Unasked

RustRoute(strategy, view, h, cands, rr) ==
  /\ routed = Unasked
  /\ routed' = [strategy |-> strategy, view |-> view, hashes |-> h, cands |-> cands, rr |-> rr]

RustRouterNext ==
  \E s \in {"round_robin", "consistent_hash", "prefix_tree"}, v \in SomeViews,
     h \in HashRuns, c \in Orders, n \in Counters : RustRoute(s, v, h, c, n)

RustRouterSpec == RustRouterInit /\ [][RustRouterNext]_routed

---------------------------------------------------------------------------
\* The Rust router "mirrors Python" (router.rs:1): with no peer to hear of, both choose
\* the same backend and leave the same counter, also in ties, at the saturation limit
\* and with every backend saturated.
RustRouterAgrees ==
  routed # Unasked =>
    LET v == [match |-> routed.view.match, inflight |-> routed.view.inflight,
              kvHigh |-> routed.view.kvHigh,
              peerBad |-> [b \in DOMAIN routed.view.kvHigh |-> FALSE]]
    IN  rust_choose(routed.strategy, routed.view, routed.hashes, routed.cands, routed.rr)
          = choose(routed.strategy, v, routed.hashes, routed.cands, routed.rr)

\* The ports of the tree and of the router (radix_tree.rs, router.rs) find and choose what
\* the Python code does, within the same budget.
RustDecidesAlike == RustMatchAgrees /\ RustHoldingsBounded /\ RustRouterAgrees
=============================================================================
