----------------------------- MODULE RadixTree -----------------------------
(***************************************************************************)
(* gateway/radix_tree.py.  A node is identified by the whole run of block  *)
(* hashes from the root to its end: a split keeps the path of the node it  *)
(* shortens and adds the path of the new one, so the tree is the set of    *)
(* its paths, and an edge is what a path adds to its longest proper prefix *)
(* in the set.  A tree is a record: holders maps a path to the backends    *)
(* recorded on the node, lru lists each backend's nodes, oldest first.     *)
(***************************************************************************)
EXTENDS Lists

CONSTANTS Holders,   \* backend ids
          CacheBlocks  \* backend_cache_blocks

ASSUME TreeAssumption == IsFiniteSet(Holders) /\ CacheBlocks \in Nat

EmptyTree == [holders |-> <<>>, lru |-> [b \in Holders |-> <<>>]]

TreeNodes(T) == DOMAIN T.holders

\* Number of leading blocks two runs share.
Shared(a, b) ==
  Max({n \in 0 .. Min({Len(a), Len(b)}) : SubSeq(a, 1, n) = SubSeq(b, 1, n)})

\* Where the edge into p starts: the end of its parent, the root being empty.
EdgeStart(N, p) == Max({Len(q) : q \in {x \in N : IsStrictPrefix(x, p)}} \cup {0})

EdgeLen(N, p) == Len(p) - EdgeStart(N, p)

\* The children a walk along the run h looks into: the edge's first block matches.
Visited(N, h) ==
  {p \in N : LET k == EdgeStart(N, p)
             IN  k < Len(h) /\ IsPrefix(SubSeq(p, 1, k + 1), h)}

---------------------------------------------------------------------------
\* Mutant: a backend need not hold the inner nodes.
matchAnywhere(T, h) ==
  [b \in Holders |-> Max({0} \cup {Shared(h, p) : p \in {x \in Visited(TreeNodes(T), h) : b \in T.holders[x]}})]

\* match: the blocks of h that backend b holds from the front without a gap.
match(T, h) ==
  LET walk == Visited(TreeNodes(T), h)
      alive(b, p) == \A q \in walk : Len(q) <= Len(p) => b \in T.holders[q]
  IN  [b \in Holders |-> Max({0} \cup {Shared(h, p) : p \in {x \in walk : alive(b, x)}})]

held_blocks(T, b) == MapThenSumSet(LAMBDA p : EdgeLen(TreeNodes(T), p), ToSet(T.lru[b]))

---------------------------------------------------------------------------
\* The child an insertion of h diverges inside of: none, or one.
Diverging(N, h) == {p \in Visited(N, h) : ~IsPrefix(p, h)}

SplitAt(N, h) == {SubSeq(h, 1, Shared(c, h)) : c \in Diverging(N, h)}

\* The nodes on the path of h after the insertion; the inserting backend holds them all.
PathNodes(N, h) == {p \in N : IsPrefix(p, h)} \cup SplitAt(N, h) \cup {h}

\* A node that a split creates takes over the holders of the node it shortens.
Inherited(T, h, p) ==
  IF p \in TreeNodes(T) THEN T.holders[p]
  ELSE IF p \in SplitAt(TreeNodes(T), h) THEN UNION {T.holders[c] : c \in Diverging(TreeNodes(T), h)}
  ELSE {}

\* The runs a walk along h passes, root-most first.
Along(h) == [n \in 1 .. Len(h) |-> SubSeq(h, 1, n)]

\* The LRU list of x: the path moves to the end, root-most node first, when x inserts;
\* another holder of the split node gets the new node at its end.
_track(T, h, b, x) ==
  LET path == PathNodes(TreeNodes(T), h)
      split == SplitAt(TreeNodes(T), h)
  IN  IF x = b
      THEN Where(T.lru[b], LAMBDA p : p \notin path) \o Where(Along(h), LAMBDA p : p \in path)
      ELSE T.lru[x] \o Where(Along(h), LAMBDA p : p \in split /\ x \in Inherited(T, h, p))

_hold(T, h, b) ==
  [holders |-> [p \in TreeNodes(T) \cup PathNodes(TreeNodes(T), h) |->
                  Inherited(T, h, p) \cup (IF p \in PathNodes(TreeNodes(T), h) THEN {b} ELSE {})],
   lru |-> [x \in Holders |-> _track(T, h, b, x)]]

\* Whole nodes leave from the front of the list until the budget is met.
_evict(T, b) ==
  LET l == T.lru[b]
      after(k) == SubSeq(l, k + 1, Len(l))
      blocks(s) == MapThenSumSet(LAMBDA p : EdgeLen(TreeNodes(T), p), ToSet(s))
      kept == after(Min({k \in 0 .. Len(l) : blocks(after(k)) <= CacheBlocks}))
  IN  [holders |-> [p \in TreeNodes(T) |->
                      T.holders[p] \ (IF p \in ToSet(l) \ ToSet(kept) THEN {b} ELSE {})],
       lru |-> [T.lru EXCEPT ![b] = kept]]

insert(T, h, b) == IF h = <<>> THEN T ELSE _evict(_hold(T, h, b), b)

remove_backend(T, b) ==
  [holders |-> [p \in TreeNodes(T) |->
                  T.holders[p] \ (IF p \in ToSet(T.lru[b]) THEN {b} ELSE {})],
   lru |-> [T.lru EXCEPT ![b] = <<>>]]
=============================================================================
