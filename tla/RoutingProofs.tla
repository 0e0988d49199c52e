--------------------------- MODULE RoutingProofs ----------------------------
(***************************************************************************)
(* Proofs about routing, for every fleet, prompt set, budget and bound: the*)
(* prefix tree with its holdings, matches and evictions, the session table,*)
(* the choice of the router and how the chat handler uses them; and the tree*)
(* of the Rust gateway, whose victims are any of the oldest nodes.         *)
(***************************************************************************)
EXTENDS Routing, RustRouting, FiniteSetTheorems, TLAPS

-----------------------------------------------------------------------------
(* AllRuns of block hashes and their prefixes                                 *)

AllRuns == Seq(Nat)

Take(h, n) == SubSeq(h, 1, n)

(* a and b begin with the same n blocks.                                   *)
Agree(a, b, n) == n <= Len(a) /\ n <= Len(b) /\ \A i \in 1 .. n : a[i] = b[i]

LEMMA RunIs ==
  ASSUME NEW a \in AllRuns
  PROVE  Len(a) \in Nat /\ DOMAIN a = 1 .. Len(a) /\ (Len(a) = 0 <=> a = <<>>)
BY DEF AllRuns

LEMMA RunEqual ==
  ASSUME NEW a \in AllRuns, NEW b \in AllRuns, Len(a) = Len(b), \A i \in 1 .. Len(a) : a[i] = b[i]
  PROVE  a = b
BY DEF AllRuns

LEMMA TakeIs ==
  ASSUME NEW h \in AllRuns, NEW n \in 0 .. Len(h)
  PROVE  /\ Take(h, n) \in AllRuns /\ Len(Take(h, n)) = n
         /\ \A i \in 1 .. n : Take(h, n)[i] = h[i]
BY DEF AllRuns, Take

(* Agreement is symmetric, transitive, and passes to fewer blocks.         *)
LEMMA AgreeRules ==
  ASSUME NEW a \in AllRuns, NEW b \in AllRuns, NEW c \in AllRuns, NEW n \in Nat, NEW m \in Nat
  PROVE  /\ Agree(a, b, n) => Agree(b, a, n) /\ n <= Len(a) /\ n <= Len(b)
         /\ Agree(a, b, n) /\ Agree(b, c, n) => Agree(a, c, n)
         /\ Agree(a, b, n) /\ m <= n => Agree(a, b, m)
         /\ n <= Len(a) => Agree(a, a, n)
         /\ Agree(a, b, Len(a)) /\ Len(a) = Len(b) => a = b
<1>1. Len(a) \in Nat /\ Len(b) \in Nat /\ Len(c) \in Nat
  BY RunIs
<1>2. Agree(a, b, n) => Agree(b, a, n) /\ n <= Len(a) /\ n <= Len(b)
  BY DEF Agree
<1>3. Agree(a, b, n) /\ Agree(b, c, n) => Agree(a, c, n)
  BY DEF Agree
<1>4. Agree(a, b, n) /\ m <= n => Agree(a, b, m)
  BY <1>1 DEF Agree
<1>5. n <= Len(a) => Agree(a, a, n)
  BY DEF Agree
<1>6. Agree(a, b, Len(a)) /\ Len(a) = Len(b) => a = b
  BY RunEqual DEF Agree
<1>7. QED
  BY <1>2, <1>3, <1>4, <1>5, <1>6

LEMMA TakeAgrees ==
  ASSUME NEW h \in AllRuns, NEW n \in 0 .. Len(h)
  PROVE  /\ Agree(Take(h, n), h, n) /\ Take(h, n) \in AllRuns /\ Len(Take(h, n)) = n
         /\ \A g \in AllRuns : Agree(g, h, n) /\ Len(g) = n => g = Take(h, n)
<1>1. /\ Take(h, n) \in AllRuns /\ Len(Take(h, n)) = n
      /\ \A i \in 1 .. n : Take(h, n)[i] = h[i]
  BY TakeIs
<1>2. Len(h) \in Nat /\ n \in Nat
  BY RunIs
<1>3. Agree(Take(h, n), h, n)
  BY <1>1, <1>2 DEF Agree
<1>4. ASSUME NEW g \in AllRuns, Agree(g, h, n), Len(g) = n PROVE g = Take(h, n)
  <2>1. Agree(h, g, n)
    BY <1>2, <1>4, AgreeRules
  <2>2. Agree(Take(h, n), g, n)
    BY <1>1, <1>2, <1>3, <2>1, AgreeRules
  <2>3. QED
    BY <1>1, <1>4, <2>2, AgreeRules
<1>5. QED
  BY <1>1, <1>3, <1>4

LEMMA PrefixIs ==
  ASSUME NEW a \in AllRuns, NEW b \in AllRuns
  PROVE  /\ IsPrefix(a, b) <=> Agree(a, b, Len(a))
         /\ IsStrictPrefix(a, b) <=> Agree(a, b, Len(a)) /\ Len(a) < Len(b)
<1>1. Len(a) \in Nat /\ Len(b) \in Nat
  BY RunIs
<1>2. ASSUME Len(a) <= Len(b) PROVE Take(a, Len(a)) = Take(b, Len(a)) <=> Agree(a, b, Len(a))
  <2>1. Len(a) \in 0 .. Len(a) /\ Len(a) \in 0 .. Len(b)
    BY <1>1, <1>2
  <2>2. /\ Take(a, Len(a)) \in AllRuns /\ Len(Take(a, Len(a))) = Len(a)
        /\ \A i \in 1 .. Len(a) : Take(a, Len(a))[i] = a[i]
    BY <2>1, TakeIs
  <2>3. /\ Take(b, Len(a)) \in AllRuns /\ Len(Take(b, Len(a))) = Len(a)
        /\ \A i \in 1 .. Len(a) : Take(b, Len(a))[i] = b[i]
    BY <2>1, TakeIs
  <2>4. ASSUME Agree(a, b, Len(a)) PROVE Take(a, Len(a)) = Take(b, Len(a))
    <3>1. \A i \in 1 .. Len(a) : a[i] = b[i]
      BY <2>4 DEF Agree
    <3>2. QED
      BY <2>2, <2>3, <3>1, RunEqual
  <2>5. ASSUME Take(a, Len(a)) = Take(b, Len(a)) PROVE Agree(a, b, Len(a))
    BY <1>1, <1>2, <2>2, <2>3, <2>5 DEF Agree
  <2>6. QED
    BY <2>4, <2>5
<1>3. IsPrefix(a, b) <=> Agree(a, b, Len(a))
  <2>1. Agree(a, b, Len(a)) => Len(a) <= Len(b)
    BY DEF Agree
  <2>2. QED
    BY <1>2, <2>1 DEF IsPrefix, Take
<1>4. Agree(a, b, Len(a)) => (a # b <=> Len(a) < Len(b))
  <2>1. Agree(a, b, Len(a)) => Len(a) <= Len(b)
    BY DEF Agree
  <2>2. Agree(a, b, Len(a)) /\ Len(a) = Len(b) => a = b
    BY <1>1, AgreeRules
  <2>3. QED
    BY <1>1, <2>1, <2>2
<1>5. QED
  BY <1>3, <1>4 DEF IsStrictPrefix

(* Shared counts the blocks on which two runs agree.                       *)
LEMMA SharedIs ==
  ASSUME NEW a \in AllRuns, NEW b \in AllRuns
  PROVE  /\ Shared(a, b) \in Nat /\ Shared(a, b) <= Len(a) /\ Shared(a, b) <= Len(b)
         /\ \A n \in Nat : Agree(a, b, n) <=> n <= Shared(a, b)
<1>1. Len(a) \in Nat /\ Len(b) \in Nat
  BY RunIs
<1>2. PICK m \in Nat : m = Min({Len(a), Len(b)}) /\ m <= Len(a) /\ m <= Len(b) /\ (m = Len(a) \/ m = Len(b))
  <2>1. {Len(a), Len(b)} \in SUBSET Nat /\ {Len(a), Len(b)} # {}
    BY <1>1
  <2>2. Min({Len(a), Len(b)}) \in {Len(a), Len(b)} /\ \A y \in {Len(a), Len(b)} : Min({Len(a), Len(b)}) <= y
    BY <2>1, MinIsLeast
  <2>3. QED
    BY <1>1, <2>2
<1>3. ASSUME NEW n \in 0 .. m PROVE SubSeq(a, 1, n) = SubSeq(b, 1, n) <=> Agree(a, b, n)
  <2>1. n \in 0 .. Len(a) /\ n \in 0 .. Len(b) /\ n \in Nat
    BY <1>1, <1>2
  <2>2. /\ Agree(Take(a, n), a, n) /\ Take(a, n) \in AllRuns /\ Len(Take(a, n)) = n
    BY <2>1, TakeAgrees
  <2>3. /\ Agree(Take(b, n), b, n) /\ Take(b, n) \in AllRuns /\ Len(Take(b, n)) = n
        /\ \A g \in AllRuns : Agree(g, b, n) /\ Len(g) = n => g = Take(b, n)
    BY <2>1, TakeAgrees
  <2>4. ASSUME Take(a, n) = Take(b, n) PROVE Agree(a, b, n)
    <3>1. Agree(a, Take(a, n), n)
      BY <2>1, <2>2, AgreeRules
    <3>2. Agree(Take(a, n), b, n)
      BY <2>3, <2>4
    <3>3. QED
      BY <2>1, <2>2, <3>1, <3>2, AgreeRules
  <2>5. ASSUME Agree(a, b, n) PROVE Take(a, n) = Take(b, n)
    <3>1. Agree(Take(a, n), b, n)
      BY <2>1, <2>2, <2>5, AgreeRules
    <3>2. QED
      BY <2>2, <2>3, <3>1
  <2>6. QED
    BY <2>4, <2>5 DEF Take
<1>4. PICK T \in SUBSET (0 .. m) :
        T = {n \in 0 .. m : SubSeq(a, 1, n) = SubSeq(b, 1, n)} /\ 0 \in T
  <2>1. Agree(a, b, 0)
    BY <1>1 DEF Agree
  <2>2. 0 \in 0 .. m
    OBVIOUS
  <2>3. SubSeq(a, 1, 0) = SubSeq(b, 1, 0)
    BY <1>3, <2>1, <2>2
  <2>4. QED
    BY <2>2, <2>3
<1>5. PICK k \in T : k = Max(T) /\ \A y \in T : y <= k
  BY <1>4, MaxIsGreatest
<1>6. Shared(a, b) = k
  BY <1>2, <1>4, <1>5 DEF Shared
<1>7. k \in Nat /\ k <= m /\ Agree(a, b, k)
  BY <1>3, <1>4, <1>5
<1>8. ASSUME NEW n \in Nat PROVE Agree(a, b, n) <=> n <= k
  <2>1. ASSUME Agree(a, b, n) PROVE n <= k
    <3>1. n <= Len(a) /\ n <= Len(b)
      BY <2>1 DEF Agree
    <3>2. n \in 0 .. m
      BY <1>1, <1>2, <3>1
    <3>3. n \in T
      BY <1>3, <1>4, <2>1, <3>2
    <3>4. QED
      BY <1>5, <3>3
  <2>2. ASSUME n <= k PROVE Agree(a, b, n)
    BY <1>7, <2>2, AgreeRules
  <2>3. QED
    BY <2>1, <2>2
<1>9. QED
  BY <1>1, <1>2, <1>6, <1>7, <1>8

-----------------------------------------------------------------------------
(* The tree as a set of runs                                               *)

(* What match finds for a backend is a number of blocks of the run.        *)
LEMMA MatchIsNat ==
  ASSUME NEW T, TreeNodes(T) \subseteq AllRuns, NEW h \in AllRuns
  PROVE  match(T, h) \in [Holders -> Nat]
<1>1. Visited(TreeNodes(T), h) \subseteq AllRuns
  BY DEF Visited
<1>2. \A p \in AllRuns : Shared(h, p) \in 0 .. Len(h)
  <2>1. \A p \in AllRuns : Shared(h, p) \in Nat /\ Shared(h, p) <= Len(h)
    BY SharedIs
  <2>2. QED
    BY <2>1, RunIs
<1>3. ASSUME NEW A \in SUBSET AllRuns PROVE Max({0} \cup {Shared(h, p) : p \in A}) \in Nat
  <2>1. Len(h) \in Nat
    BY RunIs
  <2>2. PICK S \in SUBSET (0 .. Len(h)) : S = {0} \cup {Shared(h, p) : p \in A} /\ S # {}
    <3>1. {0} \cup {Shared(h, p) : p \in A} \in SUBSET (0 .. Len(h))
      BY <1>2, <2>1
    <3>2. QED
      BY <3>1
  <2>3. Max(S) \in S
    BY <2>1, <2>2, MaxIsGreatest
  <2>4. QED
    BY <2>1, <2>2, <2>3
<1>4. QED
  BY <1>1, <1>3 DEF match

(* Insertions add runs: the run inserted and the prefix where a node is split. *)
LEMMA SplitIsRun ==
  ASSUME NEW N \in SUBSET AllRuns, NEW h \in AllRuns
  PROVE  SplitAt(N, h) \subseteq AllRuns
<1>1. \A c \in Diverging(N, h) : c \in AllRuns
  BY DEF Diverging, Visited
<1>2. ASSUME NEW c \in AllRuns PROVE SubSeq(h, 1, Shared(c, h)) \in AllRuns
  <2>1. Shared(c, h) \in 0 .. Len(h)
    BY SharedIs, RunIs
  <2>2. QED
    BY <2>1, TakeIs DEF Take
<1>3. QED
  BY <1>1, <1>2 DEF SplitAt

LEMMA InsertNodes ==
  ASSUME NEW T, NEW h, NEW b
  PROVE  TreeNodes(insert(T, h, b)) =
           IF h = <<>> THEN TreeNodes(T) ELSE TreeNodes(T) \cup SplitAt(TreeNodes(T), h) \cup {h}
<1>1. CASE h = <<>>
  BY <1>1 DEF insert
<1>2. CASE h # <<>>
  <2>1. PICK H : H = _hold(T, h, b)
    OBVIOUS
  <2>2. TreeNodes(H) = TreeNodes(T) \cup PathNodes(TreeNodes(T), h)
    BY <2>1 DEF TreeNodes, _hold
  <2>3. TreeNodes(_evict(H, b)) = TreeNodes(H)
    BY DEF TreeNodes, _evict
  <2>4. insert(T, h, b) = _evict(H, b)
    BY <1>2, <2>1 DEF insert
  <2>5. QED
    BY <1>2, <2>2, <2>3, <2>4 DEF PathNodes
<1>3. QED
  BY <1>1, <1>2

LEMMA RemoveNodes ==
  ASSUME NEW T, NEW b
  PROVE  TreeNodes(remove_backend(T, b)) = TreeNodes(T)
BY DEF TreeNodes, remove_backend

-----------------------------------------------------------------------------
(* Edges                                                                   *)

(* What EdgeStart says: no proper prefix of p in N ends beyond it, and one *)
(* ends there unless it is the root.                                       *)
EdgeFacts(N, p, k) ==
  /\ \A q \in N : Agree(q, p, Len(q)) /\ Len(q) < Len(p) => Len(q) <= k
  /\ k = 0 \/ \E q \in N : Agree(q, p, Len(q)) /\ Len(q) = k /\ k < Len(p)

LEMMA EdgeStartIs ==
  ASSUME NEW N \in SUBSET AllRuns, NEW p \in AllRuns
  PROVE  /\ EdgeStart(N, p) \in Nat /\ EdgeFacts(N, p, EdgeStart(N, p))
         /\ p # <<>> => EdgeStart(N, p) < Len(p)
<1>1. Len(p) \in Nat /\ \A q \in N : Len(q) \in Nat
  BY RunIs
<1>2. PICK A : A = {x \in N : IsStrictPrefix(x, p)}
  OBVIOUS
<1>3. \A q : q \in A <=> q \in N /\ Agree(q, p, Len(q)) /\ Len(q) < Len(p)
  BY <1>2, PrefixIs
<1>4. PICK S \in SUBSET (0 .. Len(p)) : S = {Len(q) : q \in A} \cup {0}
  <2>1. \A q \in A : Len(q) \in 0 .. Len(p)
    BY <1>1, <1>3
  <2>2. {Len(q) : q \in A} \cup {0} \in SUBSET (0 .. Len(p))
    BY <1>1, <2>1
  <2>3. QED
    BY <2>2
<1>5. S # {}
  BY <1>4
<1>6. PICK k \in S : k = Max(S) /\ \A y \in S : y <= k
  BY <1>1, <1>5, MaxIsGreatest
<1>7. EdgeStart(N, p) = k
  BY <1>2, <1>4, <1>6 DEF EdgeStart
<1>8. k \in Nat /\ EdgeFacts(N, p, k)
  <2>1. \A q \in A : Len(q) <= k
    BY <1>4, <1>6
  <2>2. k = 0 \/ \E q \in A : Len(q) = k
    BY <1>4, <1>6
  <2>3. k \in Nat
    BY <1>1, <1>6
  <2>4. QED
    BY <1>3, <2>1, <2>2, <2>3 DEF EdgeFacts
<1>9. p # <<>> => k < Len(p)
  <2>1. p # <<>> => 0 < Len(p)
    BY <1>1, RunIs
  <2>2. QED
    BY <1>8, <2>1 DEF EdgeFacts
<1>10. QED
  BY <1>7, <1>8, <1>9

(* The walk along h looks into the edges whose first block lies on h.      *)
LEMMA VisitedIs ==
  ASSUME NEW N \in SUBSET (AllRuns \ {<<>>}), NEW h \in AllRuns, NEW p \in N
  PROVE  p \in Visited(N, h) <=> Agree(p, h, EdgeStart(N, p) + 1)
<1>1. p \in AllRuns /\ p # <<>> /\ N \in SUBSET AllRuns /\ Len(p) \in Nat /\ Len(h) \in Nat
  BY RunIs
<1>2. PICK k \in Nat : k = EdgeStart(N, p) /\ k < Len(p)
  BY <1>1, EdgeStartIs
<1>3. k + 1 \in 0 .. Len(p) /\ k + 1 \in Nat
  BY <1>1, <1>2
<1>4. PICK t \in AllRuns : t = Take(p, k + 1) /\ Len(t) = k + 1 /\ Agree(t, p, k + 1)
  BY <1>1, <1>3, TakeAgrees
<1>5. IsPrefix(t, h) <=> Agree(t, h, k + 1)
  BY <1>4, PrefixIs
<1>6. Agree(p, t, k + 1)
  BY <1>1, <1>3, <1>4, AgreeRules
<1>7. Agree(t, h, k + 1) => Agree(p, h, k + 1)
  BY <1>1, <1>3, <1>6, AgreeRules
<1>8. Agree(p, h, k + 1) => Agree(t, h, k + 1) /\ k + 1 <= Len(h)
  BY <1>1, <1>3, <1>4, AgreeRules
<1>9. p \in Visited(N, h) <=> k < Len(h) /\ IsPrefix(t, h)
  BY <1>2, <1>4 DEF Visited, Take
<1>10. QED
  BY <1>1, <1>2, <1>5, <1>7, <1>8, <1>9

(* Nodes branch only at nodes.                                             *)
Branching(N) ==
  \A p, q \in N : (Shared(p, q) >= 1 /\ Shared(p, q) < Len(p) /\ Shared(p, q) < Len(q)) =>
                    Take(p, Shared(p, q)) \in N

GoodNodes(N) == N \subseteq AllRuns \ {<<>>} /\ Branching(N)

LEMMA GoodIs ==
  ASSUME NEW N, GoodNodes(N), NEW p \in N
  PROVE  /\ N \in SUBSET (AllRuns \ {<<>>}) /\ N \in SUBSET AllRuns
         /\ p \in AllRuns /\ p # <<>> /\ Len(p) \in Nat /\ Len(p) >= 1
         /\ EdgeStart(N, p) \in Nat /\ EdgeStart(N, p) < Len(p) /\ EdgeFacts(N, p, EdgeStart(N, p))
<1>1. N \in SUBSET (AllRuns \ {<<>>}) /\ N \in SUBSET AllRuns /\ p \in AllRuns /\ p # <<>>
  BY DEF GoodNodes
<1>2. Len(p) \in Nat /\ Len(p) # 0
  BY <1>1, RunIs
<1>3. QED
  BY <1>1, <1>2, EdgeStartIs

(* A node that reaches into the edge of q passes its end.                  *)
LEMMA EdgePassed ==
  ASSUME NEW N, GoodNodes(N), NEW p \in N, NEW q \in N, Agree(p, q, EdgeStart(N, q) + 1)
  PROVE  Agree(q, p, Len(q))
<1>1. /\ p \in AllRuns /\ Len(p) \in Nat
  BY GoodIs
<1>2. /\ q \in AllRuns /\ Len(q) \in Nat
  BY GoodIs
<1>3. PICK k \in Nat : k = EdgeStart(N, q) /\ k < Len(q) /\ EdgeFacts(N, q, k)
  BY GoodIs
<1>4. PICK m \in Nat : /\ m = Shared(p, q) /\ m <= Len(p) /\ m <= Len(q)
                       /\ \A n \in Nat : Agree(p, q, n) <=> n <= m
  BY <1>1, <1>2, SharedIs
<1>5. k + 1 <= m /\ Agree(p, q, m)
  BY <1>3, <1>4
<1>6. m = Len(q)
  <2> SUFFICES ASSUME m < Len(q) PROVE FALSE
    BY <1>2, <1>4
  <2>1. CASE m < Len(p)
    <3>1. Take(p, m) \in N
      <4>1. m >= 1
        BY <1>3, <1>5
      <4>2. QED
        BY <1>4, <2>1, <4>1 DEF GoodNodes, Branching
    <3>2. m \in 0 .. Len(p)
      BY <1>1, <1>4
    <3>3. PICK t \in N : t \in AllRuns /\ Len(t) = m /\ Agree(t, p, m)
      BY <1>1, <3>1, <3>2, TakeAgrees
    <3>4. Agree(t, q, Len(t))
      BY <1>1, <1>2, <1>4, <1>5, <3>3, AgreeRules
    <3>5. m <= k
      BY <1>3, <3>3, <3>4 DEF EdgeFacts
    <3>6. QED
      BY <1>3, <1>5, <3>5
  <2>2. CASE m = Len(p)
    <3>1. Len(p) <= k
      BY <1>3, <1>5, <2>2 DEF EdgeFacts
    <3>2. QED
      BY <1>3, <1>5, <2>2, <3>1
  <2>3. QED
    BY <1>1, <1>4, <2>1, <2>2
<1>7. QED
  BY <1>1, <1>2, <1>4, <1>5, <1>6, AgreeRules

(* On the way to a node, the first one that reaches block n.               *)
LEMMA FirstBeyond ==
  ASSUME NEW N, GoodNodes(N), NEW p \in N, NEW n \in Nat, n >= 1, n <= Len(p)
  PROVE  \E c \in N : Agree(c, p, Len(c)) /\ n <= Len(c) /\ EdgeStart(N, c) < n
<1>1. p \in AllRuns /\ Len(p) \in Nat /\ \A q \in N : q \in AllRuns /\ Len(q) \in Nat
  BY GoodIs
<1>2. PICK S \in SUBSET Nat : S = {Len(q) : q \in {x \in N : Agree(x, p, Len(x)) /\ n <= Len(x)}}
  <2>1. {Len(q) : q \in {x \in N : Agree(x, p, Len(x)) /\ n <= Len(x)}} \in SUBSET Nat
    BY <1>1
  <2>2. QED
    BY <2>1
<1>3. S # {}
  <2>1. Agree(p, p, Len(p))
    BY <1>1, AgreeRules
  <2>2. QED
    BY <1>2, <2>1
<1>4. PICK l \in S : \A y \in S : l <= y
  BY <1>3, LeastNat
<1>5. PICK c \in N : Len(c) = l /\ Agree(c, p, Len(c)) /\ n <= Len(c)
  BY <1>2, <1>4
<1>6. PICK k \in Nat : k = EdgeStart(N, c) /\ EdgeFacts(N, c, k)
  BY GoodIs
<1>7. k < n
  <2>1. CASE k = 0
    BY <2>1
  <2>2. CASE k # 0
    <3>1. PICK q \in N : Agree(q, c, Len(q)) /\ Len(q) = k /\ k < Len(c)
      BY <1>6, <2>2 DEF EdgeFacts
    <3>2. Agree(c, p, Len(q))
      BY <1>1, <1>5, <3>1, AgreeRules
    <3>3. Agree(q, p, Len(q))
      BY <1>1, <3>1, <3>2, AgreeRules
    <3>4. n <= k => k \in S
      BY <1>2, <3>1, <3>3
    <3>5. QED
      BY <1>1, <1>4, <1>5, <3>1, <3>4
  <2>3. QED
    BY <2>1, <2>2
<1>8. QED
  BY <1>5, <1>6, <1>7

-----------------------------------------------------------------------------
(* Splits                                                                  *)

(* An insertion of h splits the node c at s.                               *)
Splits(N, h, c, s) ==
  /\ c \in N /\ s \in AllRuns /\ s \notin N
  /\ Len(s) >= 1 /\ Len(s) < Len(c) /\ EdgeStart(N, c) < Len(s)
  /\ Agree(s, c, Len(s)) /\ Agree(s, h, Len(s))
  /\ \A n \in Nat : Agree(c, h, n) <=> n <= Len(s)

LEMMA DivergeIs ==
  ASSUME NEW N, GoodNodes(N), NEW h \in AllRuns, NEW c \in Diverging(N, h)
  PROVE  Splits(N, h, c, SubSeq(h, 1, Shared(c, h)))
<1>1. c \in N /\ c \in Visited(N, h) /\ ~IsPrefix(c, h)
  BY DEF Diverging, Visited
<1>2. /\ c \in AllRuns /\ Len(c) \in Nat /\ N \in SUBSET (AllRuns \ {<<>>})
  BY <1>1, GoodIs
<1>3. PICK k \in Nat : k = EdgeStart(N, c) /\ k < Len(c) /\ EdgeFacts(N, c, k)
  BY <1>1, GoodIs
<1>4. Agree(c, h, k + 1)
  BY <1>1, <1>2, <1>3, VisitedIs
<1>5. ~Agree(c, h, Len(c))
  BY <1>1, <1>2, PrefixIs
<1>6. Len(h) \in Nat
  BY RunIs
<1>7. PICK n \in Nat : /\ n = Shared(c, h) /\ n <= Len(c) /\ n <= Len(h)
                       /\ \A m \in Nat : Agree(c, h, m) <=> m <= n
  BY <1>2, SharedIs
<1>8. k + 1 <= n /\ Agree(c, h, n) /\ n # Len(c)
  BY <1>3, <1>4, <1>5, <1>7
<1>9. n \in 0 .. Len(h)
  BY <1>6, <1>7
<1>10. PICK s \in AllRuns : s = Take(h, n) /\ Len(s) = n /\ Agree(s, h, n)
  BY <1>9, TakeAgrees
<1>11. Agree(h, c, n)
  BY <1>2, <1>8, AgreeRules
<1>12. Agree(s, c, n)
  BY <1>2, <1>10, <1>11, AgreeRules
<1>13. s \notin N
  <2>1. s \in N => n <= k
    BY <1>2, <1>3, <1>7, <1>8, <1>10, <1>12 DEF EdgeFacts
  <2>2. QED
    BY <1>3, <1>8, <2>1
<1>14. n >= 1 /\ n < Len(c) /\ k < n
  BY <1>2, <1>3, <1>7, <1>8
<1>15. Splits(N, h, c, s)
  BY <1>1, <1>3, <1>7, <1>10, <1>12, <1>13, <1>14 DEF Splits
<1>16. QED
  BY <1>7, <1>10, <1>15 DEF Take

(* No insertion splits two nodes.                                          *)
LEMMA OneDiverging ==
  ASSUME NEW N, GoodNodes(N), NEW h \in AllRuns, NEW c \in Diverging(N, h), NEW d \in Diverging(N, h),
         EdgeStart(N, c) <= EdgeStart(N, d)
  PROVE  c = d
<1>1. c \in N /\ c \in Visited(N, h) /\ ~IsPrefix(c, h) /\ d \in N /\ d \in Visited(N, h)
  BY DEF Diverging, Visited
<1>2. c \in AllRuns /\ Len(c) \in Nat /\ N \in SUBSET (AllRuns \ {<<>>})
  BY <1>1, GoodIs
<1>3. d \in AllRuns /\ Len(d) \in Nat
  BY <1>1, GoodIs
<1>4. PICK k \in Nat : k = EdgeStart(N, c)
  BY <1>1, GoodIs
<1>5. PICK l \in Nat : l = EdgeStart(N, d) /\ EdgeFacts(N, d, l)
  BY <1>1, GoodIs
<1>6. Agree(c, h, k + 1)
  BY <1>1, <1>2, <1>4, VisitedIs
<1>7. Agree(d, h, l + 1)
  BY <1>1, <1>2, <1>5, VisitedIs
<1>8. Agree(d, h, k + 1)
  <2>1. k + 1 \in Nat /\ l + 1 \in Nat /\ k + 1 <= l + 1
    BY <1>4, <1>5
  <2>2. QED
    BY <1>3, <1>7, <2>1, AgreeRules
<1>9. Agree(h, c, k + 1)
  BY <1>2, <1>4, <1>6, AgreeRules
<1>10. Agree(d, c, k + 1)
  BY <1>2, <1>3, <1>8, <1>9, AgreeRules
<1>11. Agree(c, d, Len(c))
  BY <1>1, <1>4, <1>10, EdgePassed
<1>12. ~Agree(c, h, Len(c))
  BY <1>1, <1>2, PrefixIs
<1>13. CASE Len(c) < Len(d)
  <2>1. Len(c) <= l
    BY <1>1, <1>5, <1>11, <1>13 DEF EdgeFacts
  <2>2. Len(c) <= l + 1 /\ l + 1 \in Nat
    BY <1>2, <1>5, <2>1
  <2>3. Agree(d, h, Len(c))
    BY <1>2, <1>3, <1>7, <2>2, AgreeRules
  <2>4. Agree(c, h, Len(c))
    BY <1>2, <1>3, <1>11, <2>3, AgreeRules
  <2>5. QED
    BY <1>12, <2>4
<1>14. CASE ~(Len(c) < Len(d))
  <2>1. Len(c) <= Len(d)
    BY <1>2, <1>3, <1>11, AgreeRules
  <2>2. Len(c) = Len(d)
    BY <1>2, <1>3, <1>14, <2>1
  <2>3. QED
    BY <1>2, <1>3, <1>11, <2>2, AgreeRules
<1>15. QED
  BY <1>13, <1>14

LEMMA SplitCases ==
  ASSUME NEW N, GoodNodes(N), NEW h \in AllRuns
  PROVE  \/ Diverging(N, h) = {} /\ SplitAt(N, h) = {}
         \/ \E c, s : Diverging(N, h) = {c} /\ SplitAt(N, h) = {s} /\ Splits(N, h, c, s)
<1>1. CASE Diverging(N, h) = {}
  BY <1>1 DEF SplitAt
<1>2. CASE Diverging(N, h) # {}
  <2>1. PICK c : c \in Diverging(N, h)
    BY <1>2
  <2>2. ASSUME NEW d \in Diverging(N, h) PROVE d = c
    <3>1. c \in N /\ d \in N
      BY <2>1 DEF Diverging, Visited
    <3>2. EdgeStart(N, c) \in Nat /\ EdgeStart(N, d) \in Nat
      BY <3>1, GoodIs
    <3>3. CASE EdgeStart(N, c) <= EdgeStart(N, d)
      BY <2>1, <3>3, OneDiverging
    <3>4. CASE EdgeStart(N, d) <= EdgeStart(N, c)
      BY <2>1, <3>4, OneDiverging
    <3>5. QED
      BY <3>2, <3>3, <3>4
  <2>3. Diverging(N, h) = {c}
    BY <2>1, <2>2
  <2>4. PICK s : s = SubSeq(h, 1, Shared(c, h))
    OBVIOUS
  <2>5. SplitAt(N, h) = {s}
    BY <2>3, <2>4 DEF SplitAt
  <2>6. Splits(N, h, c, s)
    BY <2>1, <2>4, DivergeIs
  <2>7. QED
    BY <2>3, <2>5, <2>6
<1>3. QED
  BY <1>1, <1>2

(* Every node below the split is below the node that is split.             *)
LEMMA SplitBelow ==
  ASSUME NEW N, GoodNodes(N), NEW h \in AllRuns, NEW c, NEW s, Splits(N, h, c, s),
         NEW p \in N, Agree(s, p, Len(s))
  PROVE  Agree(c, p, Len(c))
<1>1. c \in N /\ s \in AllRuns /\ EdgeStart(N, c) < Len(s) /\ Agree(s, c, Len(s))
  BY DEF Splits
<1>2. c \in AllRuns /\ EdgeStart(N, c) \in Nat
  BY <1>1, GoodIs
<1>3. p \in AllRuns
  BY GoodIs
<1>4. Len(s) \in Nat
  BY <1>1, RunIs
<1>5. Agree(p, s, Len(s))
  BY <1>1, <1>3, <1>4, AgreeRules
<1>6. Agree(p, c, Len(s))
  BY <1>1, <1>2, <1>3, <1>4, <1>5, AgreeRules
<1>7. EdgeStart(N, c) + 1 \in Nat /\ EdgeStart(N, c) + 1 <= Len(s)
  BY <1>1, <1>2, <1>4
<1>8. Agree(p, c, EdgeStart(N, c) + 1)
  BY <1>2, <1>3, <1>4, <1>6, <1>7, AgreeRules
<1>9. QED
  BY <1>1, <1>8, EdgePassed

(* Where a node leaves h there is a node, or the insertion makes one.      *)
LEMMA SplitFound ==
  ASSUME NEW N, GoodNodes(N), NEW h \in AllRuns, NEW p \in N,
         Shared(p, h) >= 1, Shared(p, h) < Len(p)
  PROVE  Take(h, Shared(p, h)) \in N \cup SplitAt(N, h)
<1>1. p \in AllRuns /\ Len(p) \in Nat /\ N \in SUBSET (AllRuns \ {<<>>})
  BY GoodIs
<1>2. PICK n \in Nat : /\ n = Shared(p, h) /\ n <= Len(p) /\ n <= Len(h)
                       /\ \A m \in Nat : Agree(p, h, m) <=> m <= n
  BY <1>1, SharedIs
<1>3. n >= 1 /\ n < Len(p) /\ Agree(p, h, n)
  BY <1>2
<1>4. PICK c \in N : Agree(c, p, Len(c)) /\ n <= Len(c) /\ EdgeStart(N, c) < n
  BY <1>1, <1>3, FirstBeyond
<1>5. c \in AllRuns /\ Len(c) \in Nat
  BY GoodIs
<1>6. PICK k \in Nat : k = EdgeStart(N, c) /\ k < n
  BY <1>4, GoodIs
<1>7. Agree(c, p, n)
  BY <1>1, <1>4, <1>5, AgreeRules
<1>8. Agree(c, h, n)
  BY <1>1, <1>3, <1>5, <1>7, AgreeRules
<1>9. CASE Len(c) = n
  <2>1. n \in 0 .. Len(h)
    BY <1>2, RunIs
  <2>2. c = Take(h, n)
    BY <1>5, <1>8, <1>9, <2>1, TakeAgrees
  <2>3. QED
    BY <1>2, <2>2
<1>10. CASE Len(c) # n
  <2>1. ASSUME NEW m \in Nat, m > n, Agree(c, h, m) PROVE FALSE
    <3>1. n + 1 \in Nat /\ n + 1 <= m /\ n + 1 <= Len(c)
      BY <1>4, <1>5, <1>10, <2>1
    <3>2. Agree(c, h, n + 1)
      BY <1>5, <2>1, <3>1, AgreeRules
    <3>3. Agree(c, p, n + 1)
      BY <1>1, <1>4, <1>5, <3>1, AgreeRules
    <3>4. Agree(p, c, n + 1)
      BY <1>1, <1>5, <3>1, <3>3, AgreeRules
    <3>5. Agree(p, h, n + 1)
      BY <1>1, <1>5, <3>1, <3>2, <3>4, AgreeRules
    <3>6. QED
      BY <1>2, <3>1, <3>5
  <2>2. Agree(c, h, k + 1)
    <3>1. k + 1 \in Nat /\ k + 1 <= n
      BY <1>6
    <3>2. QED
      BY <1>5, <1>8, <3>1, AgreeRules
  <2>3. c \in Visited(N, h)
    BY <1>1, <1>6, <2>2, VisitedIs
  <2>4. ~IsPrefix(c, h)
    <3>1. ~Agree(c, h, Len(c))
      BY <1>4, <1>5, <1>10, <2>1
    <3>2. QED
      BY <1>5, <3>1, PrefixIs
  <2>5. Shared(c, h) = n
    <3>1. PICK m \in Nat : m = Shared(c, h) /\ \A i \in Nat : Agree(c, h, i) <=> i <= m
      BY <1>5, SharedIs
    <3>2. n <= m /\ Agree(c, h, m)
      BY <1>8, <3>1
    <3>3. QED
      BY <2>1, <3>1, <3>2
  <2>6. SubSeq(h, 1, n) \in SplitAt(N, h)
    BY <2>3, <2>4, <2>5 DEF SplitAt, Diverging
  <2>7. QED
    BY <1>2, <2>6 DEF Take
<1>11. QED
  BY <1>9, <1>10

(* Two runs that part after m blocks.                                      *)
Fork(p, q, m) == m >= 1 /\ m < Len(p) /\ m < Len(q) /\ Agree(p, q, m) /\ ~Agree(p, q, m + 1)

LEMMA ForkIs ==
  ASSUME NEW p \in AllRuns, NEW q \in AllRuns, NEW m \in Nat
  PROVE  /\ Fork(p, q, m) => Fork(q, p, m) /\ m = Shared(p, q) /\ Take(p, m) = Take(q, m)
         /\ (m = Shared(p, q) /\ m >= 1 /\ m < Len(p) /\ m < Len(q)) => Fork(p, q, m)
<1>1. Len(p) \in Nat /\ Len(q) \in Nat /\ m + 1 \in Nat
  BY RunIs
<1>2. PICK n \in Nat : n = Shared(p, q) /\ \A i \in Nat : Agree(p, q, i) <=> i <= n
  BY SharedIs
<1>3. ASSUME Fork(p, q, m) PROVE Fork(q, p, m) /\ m = n /\ Take(p, m) = Take(q, m)
  <2>1. m >= 1 /\ m < Len(p) /\ m < Len(q) /\ Agree(p, q, m) /\ ~Agree(p, q, m + 1)
    BY <1>3 DEF Fork
  <2>2. Agree(q, p, m) /\ ~Agree(q, p, m + 1)
    <3>1. Agree(q, p, m)
      BY <2>1, AgreeRules
    <3>2. Agree(q, p, m + 1) => Agree(p, q, m + 1)
      BY <1>1, AgreeRules
    <3>3. QED
      BY <2>1, <3>1, <3>2
  <2>3. m = n
    BY <1>1, <1>2, <2>1
  <2>4. Take(p, m) = Take(q, m)
    <3>1. m \in 0 .. Len(p) /\ m \in 0 .. Len(q)
      BY <1>1, <2>1
    <3>2. PICK t \in AllRuns : t = Take(p, m) /\ Len(t) = m /\ Agree(t, p, m)
      BY <3>1, TakeAgrees
    <3>3. Agree(t, q, m)
      BY <2>1, <3>2, AgreeRules
    <3>4. QED
      BY <3>1, <3>2, <3>3, TakeAgrees
  <2>5. QED
    BY <2>1, <2>2, <2>3, <2>4 DEF Fork
<1>4. ASSUME m = n, m >= 1, m < Len(p), m < Len(q) PROVE Fork(p, q, m)
  <2>1. Agree(p, q, m) /\ ~Agree(p, q, m + 1)
    BY <1>1, <1>2, <1>4
  <2>2. QED
    BY <1>4, <2>1 DEF Fork
<1>5. QED
  BY <1>2, <1>3, <1>4

Grown(N, h) == N \cup SplitAt(N, h) \cup {h}

(* A fork of a node with one of the nodes after the insertion is a node.   *)
LEMMA ForkInGrown ==
  ASSUME NEW N, GoodNodes(N), NEW h \in AllRuns, NEW p \in N, NEW q \in Grown(N, h), NEW m \in Nat,
         Fork(p, q, m)
  PROVE  Take(p, m) \in Grown(N, h)
<1>1. p \in AllRuns /\ N \in SUBSET AllRuns
  BY GoodIs
<1>2. CASE q \in N
  <2>1. q \in AllRuns
    BY <1>1, <1>2
  <2>2. m = Shared(p, q) /\ m >= 1 /\ m < Len(p) /\ m < Len(q)
    <3>1. m = Shared(p, q)
      BY <1>1, <2>1, ForkIs
    <3>2. QED
      BY <3>1 DEF Fork
  <2>3. Take(p, m) \in N
    BY <1>2, <2>2 DEF GoodNodes, Branching
  <2>4. QED
    BY <2>3 DEF Grown
<1>3. CASE q = h
  <2>1. Take(p, m) = Take(h, m) /\ m = Shared(p, h)
    BY <1>1, <1>3, ForkIs
  <2>2. m >= 1 /\ m < Len(p)
    BY DEF Fork
  <2>3. Take(h, m) \in N \cup SplitAt(N, h)
    BY <2>1, <2>2, SplitFound
  <2>4. QED
    BY <2>1, <2>3 DEF Grown
<1>4. CASE q \in SplitAt(N, h)
  <2>1. PICK c, s : SplitAt(N, h) = {s} /\ Splits(N, h, c, s)
    BY <1>4, SplitCases
  <2>2. q = s /\ s \in AllRuns /\ c \in N /\ Agree(s, c, Len(s)) /\ Len(s) < Len(c)
    BY <1>4, <2>1 DEF Splits
  <2>3. c \in AllRuns /\ Len(c) \in Nat /\ Len(s) \in Nat
    BY <1>1, <2>2, RunIs
  <2>4. m >= 1 /\ m < Len(p) /\ m < Len(s) /\ Agree(p, s, m) /\ ~Agree(p, s, m + 1)
    BY <2>2 DEF Fork
  <2>5. m + 1 \in Nat /\ m + 1 <= Len(s) /\ m <= Len(s) /\ m < Len(c)
    BY <2>2, <2>3, <2>4
  <2>6. Agree(s, c, m)
    BY <2>2, <2>3, <2>5, AgreeRules
  <2>7. Agree(p, c, m)
    BY <1>1, <2>2, <2>3, <2>4, <2>6, AgreeRules
  <2>8. ~Agree(p, c, m + 1)
    <3>1. Agree(s, c, m + 1)
      BY <2>2, <2>3, <2>5, AgreeRules
    <3>2. Agree(c, s, m + 1)
      BY <2>2, <2>3, <2>5, <3>1, AgreeRules
    <3>3. Agree(p, c, m + 1) => Agree(p, s, m + 1)
      BY <1>1, <2>2, <2>3, <2>5, <3>2, AgreeRules
    <3>4. QED
      BY <2>4, <3>3
  <2>9. Fork(p, c, m)
    BY <2>4, <2>5, <2>7, <2>8 DEF Fork
  <2>10. m = Shared(p, c)
    BY <1>1, <2>3, <2>9, ForkIs
  <2>11. Take(p, m) \in N
    BY <2>2, <2>4, <2>5, <2>10 DEF GoodNodes, Branching
  <2>12. QED
    BY <2>11 DEF Grown
<1>5. QED
  BY <1>2, <1>3, <1>4 DEF Grown

(* An insertion keeps the nodes branching at nodes.                        *)
LEMMA GrownIsGood ==
  ASSUME NEW N, GoodNodes(N), NEW h \in AllRuns, h # <<>>
  PROVE  GoodNodes(Grown(N, h))
<1>1. N \in SUBSET (AllRuns \ {<<>>})
  BY DEF GoodNodes
<1>2. ASSUME NEW s \in SplitAt(N, h) PROVE s \in AllRuns /\ s # <<>> /\ Agree(s, h, Len(s))
  <2>1. PICK c : Splits(N, h, c, s)
    BY <1>2, SplitCases
  <2>2. s \in AllRuns /\ Len(s) >= 1 /\ Agree(s, h, Len(s))
    BY <2>1 DEF Splits
  <2>3. QED
    BY <2>2, RunIs
<1>3. Grown(N, h) \subseteq AllRuns \ {<<>>}
  BY <1>1, <1>2 DEF Grown
<1>4. ASSUME NEW p \in Grown(N, h), NEW q \in Grown(N, h), NEW m \in Nat, Fork(p, q, m)
      PROVE  Take(p, m) \in Grown(N, h)
  <2>1. p \in AllRuns /\ q \in AllRuns /\ Len(p) \in Nat /\ Len(q) \in Nat
    BY <1>3, RunIs
  <2>2. CASE p \in N
    BY <1>4, <2>2, ForkInGrown
  <2>3. CASE q \in N
    <3>1. Fork(q, p, m) /\ Take(p, m) = Take(q, m)
      BY <1>4, <2>1, ForkIs
    <3>2. Take(q, m) \in Grown(N, h)
      BY <2>3, <3>1, ForkInGrown
    <3>3. QED
      BY <3>1, <3>2
  <2>4. CASE p \notin N /\ q \notin N
    <3>1. Agree(p, h, Len(p)) /\ Agree(q, h, Len(q))
      <4>1. Agree(h, h, Len(h))
        BY RunIs, AgreeRules
      <4>2. QED
        BY <1>2, <2>4, <4>1 DEF Grown
    <3>2. m + 1 \in Nat /\ m + 1 <= Len(p) /\ m + 1 <= Len(q) /\ ~Agree(p, q, m + 1)
      BY <1>4, <2>1 DEF Fork
    <3>3. Agree(p, h, m + 1)
      BY <2>1, <3>1, <3>2, AgreeRules
    <3>4. Agree(q, h, m + 1)
      BY <2>1, <3>1, <3>2, AgreeRules
    <3>5. Agree(h, q, m + 1)
      BY <2>1, <3>2, <3>4, AgreeRules
    <3>6. Agree(p, q, m + 1)
      BY <2>1, <3>2, <3>3, <3>5, AgreeRules
    <3>7. QED
      BY <3>2, <3>6
  <2>5. QED
    BY <2>2, <2>3, <2>4
<1>5. Branching(Grown(N, h))
  <2> SUFFICES ASSUME NEW p \in Grown(N, h), NEW q \in Grown(N, h),
                      Shared(p, q) >= 1, Shared(p, q) < Len(p), Shared(p, q) < Len(q)
               PROVE  Take(p, Shared(p, q)) \in Grown(N, h)
    BY DEF Branching
  <2>1. p \in AllRuns /\ q \in AllRuns
    BY <1>3
  <2>2. PICK m \in Nat : m = Shared(p, q)
    BY <2>1, SharedIs
  <2>3. Fork(p, q, m)
    BY <2>1, <2>2, ForkIs
  <2>4. QED
    BY <1>4, <2>2, <2>3
<1>6. QED
  BY <1>3, <1>5 DEF GoodNodes

LEMMA GrownIs ==
  ASSUME NEW N, GoodNodes(N), NEW h \in AllRuns, h # <<>>
  PROVE  /\ GoodNodes(Grown(N, h)) /\ Grown(N, h) \in SUBSET AllRuns
         /\ N \subseteq Grown(N, h) /\ SplitAt(N, h) \subseteq Grown(N, h) /\ h \in Grown(N, h)
<1>1. GoodNodes(Grown(N, h))
  BY GrownIsGood
<1>2. Grown(N, h) \in SUBSET AllRuns
  BY <1>1 DEF GoodNodes
<1>3. QED
  BY <1>1, <1>2 DEF Grown

-----------------------------------------------------------------------------
(* Counting blocks                                                         *)

(* The blocks of the edge into p, each as the run that ends with it.       *)
EdgeBlocks(N, p) == {Take(p, i) : i \in (EdgeStart(N, p) + 1) .. Len(p)}

BlocksOf(N, S) == UNION {EdgeBlocks(N, p) : p \in S}

LEMMA EdgeBlocksIs ==
  ASSUME NEW N, GoodNodes(N), NEW p \in N, NEW t
  PROVE  t \in EdgeBlocks(N, p) <=>
           t \in AllRuns /\ Len(t) > EdgeStart(N, p) /\ Agree(t, p, Len(t))
<1>1. p \in AllRuns /\ Len(p) \in Nat
  BY GoodIs
<1>2. PICK k \in Nat : k = EdgeStart(N, p)
  BY GoodIs
<1>3. ASSUME NEW i \in (k + 1) .. Len(p), t = Take(p, i)
      PROVE  t \in AllRuns /\ Len(t) > k /\ Agree(t, p, Len(t))
  <2>1. i \in 0 .. Len(p) /\ i > k
    BY <1>1
  <2>2. QED
    BY <1>1, <1>3, <2>1, TakeAgrees
<1>4. ASSUME t \in AllRuns, Len(t) > k, Agree(t, p, Len(t))
      PROVE  Len(t) \in (k + 1) .. Len(p) /\ t = Take(p, Len(t))
  <2>1. Len(t) \in Nat
    BY <1>4, RunIs
  <2>2. Len(t) <= Len(p)
    BY <1>1, <1>4, <2>1, AgreeRules
  <2>3. Len(t) \in (k + 1) .. Len(p) /\ Len(t) \in 0 .. Len(p)
    BY <1>1, <1>4, <2>1, <2>2
  <2>4. QED
    BY <1>1, <1>4, <2>3, TakeAgrees
<1>5. t \in EdgeBlocks(N, p) <=> \E i \in (k + 1) .. Len(p) : t = Take(p, i)
  BY <1>2 DEF EdgeBlocks
<1>6. QED
  BY <1>2, <1>3, <1>4, <1>5

LEMMA EdgeBlocksCount ==
  ASSUME NEW N, GoodNodes(N), NEW p \in N
  PROVE  IsFiniteSet(EdgeBlocks(N, p)) /\ Cardinality(EdgeBlocks(N, p)) = EdgeLen(N, p)
<1>1. p \in AllRuns /\ Len(p) \in Nat
  BY GoodIs
<1>2. PICK k \in Nat : k = EdgeStart(N, p) /\ k < Len(p)
  BY GoodIs
<1>3. PICK I : I = (k + 1) .. Len(p)
  OBVIOUS
<1>4. IsFiniteSet(I) /\ Cardinality(I) = Len(p) - k
  <2>1. k + 1 \in Int /\ Len(p) \in Int /\ ~(k + 1 > Len(p)) /\ Len(p) - (k + 1) + 1 = Len(p) - k
    BY <1>1, <1>2
  <2>2. QED
    BY <1>3, <2>1, FS_Interval
<1>5. \A i \in I : i \in 0 .. Len(p)
  BY <1>1, <1>3
<1>6. \A i \in I : Len(Take(p, i)) = i
  BY <1>1, <1>5, TakeAgrees
<1>7. PICK f : f = [i \in I |-> Take(p, i)]
  OBVIOUS
<1>8. EdgeBlocks(N, p) = {Take(p, i) : i \in I}
  BY <1>2, <1>3 DEF EdgeBlocks
<1>9. f \in Bijection(I, EdgeBlocks(N, p))
  <2>1. f \in [I -> EdgeBlocks(N, p)]
    BY <1>7, <1>8
  <2>2. \A i, j \in I : f[i] = f[j] => i = j
    BY <1>6, <1>7
  <2>3. \A t \in EdgeBlocks(N, p) : \E i \in I : f[i] = t
    BY <1>7, <1>8
  <2>4. QED
    BY <2>1, <2>2, <2>3 DEF Bijection, Injection, Surjection, IsInjective
<1>10. QED
  BY <1>2, <1>4, <1>9, FS_Bijection DEF ExistsBijection, EdgeLen

(* The edges of two nodes have no block in common.                         *)
LEMMA EdgeBlocksApart ==
  ASSUME NEW N, GoodNodes(N), NEW p \in N, NEW q \in N, NEW t \in EdgeBlocks(N, p) \cap EdgeBlocks(N, q)
  PROVE  p = q
<1>1. t \in AllRuns /\ Len(t) > EdgeStart(N, p) /\ Agree(t, p, Len(t))
  BY EdgeBlocksIs
<1>2. Len(t) > EdgeStart(N, q) /\ Agree(t, q, Len(t))
  BY EdgeBlocksIs
<1>3. Len(t) \in Nat
  BY <1>1, RunIs
<1>4. p \in AllRuns /\ Len(p) \in Nat /\ EdgeStart(N, p) \in Nat
  BY GoodIs
<1>5. q \in AllRuns /\ Len(q) \in Nat /\ EdgeStart(N, q) \in Nat
  BY GoodIs
<1>6. Agree(p, t, Len(t))
  BY <1>1, <1>3, <1>4, AgreeRules
<1>7. Agree(p, q, Len(t))
  BY <1>1, <1>2, <1>3, <1>4, <1>5, <1>6, AgreeRules
<1>8. Agree(q, p, Len(t))
  BY <1>3, <1>4, <1>5, <1>7, AgreeRules
<1>9. Agree(q, p, Len(q))
  <2>1. EdgeStart(N, q) + 1 \in Nat /\ EdgeStart(N, q) + 1 <= Len(t)
    BY <1>2, <1>3, <1>5
  <2>2. Agree(p, q, EdgeStart(N, q) + 1)
    BY <1>3, <1>4, <1>5, <1>7, <2>1, AgreeRules
  <2>3. QED
    BY <2>2, EdgePassed
<1>10. Agree(p, q, Len(p))
  <2>1. EdgeStart(N, p) + 1 \in Nat /\ EdgeStart(N, p) + 1 <= Len(t)
    BY <1>1, <1>3, <1>4
  <2>2. Agree(q, p, EdgeStart(N, p) + 1)
    BY <1>3, <1>4, <1>5, <1>8, <2>1, AgreeRules
  <2>3. QED
    BY <2>2, EdgePassed
<1>11. Len(q) <= Len(p)
  BY <1>4, <1>5, <1>9, AgreeRules
<1>12. Len(p) <= Len(q)
  BY <1>4, <1>5, <1>10, AgreeRules
<1>13. Len(p) = Len(q)
  BY <1>4, <1>5, <1>11, <1>12
<1>14. QED
  BY <1>4, <1>5, <1>10, <1>13, AgreeRules

LEMMA BlocksAdd ==
  ASSUME NEW N, GoodNodes(N), NEW A \in SUBSET N, NEW x \in A
  PROVE  /\ BlocksOf(N, A) = BlocksOf(N, A \ {x}) \cup EdgeBlocks(N, x)
         /\ BlocksOf(N, A \ {x}) \cap EdgeBlocks(N, x) = {}
<1>1. BlocksOf(N, A) = BlocksOf(N, A \ {x}) \cup EdgeBlocks(N, x)
  BY DEF BlocksOf
<1>2. ASSUME NEW t \in BlocksOf(N, A \ {x}) \cap EdgeBlocks(N, x) PROVE FALSE
  <2>1. PICK p \in A \ {x} : t \in EdgeBlocks(N, p)
    BY <1>2 DEF BlocksOf
  <2>2. p = x
    BY <1>2, <2>1, EdgeBlocksApart
  <2>3. QED
    BY <2>1, <2>2
<1>3. QED
  BY <1>1, <1>2

LEMMA BlocksFinite ==
  ASSUME NEW N, GoodNodes(N), NEW S \in SUBSET N, IsFiniteSet(S)
  PROVE  \A A \in SUBSET S : IsFiniteSet(BlocksOf(N, A)) /\ Cardinality(BlocksOf(N, A)) \in Nat
<1> DEFINE Fine(n) == \A A \in SUBSET S : Cardinality(A) = n => IsFiniteSet(BlocksOf(N, A))
<1>1. PICK c \in Nat : c = Cardinality(S)
  BY FS_CardinalityType
<1>2. \A A \in SUBSET S : IsFiniteSet(A) /\ Cardinality(A) \in 0 .. c
  <2>1. \A A \in SUBSET S : IsFiniteSet(A) /\ Cardinality(A) <= c
    BY <1>1, FS_Subset
  <2>2. \A A \in SUBSET S : Cardinality(A) \in Nat
    BY <2>1, FS_CardinalityType
  <2>3. QED
    BY <1>1, <2>1, <2>2
<1>3. Fine(0)
  <2> SUFFICES ASSUME NEW A \in SUBSET S, Cardinality(A) = 0 PROVE IsFiniteSet(BlocksOf(N, A))
    OBVIOUS
  <2>1. A = {}
    BY <1>2, FS_EmptySet
  <2>2. BlocksOf(N, A) = {}
    BY <2>1 DEF BlocksOf
  <2>3. QED
    BY <2>2, FS_EmptySet
<1>4. ASSUME NEW n \in 1 .. c, Fine(n - 1) PROVE Fine(n)
  <2> SUFFICES ASSUME NEW A \in SUBSET S, Cardinality(A) = n PROVE IsFiniteSet(BlocksOf(N, A))
    OBVIOUS
  <2>1. A # {}
    BY FS_EmptySet
  <2>2. PICK x \in A : TRUE
    BY <2>1
  <2>3. A \ {x} \in SUBSET S /\ Cardinality(A \ {x}) = n - 1
    BY <1>2, FS_RemoveElement
  <2>4. IsFiniteSet(BlocksOf(N, A \ {x}))
    BY <1>4, <2>3
  <2>5. IsFiniteSet(EdgeBlocks(N, x))
    BY EdgeBlocksCount
  <2>6. BlocksOf(N, A) = BlocksOf(N, A \ {x}) \cup EdgeBlocks(N, x)
    BY BlocksAdd
  <2>7. QED
    BY <2>4, <2>5, <2>6, FS_Union
<1> HIDE DEF Fine
<1>5. \A n \in 0 .. c : Fine(n)
  <2> DEFINE T == {n \in 0 .. c : Fine(n)}
  <2>1. 0 \in T /\ T \in SUBSET (0 .. c)
    BY <1>3
  <2>2. \A n \in 1 .. c : n - 1 \in T => n \in T
    BY <1>4
  <2> HIDE DEF T
  <2>3. \A n \in 0 .. c : n \in T
    BY <2>1, <2>2, UpToN
  <2>4. QED
    BY <2>3 DEF T
<1>6. \A A \in SUBSET S : IsFiniteSet(BlocksOf(N, A))
  BY <1>2, <1>5 DEF Fine
<1>7. QED
  BY <1>6, FS_CardinalityType

Weight(N, S) == MapThenSumSet(LAMBDA p : EdgeLen(N, p), S)

(* The sum of the edges' lengths counts their blocks.                      *)
LEMMA SumIsCount ==
  ASSUME NEW N, GoodNodes(N), NEW S \in SUBSET N, IsFiniteSet(S)
  PROVE  Weight(N, S) = Cardinality(BlocksOf(N, S))
<1> DEFINE Pick(A) == CHOOSE x \in A : TRUE
           Step(u, A) == IF A = {} THEN 0 ELSE EdgeLen(N, Pick(A)) + u[A \ {Pick(A)}]
           Sums(u) == u = [A \in SUBSET S |-> Step(u, A)]
<1>1. Weight(N, S) = (CHOOSE u : Sums(u))[S]
  BY DEF Weight, MapThenSumSet, MapThenFoldSet
<1>2. \A A \in SUBSET S : A # {} => Pick(A) \in A
  OBVIOUS
<1> HIDE DEF Pick
<1>3. \A A \in SUBSET S : IsFiniteSet(A) /\ IsFiniteSet(BlocksOf(N, A)) /\ Cardinality(BlocksOf(N, A)) \in Nat
  BY BlocksFinite, FS_Subset
<1>4. ASSUME NEW A \in SUBSET S, A # {}
      PROVE  Cardinality(BlocksOf(N, A)) = EdgeLen(N, Pick(A)) + Cardinality(BlocksOf(N, A \ {Pick(A)}))
  <2>1. PICK x \in A : x = Pick(A)
    BY <1>2, <1>4
  <2>2. PICK E : E = EdgeBlocks(N, x) /\ IsFiniteSet(E) /\ Cardinality(E) = EdgeLen(N, x)
    BY EdgeBlocksCount
  <2>3. PICK B : B = BlocksOf(N, A \ {x}) /\ IsFiniteSet(B) /\ Cardinality(B) \in Nat
    <3>1. A \ {x} \in SUBSET S
      OBVIOUS
    <3>2. QED
      BY <1>3, <3>1
  <2>4. BlocksOf(N, A) = B \cup E /\ B \cap E = {}
    BY <2>2, <2>3, BlocksAdd
  <2>5. Cardinality(B \cup E) = Cardinality(B) + Cardinality(E) - Cardinality(B \cap E)
    BY <2>2, <2>3, FS_Union
  <2>6. Cardinality(B \cap E) = 0 /\ Cardinality(E) \in Nat
    BY <2>2, <2>4, FS_EmptySet, FS_CardinalityType
  <2>7. Cardinality(B \cup E) = Cardinality(E) + Cardinality(B)
    BY <2>3, <2>5, <2>6
  <2>8. QED
    BY <2>1, <2>2, <2>3, <2>4, <2>7
<1>5. Cardinality(BlocksOf(N, {})) = 0
  <2>1. BlocksOf(N, {}) = {}
    BY DEF BlocksOf
  <2>2. QED
    BY <2>1, FS_EmptySet
<1>6. \E u : Sums(u)
  <2>1. PICK g : g = [A \in SUBSET S |-> Cardinality(BlocksOf(N, A))]
    OBVIOUS
  <2>2. ASSUME NEW A \in SUBSET S PROVE g[A] = Step(g, A)
    <3>1. CASE A = {}
      BY <1>5, <2>1, <3>1
    <3>2. CASE A # {}
      <4>1. A \ {Pick(A)} \in SUBSET S
        OBVIOUS
      <4>2. QED
        BY <1>4, <2>1, <3>2, <4>1
    <3>3. QED
      BY <3>1, <3>2
  <2> HIDE DEF Step
  <2>3. Sums(g)
    BY <2>1, <2>2
  <2>4. QED
    BY <2>3
<1>7. PICK u : u = CHOOSE w : Sums(w)
  OBVIOUS
<1>8. Sums(u)
  <2> HIDE DEF Sums
  <2> QED
    BY <1>6, <1>7
<1>9. /\ u[{}] = 0
      /\ \A A \in SUBSET S : A # {} => u[A] = EdgeLen(N, Pick(A)) + u[A \ {Pick(A)}]
  <2>1. \A A \in SUBSET S : u[A] = Step(u, A)
    <3> HIDE DEF Step
    <3> QED
      BY <1>8
  <2>2. {} \in SUBSET S
    OBVIOUS
  <2>3. QED
    BY <2>1, <2>2
<1> HIDE DEF Sums, Step
<1> DEFINE Fine(n) == \A A \in SUBSET S : Cardinality(A) = n => u[A] = Cardinality(BlocksOf(N, A))
<1>10. PICK c \in Nat : c = Cardinality(S)
  BY FS_CardinalityType
<1>11. Fine(0)
  BY <1>3, <1>5, <1>9, FS_EmptySet
<1>12. ASSUME NEW n \in 1 .. c, Fine(n - 1) PROVE Fine(n)
  <2> SUFFICES ASSUME NEW A \in SUBSET S, Cardinality(A) = n PROVE u[A] = Cardinality(BlocksOf(N, A))
    OBVIOUS
  <2>1. A # {}
    BY FS_EmptySet
  <2>2. PICK x \in A : x = Pick(A)
    BY <1>2, <2>1
  <2>3. A \ {x} \in SUBSET S /\ Cardinality(A \ {x}) = n - 1
    BY <1>3, FS_RemoveElement
  <2>4. u[A \ {x}] = Cardinality(BlocksOf(N, A \ {x}))
    BY <1>12, <2>3
  <2>5. QED
    BY <1>4, <1>9, <2>1, <2>2, <2>4
<1> HIDE DEF Fine
<1>13. Fine(c)
  <2> DEFINE T == {n \in 0 .. c : Fine(n)}
  <2>1. 0 \in T /\ T \in SUBSET (0 .. c) /\ c \in 0 .. c
    BY <1>11
  <2>2. \A n \in 1 .. c : n - 1 \in T => n \in T
    BY <1>12
  <2> HIDE DEF T
  <2>3. c \in T
    BY <2>1, <2>2, UpToN
  <2>4. QED
    BY <2>3 DEF T
<1>14. u[S] = Cardinality(BlocksOf(N, S))
  BY <1>10, <1>13 DEF Fine
<1>15. QED
  BY <1>1, <1>7, <1>14

LEMMA WeightIs ==
  ASSUME NEW N, GoodNodes(N), NEW S \in SUBSET N, IsFiniteSet(S)
  PROVE  Weight(N, S) = Cardinality(BlocksOf(N, S)) /\ Weight(N, S) \in Nat
BY SumIsCount, BlocksFinite

-----------------------------------------------------------------------------
(* An insertion moves no block between backends                            *)

LEMMA EdgeUnique ==
  ASSUME NEW N \in SUBSET AllRuns, NEW p \in AllRuns, NEW k \in Nat, EdgeFacts(N, p, k)
  PROVE  EdgeStart(N, p) = k
<1>1. PICK l \in Nat : l = EdgeStart(N, p) /\ EdgeFacts(N, p, l)
  BY EdgeStartIs
<1>2. k <= l
  BY <1>1 DEF EdgeFacts
<1>3. l <= k
  BY <1>1 DEF EdgeFacts
<1>4. QED
  BY <1>1, <1>2, <1>3

(* A new node above an old one is the split.                               *)
LEMMA NewAbove ==
  ASSUME NEW N, GoodNodes(N), NEW h \in AllRuns, h # <<>>, NEW p \in N, NEW q \in Grown(N, h) \ N,
         Agree(q, p, Len(q)), Len(q) < Len(p)
  PROVE  q \in SplitAt(N, h)
<1>1. CASE q = h
  <2>1. p \in AllRuns /\ Len(p) \in Nat
    BY GoodIs
  <2>2. Len(h) \in Nat /\ Len(h) # 0
    BY RunIs
  <2>3. PICK m \in Nat : m = Shared(p, h) /\ m <= Len(h) /\ \A n \in Nat : Agree(p, h, n) <=> n <= m
    BY <2>1, SharedIs
  <2>4. Agree(p, h, Len(h))
    BY <1>1, <2>1, <2>2, AgreeRules
  <2>5. m = Len(h)
    BY <2>2, <2>3, <2>4
  <2>6. Take(h, m) \in N \cup SplitAt(N, h)
    <3>1. Shared(p, h) >= 1 /\ Shared(p, h) < Len(p)
      BY <1>1, <2>2, <2>3, <2>5
    <3>2. QED
      BY <2>3, <3>1, SplitFound
  <2>7. Take(h, m) = h
    <3>1. Agree(h, h, Len(h)) /\ Len(h) \in 0 .. Len(h)
      BY <2>2, AgreeRules
    <3>2. QED
      BY <2>5, <3>1, TakeAgrees
  <2>8. QED
    BY <1>1, <2>6, <2>7
<1>2. QED
  BY <1>1 DEF Grown

(* The edges into the other nodes stay.                                    *)
LEMMA OtherEdges ==
  ASSUME NEW N, GoodNodes(N), NEW h \in AllRuns, h # <<>>, NEW p \in N, p \notin Diverging(N, h)
  PROVE  EdgeStart(Grown(N, h), p) = EdgeStart(N, p)
<1>1. p \in AllRuns /\ Len(p) \in Nat /\ N \in SUBSET AllRuns
  BY GoodIs
<1>2. PICK k \in Nat : k = EdgeStart(N, p) /\ EdgeFacts(N, p, k)
  BY GoodIs
<1>3. PICK M \in SUBSET AllRuns : M = Grown(N, h) /\ N \subseteq M
  BY GrownIs
<1>4. ASSUME NEW q \in M, Agree(q, p, Len(q)), Len(q) < Len(p) PROVE Len(q) <= k
  <2>1. CASE q \in N
    BY <1>2, <1>4, <2>1 DEF EdgeFacts
  <2>2. CASE q \notin N
    <3>1. q \in SplitAt(N, h)
      BY <1>3, <1>4, <2>2, NewAbove
    <3>2. PICK c, s : Diverging(N, h) = {c} /\ SplitAt(N, h) = {s} /\ Splits(N, h, c, s)
      BY <3>1, SplitCases
    <3>3. q = s /\ c # p /\ c \in N /\ Len(s) < Len(c)
      BY <3>1, <3>2 DEF Splits
    <3>4. Agree(c, p, Len(c))
      BY <1>4, <3>2, <3>3, SplitBelow
    <3>5. c \in AllRuns /\ Len(c) \in Nat
      BY <3>3, GoodIs
    <3>6. Len(c) <= Len(p) /\ Len(c) # Len(p)
      <4>1. Len(c) <= Len(p)
        BY <1>1, <3>4, <3>5, AgreeRules
      <4>2. Len(c) # Len(p)
        BY <1>1, <3>3, <3>4, <3>5, AgreeRules
      <4>3. QED
        BY <4>1, <4>2
    <3>7. Len(c) < Len(p)
      BY <1>1, <3>5, <3>6
    <3>8. Len(c) <= k
      BY <1>2, <3>3, <3>4, <3>7 DEF EdgeFacts
    <3>9. Len(s) \in Nat
      BY <1>3, <3>3, RunIs
    <3>10. QED
      BY <1>2, <3>3, <3>5, <3>8, <3>9
  <2>3. QED
    BY <2>1, <2>2
<1>5. k = 0 \/ \E q \in M : Agree(q, p, Len(q)) /\ Len(q) = k /\ k < Len(p)
  BY <1>2, <1>3 DEF EdgeFacts
<1>6. EdgeFacts(M, p, k)
  BY <1>4, <1>5 DEF EdgeFacts
<1>7. QED
  BY <1>1, <1>2, <1>3, <1>6, EdgeUnique

(* The edge that is split becomes two.                                     *)
LEMMA SplitEdges ==
  ASSUME NEW N, GoodNodes(N), NEW h \in AllRuns, h # <<>>, NEW c, NEW s,
         SplitAt(N, h) = {s}, Splits(N, h, c, s)
  PROVE  EdgeStart(Grown(N, h), c) = Len(s) /\ EdgeStart(Grown(N, h), s) = EdgeStart(N, c)
<1>1. /\ c \in N /\ s \in AllRuns /\ s \notin N
      /\ Len(s) >= 1 /\ Len(s) < Len(c) /\ EdgeStart(N, c) < Len(s)
      /\ Agree(s, c, Len(s)) /\ Agree(s, h, Len(s))
  BY DEF Splits
<1>2. c \in AllRuns /\ Len(c) \in Nat /\ N \in SUBSET AllRuns /\ Len(s) \in Nat /\ Len(h) \in Nat
  BY <1>1, GoodIs, RunIs
<1>3. PICK k \in Nat : k = EdgeStart(N, c) /\ k < Len(s) /\ EdgeFacts(N, c, k)
  BY <1>1, GoodIs
<1>4. PICK M \in SUBSET AllRuns : M = Grown(N, h) /\ N \subseteq M /\ s \in M
  BY GrownIs
<1>5. \A q \in M : q \in AllRuns /\ Len(q) \in Nat
  BY <1>4, RunIs
<1>6. EdgeFacts(M, c, Len(s))
  <2>1. ASSUME NEW q \in M, Agree(q, c, Len(q)), Len(q) < Len(c) PROVE Len(q) <= Len(s)
    <3>1. CASE q \in N
      <4>1. Len(q) <= k
        BY <1>3, <2>1, <3>1 DEF EdgeFacts
      <4>2. QED
        BY <1>2, <1>3, <1>5, <4>1
    <3>2. CASE q \notin N
      <4>1. q \in SplitAt(N, h)
        BY <1>1, <1>4, <2>1, <3>2, NewAbove
      <4>2. QED
        BY <1>2, <4>1
    <3>3. QED
      BY <3>1, <3>2
  <2>2. QED
    BY <1>1, <1>4, <2>1 DEF EdgeFacts
<1>7. EdgeFacts(M, s, k)
  <2>1. ASSUME NEW q \in M, Agree(q, s, Len(q)), Len(q) < Len(s) PROVE Len(q) <= k
    <3>1. CASE q \in N
      <4>1. Agree(s, c, Len(q))
        BY <1>1, <1>2, <1>5, <2>1, AgreeRules
      <4>2. Agree(q, c, Len(q))
        BY <1>1, <1>2, <1>5, <2>1, <4>1, AgreeRules
      <4>3. Len(q) < Len(c)
        BY <1>1, <1>2, <1>5, <2>1
      <4>4. QED
        BY <1>3, <3>1, <4>2, <4>3 DEF EdgeFacts
    <3>2. CASE q = s
      BY <1>2, <2>1, <3>2
    <3>3. CASE q = h
      <4>1. Len(s) <= Len(h)
        BY <1>1, <1>2, AgreeRules
      <4>2. QED
        BY <1>2, <2>1, <3>3, <4>1
    <3>4. QED
      BY <1>4, <3>1, <3>2, <3>3 DEF Grown
  <2>2. CASE k = 0
    BY <2>1, <2>2 DEF EdgeFacts
  <2>3. CASE k # 0
    <3>1. PICK q \in N : Agree(q, c, Len(q)) /\ Len(q) = k /\ k < Len(c)
      BY <1>3, <2>3 DEF EdgeFacts
    <3>2. Agree(c, s, Len(s))
      BY <1>1, <1>2, AgreeRules
    <3>3. Agree(c, s, k)
      BY <1>1, <1>2, <1>3, <3>2, AgreeRules
    <3>4. Agree(q, s, k)
      BY <1>1, <1>2, <3>1, <3>3, AgreeRules
    <3>5. \E x \in M : Agree(x, s, Len(x)) /\ Len(x) = k /\ k < Len(s)
      BY <1>3, <1>4, <3>1, <3>4
    <3>6. QED
      BY <2>1, <3>5 DEF EdgeFacts
  <2>4. QED
    BY <2>2, <2>3
<1>8. EdgeStart(M, c) = Len(s)
  BY <1>2, <1>6, EdgeUnique
<1>9. EdgeStart(M, s) = k
  BY <1>1, <1>7, EdgeUnique
<1>10. QED
  BY <1>3, <1>4, <1>8, <1>9

LEMMA SplitBlocks ==
  ASSUME NEW N, GoodNodes(N), NEW h \in AllRuns, h # <<>>, NEW c, NEW s,
         SplitAt(N, h) = {s}, Splits(N, h, c, s)
  PROVE  EdgeBlocks(N, c) = EdgeBlocks(Grown(N, h), c) \cup EdgeBlocks(Grown(N, h), s)
<1>1. /\ c \in N /\ s \in AllRuns /\ Len(s) < Len(c) /\ EdgeStart(N, c) < Len(s) /\ Agree(s, c, Len(s))
  BY DEF Splits
<1>2. PICK M : M = Grown(N, h) /\ GoodNodes(M) /\ c \in M /\ s \in M
  BY <1>1, GrownIs
<1>3. c \in AllRuns /\ Len(c) \in Nat /\ Len(s) \in Nat
  BY <1>1, GoodIs, RunIs
<1>4. PICK k \in Nat : k = EdgeStart(N, c) /\ k < Len(s)
  BY <1>1, GoodIs
<1>5. EdgeStart(M, c) = Len(s) /\ EdgeStart(M, s) = k
  BY <1>2, <1>4, SplitEdges
<1>6. ASSUME NEW t PROVE t \in EdgeBlocks(N, c) <=> t \in EdgeBlocks(M, c) \cup EdgeBlocks(M, s)
  <2>1. t \in EdgeBlocks(N, c) <=> t \in AllRuns /\ Len(t) > k /\ Agree(t, c, Len(t))
    BY <1>1, <1>4, EdgeBlocksIs
  <2>2. t \in EdgeBlocks(M, c) <=> t \in AllRuns /\ Len(t) > Len(s) /\ Agree(t, c, Len(t))
    BY <1>2, <1>5, EdgeBlocksIs
  <2>3. t \in EdgeBlocks(M, s) <=> t \in AllRuns /\ Len(t) > k /\ Agree(t, s, Len(t))
    BY <1>2, <1>5, EdgeBlocksIs
  <2>4. ASSUME t \in AllRuns, Len(t) <= Len(s) PROVE Agree(t, c, Len(t)) <=> Agree(t, s, Len(t))
    <3>1. Len(t) \in Nat
      BY <2>4, RunIs
    <3>2. Agree(s, c, Len(t))
      BY <1>1, <1>3, <2>4, <3>1, AgreeRules
    <3>3. Agree(c, s, Len(t))
      BY <1>1, <1>3, <3>1, <3>2, AgreeRules
    <3>4. Agree(t, c, Len(t)) => Agree(t, s, Len(t))
      BY <1>1, <1>3, <2>4, <3>1, <3>3, AgreeRules
    <3>5. Agree(t, s, Len(t)) => Agree(t, c, Len(t))
      BY <1>1, <1>3, <2>4, <3>1, <3>2, AgreeRules
    <3>6. QED
      BY <3>4, <3>5
  <2>5. t \in AllRuns => Len(t) \in Nat
    BY RunIs
  <2>6. t \in AllRuns /\ Agree(t, s, Len(t)) => Len(t) <= Len(s)
    BY <1>1, <2>5, AgreeRules
  <2>7. QED
    BY <1>3, <1>4, <2>1, <2>2, <2>3, <2>4, <2>5, <2>6
<1>7. QED
  BY <1>2, <1>6

(* A backend that holds the nodes S, and the split where it held the node  *)
(* that was split, holds the same blocks as before.                        *)
LEMMA GrownBlocks ==
  ASSUME NEW N, GoodNodes(N), NEW h \in AllRuns, h # <<>>, NEW S \in SUBSET N
  PROVE  BlocksOf(Grown(N, h), S \cup (IF Diverging(N, h) \cap S = {} THEN {} ELSE SplitAt(N, h))) = BlocksOf(N, S)
<1>1. PICK M : M = Grown(N, h)
  OBVIOUS
<1>2. \A p \in S : p \notin Diverging(N, h) => EdgeBlocks(M, p) = EdgeBlocks(N, p)
  BY <1>1, OtherEdges DEF EdgeBlocks
<1>3. CASE Diverging(N, h) \cap S = {}
  <2>1. \A p \in S : EdgeBlocks(M, p) = EdgeBlocks(N, p)
    BY <1>2, <1>3
  <2>2. BlocksOf(M, S) = BlocksOf(N, S)
    BY <2>1 DEF BlocksOf
  <2>3. QED
    BY <1>1, <1>3, <2>2
<1>4. CASE Diverging(N, h) \cap S # {}
  <2>1. PICK c, s : Diverging(N, h) = {c} /\ SplitAt(N, h) = {s} /\ Splits(N, h, c, s)
    BY <1>4, SplitCases
  <2>2. c \in S
    BY <1>4, <2>1
  <2>3. EdgeBlocks(N, c) = EdgeBlocks(M, c) \cup EdgeBlocks(M, s)
    BY <1>1, <2>1, SplitBlocks
  <2>4. \A p \in S : p # c => EdgeBlocks(M, p) = EdgeBlocks(N, p)
    BY <1>2, <2>1
  <2>5. ASSUME NEW t PROVE t \in BlocksOf(M, S \cup {s}) <=> t \in BlocksOf(N, S)
    <3>1. t \in BlocksOf(M, S \cup {s}) <=> t \in EdgeBlocks(M, s) \/ \E p \in S : t \in EdgeBlocks(M, p)
      BY DEF BlocksOf
    <3>2. t \in BlocksOf(N, S) <=> \E p \in S : t \in EdgeBlocks(N, p)
      BY DEF BlocksOf
    <3>3. QED
      BY <2>2, <2>3, <2>4, <3>1, <3>2
  <2>6. BlocksOf(M, S \cup {s}) = BlocksOf(N, S)
    BY <2>5
  <2>7. QED
    BY <1>1, <1>4, <2>1, <2>6
<1>5. QED
  BY <1>3, <1>4

-----------------------------------------------------------------------------
(* Lists without repetition                                                *)

NoDup(l) == \A i, j \in DOMAIN l : l[i] = l[j] => i = j

LEMMA NoDupKept ==
  ASSUME NEW E, NEW l \in Seq(E), NoDup(l), NEW I
  PROVE  Kept(l, I) \in Seq(E) /\ NoDup(Kept(l, I)) /\ ToSet(Kept(l, I)) = {l[k] : k \in I \cap DOMAIN l}
<1>1. PICK u \in Seq(E) : u = Kept(l, I)
  BY KeptInOrder
<1>2. PICK f : Embedding(f, u, l, Len(l), I)
  BY <1>1, KeptInOrder
<1>3. DOMAIN l = 1 .. Len(l) /\ \A i \in DOMAIN u : i \in Nat
  OBVIOUS
<1>4. ASSUME NEW i \in DOMAIN u, NEW j \in DOMAIN u, u[i] = u[j] PROVE i = j
  <2>1. f[i] \in DOMAIN l /\ f[j] \in DOMAIN l /\ u[i] = l[f[i]] /\ u[j] = l[f[j]]
    BY <1>2, <1>3 DEF Embedding
  <2>2. f[i] = f[j]
    BY <1>4, <2>1 DEF NoDup
  <2>3. ~(i < j) /\ ~(j < i)
    <3>1. (i < j => f[i] < f[j]) /\ (j < i => f[j] < f[i])
      BY <1>2 DEF Embedding
    <3>2. f[i] \in Int /\ f[j] \in Int
      BY <1>3, <2>1
    <3>3. QED
      BY <2>2, <3>1, <3>2
  <2>4. QED
    BY <1>3, <2>3
<1>5. ToSet(Kept(l, I)) = {l[k] : k \in I \cap DOMAIN l}
  BY KeptRange
<1>6. QED
  BY <1>1, <1>4, <1>5 DEF NoDup

LEMMA NoDupJoin ==
  ASSUME NEW E, NEW a \in Seq(E), NEW b \in Seq(E), NoDup(a), NoDup(b), ToSet(a) \cap ToSet(b) = {}
  PROVE  a \o b \in Seq(E) /\ NoDup(a \o b) /\ ToSet(a \o b) = ToSet(a) \cup ToSet(b)
<1>1. PICK c \in Seq(E) : c = a \o b
  <2>1. a \o b \in Seq(E)
    OBVIOUS
  <2>2. QED
    BY <2>1
<1>2. PICK n \in Nat : n = Len(a) /\ DOMAIN a = 1 .. n
  OBVIOUS
<1>3. /\ \A i \in DOMAIN c : \/ i \in DOMAIN a /\ c[i] = a[i]
                             \/ i - n \in DOMAIN b /\ c[i] = b[i - n]
      /\ \A i \in DOMAIN a : i \in DOMAIN c /\ c[i] = a[i]
      /\ \A i \in DOMAIN b : i + n \in DOMAIN c /\ c[i + n] = b[i]
      /\ \A i \in DOMAIN c : i \in Nat
  BY <1>1, <1>2
<1>4. \A i \in DOMAIN a, j \in DOMAIN b : a[i] # b[j]
  BY DEF ToSet
<1>5. ASSUME NEW i \in DOMAIN c, NEW j \in DOMAIN c, c[i] = c[j] PROVE i = j
  <2>1. CASE i \in DOMAIN a /\ c[i] = a[i] /\ j \in DOMAIN a /\ c[j] = a[j]
    BY <1>5, <2>1 DEF NoDup
  <2>2. CASE i - n \in DOMAIN b /\ c[i] = b[i - n] /\ j - n \in DOMAIN b /\ c[j] = b[j - n]
    <3>1. i - n = j - n
      BY <1>5, <2>2 DEF NoDup
    <3>2. QED
      BY <1>3, <3>1
  <2>3. CASE i \in DOMAIN a /\ c[i] = a[i] /\ j - n \in DOMAIN b /\ c[j] = b[j - n]
    BY <1>4, <1>5, <2>3
  <2>4. CASE j \in DOMAIN a /\ c[j] = a[j] /\ i - n \in DOMAIN b /\ c[i] = b[i - n]
    BY <1>4, <1>5, <2>4
  <2>5. QED
    BY <1>3, <2>1, <2>2, <2>3, <2>4
<1>6. ToSet(c) = ToSet(a) \cup ToSet(b)
  BY <1>3 DEF ToSet
<1>7. QED
  BY <1>1, <1>5, <1>6 DEF NoDup

LEMMA NoDupTail ==
  ASSUME NEW E, NEW l \in Seq(E), NoDup(l), NEW k \in 0 .. Len(l)
  PROVE  /\ SubSeq(l, k + 1, Len(l)) \in Seq(E) /\ NoDup(SubSeq(l, k + 1, Len(l)))
         /\ ToSet(SubSeq(l, k + 1, Len(l))) \subseteq ToSet(l)
         /\ k = 0 => SubSeq(l, k + 1, Len(l)) = l
         /\ k = Len(l) => ToSet(SubSeq(l, k + 1, Len(l))) = {}
<1>1. PICK n \in Nat : n = Len(l) /\ DOMAIN l = 1 .. n
  OBVIOUS
<1>2. PICK u : u = SubSeq(l, k + 1, Len(l))
  OBVIOUS
<1>3. u \in Seq(E) /\ Len(u) = n - k /\ \A i \in 1 .. (n - k) : u[i] = l[k + i]
  BY <1>1, <1>2
<1>4. DOMAIN u = 1 .. (n - k) /\ \A i \in 1 .. (n - k) : k + i \in DOMAIN l
  BY <1>1, <1>3
<1>5. ASSUME NEW i \in DOMAIN u, NEW j \in DOMAIN u, u[i] = u[j] PROVE i = j
  <2>1. k + i = k + j
    BY <1>3, <1>4, <1>5 DEF NoDup
  <2>2. QED
    BY <1>1, <1>4, <2>1
<1>6. ToSet(u) \subseteq ToSet(l)
  BY <1>3, <1>4 DEF ToSet
<1>7. k = 0 => u = l
  <2> SUFFICES ASSUME k = 0 PROVE u = l
    OBVIOUS
  <2>1. Len(u) = Len(l) /\ \A i \in 1 .. Len(l) : u[i] = l[i]
    BY <1>1, <1>3
  <2>2. QED
    BY <1>3, <2>1
<1>8. k = Len(l) => ToSet(u) = {}
  <2>1. k = n => DOMAIN u = {}
    BY <1>1, <1>4
  <2>2. QED
    BY <1>1, <2>1 DEF ToSet
<1>9. QED
  BY <1>2, <1>3, <1>5, <1>6, <1>7, <1>8 DEF NoDup

LEMMA NoDupCount ==
  ASSUME NEW E, NEW l \in Seq(E), NoDup(l)
  PROVE  IsFiniteSet(ToSet(l)) /\ Cardinality(ToSet(l)) = Len(l)
<1>1. DOMAIN l = 1 .. Len(l) /\ Len(l) \in Nat /\ l \in [DOMAIN l -> ToSet(l)]
  BY DEF ToSet
<1>2. l \in Bijection(1 .. Len(l), ToSet(l))
  <2>1. \A t \in ToSet(l) : \E i \in DOMAIN l : l[i] = t
    BY DEF ToSet
  <2>2. QED
    BY <1>1, <2>1 DEF NoDup, Bijection, Injection, Surjection, IsInjective
<1>3. IsFiniteSet(1 .. Len(l)) /\ Cardinality(1 .. Len(l)) = Len(l)
  <2>1. PICK n \in Int, o \in Int : n = Len(l) /\ n >= 0 /\ o = 1
    BY <1>1
  <2>2. IsFiniteSet(o .. n) /\ Cardinality(o .. n) = IF o > n THEN 0 ELSE n - o + 1
    BY FS_Interval
  <2>3. QED
    BY <2>1, <2>2
<1>4. QED
  BY <1>2, <1>3, FS_Bijection DEF ExistsBijection

(* The runs the walk passes.                                               *)
LEMMA AlongIs ==
  ASSUME NEW h \in AllRuns
  PROVE  /\ Along(h) \in Seq(AllRuns) /\ NoDup(Along(h))
         /\ \A t \in AllRuns : t # <<>> /\ Agree(t, h, Len(t)) => t \in ToSet(Along(h))
<1>1. PICK n \in Nat : n = Len(h)
  BY RunIs
<1>2. PICK a : a = Along(h) /\ a = [i \in 1 .. n |-> Take(h, i)]
  BY <1>1 DEF Along, Take
<1>3. \A i \in 1 .. n : i \in 0 .. Len(h)
  BY <1>1
<1>4. \A i \in 1 .. n : Take(h, i) \in AllRuns /\ Len(Take(h, i)) = i
  BY <1>3, TakeAgrees
<1>5. a \in Seq(AllRuns) /\ DOMAIN a = 1 .. n
  BY <1>2, <1>4
<1>6. NoDup(a)
  BY <1>2, <1>4 DEF NoDup
<1>7. ASSUME NEW t \in AllRuns, t # <<>>, Agree(t, h, Len(t)) PROVE t \in ToSet(a)
  <2>1. Len(t) \in Nat /\ Len(t) # 0
    BY <1>7, RunIs
  <2>2. Len(t) <= n
    BY <1>1, <1>7, <2>1, AgreeRules
  <2>3. Len(t) \in 1 .. n
    BY <2>1, <2>2
  <2>4. t = Take(h, Len(t))
    BY <1>3, <1>7, <2>3, TakeAgrees
  <2>5. QED
    BY <1>2, <2>3, <2>4 DEF ToSet
<1>8. QED
  BY <1>2, <1>5, <1>6, <1>7

LEMMA ListOver ==
  ASSUME NEW E, NEW l \in Seq(E), NEW M, ToSet(l) \subseteq M
  PROVE  l \in Seq(M)
<1>1. DOMAIN l = 1 .. Len(l) /\ Len(l) \in Nat /\ l = [i \in 1 .. Len(l) |-> l[i]]
  OBVIOUS
<1>2. \A i \in 1 .. Len(l) : l[i] \in M
  BY <1>1 DEF ToSet
<1>3. QED
  BY <1>1, <1>2

-----------------------------------------------------------------------------
(* Holders of the nodes, and the lists of their nodes                      *)

TreeTyped(T) ==
  /\ T.holders \in [TreeNodes(T) -> SUBSET Holders]
  /\ T.lru \in [Holders -> Seq(TreeNodes(T))]

Listed(T) ==
  \A x \in Holders : NoDup(T.lru[x]) /\ ToSet(T.lru[x]) = {p \in TreeNodes(T) : x \in T.holders[p]}

LEMMA PathIs ==
  ASSUME NEW N, GoodNodes(N), NEW h \in AllRuns, h # <<>>
  PROVE  /\ Grown(N, h) = N \cup PathNodes(N, h)
         /\ \A p \in Grown(N, h) : p \in PathNodes(N, h) <=> Agree(p, h, Len(p))
<1>1. Grown(N, h) = N \cup PathNodes(N, h)
  BY DEF Grown, PathNodes
<1>2. \A p \in Grown(N, h) : p \in AllRuns
  BY GrownIs
<1>3. ASSUME NEW p \in Grown(N, h), Agree(p, h, Len(p)) PROVE p \in PathNodes(N, h)
  <2>1. IsPrefix(p, h)
    BY <1>2, <1>3, PrefixIs
  <2>2. QED
    BY <2>1 DEF Grown, PathNodes
<1>4. ASSUME NEW p \in Grown(N, h), p \in PathNodes(N, h) PROVE Agree(p, h, Len(p))
  <2>1. CASE p \in N /\ IsPrefix(p, h)
    BY <1>2, <2>1, PrefixIs
  <2>2. CASE p \in SplitAt(N, h)
    <3>1. PICK c : Splits(N, h, c, p)
      BY <2>2, SplitCases
    <3>2. QED
      BY <3>1 DEF Splits
  <2>3. CASE p = h
    BY <2>3, RunIs, AgreeRules
  <2>4. QED
    BY <1>4, <2>1, <2>2, <2>3 DEF PathNodes
<1>5. QED
  BY <1>1, <1>3, <1>4

(* x holds p after an insertion of h for b, before the eviction.           *)
After(T, h, b, p, x) ==
  \/ x = b /\ Agree(p, h, Len(p))
  \/ p \in TreeNodes(T) /\ x \in T.holders[p]
  \/ p \in SplitAt(TreeNodes(T), h) /\ \E c \in Diverging(TreeNodes(T), h) : x \in T.holders[c]

LEMMA InheritedIs ==
  ASSUME NEW T, GoodNodes(TreeNodes(T)), TreeTyped(T), NEW h \in AllRuns, NEW p, NEW x
  PROVE  x \in Inherited(T, h, p) <=>
           \/ p \in TreeNodes(T) /\ x \in T.holders[p]
           \/ p \in SplitAt(TreeNodes(T), h) /\ \E c \in Diverging(TreeNodes(T), h) : x \in T.holders[c]
<1>1. p \in SplitAt(TreeNodes(T), h) => p \notin TreeNodes(T)
  BY SplitCases DEF Splits
<1>2. QED
  BY <1>1 DEF Inherited

LEMMA HoldHolders ==
  ASSUME NEW T, GoodNodes(TreeNodes(T)), TreeTyped(T), NEW h \in AllRuns, h # <<>>, NEW b \in Holders
  PROVE  /\ TreeNodes(_hold(T, h, b)) = Grown(TreeNodes(T), h)
         /\ _hold(T, h, b).holders \in [Grown(TreeNodes(T), h) -> SUBSET Holders]
         /\ \A p \in Grown(TreeNodes(T), h) : \A x :
              x \in _hold(T, h, b).holders[p] <=> After(T, h, b, p, x)
<1>1. PICK N : N = TreeNodes(T) /\ GoodNodes(N)
  OBVIOUS
<1>2. PICK M : M = Grown(N, h) /\ M = N \cup PathNodes(N, h)
  BY <1>1, PathIs
<1>3. \A p \in M : p \in PathNodes(N, h) <=> Agree(p, h, Len(p))
  BY <1>1, <1>2, PathIs
<1>4. PICK g : g = _hold(T, h, b).holders
  OBVIOUS
<1>5. g = [p \in M |-> Inherited(T, h, p) \cup (IF p \in PathNodes(N, h) THEN {b} ELSE {})]
  BY <1>1, <1>2, <1>4 DEF _hold
<1>6. TreeNodes(_hold(T, h, b)) = M
  BY <1>4, <1>5 DEF TreeNodes
<1>7. ASSUME NEW p \in M, NEW x PROVE x \in g[p] <=> After(T, h, b, p, x)
  <2>1. x \in g[p] <=> x \in Inherited(T, h, p) \/ (p \in PathNodes(N, h) /\ x = b)
    BY <1>5
  <2>2. x \in Inherited(T, h, p) <=>
           \/ p \in TreeNodes(T) /\ x \in T.holders[p]
           \/ p \in SplitAt(TreeNodes(T), h) /\ \E c \in Diverging(TreeNodes(T), h) : x \in T.holders[c]
    BY InheritedIs
  <2>3. QED
    BY <1>3, <2>1, <2>2 DEF After
<1>8. \A p \in M : g[p] \subseteq Holders
  <2>1. \A p \in TreeNodes(T) : T.holders[p] \subseteq Holders
    BY DEF TreeTyped
  <2>2. \A c \in Diverging(TreeNodes(T), h) : c \in TreeNodes(T)
    BY DEF Diverging, Visited
  <2>3. QED
    BY <1>7, <2>1, <2>2 DEF After
<1>9. g \in [M -> SUBSET Holders]
  BY <1>5, <1>8
<1>10. QED
  BY <1>1, <1>2, <1>4, <1>6, <1>7, <1>9

(* The list of the inserting backend.                                      *)
LEMMA OwnList ==
  ASSUME NEW T, GoodNodes(TreeNodes(T)), TreeTyped(T), Listed(T), NEW h \in AllRuns, h # <<>>, NEW b \in Holders
  PROVE  /\ _track(T, h, b, b) \in Seq(Grown(TreeNodes(T), h)) /\ NoDup(_track(T, h, b, b))
         /\ ToSet(_track(T, h, b, b)) = {p \in Grown(TreeNodes(T), h) : After(T, h, b, p, b)}
<1>1. PICK N : N = TreeNodes(T) /\ GoodNodes(N)
  OBVIOUS
<1>2. PICK M : M = Grown(N, h)
  OBVIOUS
<1>3. PICK path : path = PathNodes(N, h)
  OBVIOUS
<1>4. /\ M = N \cup path /\ M \subseteq AllRuns \ {<<>>} /\ \A p \in M : p \in path <=> Agree(p, h, Len(p))
  <2>1. GoodNodes(M)
    BY <1>1, <1>2, GrownIs
  <2>2. QED
    BY <1>1, <1>2, <1>3, <2>1, PathIs DEF GoodNodes
<1>5. PICK l \in Seq(N) : l = T.lru[b] /\ NoDup(l) /\ ToSet(l) = {p \in N : b \in T.holders[p]}
  BY <1>1 DEF TreeTyped, Listed
<1>6. PICK I : I = {i \in DOMAIN l : l[i] \notin path}
  OBVIOUS
<1>7. PICK u : u = Kept(l, I) /\ u \in Seq(N) /\ NoDup(u) /\ ToSet(u) = {l[k] : k \in I \cap DOMAIN l}
  BY <1>5, NoDupKept
<1>8. ToSet(u) = ToSet(l) \ path
  BY <1>6, <1>7 DEF ToSet
<1>9. PICK a \in Seq(AllRuns) : /\ a = Along(h) /\ NoDup(a)
                             /\ \A t \in AllRuns : t # <<>> /\ Agree(t, h, Len(t)) => t \in ToSet(a)
  BY AlongIs
<1>10. PICK J : J = {i \in DOMAIN a : a[i] \in path}
  OBVIOUS
<1>11. PICK w : w = Kept(a, J) /\ w \in Seq(AllRuns) /\ NoDup(w) /\ ToSet(w) = {a[k] : k \in J \cap DOMAIN a}
  BY <1>9, NoDupKept
<1>12. ToSet(w) = path
  <2>1. ToSet(w) = ToSet(a) \cap path
    BY <1>10, <1>11 DEF ToSet
  <2>2. path \subseteq ToSet(a)
    BY <1>4, <1>9
  <2>3. QED
    BY <2>1, <2>2
<1>13. _track(T, h, b, b) = u \o w
  BY <1>1, <1>3, <1>5, <1>6, <1>7, <1>9, <1>10, <1>11 DEF _track, Where
<1>14. u \in Seq(AllRuns)
  <2>1. ToSet(u) \subseteq AllRuns
    BY <1>4, <1>5, <1>8
  <2>2. QED
    BY <1>7, <2>1, ListOver
<1>15. u \o w \in Seq(AllRuns) /\ NoDup(u \o w) /\ ToSet(u \o w) = ToSet(u) \cup ToSet(w)
  <2>1. ToSet(u) \cap ToSet(w) = {}
    BY <1>8, <1>12
  <2>2. NoDup(u) /\ w \in Seq(AllRuns) /\ NoDup(w)
    BY <1>7, <1>11
  <2>3. QED
    BY <1>14, <2>1, <2>2, NoDupJoin
<1>16. ToSet(u \o w) = {p \in M : After(T, h, b, p, b)}
  <2>1. ASSUME NEW p \in M
        PROVE  p \in ToSet(u \o w) <=> After(T, h, b, p, b)
    <3>1. p \in ToSet(u \o w) <=> (p \in N /\ b \in T.holders[p]) \/ p \in path
      BY <1>5, <1>8, <1>12, <1>15
    <3>2. p \in SplitAt(N, h) => p \in path
      BY <1>3 DEF PathNodes
    <3>3. QED
      BY <1>1, <1>4, <3>1, <3>2 DEF After
  <2>2. ToSet(u \o w) \subseteq M
    BY <1>4, <1>5, <1>8, <1>12, <1>15
  <2>3. QED
    BY <2>1, <2>2
<1>17. u \o w \in Seq(M)
  <2>1. ToSet(u \o w) \subseteq M
    BY <1>16
  <2>2. QED
    BY <1>15, <2>1, ListOver
<1>18. QED
  BY <1>1, <1>2, <1>13, <1>15, <1>16, <1>17

(* The list of another backend.                                            *)
LEMMA OtherList ==
  ASSUME NEW T, GoodNodes(TreeNodes(T)), TreeTyped(T), Listed(T), NEW h \in AllRuns, h # <<>>, NEW b \in Holders,
         NEW x \in Holders, x # b
  PROVE  /\ _track(T, h, b, x) \in Seq(Grown(TreeNodes(T), h)) /\ NoDup(_track(T, h, b, x))
         /\ ToSet(_track(T, h, b, x)) = {p \in Grown(TreeNodes(T), h) : After(T, h, b, p, x)}
         /\ ToSet(_track(T, h, b, x)) = ToSet(T.lru[x]) \cup
               (IF Diverging(TreeNodes(T), h) \cap ToSet(T.lru[x]) = {} THEN {} ELSE SplitAt(TreeNodes(T), h))
<1>1. PICK N : N = TreeNodes(T) /\ GoodNodes(N)
  OBVIOUS
<1>2. PICK M : M = Grown(N, h)
  OBVIOUS
<1>3. PICK split, D : split = SplitAt(N, h) /\ D = Diverging(N, h)
  OBVIOUS
<1>4. N \subseteq M /\ split \subseteq M /\ M \subseteq AllRuns /\ h \in M
  BY <1>1, <1>2, <1>3, GrownIs
<1>5. \A s \in split : s \in AllRuns /\ s \notin N /\ s # <<>> /\ Agree(s, h, Len(s))
  <2>1. \A s \in split : \E c : Splits(N, h, c, s)
    BY <1>1, <1>3, SplitCases
  <2>2. \A s \in split : s \in AllRuns /\ s \notin N /\ Len(s) >= 1 /\ Agree(s, h, Len(s))
    BY <2>1 DEF Splits
  <2>3. QED
    BY <2>2, RunIs
<1>6. D \subseteq N
  BY <1>3 DEF Diverging, Visited
<1>7. PICK l \in Seq(N) : l = T.lru[x] /\ NoDup(l) /\ ToSet(l) = {p \in N : x \in T.holders[p]}
  BY <1>1 DEF TreeTyped, Listed
<1>8. PICK a \in Seq(AllRuns) : /\ a = Along(h) /\ NoDup(a)
                             /\ \A t \in AllRuns : t # <<>> /\ Agree(t, h, Len(t)) => t \in ToSet(a)
  BY AlongIs
<1>9. PICK J : J = {i \in DOMAIN a : a[i] \in split /\ x \in Inherited(T, h, a[i])}
  OBVIOUS
<1>10. PICK w : w = Kept(a, J) /\ w \in Seq(AllRuns) /\ NoDup(w) /\ ToSet(w) = {a[k] : k \in J \cap DOMAIN a}
  BY <1>8, NoDupKept
<1>11. \A p : p \in ToSet(w) <=> p \in split /\ x \in Inherited(T, h, p)
  <2>1. \A p : p \in ToSet(w) <=> p \in ToSet(a) /\ p \in split /\ x \in Inherited(T, h, p)
    BY <1>9, <1>10 DEF ToSet
  <2>2. \A p \in split : p \in ToSet(a)
    BY <1>5, <1>8
  <2>3. QED
    BY <2>1, <2>2
<1>12. \A p \in split : x \in Inherited(T, h, p) <=> \E c \in D : x \in T.holders[c]
  <2>1. \A p : x \in Inherited(T, h, p) <=>
           \/ p \in TreeNodes(T) /\ x \in T.holders[p]
           \/ p \in SplitAt(TreeNodes(T), h) /\ \E c \in Diverging(TreeNodes(T), h) : x \in T.holders[c]
    BY InheritedIs
  <2>2. QED
    BY <1>1, <1>3, <1>5, <2>1
<1>13. ToSet(w) = IF D \cap ToSet(l) = {} THEN {} ELSE split
  <2>1. (\E c \in D : x \in T.holders[c]) <=> D \cap ToSet(l) # {}
    BY <1>6, <1>7
  <2>2. QED
    BY <1>11, <1>12, <2>1
<1>14. _track(T, h, b, x) = l \o w
  BY <1>1, <1>3, <1>7, <1>8, <1>9, <1>10 DEF _track, Where
<1>15. l \in Seq(AllRuns)
  <2>1. ToSet(l) \subseteq AllRuns
    BY <1>4, <1>7
  <2>2. QED
    BY <2>1, ListOver
<1>16. ToSet(l) \cap ToSet(w) = {}
  BY <1>5, <1>7, <1>11
<1>17. l \o w \in Seq(AllRuns) /\ NoDup(l \o w) /\ ToSet(l \o w) = ToSet(l) \cup ToSet(w)
  BY <1>7, <1>10, <1>15, <1>16, NoDupJoin
<1>18. ToSet(l \o w) = {p \in M : After(T, h, b, p, x)}
  <2>1. ASSUME NEW p \in M PROVE p \in ToSet(l \o w) <=> After(T, h, b, p, x)
    BY <1>1, <1>3, <1>7, <1>11, <1>12, <1>17 DEF After
  <2>2. ToSet(l \o w) \subseteq M
    BY <1>4, <1>7, <1>11, <1>17
  <2>3. QED
    BY <2>1, <2>2
<1>19. l \o w \in Seq(M)
  <2>1. ToSet(l \o w) \subseteq M
    BY <1>18
  <2>2. QED
    BY <1>17, <2>1, ListOver
<1>20. QED
  BY <1>1, <1>2, <1>3, <1>7, <1>13, <1>14, <1>17, <1>18, <1>19

-----------------------------------------------------------------------------
(* Holdings and the history of insertions                                  *)

(* x holds prefixes of runs inserted for it.                               *)
Given(T, sn) ==
  \A x \in Holders : \A p \in TreeNodes(T) : x \in T.holders[p] => \E s \in sn[x] : Agree(p, s, Len(p))

AllBlocks(S) == UNION {Prefixes(s) \ {<<>>} : s \in S}

Roomy(S) == Cardinality(AllBlocks(S)) <= CacheBlocks

(* A backend whose insertions fit the budget holds all of them.            *)
Complete(T, sn) ==
  \A x \in Holders : Roomy(sn[x]) =>
    \A s \in sn[x] : s # <<>> =>
      s \in TreeNodes(T) /\ \A p \in TreeNodes(T) : Agree(p, s, Len(p)) => x \in T.holders[p]

Budget(T, x) == Weight(TreeNodes(T), ToSet(T.lru[x])) <= CacheBlocks

(* The invariant of the tree.                                              *)
TreeOK(T, sn) ==
  /\ GoodNodes(TreeNodes(T)) /\ TreeTyped(T) /\ Listed(T)
  /\ Given(T, sn) /\ Complete(T, sn)
  /\ \A x \in Holders : Budget(T, x)

Histories == {sn \in [Holders -> SUBSET AllRuns] : \A x \in Holders : IsFiniteSet(sn[x])}

LEMMA AllBlocksIs ==
  ASSUME NEW S \in SUBSET AllRuns, IsFiniteSet(S)
  PROVE  /\ IsFiniteSet(AllBlocks(S)) /\ Cardinality(AllBlocks(S)) \in Nat
         /\ \A t \in AllRuns : t # <<>> /\ (\E s \in S : Agree(t, s, Len(t))) => t \in AllBlocks(S)
<1>1. ASSUME NEW s \in S PROVE IsFiniteSet(Prefixes(s) \ {<<>>})
  <2>1. PICK n \in Int, z \in Int : n = Len(s) /\ z = 0
    BY RunIs
  <2>2. IsFiniteSet(z .. n)
    BY FS_Interval
  <2>3. PICK f : f = [i \in z .. n |-> SubSeq(s, 1, i)]
    OBVIOUS
  <2>4. f \in Surjection(z .. n, Prefixes(s))
    <3>1. Prefixes(s) = {SubSeq(s, 1, i) : i \in z .. n}
      BY <2>1 DEF Prefixes
    <3>2. f \in [z .. n -> Prefixes(s)] /\ \A t \in Prefixes(s) : \E i \in z .. n : f[i] = t
      BY <2>3, <3>1
    <3>3. QED
      BY <3>2 DEF Surjection
  <2>5. IsFiniteSet(Prefixes(s))
    BY <2>2, <2>4, FS_Surjection
  <2>6. QED
    BY <2>5, FS_Difference
<1>2. PICK P : P = {Prefixes(s) \ {<<>>} : s \in S}
  OBVIOUS
<1>3. IsFiniteSet(P)
  <2>1. PICK f : f = [s \in S |-> Prefixes(s) \ {<<>>}]
    OBVIOUS
  <2>2. f \in Surjection(S, P)
    BY <1>2, <2>1 DEF Surjection
  <2>3. QED
    BY <2>2, FS_Surjection
<1>4. IsFiniteSet(UNION P)
  <2>1. \A X \in P : IsFiniteSet(X)
    BY <1>1, <1>2
  <2>2. QED
    BY <1>3, <2>1, FS_UNION
<1>5. IsFiniteSet(AllBlocks(S)) /\ Cardinality(AllBlocks(S)) \in Nat
  BY <1>2, <1>4, FS_CardinalityType DEF AllBlocks
<1>6. ASSUME NEW t \in AllRuns, t # <<>>, NEW s \in S, Agree(t, s, Len(t)) PROVE t \in AllBlocks(S)
  <2>1. s \in AllRuns /\ Len(s) \in Nat /\ Len(t) \in Nat
    BY RunIs
  <2>2. Len(t) <= Len(s)
    BY <1>6, <2>1, AgreeRules
  <2>3. Len(t) \in 0 .. Len(s)
    BY <2>1, <2>2
  <2>4. t = SubSeq(s, 1, Len(t))
    BY <1>6, <2>1, <2>3, TakeAgrees, SMTT(20) DEF Take
  <2>5. t \in Prefixes(s)
    BY <2>3, <2>4 DEF Prefixes
  <2>6. QED
    BY <1>6, <2>5 DEF AllBlocks
<1>7. QED
  BY <1>5, <1>6

LEMMA RoomyShrinks ==
  ASSUME NEW B \in SUBSET AllRuns, IsFiniteSet(B), NEW A \in SUBSET B, Roomy(B)
  PROVE  Roomy(A)
<1>1. IsFiniteSet(AllBlocks(B)) /\ Cardinality(AllBlocks(B)) \in Nat
  BY AllBlocksIs
<1>2. A \in SUBSET AllRuns /\ IsFiniteSet(A)
  BY FS_Subset
<1>3. Cardinality(AllBlocks(A)) \in Nat
  BY <1>2, AllBlocksIs
<1>4. AllBlocks(A) \in SUBSET AllBlocks(B)
  BY DEF AllBlocks
<1>5. Cardinality(AllBlocks(A)) <= Cardinality(AllBlocks(B))
  BY <1>1, <1>4, FS_Subset
<1>6. QED
  BY <1>1, <1>3, <1>5, TreeAssumption DEF Roomy

(* Holdings out of A have no more blocks than A.                           *)
LEMMA HeldFits ==
  ASSUME NEW N, GoodNodes(N), NEW S \in SUBSET N, IsFiniteSet(S), NEW A \in SUBSET AllRuns, IsFiniteSet(A),
         \A p \in S : \E s \in A : Agree(p, s, Len(p)), Roomy(A)
  PROVE  Weight(N, S) <= CacheBlocks
<1>1. Weight(N, S) = Cardinality(BlocksOf(N, S)) /\ Weight(N, S) \in Nat
  BY WeightIs
<1>2. /\ IsFiniteSet(AllBlocks(A)) /\ Cardinality(AllBlocks(A)) \in Nat
      /\ \A t \in AllRuns : t # <<>> /\ (\E s \in A : Agree(t, s, Len(t))) => t \in AllBlocks(A)
  BY AllBlocksIs
<1>3. ASSUME NEW t \in BlocksOf(N, S) PROVE t \in AllBlocks(A)
  <2>1. PICK p \in S : t \in EdgeBlocks(N, p)
    BY DEF BlocksOf
  <2>2. t \in AllRuns /\ Len(t) > EdgeStart(N, p) /\ Agree(t, p, Len(t))
    BY <2>1, EdgeBlocksIs
  <2>3. p \in AllRuns /\ Len(p) \in Nat /\ EdgeStart(N, p) \in Nat
    BY GoodIs
  <2>4. PICK s \in A : Agree(p, s, Len(p))
    OBVIOUS
  <2>5. Len(t) \in Nat
    BY <2>2, RunIs
  <2>6. Len(t) <= Len(p)
    BY <2>2, <2>3, <2>5, AgreeRules
  <2>7. Agree(p, s, Len(t))
    BY <2>3, <2>4, <2>5, <2>6, AgreeRules
  <2>8. Agree(t, s, Len(t))
    BY <2>2, <2>3, <2>5, <2>7, AgreeRules
  <2>9. t # <<>>
    BY <2>2, <2>3, <2>5, RunIs
  <2>10. QED
    BY <1>2, <2>2, <2>8, <2>9
<1>4. BlocksOf(N, S) \in SUBSET AllBlocks(A)
  BY <1>3
<1>5. Cardinality(BlocksOf(N, S)) <= Cardinality(AllBlocks(A))
  BY <1>2, <1>4, FS_Subset
<1>6. QED
  BY <1>1, <1>2, <1>5, TreeAssumption DEF Roomy

(* The sets of nodes on the lists are finite.                              *)
LEMMA ListedFinite ==
  ASSUME NEW T, TreeTyped(T), Listed(T), NEW x \in Holders
  PROVE  IsFiniteSet(ToSet(T.lru[x])) /\ ToSet(T.lru[x]) \in SUBSET TreeNodes(T)
         /\ Cardinality(ToSet(T.lru[x])) = Len(T.lru[x])
<1>1. T.lru[x] \in Seq(TreeNodes(T)) /\ NoDup(T.lru[x])
  BY DEF TreeTyped, Listed
<1>2. QED
  BY <1>1, NoDupCount DEF Listed

-----------------------------------------------------------------------------
(* The operations keep the invariant                                       *)

Told(sn, b, h) == [sn EXCEPT ![b] = @ \cup {h}]

LEMMA ToldIs ==
  ASSUME NEW sn \in Histories, NEW b \in Holders, NEW h \in AllRuns
  PROVE  /\ Told(sn, b, h) \in Histories
         /\ Told(sn, b, h)[b] = sn[b] \cup {h} /\ \A x \in Holders : x # b => Told(sn, b, h)[x] = sn[x]
         /\ \A x \in Holders : sn[x] \subseteq Told(sn, b, h)[x]
         /\ \A x \in Holders : Roomy(Told(sn, b, h)[x]) => Roomy(sn[x])
<1>1. sn \in [Holders -> SUBSET AllRuns] /\ \A x \in Holders : IsFiniteSet(sn[x])
  BY DEF Histories
<1>2. PICK tn : tn = Told(sn, b, h)
  OBVIOUS
<1>3. tn \in [Holders -> SUBSET AllRuns] /\ tn[b] = sn[b] \cup {h} /\ \A x \in Holders : x # b => tn[x] = sn[x]
  BY <1>1, <1>2 DEF Told
<1>4. IsFiniteSet(sn[b] \cup {h})
  BY <1>1, FS_AddElement
<1>5. \A x \in Holders : IsFiniteSet(tn[x]) /\ sn[x] \in SUBSET tn[x] /\ tn[x] \in SUBSET AllRuns
  BY <1>1, <1>3, <1>4
<1>6. \A x \in Holders : Roomy(tn[x]) => Roomy(sn[x])
  BY <1>5, RoomyShrinks
<1>7. QED
  BY <1>2, <1>3, <1>5, <1>6 DEF Histories

LEMMA HoldGiven ==
  ASSUME NEW T, NEW sn \in Histories, TreeOK(T, sn), NEW h \in AllRuns, h # <<>>, NEW b \in Holders
  PROVE  Given(_hold(T, h, b), Told(sn, b, h))
<1>1. PICK N : N = TreeNodes(T) /\ GoodNodes(N) /\ TreeTyped(T) /\ Given(T, sn)
  BY DEF TreeOK
<1>2. PICK H : H = _hold(T, h, b)
  OBVIOUS
<1>3. PICK M : M = Grown(N, h) /\ TreeNodes(H) = M /\ \A p \in M : \A x : x \in H.holders[p] <=> After(T, h, b, p, x)
  BY <1>1, <1>2, HoldHolders
<1>4. PICK tn : /\ tn = Told(sn, b, h) /\ h \in tn[b] /\ \A x \in Holders : sn[x] \subseteq tn[x]
                /\ \A x \in Holders : sn[x] \subseteq AllRuns
  <2>1. \A x \in Holders : sn[x] \subseteq AllRuns
    BY DEF Histories
  <2>2. QED
    BY <2>1, ToldIs
<1>5. ASSUME NEW x \in Holders, NEW p \in M, x \in H.holders[p] PROVE \E s \in tn[x] : Agree(p, s, Len(p))
  <2>1. CASE x = b /\ Agree(p, h, Len(p))
    BY <1>4, <2>1
  <2>2. CASE p \in N /\ x \in T.holders[p]
    BY <1>1, <1>4, <2>2 DEF Given
  <2>3. CASE p \in SplitAt(N, h) /\ \E c \in Diverging(N, h) : x \in T.holders[c]
    <3>1. PICK c : Diverging(N, h) = {c} /\ SplitAt(N, h) = {p} /\ Splits(N, h, c, p)
      BY <1>1, <2>3, SplitCases
    <3>2. c \in N /\ x \in T.holders[c] /\ p \in AllRuns /\ Agree(p, c, Len(p)) /\ Len(p) < Len(c)
      BY <2>3, <3>1 DEF Splits
    <3>3. PICK s \in sn[x] : Agree(c, s, Len(c))
      BY <1>1, <3>2 DEF Given
    <3>4. s \in AllRuns /\ c \in AllRuns /\ Len(c) \in Nat /\ Len(p) \in Nat
      <4>1. c \in AllRuns /\ Len(c) \in Nat
        BY <1>1, <3>2, GoodIs
      <4>2. QED
        BY <1>4, <3>2, <4>1, RunIs
    <3>5. Agree(c, s, Len(p))
      BY <3>2, <3>3, <3>4, AgreeRules
    <3>6. Agree(p, s, Len(p))
      BY <3>2, <3>4, <3>5, AgreeRules
    <3>7. QED
      BY <1>4, <3>6
  <2>4. QED
    BY <1>1, <1>3, <1>5, <2>1, <2>2, <2>3 DEF After
<1>6. QED
  BY <1>2, <1>3, <1>4, <1>5 DEF Given

(* A roomy backend also holds the nodes that an insertion adds above what  *)
(* it was given.                                                           *)
LEMMA HoldComplete ==
  ASSUME NEW T, NEW sn \in Histories, TreeOK(T, sn), NEW h \in AllRuns, h # <<>>, NEW b \in Holders
  PROVE  Complete(_hold(T, h, b), Told(sn, b, h))
<1>1. PICK N : N = TreeNodes(T) /\ GoodNodes(N) /\ TreeTyped(T) /\ Complete(T, sn)
  BY DEF TreeOK
<1>2. PICK H : H = _hold(T, h, b)
  OBVIOUS
<1>3. PICK M : M = Grown(N, h) /\ TreeNodes(H) = M /\ \A p \in M : \A x : x \in H.holders[p] <=> After(T, h, b, p, x)
  BY <1>1, <1>2, HoldHolders
<1>4. N \subseteq M /\ h \in M /\ M \subseteq AllRuns
  BY <1>1, <1>3, GrownIs
<1>5. PICK tn : /\ tn = Told(sn, b, h) /\ tn[b] = sn[b] \cup {h} /\ \A x \in Holders : x # b => tn[x] = sn[x]
                /\ \A x \in Holders : Roomy(tn[x]) => Roomy(sn[x])
  BY ToldIs
<1>6. \A x \in Holders : sn[x] \subseteq AllRuns
  BY DEF Histories
<1>7. ASSUME NEW x \in Holders, Roomy(tn[x]), NEW s \in sn[x], s # <<>>
      PROVE  s \in M /\ \A p \in M : Agree(p, s, Len(p)) => x \in H.holders[p]
  <2>1. Roomy(sn[x])
    BY <1>5, <1>7
  <2>2. s \in N /\ \A p \in N : Agree(p, s, Len(p)) => x \in T.holders[p]
    BY <1>1, <1>7, <2>1 DEF Complete
  <2>3. s \in AllRuns /\ Len(s) \in Nat
    BY <1>6, RunIs
  <2>4. ASSUME NEW p \in M, Agree(p, s, Len(p)) PROVE After(T, h, b, p, x)
    <3>1. CASE p \in N
      BY <1>1, <2>2, <2>4, <3>1 DEF After
    <3>2. CASE p \notin N
      <4>1. p \in AllRuns /\ Len(p) \in Nat
        BY <1>4, RunIs
      <4>2. Len(p) < Len(s)
        <5>1. Len(p) <= Len(s)
          BY <2>3, <2>4, <4>1, AgreeRules
        <5>2. Len(p) # Len(s)
          BY <2>2, <2>3, <2>4, <3>2, <4>1, AgreeRules
        <5>3. QED
          BY <2>3, <4>1, <5>1, <5>2
      <4>3. p \in SplitAt(N, h)
        BY <1>1, <1>3, <2>2, <2>4, <3>2, <4>2, NewAbove
      <4>4. PICK c : Diverging(N, h) = {c} /\ Splits(N, h, c, p)
        BY <1>1, <4>3, SplitCases
      <4>5. Agree(c, s, Len(c)) /\ c \in N
        <5>1. c \in N
          BY <4>4 DEF Splits
        <5>2. Agree(c, s, Len(c))
          BY <1>1, <2>2, <2>4, <4>4, SplitBelow
        <5>3. QED
          BY <5>1, <5>2
      <4>6. x \in T.holders[c]
        BY <2>2, <4>5
      <4>7. QED
        BY <1>1, <4>3, <4>4, <4>6 DEF After
    <3>3. QED
      BY <3>1, <3>2
  <2>5. QED
    BY <1>3, <1>4, <2>2, <2>4
<1>8. \A p \in M : Agree(p, h, Len(p)) => b \in H.holders[p]
  BY <1>3 DEF After
<1>9. QED
  BY <1>2, <1>3, <1>4, <1>5, <1>7, <1>8 DEF Complete

LEMMA HoldListed ==
  ASSUME NEW T, NEW sn, TreeOK(T, sn), NEW h \in AllRuns, h # <<>>, NEW b \in Holders
  PROVE  /\ GoodNodes(TreeNodes(_hold(T, h, b))) /\ TreeTyped(_hold(T, h, b)) /\ Listed(_hold(T, h, b))
         /\ \A x \in Holders : x # b => Budget(_hold(T, h, b), x)
<1>1. PICK N : N = TreeNodes(T) /\ GoodNodes(N) /\ TreeTyped(T) /\ Listed(T)
  BY DEF TreeOK
<1>2. PICK H : H = _hold(T, h, b)
  OBVIOUS
<1>3. PICK M : /\ M = Grown(N, h) /\ TreeNodes(H) = M /\ H.holders \in [M -> SUBSET Holders]
               /\ \A p \in M : \A x : x \in H.holders[p] <=> After(T, h, b, p, x)
  BY <1>1, <1>2, HoldHolders
<1>4. H.lru = [x \in Holders |-> _track(T, h, b, x)]
  BY <1>2 DEF _hold
<1>5. ASSUME NEW x \in Holders
      PROVE  /\ _track(T, h, b, x) \in Seq(M) /\ NoDup(_track(T, h, b, x))
             /\ ToSet(_track(T, h, b, x)) = {p \in M : After(T, h, b, p, x)}
  <2>1. CASE x = b
    BY <1>1, <1>3, <2>1, OwnList
  <2>2. CASE x # b
    BY <1>1, <1>3, <2>2, OtherList
  <2>3. QED
    BY <2>1, <2>2
<1>6. GoodNodes(M)
  BY <1>1, <1>3, GrownIs
<1>7. TreeTyped(H)
  BY <1>3, <1>4, <1>5 DEF TreeTyped
<1>8. Listed(H)
  BY <1>3, <1>4, <1>5 DEF Listed
<1>9. ASSUME NEW x \in Holders, x # b PROVE Budget(H, x)
  <2>1. PICK S : S = ToSet(T.lru[x])
    OBVIOUS
  <2>2. IsFiniteSet(S) /\ S \in SUBSET N
    BY <1>1, <2>1, ListedFinite
  <2>3. PICK R : R = ToSet(H.lru[x]) /\ IsFiniteSet(R) /\ R \in SUBSET M
    BY <1>3, <1>7, <1>8, ListedFinite
  <2>4. R = S \cup (IF Diverging(N, h) \cap S = {} THEN {} ELSE SplitAt(N, h))
    <3>1. R = ToSet(_track(T, h, b, x))
      BY <1>4, <2>3
    <3>2. QED
      BY <1>1, <1>9, <2>1, <3>1, OtherList
  <2>5. BlocksOf(M, R) = BlocksOf(N, S)
    BY <1>1, <1>3, <2>2, <2>4, GrownBlocks
  <2>6. Weight(N, S) = Cardinality(BlocksOf(N, S))
    BY <1>1, <2>2, WeightIs
  <2>7. Weight(M, R) = Cardinality(BlocksOf(M, R))
    BY <1>6, <2>3, WeightIs
  <2>8. Weight(N, S) <= CacheBlocks
    BY <1>1, <2>1 DEF TreeOK, Budget
  <2>9. QED
    BY <1>3, <2>3, <2>5, <2>6, <2>7, <2>8 DEF Budget
<1>10. QED
  BY <1>2, <1>3, <1>6, <1>7, <1>8, <1>9

(* Eviction leaves b the end of its list, within the budget; all of it     *)
(* when everything fits.                                                   *)
Evicts(H, b, M, l, kept) ==
  /\ NoDup(kept) /\ ToSet(kept) \subseteq ToSet(l)
  /\ Weight(M, ToSet(kept)) <= CacheBlocks
  /\ Weight(M, ToSet(l)) <= CacheBlocks => kept = l
  /\ _evict(H, b) = [holders |-> [p \in M |-> H.holders[p] \ (IF p \in ToSet(l) \ ToSet(kept) THEN {b} ELSE {})],
                     lru |-> [H.lru EXCEPT ![b] = kept]]

LEMMA EvictIs ==
  ASSUME NEW H, GoodNodes(TreeNodes(H)), TreeTyped(H), Listed(H), NEW b \in Holders
  PROVE  \E kept \in Seq(TreeNodes(H)) : Evicts(H, b, TreeNodes(H), H.lru[b], kept)
<1>1. PICK M : M = TreeNodes(H) /\ GoodNodes(M)
  OBVIOUS
<1>2. PICK l \in Seq(M) : l = H.lru[b] /\ NoDup(l)
  BY <1>1 DEF TreeTyped, Listed
<1>3. PICK K : K = {k \in 0 .. Len(l) : Weight(M, ToSet(SubSeq(l, k + 1, Len(l)))) <= CacheBlocks}
  OBVIOUS
<1>4. K \in SUBSET Nat /\ K # {}
  <2>1. Len(l) \in 0 .. Len(l)
    OBVIOUS
  <2>2. ToSet(SubSeq(l, Len(l) + 1, Len(l))) = {}
    BY <1>2, <2>1, NoDupTail
  <2>3. Weight(M, {}) <= CacheBlocks
    <3>1. IsFiniteSet({}) /\ {} \in SUBSET M
      BY FS_EmptySet
    <3>2. Weight(M, {}) = Cardinality(BlocksOf(M, {}))
      BY <1>1, <3>1, WeightIs
    <3>3. BlocksOf(M, {}) = {}
      BY DEF BlocksOf
    <3>4. Weight(M, {}) = 0
      BY <3>2, <3>3, FS_EmptySet
    <3>5. QED
      BY <3>4, TreeAssumption
  <2>4. Len(l) \in K
    BY <1>3, <2>1, <2>2, <2>3
  <2>5. K \in SUBSET Nat
    BY <1>3
  <2>6. QED
    BY <2>4, <2>5
<1>5. PICK m \in K : m = Min(K) /\ \A k \in K : m <= k
  BY <1>4, MinIsLeast
<1>6. m \in 0 .. Len(l) /\ Weight(M, ToSet(SubSeq(l, m + 1, Len(l)))) <= CacheBlocks
  BY <1>3, <1>5
<1>7. PICK kept : kept = SubSeq(l, m + 1, Len(l))
  OBVIOUS
<1>8. kept \in Seq(M) /\ NoDup(kept) /\ ToSet(kept) \subseteq ToSet(l) /\ (m = 0 => kept = l)
  BY <1>2, <1>6, <1>7, NoDupTail
<1>9. Weight(M, ToSet(l)) <= CacheBlocks => kept = l
  <2> SUFFICES ASSUME Weight(M, ToSet(l)) <= CacheBlocks PROVE m = 0
    BY <1>8
  <2>1. 0 \in 0 .. Len(l)
    OBVIOUS
  <2>2. SubSeq(l, 0 + 1, Len(l)) = l
    BY <1>2, <2>1, NoDupTail
  <2>3. 0 \in K
    BY <1>3, <2>1, <2>2
  <2>4. m <= 0 /\ m \in Nat
    BY <1>4, <1>5, <2>3
  <2>5. QED
    BY <2>4
<1>10. _evict(H, b) = [holders |-> [p \in M |-> H.holders[p] \ (IF p \in ToSet(l) \ ToSet(kept) THEN {b} ELSE {})],
                      lru |-> [H.lru EXCEPT ![b] = kept]]
  BY <1>1, <1>2, <1>3, <1>5, <1>7 DEF _evict, Weight
<1>11. Evicts(H, b, M, l, kept)
  BY <1>6, <1>7, <1>8, <1>9, <1>10 DEF Evicts
<1>12. QED
  BY <1>1, <1>2, <1>8, <1>11

(* Whatever nodes of b are taken from it, with the invariant otherwise     *)
(* intact: it holds again once the rest fits, as long as nothing is taken  *)
(* of what fitted.                                                         *)
Drops(H, b, kept, E) ==
  /\ kept \in Seq(TreeNodes(H)) /\ NoDup(kept) /\ ToSet(kept) \subseteq ToSet(H.lru[b])
  /\ Weight(TreeNodes(H), ToSet(kept)) <= CacheBlocks
  /\ Weight(TreeNodes(H), ToSet(H.lru[b])) <= CacheBlocks => ToSet(kept) = ToSet(H.lru[b])
  /\ E.holders = [p \in TreeNodes(H) |->
                    H.holders[p] \ (IF p \in ToSet(H.lru[b]) \ ToSet(kept) THEN {b} ELSE {})]
  /\ E.lru = [H.lru EXCEPT ![b] = kept]

LEMMA DropOK ==
  ASSUME NEW H, NEW sn \in Histories, NEW b \in Holders,
         GoodNodes(TreeNodes(H)), TreeTyped(H), Listed(H), Given(H, sn), Complete(H, sn),
         \A x \in Holders : x # b => Budget(H, x),
         NEW kept, NEW E, Drops(H, b, kept, E)
  PROVE  TreeOK(E, sn)
<1>1. PICK M : M = TreeNodes(H) /\ GoodNodes(M)
  OBVIOUS
<1>2. PICK l : l = H.lru[b] /\ IsFiniteSet(ToSet(l)) /\ ToSet(l) \in SUBSET M
  BY <1>1, ListedFinite
<1>3. /\ kept \in Seq(M) /\ NoDup(kept) /\ ToSet(kept) \subseteq ToSet(l)
      /\ Weight(M, ToSet(kept)) <= CacheBlocks
      /\ Weight(M, ToSet(l)) <= CacheBlocks => ToSet(kept) = ToSet(l)
  BY <1>1, <1>2 DEF Drops
<1>5. /\ E.holders = [p \in M |-> H.holders[p] \ (IF p \in ToSet(l) \ ToSet(kept) THEN {b} ELSE {})]
      /\ E.lru = [H.lru EXCEPT ![b] = kept]
  BY <1>1, <1>2 DEF Drops
<1>6. TreeNodes(E) = M
  BY <1>5 DEF TreeNodes
<1>7. H.holders \in [M -> SUBSET Holders] /\ H.lru \in [Holders -> Seq(M)]
  BY <1>1 DEF TreeTyped
<1>8. /\ E.lru \in [Holders -> Seq(M)] /\ E.lru[b] = kept /\ \A x \in Holders : x # b => E.lru[x] = H.lru[x]
  BY <1>3, <1>5, <1>7
<1>9. /\ E.holders \in [M -> SUBSET Holders]
      /\ \A p \in M : E.holders[p] \subseteq H.holders[p]
      /\ \A p \in M : \A x \in Holders :
           x \in E.holders[p] <=> x \in H.holders[p] /\ ~(x = b /\ p \in ToSet(l) /\ p \notin ToSet(kept))
  BY <1>5, <1>7
<1>10. TreeTyped(E)
  BY <1>6, <1>8, <1>9 DEF TreeTyped
<1>11. Listed(E)
  <2> SUFFICES ASSUME NEW x \in Holders
               PROVE  NoDup(E.lru[x]) /\ ToSet(E.lru[x]) = {p \in M : x \in E.holders[p]}
    BY <1>6 DEF Listed
  <2>1. NoDup(H.lru[x]) /\ ToSet(H.lru[x]) = {p \in M : x \in H.holders[p]}
    BY <1>1 DEF Listed
  <2>2. CASE x # b
    BY <1>8, <1>9, <2>1, <2>2
  <2>3. CASE x = b
    BY <1>2, <1>3, <1>8, <1>9, <2>1, <2>3
  <2>4. QED
    BY <2>2, <2>3
<1>12. Given(E, sn)
  BY <1>1, <1>6, <1>9 DEF Given
<1>13. Complete(E, sn)
  <2>1. ASSUME Roomy(sn[b]) PROVE ToSet(kept) = ToSet(l)
    <3>1. sn[b] \in SUBSET AllRuns /\ IsFiniteSet(sn[b])
      BY DEF Histories
    <3>2. \A p \in ToSet(l) : \E s \in sn[b] : Agree(p, s, Len(p))
      BY <1>1, <1>2 DEF Given, Listed
    <3>3. Weight(M, ToSet(l)) <= CacheBlocks
      BY <1>1, <1>2, <2>1, <3>1, <3>2, HeldFits
    <3>4. QED
      BY <1>3, <3>3
  <2>2. \A x \in Holders : Roomy(sn[x]) => \A p \in M : x \in H.holders[p] => x \in E.holders[p]
    BY <1>9, <2>1
  <2>3. QED
    BY <1>1, <1>6, <2>2 DEF Complete
<1>14. ASSUME NEW x \in Holders PROVE Budget(E, x)
  <2>1. CASE x # b
    BY <1>1, <1>6, <1>8, <2>1 DEF Budget
  <2>2. CASE x = b
    BY <1>3, <1>6, <1>8, <2>2 DEF Budget
  <2>3. QED
    BY <2>1, <2>2
<1>15. QED
  BY <1>1, <1>6, <1>10, <1>11, <1>12, <1>13, <1>14 DEF TreeOK

LEMMA EvictOK ==
  ASSUME NEW H, NEW sn \in Histories, NEW b \in Holders,
         GoodNodes(TreeNodes(H)), TreeTyped(H), Listed(H), Given(H, sn), Complete(H, sn),
         \A x \in Holders : x # b => Budget(H, x)
  PROVE  TreeOK(_evict(H, b), sn)
<1>1. PICK kept \in Seq(TreeNodes(H)) : Evicts(H, b, TreeNodes(H), H.lru[b], kept)
  BY EvictIs
<1>2. Drops(H, b, kept, _evict(H, b))
  BY <1>1 DEF Evicts, Drops
<1>3. QED
  BY <1>2, DropOK

(* insert keeps the invariant, with the run added to the history of b.     *)
LEMMA InsertOK ==
  ASSUME NEW T, NEW sn \in Histories, TreeOK(T, sn), NEW h \in AllRuns, NEW b \in Holders
  PROVE  TreeOK(insert(T, h, b), Told(sn, b, h))
<1>1. CASE h = <<>>
  <2>1. insert(T, h, b) = T
    BY <1>1 DEF insert
  <2>2. PICK tn : /\ tn = Told(sn, b, h) /\ tn[b] = sn[b] \cup {h} /\ \A x \in Holders : x # b => tn[x] = sn[x]
                  /\ \A x \in Holders : sn[x] \subseteq tn[x]
                  /\ \A x \in Holders : Roomy(tn[x]) => Roomy(sn[x])
    BY ToldIs
  <2>3. Given(T, tn)
    BY <2>2 DEF TreeOK, Given
  <2>4. Complete(T, tn)
    <3>1. \A x \in Holders : \A s \in tn[x] : s # <<>> => s \in sn[x]
      BY <1>1, <2>2
    <3>2. QED
      BY <2>2, <3>1 DEF TreeOK, Complete
  <2>5. QED
    BY <2>1, <2>2, <2>3, <2>4 DEF TreeOK
<1>2. CASE h # <<>>
  <2>1. PICK H : H = _hold(T, h, b) /\ insert(T, h, b) = _evict(H, b)
    BY <1>2 DEF insert
  <2>2. PICK tn \in Histories : tn = Told(sn, b, h)
    BY ToldIs
  <2>3. /\ GoodNodes(TreeNodes(H)) /\ TreeTyped(H) /\ Listed(H)
        /\ \A x \in Holders : x # b => Budget(H, x)
    BY <1>2, <2>1, HoldListed
  <2>4. Given(H, tn)
    BY <1>2, <2>1, <2>2, HoldGiven
  <2>5. Complete(H, tn)
    BY <1>2, <2>1, <2>2, HoldComplete
  <2>6. QED
    BY <2>1, <2>2, <2>3, <2>4, <2>5, EvictOK
<1>3. QED
  BY <1>1, <1>2

Forgotten(sn, b) == [sn EXCEPT ![b] = {}]

LEMMA RemoveOK ==
  ASSUME NEW T, NEW sn \in Histories, TreeOK(T, sn), NEW b \in Holders
  PROVE  TreeOK(remove_backend(T, b), Forgotten(sn, b)) /\ Forgotten(sn, b) \in Histories
<1>1. PICK N : N = TreeNodes(T) /\ GoodNodes(N) /\ TreeTyped(T) /\ Listed(T)
  BY DEF TreeOK
<1>2. PICK R : R = remove_backend(T, b)
  OBVIOUS
<1>3. /\ R.holders = [p \in N |-> T.holders[p] \ (IF p \in ToSet(T.lru[b]) THEN {b} ELSE {})]
      /\ R.lru = [T.lru EXCEPT ![b] = <<>>]
  BY <1>1, <1>2 DEF remove_backend
<1>4. TreeNodes(R) = N
  BY <1>3 DEF TreeNodes
<1>5. T.holders \in [N -> SUBSET Holders] /\ T.lru \in [Holders -> Seq(N)]
  BY <1>1 DEF TreeTyped
<1>6. R.lru \in [Holders -> Seq(N)] /\ R.lru[b] = <<>> /\ \A x \in Holders : x # b => R.lru[x] = T.lru[x]
  <2>1. <<>> \in Seq(N)
    OBVIOUS
  <2>2. QED
    BY <1>3, <1>5, <2>1
<1>7. /\ R.holders \in [N -> SUBSET Holders]
      /\ \A p \in N : \A x \in Holders : x \in R.holders[p] <=> x \in T.holders[p] /\ x # b
  <2>1. \A p \in N : p \in ToSet(T.lru[b]) <=> b \in T.holders[p]
    BY <1>1 DEF Listed
  <2>2. QED
    BY <1>3, <1>5, <2>1
<1>8. TreeTyped(R)
  BY <1>4, <1>6, <1>7 DEF TreeTyped
<1>9. ToSet(<<>>) = {} /\ NoDup(<<>>)
  <2>1. DOMAIN <<>> = {}
    OBVIOUS
  <2>2. QED
    BY <2>1, Zenon DEF ToSet, NoDup
<1>10. Listed(R)
  <2> SUFFICES ASSUME NEW x \in Holders
               PROVE  NoDup(R.lru[x]) /\ ToSet(R.lru[x]) = {p \in N : x \in R.holders[p]}
    BY <1>4 DEF Listed
  <2>1. NoDup(T.lru[x]) /\ ToSet(T.lru[x]) = {p \in N : x \in T.holders[p]}
    BY <1>1 DEF Listed
  <2>2. CASE x # b
    BY <1>6, <1>7, <2>1, <2>2
  <2>3. CASE x = b
    <3>1. \A p \in N : x \notin R.holders[p]
      BY <1>7, <2>3
    <3>2. R.lru[x] = <<>>
      BY <1>6, <2>3
    <3>3. QED
      BY <1>9, <3>1, <3>2
  <2>4. QED
    BY <2>2, <2>3
<1>11. PICK tn : tn = Forgotten(sn, b) /\ tn \in Histories /\ tn[b] = {} /\ \A x \in Holders : x # b => tn[x] = sn[x]
  <2>1. sn \in [Holders -> SUBSET AllRuns] /\ \A x \in Holders : IsFiniteSet(sn[x])
    BY DEF Histories
  <2>2. PICK tn : tn = Forgotten(sn, b)
    OBVIOUS
  <2>3. tn \in [Holders -> SUBSET AllRuns] /\ tn[b] = {} /\ \A x \in Holders : x # b => tn[x] = sn[x]
    BY <2>1, <2>2 DEF Forgotten
  <2>4. \A x \in Holders : IsFiniteSet(tn[x])
    BY <2>1, <2>3, FS_EmptySet
  <2>5. QED
    BY <2>2, <2>3, <2>4 DEF Histories
<1>12. Given(R, tn)
  <2> SUFFICES ASSUME NEW x \in Holders, NEW p \in N, x \in R.holders[p]
               PROVE  \E s \in tn[x] : Agree(p, s, Len(p))
    BY <1>4 DEF Given
  <2>1. x # b /\ x \in T.holders[p]
    BY <1>7
  <2>2. QED
    BY <1>1, <1>11, <2>1 DEF TreeOK, Given
<1>13. Complete(R, tn)
  <2> SUFFICES ASSUME NEW x \in Holders, Roomy(tn[x]), NEW s \in tn[x], s # <<>>
               PROVE  s \in N /\ \A p \in N : Agree(p, s, Len(p)) => x \in R.holders[p]
    BY <1>4 DEF Complete
  <2>1. x # b /\ tn[x] = sn[x]
    BY <1>11
  <2>2. s \in N /\ \A p \in N : Agree(p, s, Len(p)) => x \in T.holders[p]
    BY <1>1, <2>1 DEF TreeOK, Complete
  <2>3. QED
    BY <1>7, <2>1, <2>2
<1>14. ASSUME NEW x \in Holders PROVE Budget(R, x)
  <2>1. CASE x # b
    BY <1>1, <1>4, <1>6, <2>1 DEF TreeOK, Budget
  <2>2. CASE x = b
    <3>1. IsFiniteSet({}) /\ {} \in SUBSET N
      BY FS_EmptySet
    <3>2. Weight(N, {}) = Cardinality(BlocksOf(N, {}))
      BY <1>1, <3>1, WeightIs
    <3>3. BlocksOf(N, {}) = {}
      BY DEF BlocksOf
    <3>4. Weight(N, {}) = 0
      BY <3>2, <3>3, FS_EmptySet
    <3>5. 0 <= CacheBlocks
      BY TreeAssumption
    <3>6. QED
      BY <1>4, <1>6, <1>9, <2>2, <3>4, <3>5 DEF Budget
  <2>3. QED
    BY <2>1, <2>2
<1>15. QED
  BY <1>1, <1>2, <1>4, <1>8, <1>10, <1>11, <1>12, <1>13, <1>14 DEF TreeOK

LEMMA EmptyOK == TreeOK(EmptyTree, [b \in Holders |-> {}]) /\ [b \in Holders |-> {}] \in Histories
<1>1. PICK T : T = EmptyTree
  OBVIOUS
<1>2. PICK sn : sn = [b \in Holders |-> {}]
  OBVIOUS
<1>3. TreeNodes(T) = {}
  <2>1. DOMAIN <<>> = {}
    OBVIOUS
  <2>2. QED
    BY <1>1, <2>1 DEF EmptyTree, TreeNodes
<1>4. T.lru = [b \in Holders |-> <<>>] /\ T.holders = <<>>
  BY <1>1 DEF EmptyTree
<1>5. GoodNodes({})
  BY DEF GoodNodes, Branching
<1>6. TreeTyped(T)
  <2>1. <<>> \in Seq({})
    OBVIOUS
  <2>2. T.lru \in [Holders -> Seq({})]
    BY <1>4, <2>1
  <2>3. T.holders \in [{} -> SUBSET Holders]
    <3>1. <<>> = [i \in {} |-> {}]
      BY <1>3, <1>4
    <3>2. QED
      BY <1>4, <3>1
  <2>4. QED
    BY <1>3, <2>2, <2>3 DEF TreeTyped
<1>7. ToSet(<<>>) = {} /\ NoDup(<<>>)
  <2>1. DOMAIN <<>> = {}
    OBVIOUS
  <2>2. QED
    BY <2>1, Zenon DEF ToSet, NoDup
<1>8. Listed(T)
  <2>1. \A x \in Holders : T.lru[x] = <<>>
    BY <1>4
  <2>2. \A x \in Holders : {p \in TreeNodes(T) : x \in T.holders[p]} = {}
    BY <1>3
  <2>3. QED
    BY <1>7, <2>1, <2>2 DEF Listed
<1>9. \A x \in Holders : sn[x] = {}
  BY <1>2
<1>10. sn \in Histories
  <2>1. sn \in [Holders -> SUBSET AllRuns]
    BY <1>2
  <2>2. \A x \in Holders : IsFiniteSet(sn[x])
    BY <1>9, FS_EmptySet
  <2>3. QED
    BY <2>1, <2>2 DEF Histories
<1>11. Given(T, sn) /\ Complete(T, sn)
  BY <1>3, <1>9 DEF Given, Complete
<1>12. ASSUME NEW x \in Holders PROVE Budget(T, x)
  <2>1. IsFiniteSet({}) /\ {} \in SUBSET {}
    BY FS_EmptySet
  <2>2. Weight({}, {}) = Cardinality(BlocksOf({}, {}))
    BY <1>5, <2>1, WeightIs
  <2>3. BlocksOf({}, {}) = {}
    BY DEF BlocksOf
  <2>4. Weight({}, {}) = 0
    BY <2>2, <2>3, FS_EmptySet
  <2>5. 0 <= CacheBlocks
    BY TreeAssumption
  <2>6. ToSet(T.lru[x]) = {}
    BY <1>4, <1>7
  <2>7. QED
    BY <1>3, <2>4, <2>5, <2>6 DEF Budget
<1>13. QED
  BY <1>1, <1>2, <1>3, <1>5, <1>6, <1>8, <1>10, <1>11, <1>12 DEF TreeOK

-----------------------------------------------------------------------------
(* What match finds                                                        *)

(* The longest run that h shares with a member of A.                       *)
Longest(h, A) == Max({0} \cup {Shared(h, p) : p \in A})

LEMMA LongestIs ==
  ASSUME NEW h \in AllRuns, NEW A \in SUBSET AllRuns
  PROVE  /\ Longest(h, A) \in Nat
         /\ Longest(h, A) = 0 \/ \E p \in A : Longest(h, A) = Shared(h, p)
         /\ \A p \in A : Shared(h, p) <= Longest(h, A)
<1>1. Len(h) \in Nat
  BY RunIs
<1>2. \A p \in A : Shared(h, p) \in 0 .. Len(h)
  <2>1. \A p \in AllRuns : Shared(h, p) \in Nat /\ Shared(h, p) <= Len(h)
    BY SharedIs
  <2>2. QED
    BY <1>1, <2>1
<1>3. PICK S : S = {0} \cup {Shared(h, p) : p \in A}
  OBVIOUS
<1>4. S \in SUBSET (0 .. Len(h)) /\ S # {}
  BY <1>1, <1>2, <1>3
<1>5. PICK m : m = Max(S) /\ m \in S /\ \A x \in S : x <= m
  BY <1>1, <1>4, MaxIsGreatest
<1>6. Longest(h, A) = m
  BY <1>3, <1>5 DEF Longest
<1>7. m \in Nat
  BY <1>1, <1>4, <1>5
<1>8. m = 0 \/ \E p \in A : m = Shared(h, p)
  BY <1>3, <1>5
<1>9. \A p \in A : Shared(h, p) <= m
  BY <1>3, <1>5
<1>10. QED
  BY <1>6, <1>7, <1>8, <1>9

(* The nodes that end a gap-free walk of b along h.                        *)
Alive(T, h, b) ==
  {p \in Visited(TreeNodes(T), h) :
     \A q \in Visited(TreeNodes(T), h) : Len(q) <= Len(p) => b \in T.holders[q]}

LEMMA MatchIs ==
  ASSUME NEW T, NEW h, NEW b \in Holders
  PROVE  match(T, h)[b] = Longest(h, Alive(T, h, b))
BY DEF match, Longest, Alive

(* match credits b with no more than it was given, and with no gap.        *)
LEMMA MatchWasGiven ==
  ASSUME NEW T, NEW sn \in Histories, TreeOK(T, sn), NEW h \in AllRuns, NEW b \in Holders
  PROVE  /\ match(T, h)[b] \in Nat
         /\ match(T, h)[b] <= Longest(h, sn[b])
         /\ \A p \in Visited(TreeNodes(T), h) : Len(p) <= match(T, h)[b] => b \in T.holders[p]
<1>1. PICK N : N = TreeNodes(T) /\ GoodNodes(N) /\ Given(T, sn)
  BY DEF TreeOK
<1>2. PICK A : A = Alive(T, h, b)
  OBVIOUS
<1>3. A \in SUBSET N /\ A \in SUBSET AllRuns
  <2>1. A \in SUBSET N
    BY <1>1, <1>2 DEF Alive, Visited
  <2>2. QED
    BY <1>1, <2>1 DEF GoodNodes
<1>4. PICK f \in Nat : f = match(T, h)[b] /\ (f = 0 \/ \E p \in A : f = Shared(h, p))
  <2>1. /\ Longest(h, A) \in Nat
        /\ Longest(h, A) = 0 \/ \E p \in A : Longest(h, A) = Shared(h, p)
    BY <1>3, LongestIs
  <2>2. match(T, h)[b] = Longest(h, A)
    BY <1>2, MatchIs
  <2>3. QED
    BY <2>1, <2>2
<1>5. PICK r \in Nat : r = Longest(h, sn[b]) /\ \A s \in sn[b] : Shared(h, s) <= r
  <2>1. sn[b] \in SUBSET AllRuns
    BY DEF Histories
  <2>2. QED
    BY <2>1, LongestIs
<1>6. ASSUME NEW p \in A, f = Shared(h, p) PROVE f <= r
  <2>1. p \in N /\ p \in AllRuns /\ Len(p) \in Nat
    BY <1>3, RunIs
  <2>2. b \in T.holders[p]
    <3>1. Len(p) <= Len(p)
      BY <2>1
    <3>2. QED
      BY <1>2, <3>1 DEF Alive
  <2>3. PICK s \in sn[b] : Agree(p, s, Len(p))
    BY <1>1, <2>1, <2>2 DEF Given
  <2>4. s \in AllRuns
    BY <2>3 DEF Histories
  <2>5. Agree(h, p, f) /\ f <= Len(p)
    BY <1>6, <2>1, SharedIs
  <2>6. Agree(p, s, f)
    BY <2>1, <2>3, <2>4, <2>5, AgreeRules
  <2>7. Agree(h, s, f)
    BY <2>1, <2>4, <2>5, <2>6, AgreeRules
  <2>8. f <= Shared(h, s) /\ Shared(h, s) \in Nat
    BY <2>4, <2>7, SharedIs
  <2>9. QED
    BY <1>5, <2>3, <2>8
<1>7. f <= r
  <2>1. CASE f = 0
    BY <1>5, <2>1
  <2>2. CASE \E p \in A : f = Shared(h, p)
    BY <1>6, <2>2
  <2>3. QED
    BY <1>4, <2>1, <2>2
<1>8. ASSUME NEW p \in Visited(N, h), Len(p) <= f PROVE b \in T.holders[p]
  <2>1. p \in N
    BY DEF Visited
  <2>2. Len(p) \in Nat /\ Len(p) >= 1
    BY <1>1, <2>1, GoodIs
  <2>3. PICK q \in A : f = Shared(h, q)
    <3>1. f # 0
      BY <1>8, <2>2
    <3>2. QED
      BY <1>4, <3>1
  <2>4. f <= Len(q) /\ Len(q) \in Nat
    <3>1. q \in AllRuns
      BY <1>3
    <3>2. QED
      BY <2>3, <3>1, SharedIs, RunIs
  <2>5. Len(p) <= Len(q)
    BY <1>8, <2>2, <2>4
  <2>6. QED
    BY <1>1, <1>2, <2>5 DEF Alive
<1>9. QED
  BY <1>1, <1>4, <1>5, <1>7, <1>8

(* Nothing was evicted: match finds the longest run b was given.           *)
LEMMA MatchFindsAll ==
  ASSUME NEW T, NEW sn \in Histories, TreeOK(T, sn), NEW h \in AllRuns, NEW b \in Holders, Roomy(sn[b])
  PROVE  Longest(h, sn[b]) <= match(T, h)[b]
<1>1. PICK N : N = TreeNodes(T) /\ GoodNodes(N) /\ Complete(T, sn)
  BY DEF TreeOK
<1>2. PICK A : A = Alive(T, h, b)
  OBVIOUS
<1>3. A \in SUBSET AllRuns
  <2>1. A \in SUBSET N
    BY <1>1, <1>2 DEF Alive, Visited
  <2>2. QED
    BY <1>1, <2>1 DEF GoodNodes
<1>4. PICK f \in Nat : f = match(T, h)[b] /\ \A p \in A : Shared(h, p) <= f
  <2>1. /\ Longest(h, A) \in Nat
        /\ \A p \in A : Shared(h, p) <= Longest(h, A)
    BY <1>3, LongestIs
  <2>2. match(T, h)[b] = Longest(h, A)
    BY <1>2, MatchIs
  <2>3. QED
    BY <2>1, <2>2
<1>5. PICK n \in Nat : n = Longest(h, sn[b]) /\ (n = 0 \/ \E s \in sn[b] : n = Shared(h, s))
  <2>1. sn[b] \in SUBSET AllRuns
    BY DEF Histories
  <2>2. QED
    BY <2>1, LongestIs
<1>6. SUFFICES ASSUME n >= 1 PROVE n <= f
  <2>1. n = 0 => n <= f
    BY ONLY f \in Nat, n \in Nat
  <2>2. n = 0 \/ n >= 1
    BY <1>5
  <2>3. QED
    BY <1>4, <1>5, <2>1, <2>2
<1>7. PICK s \in sn[b] : n = Shared(h, s)
  BY <1>5, <1>6
<1>8. s \in AllRuns /\ Len(s) \in Nat
  BY RunIs DEF Histories
<1>9. Agree(h, s, n) /\ n <= Len(s)
  BY <1>7, <1>8, SharedIs
<1>10. s \in N /\ \A q \in N : Agree(q, s, Len(q)) => b \in T.holders[q]
  <2>1. s # <<>>
    BY <1>6, <1>8, <1>9, RunIs
  <2>2. QED
    BY <1>1, <1>7, <2>1 DEF Complete
<1>11. PICK p \in N : Agree(p, s, Len(p)) /\ n <= Len(p) /\ EdgeStart(N, p) < n
  BY <1>1, <1>6, <1>9, <1>10, FirstBeyond
<1>12. p \in AllRuns /\ Len(p) \in Nat
  BY <1>1, GoodIs
<1>13. PICK k \in Nat : k = EdgeStart(N, p) /\ k + 1 <= n /\ k + 1 \in Nat
  <2>1. EdgeStart(N, p) \in Nat
    BY <1>1, GoodIs
  <2>2. QED
    BY <1>11, <2>1
<1>14. Agree(p, s, n) /\ Agree(s, h, n)
  <2>1. Agree(p, s, n)
    BY <1>8, <1>11, <1>12, AgreeRules
  <2>2. Agree(s, h, n)
    BY <1>8, <1>9, AgreeRules
  <2>3. QED
    BY <2>1, <2>2
<1>15. Agree(p, h, n) /\ Agree(h, p, n)
  <2>1. Agree(p, h, n)
    BY <1>8, <1>12, <1>14, AgreeRules
  <2>2. QED
    BY <1>12, <2>1, AgreeRules
<1>16. p \in Visited(N, h)
  <2>1. Agree(p, h, k + 1)
    BY <1>12, <1>13, <1>15, AgreeRules
  <2>2. N \in SUBSET (AllRuns \ {<<>>})
    BY <1>1 DEF GoodNodes
  <2>3. QED
    BY <1>13, <2>1, <2>2, VisitedIs
<1>17. ASSUME NEW q \in Visited(N, h), Len(q) <= Len(p) PROVE b \in T.holders[q]
  <2>1. q \in N
    BY DEF Visited
  <2>2. q \in AllRuns /\ Len(q) \in Nat
    BY <1>1, <2>1, GoodIs
  <2>3. PICK kq \in Nat : kq = EdgeStart(N, q) /\ kq + 1 \in Nat
    <3>1. EdgeStart(N, q) \in Nat
      BY <1>1, <2>1, GoodIs
    <3>2. QED
      BY <3>1
  <2>4. Agree(q, h, kq + 1)
    <3>1. N \in SUBSET (AllRuns \ {<<>>})
      BY <1>1 DEF GoodNodes
    <3>2. QED
      BY <1>17, <2>1, <2>3, <3>1, VisitedIs
  <2>5. CASE kq + 1 <= n
    <3>1. Agree(p, h, kq + 1)
      BY <1>12, <1>15, <2>3, <2>5, AgreeRules
    <3>2. Agree(h, q, kq + 1)
      BY <2>2, <2>3, <2>4, AgreeRules
    <3>3. Agree(p, q, kq + 1)
      BY <1>12, <2>2, <2>3, <3>1, <3>2, AgreeRules
    <3>4. Agree(q, p, Len(q))
      BY <1>1, <2>1, <2>3, <3>3, EdgePassed
    <3>5. Agree(p, s, Len(q))
      BY <1>8, <1>11, <1>12, <1>17, <2>2, AgreeRules
    <3>6. Agree(q, s, Len(q))
      BY <1>8, <1>12, <2>2, <3>4, <3>5, AgreeRules
    <3>7. QED
      BY <1>10, <2>1, <3>6
  <2>6. CASE ~(kq + 1 <= n)
    <3>1. k + 1 <= kq + 1
      BY <1>13, <2>3, <2>6
    <3>2. Agree(q, h, k + 1)
      BY <1>13, <2>2, <2>3, <2>4, <3>1, AgreeRules
    <3>3. Agree(h, p, k + 1)
      BY <1>12, <1>13, <1>15, AgreeRules
    <3>4. Agree(q, p, k + 1)
      BY <1>12, <1>13, <2>2, <3>2, <3>3, AgreeRules
    <3>5. Agree(p, q, Len(p))
      BY <1>1, <1>13, <2>1, <3>4, EdgePassed
    <3>6. Len(p) <= Len(q)
      BY <1>12, <2>2, <3>5, AgreeRules
    <3>7. Len(p) = Len(q)
      BY <1>12, <1>17, <2>2, <3>6
    <3>8. p = q
      BY <1>12, <2>2, <3>5, <3>7, AgreeRules
    <3>9. QED
      BY <1>10, <1>11, <3>8
  <2>7. QED
    BY <2>5, <2>6
<1>18. p \in A
  BY <1>1, <1>2, <1>16, <1>17 DEF Alive
<1>19. n <= Shared(h, p) /\ Shared(h, p) \in Nat
  BY <1>12, <1>15, SharedIs
<1>20. Shared(h, p) <= f
  BY <1>4, <1>18
<1>21. QED
  BY ONLY <1>19, <1>20, f \in Nat, n \in Nat

Sids == {SessionOf[r] : r \in Turns}
Backs == Holders \cup {""}
PinRecs == [sid : Sids, backend : Backs, last : Nat]

-----------------------------------------------------------------------------
(* The session table                                                       *)

(* An ordered dictionary: one pin per session.                             *)
OnePinEach(t) == \A i, j \in DOMAIN t : t[i].sid = t[j].sid => i = j

IsTable(t) == t \in Seq(PinRecs) /\ OnePinEach(t)

LEMMA KeptTable ==
  ASSUME NEW t, IsTable(t), NEW I
  PROVE  IsTable(Kept(t, I)) /\ ToSet(Kept(t, I)) = {t[k] : k \in I \cap DOMAIN t}
<1>1. t \in Seq(PinRecs) /\ OnePinEach(t)
  BY DEF IsTable
<1>2. PICK u \in Seq(PinRecs) : u = Kept(t, I)
  BY <1>1, KeptInOrder
<1>3. PICK f : Embedding(f, u, t, Len(t), I)
  BY <1>1, <1>2, KeptInOrder
<1>4. DOMAIN t = 1 .. Len(t) /\ \A i \in DOMAIN u : i \in Nat
  BY <1>1
<1>5. ASSUME NEW i \in DOMAIN u, NEW j \in DOMAIN u, u[i].sid = u[j].sid PROVE i = j
  <2>1. f[i] \in DOMAIN t /\ f[j] \in DOMAIN t /\ u[i] = t[f[i]] /\ u[j] = t[f[j]]
    BY <1>3, <1>4 DEF Embedding
  <2>2. f[i] = f[j]
    BY <1>1, <1>5, <2>1 DEF OnePinEach
  <2>3. ~(i < j) /\ ~(j < i)
    <3>1. (i < j => f[i] < f[j]) /\ (j < i => f[j] < f[i])
      BY <1>3 DEF Embedding
    <3>2. f[i] \in Int /\ f[j] \in Int
      BY <1>4, <2>1
    <3>3. QED
      BY <2>2, <3>1, <3>2
  <2>4. QED
    BY <1>4, <2>3
<1>6. OnePinEach(u)
  BY <1>5 DEF OnePinEach
<1>7. ToSet(Kept(t, I)) = {t[k] : k \in I \cap DOMAIN t}
  BY <1>1, KeptRange
<1>8. QED
  BY <1>2, <1>6, <1>7 DEF IsTable

LEMMA JoinTables ==
  ASSUME NEW a, NEW b, IsTable(a), IsTable(b), \A i \in DOMAIN a, j \in DOMAIN b : a[i].sid # b[j].sid
  PROVE  IsTable(a \o b) /\ ToSet(a \o b) = ToSet(a) \cup ToSet(b)
<1>1. a \in Seq(PinRecs) /\ OnePinEach(a) /\ b \in Seq(PinRecs) /\ OnePinEach(b)
  BY DEF IsTable
<1>2. PICK c \in Seq(PinRecs) : c = a \o b
  <2>1. a \o b \in Seq(PinRecs)
    BY <1>1
  <2>2. QED
    BY <2>1
<1>3. PICK n \in Nat : n = Len(a) /\ DOMAIN a = 1 .. n
  BY <1>1
<1>4. /\ \A i \in DOMAIN c : \/ i \in DOMAIN a /\ c[i] = a[i]
                             \/ i - n \in DOMAIN b /\ c[i] = b[i - n]
      /\ \A i \in DOMAIN a : i \in DOMAIN c /\ c[i] = a[i]
      /\ \A i \in DOMAIN b : i + n \in DOMAIN c /\ c[i + n] = b[i]
      /\ \A i \in DOMAIN c : i \in Nat
  BY <1>1, <1>2, <1>3
<1>5. ASSUME NEW i \in DOMAIN c, NEW j \in DOMAIN c, c[i].sid = c[j].sid PROVE i = j
  <2>1. CASE i \in DOMAIN a /\ c[i] = a[i] /\ j \in DOMAIN a /\ c[j] = a[j]
    BY <1>1, <1>5, <2>1 DEF OnePinEach
  <2>2. CASE i - n \in DOMAIN b /\ c[i] = b[i - n] /\ j - n \in DOMAIN b /\ c[j] = b[j - n]
    <3>1. i - n = j - n
      BY <1>1, <1>5, <2>2 DEF OnePinEach
    <3>2. QED
      BY <1>4, <3>1
  <2>3. CASE i \in DOMAIN a /\ c[i] = a[i] /\ j - n \in DOMAIN b /\ c[j] = b[j - n]
    BY <1>5, <2>3
  <2>4. CASE j \in DOMAIN a /\ c[j] = a[j] /\ i - n \in DOMAIN b /\ c[i] = b[i - n]
    BY <1>5, <2>4
  <2>5. QED
    BY <1>4, <2>1, <2>2, <2>3, <2>4
<1>6. OnePinEach(c)
  BY <1>5 DEF OnePinEach
<1>7. ToSet(c) = ToSet(a) \cup ToSet(b)
  BY <1>4 DEF ToSet
<1>8. QED
  BY <1>2, <1>6, <1>7 DEF IsTable

(* The table without a session, and the pin of that session.               *)
LEMMA WithoutIs ==
  ASSUME NEW t, IsTable(t), NEW sid
  PROVE  /\ IsTable(Without(t, sid)) /\ IsTable(PinOf(t, sid))
         /\ \A p : p \in ToSet(Without(t, sid)) <=> p \in ToSet(t) /\ p.sid # sid
         /\ \A p : p \in ToSet(PinOf(t, sid)) <=> p \in ToSet(t) /\ p.sid = sid
<1>1. PICK I, J : I = {i \in DOMAIN t : t[i].sid # sid} /\ J = {i \in DOMAIN t : t[i].sid = sid}
  OBVIOUS
<1>2. Without(t, sid) = Kept(t, I) /\ PinOf(t, sid) = Kept(t, J)
  BY <1>1 DEF Without, PinOf, Where
<1>3. IsTable(Kept(t, I)) /\ ToSet(Kept(t, I)) = {t[k] : k \in I \cap DOMAIN t}
  BY KeptTable
<1>4. IsTable(Kept(t, J)) /\ ToSet(Kept(t, J)) = {t[k] : k \in J \cap DOMAIN t}
  BY KeptTable
<1>5. \A p : p \in ToSet(t) <=> \E k \in DOMAIN t : p = t[k]
  BY DEF ToSet
<1>6. \A p : p \in ToSet(Kept(t, I)) <=> p \in ToSet(t) /\ p.sid # sid
  BY <1>1, <1>3, <1>5
<1>7. \A p : p \in ToSet(Kept(t, J)) <=> p \in ToSet(t) /\ p.sid = sid
  BY <1>1, <1>4, <1>5
<1>8. QED
  BY <1>2, <1>3, <1>4, <1>6, <1>7

(* pick keeps every pin that is not idle, and picks from the candidates.   *)
LEMMA PickIs ==
  ASSUME NEW t, IsTable(t), NEW sid, NEW candidates, NEW time
  PROVE  /\ IsTable(pick(t, sid, candidates, time).table)
         /\ \A p \in ToSet(t) : ~Expired(p, time) => p \in ToSet(pick(t, sid, candidates, time).table)
         /\ \/ pick(t, sid, candidates, time).backend = {}
            \/ \E x \in candidates : pick(t, sid, candidates, time).backend = {x}
<1>1. PICK w, found : w = Without(t, sid) /\ found = PinOf(t, sid)
  OBVIOUS
<1>2. /\ IsTable(w) /\ IsTable(found)
      /\ \A p : p \in ToSet(w) <=> p \in ToSet(t) /\ p.sid # sid
      /\ \A p : p \in ToSet(found) <=> p \in ToSet(t) /\ p.sid = sid
  BY <1>1, WithoutIs
<1>3. PICK res : res = pick(t, sid, candidates, time)
  OBVIOUS
<1>4. res = IF found = <<>> THEN [table |-> t, backend |-> {}]
            ELSE IF Expired(found[1], time) THEN [table |-> w, backend |-> {}]
            ELSE IF found[1].backend \notin candidates THEN [table |-> t, backend |-> {}]
            ELSE [table |-> w \o found, backend |-> {found[1].backend}]
  BY <1>1, <1>3 DEF pick
<1>5. ASSUME found # <<>> PROVE /\ 1 \in DOMAIN found /\ \A i \in DOMAIN found : i = 1
                               /\ \A p \in ToSet(t) : p.sid = sid => p = found[1]
  <2>1. found \in Seq(PinRecs) /\ OnePinEach(found)
    BY <1>2 DEF IsTable
  <2>2. 1 \in DOMAIN found
    BY <1>5, <2>1
  <2>3. \A i \in DOMAIN found : found[i].sid = sid
    BY <1>2 DEF ToSet
  <2>4. \A i \in DOMAIN found : i = 1
    BY <2>1, <2>2, <2>3 DEF OnePinEach
  <2>5. QED
    BY <1>2, <2>2, <2>4 DEF ToSet
<1>6. IsTable(w \o found) /\ ToSet(w \o found) = ToSet(w) \cup ToSet(found)
  <2>1. \A i \in DOMAIN w, j \in DOMAIN found : w[i].sid # found[j].sid
    BY <1>2 DEF ToSet
  <2>2. QED
    BY <1>2, <2>1, JoinTables
<1>7. IsTable(res.table)
  BY <1>2, <1>4, <1>6
<1>8. ASSUME NEW p \in ToSet(t), ~Expired(p, time) PROVE p \in ToSet(res.table)
  <2>1. p.sid # sid => p \in ToSet(w)
    BY <1>2
  <2>2. p.sid = sid => p \in ToSet(found) /\ (found # <<>> => p = found[1])
    BY <1>2, <1>5
  <2>3. QED
    BY <1>4, <1>6, <1>8, <2>1, <2>2
<1>9. res.backend = {} \/ \E x \in candidates : res.backend = {x}
  BY <1>4
<1>10. QED
  BY <1>3, <1>7, <1>8, <1>9

(* remember: the new pin survives the eviction at the limit.               *)
LEMMA RememberIs ==
  ASSUME NEW t, IsTable(t), NEW sid \in Sids, NEW b \in Backs, NEW time \in Nat
  PROVE  IsTable(remember(t, sid, b, time)) /\ Pin(sid, b, time) \in ToSet(remember(t, sid, b, time))
<1>1. PICK w : w = Without(t, sid) /\ IsTable(w) /\ \A p \in ToSet(w) : p.sid # sid
  BY WithoutIs
<1>2. PICK p \in PinRecs : p = Pin(sid, b, time) /\ p.sid = sid
  <2>1. Pin(sid, b, time) \in PinRecs /\ Pin(sid, b, time).sid = sid
    BY DEF Pin, PinRecs
  <2>2. QED
    BY <2>1
<1>3. w \in Seq(PinRecs) /\ OnePinEach(w) /\ \A i \in DOMAIN w : w[i].sid # sid
  BY <1>1 DEF IsTable, ToSet
<1>4. PICK n \in Nat : n = Len(w) /\ DOMAIN w = 1 .. n
  BY <1>3
<1>5. PICK grown \in Seq(PinRecs) : grown = Append(w, p)
  <2>1. Append(w, p) \in Seq(PinRecs)
    BY <1>3
  <2>2. QED
    BY <2>1
<1>6. /\ Len(grown) = n + 1 /\ DOMAIN grown = 1 .. (n + 1) /\ grown[n + 1] = p
      /\ \A i \in 1 .. n : grown[i] = w[i]
  BY <1>3, <1>4, <1>5
<1>7. OnePinEach(grown)
  <2> SUFFICES ASSUME NEW i \in 1 .. (n + 1), NEW j \in 1 .. (n + 1), grown[i].sid = grown[j].sid
               PROVE  i = j
    BY <1>6 DEF OnePinEach
  <2>1. CASE i \in 1 .. n /\ j \in 1 .. n
    BY <1>3, <1>4, <1>6, <2>1 DEF OnePinEach
  <2>2. CASE i = n + 1 /\ j \in 1 .. n
    BY <1>2, <1>3, <1>4, <1>6, <2>2
  <2>3. CASE i \in 1 .. n /\ j = n + 1
    BY <1>2, <1>3, <1>4, <1>6, <2>3
  <2>4. QED
    BY <2>1, <2>2, <2>3
<1>8. PICK over \in Nat : /\ over = IF Len(grown) > PinCapacity THEN Len(grown) - PinCapacity ELSE 0
                          /\ over <= n
  <2>1. PICK k \in Nat : k = PinCapacity /\ k >= 1 /\ Len(grown) = n + 1
    BY <1>6, PinAssumption
  <2>2. CASE n + 1 > k
    BY <2>1, <2>2
  <2>3. CASE ~(n + 1 > k)
    BY <2>1, <2>3
  <2>4. QED
    BY <2>2, <2>3
<1>9. PICK u : u = SubSeq(grown, over + 1, Len(grown))
  OBVIOUS
<1>10. /\ u \in Seq(PinRecs) /\ DOMAIN u = 1 .. (n + 1 - over)
       /\ \A i \in DOMAIN u : u[i] = grown[i + over] /\ i + over \in DOMAIN grown
  <2>1. over + 1 \in 1 .. (n + 1) /\ Len(grown) = n + 1
    BY <1>6, <1>8
  <2>2. u \in Seq(PinRecs) /\ Len(u) = n + 1 - over
    BY <1>6, <1>8, <1>9
  <2>3. \A i \in 1 .. (n + 1 - over) : u[i] = grown[(over + 1) + i - 1]
    BY <1>6, <1>8, <1>9, <2>1, SMTT(20)
  <2>4. \A i \in 1 .. (n + 1 - over) : (over + 1) + i - 1 = i + over /\ i + over \in 1 .. (n + 1)
    BY <1>8
  <2>5. DOMAIN u = 1 .. (n + 1 - over)
    BY <2>2
  <2>6. QED
    BY <1>6, <2>2, <2>3, <2>4, <2>5
<1>11. OnePinEach(u)
  <2> SUFFICES ASSUME NEW i \in DOMAIN u, NEW j \in DOMAIN u, u[i].sid = u[j].sid PROVE i = j
    BY DEF OnePinEach
  <2>1. i + over = j + over
    BY <1>7, <1>10 DEF OnePinEach
  <2>2. QED
    BY <1>8, <1>10, <2>1
<1>12. u[n + 1 - over] = p /\ n + 1 - over \in DOMAIN u
  <2>1. n + 1 - over \in DOMAIN u /\ (n + 1 - over) + over = n + 1
    BY <1>8, <1>10
  <2>2. QED
    BY <1>6, <1>10, <2>1
<1>13. remember(t, sid, b, time) = u
  BY <1>1, <1>2, <1>5, <1>8, <1>9 DEF remember
<1>14. QED
  BY <1>2, <1>10, <1>11, <1>12, <1>13 DEF IsTable, ToSet

LEMMA ForgetIs ==
  ASSUME NEW t, IsTable(t), NEW b
  PROVE  /\ IsTable(forget_backend(t, b))
         /\ \A p \in ToSet(t) : p.backend # b => p \in ToSet(forget_backend(t, b))
<1>1. PICK I : I = {i \in DOMAIN t : t[i].backend # b}
  OBVIOUS
<1>2. forget_backend(t, b) = Kept(t, I)
  BY <1>1 DEF forget_backend, Where
<1>3. IsTable(Kept(t, I)) /\ ToSet(Kept(t, I)) = {t[k] : k \in I \cap DOMAIN t}
  BY KeptTable
<1>4. QED
  BY <1>1, <1>2, <1>3 DEF ToSet

-----------------------------------------------------------------------------
(* The router                                                              *)

RouterViews == [match : [Holders -> Nat], inflight : [Holders -> Nat],
                kvHigh : [Holders -> BOOLEAN], peerBad : [Holders -> BOOLEAN]]

LEMMA TimesNat == ASSUME NEW a \in Nat, NEW b \in Nat PROVE a * b \in Nat
OBVIOUS

LEMMA EstimateIsNat ==
  ASSUME NEW v \in RouterViews, NEW tokens \in Nat, NEW b \in Holders
  PROVE  _est_ttft(v, tokens, b) \in Nat
<1>1. v.match[b] \in Nat /\ v.inflight[b] \in Nat
  BY DEF RouterViews
<1>2. PICK m \in Nat : m = v.match[b] * BlockTokens
  BY <1>1, TimesNat, RouterAssumption
<1>3. PICK u \in Nat : u = IF tokens - m > 0 THEN tokens - m ELSE 0
  OBVIOUS
<1>4. PrefillMs * u \in Nat
  BY TimesNat, RouterAssumption
<1>5. v.inflight[b] * ServiceMs \in Nat
  BY <1>1, TimesNat, RouterAssumption
<1>6. _est_ttft(v, tokens, b) = PrefillMs * u + v.inflight[b] * ServiceMs
  BY <1>2, <1>3 DEF _est_ttft
<1>7. QED
  BY <1>4, <1>5, <1>6

LEMMA NonEmptyList ==
  ASSUME NEW E, NEW s \in Seq(E)
  PROVE  /\ s # <<>> <=> ToSet(s) # {}
         /\ ToSet(s) \subseteq E
         /\ s # <<>> => 1 \in DOMAIN s /\ Len(s) \in Nat \ {0} /\ DOMAIN s = 1 .. Len(s)
<1>1. DOMAIN s = 1 .. Len(s) /\ Len(s) \in Nat
  OBVIOUS
<1>2. s = <<>> <=> Len(s) = 0
  OBVIOUS
<1>3. \A i \in DOMAIN s : s[i] \in E
  OBVIOUS
<1>4. QED
  BY <1>1, <1>2, <1>3 DEF ToSet

LEMMA LeastLoadedIs ==
  ASSUME NEW v \in RouterViews, NEW cands \in Seq(Holders), cands # <<>>
  PROVE  /\ LeastLoaded(v, cands) \in Seq(Holders) /\ LeastLoaded(v, cands) # <<>>
         /\ \A x \in ToSet(LeastLoaded(v, cands)) :
              x \in ToSet(cands) /\ \A c \in ToSet(cands) : v.inflight[x] <= v.inflight[c]
<1>1. v.inflight \in [Holders -> Nat]
  BY DEF RouterViews
<1>2. ToSet(cands) # {} /\ ToSet(cands) \subseteq Holders
  BY NonEmptyList
<1>3. PICK L \in SUBSET Nat : L = {v.inflight[c] : c \in ToSet(cands)} /\ L # {}
  <2>1. {v.inflight[c] : c \in ToSet(cands)} \in SUBSET Nat /\ {v.inflight[c] : c \in ToSet(cands)} # {}
    BY <1>1, <1>2
  <2>2. QED
    BY <2>1
<1>4. PICK least : least = Min(L) /\ least \in L /\ \A y \in L : least <= y
  BY <1>3, MinIsLeast
<1>5. PICK I : I = {i \in DOMAIN cands : v.inflight[cands[i]] = least}
  OBVIOUS
<1>6. LeastLoaded(v, cands) = Kept(cands, I)
  BY <1>3, <1>4, <1>5 DEF LeastLoaded, Where
<1>7. PICK t \in Seq(Holders) : t = Kept(cands, I)
  BY KeptInOrder
<1>8. ToSet(t) = {cands[k] : k \in I \cap DOMAIN cands}
  BY <1>7, KeptRange
<1>9. \A x \in ToSet(t) : x \in ToSet(cands) /\ v.inflight[x] = least
  BY <1>5, <1>8 DEF ToSet
<1>10. \E k \in DOMAIN cands : v.inflight[cands[k]] = least
  BY <1>3, <1>4 DEF ToSet
<1>11. ToSet(t) # {}
  BY <1>5, <1>8, <1>10
<1>12. t # <<>>
  BY <1>11, NonEmptyList
<1>13. \A x \in ToSet(t), c \in ToSet(cands) : v.inflight[x] <= v.inflight[c]
  BY <1>3, <1>4, <1>9
<1>14. QED
  BY <1>6, <1>7, <1>9, <1>12, <1>13

LEMMA EquivalentIs ==
  ASSUME NEW v \in RouterViews, NEW tokens \in Nat, NEW cands \in Seq(Holders)
  PROVE  /\ Equivalent(v, tokens, cands) \in Seq(Holders)
         /\ Equivalent(v, tokens, cands) = <<>> <=> \A c \in ToSet(cands) : Saturated(v, c)
         /\ \A x \in ToSet(Equivalent(v, tokens, cands)) :
              /\ x \in ToSet(cands) /\ ~Saturated(v, x)
              /\ \A c \in ToSet(cands) : ~Saturated(v, c) =>
                   _est_ttft(v, tokens, x) <= _est_ttft(v, tokens, c) + Hysteresis
<1>1. PICK I : I = {i \in DOMAIN cands : ~Saturated(v, cands[i])}
  OBVIOUS
<1>2. PICK fit \in Seq(Holders) : fit = Kept(cands, I)
  BY KeptInOrder
<1>3. ToSet(fit) = {cands[k] : k \in I \cap DOMAIN cands}
  BY <1>2, KeptRange
<1>4. \A x : x \in ToSet(fit) <=> x \in ToSet(cands) /\ ~Saturated(v, x)
  BY <1>1, <1>3 DEF ToSet
<1>5. fit = <<>> <=> \A c \in ToSet(cands) : Saturated(v, c)
  BY <1>4, NonEmptyList
<1>6. fit = Where(cands, LAMBDA b : ~Saturated(v, b))
  BY <1>1, <1>2 DEF Where
<1>7. PICK B : B = {_est_ttft(v, tokens, c) : c \in ToSet(fit)}
  OBVIOUS
<1>8. PICK J : J = {i \in DOMAIN fit : _est_ttft(v, tokens, fit[i]) <= Min(B) + Hysteresis}
  OBVIOUS
<1>9. Equivalent(v, tokens, cands) = IF fit = <<>> THEN <<>> ELSE Kept(fit, J)
  BY <1>6, <1>7, <1>8 DEF Equivalent, Where
<1>10. CASE fit = <<>>
  <2>1. ToSet(<<>>) = {} /\ <<>> \in Seq(Holders)
    BY DEF ToSet
  <2>2. QED
    BY <1>5, <1>9, <1>10, <2>1
<1>11. CASE fit # <<>>
  <2>1. ToSet(fit) # {} /\ ToSet(fit) \subseteq Holders
    BY <1>11, NonEmptyList
  <2>2. \A c \in ToSet(fit) : _est_ttft(v, tokens, c) \in Nat
    BY <2>1, EstimateIsNat
  <2>3. B \in SUBSET Nat /\ B # {}
    BY <1>7, <2>1, <2>2
  <2>4. PICK best : best = Min(B) /\ best \in B /\ \A y \in B : best <= y
    BY <2>3, MinIsLeast
  <2>5. PICK t \in Seq(Holders) : t = Kept(fit, J)
    BY KeptInOrder
  <2>6. ToSet(t) = {fit[k] : k \in J \cap DOMAIN fit}
    BY <2>5, KeptRange
  <2>7. \A x \in ToSet(t) : x \in ToSet(fit) /\ _est_ttft(v, tokens, x) <= best + Hysteresis
    BY <1>8, <2>4, <2>6 DEF ToSet
  <2>8. ASSUME NEW x \in ToSet(t), NEW c \in ToSet(fit)
        PROVE  _est_ttft(v, tokens, x) <= _est_ttft(v, tokens, c) + Hysteresis
    <3>1. best <= _est_ttft(v, tokens, c) /\ best \in Nat
      BY <1>7, <2>3, <2>4
    <3>2. _est_ttft(v, tokens, x) <= best + Hysteresis /\ _est_ttft(v, tokens, x) \in Nat
      BY <2>2, <2>7
    <3>3. _est_ttft(v, tokens, c) \in Nat /\ Hysteresis \in Nat
      BY <2>2, RouterAssumption
    <3>4. QED
      BY <3>1, <3>2, <3>3
  <2>9. t # <<>>
    <3>1. PICK c \in ToSet(fit) : _est_ttft(v, tokens, c) = best
      BY <1>7, <2>4
    <3>2. PICK k \in DOMAIN fit : fit[k] = c
      BY DEF ToSet
    <3>3. best <= best + Hysteresis
      BY <2>3, <2>4, RouterAssumption
    <3>4. k \in J
      BY <1>8, <2>4, <3>1, <3>2, <3>3
    <3>5. c \in ToSet(t)
      BY <2>6, <3>2, <3>4
    <3>6. QED
      BY <3>5, NonEmptyList
  <2>10. Equivalent(v, tokens, cands) = t
    BY <1>9, <1>11, <2>5
  <2>11. QED
    BY <1>4, <1>5, <1>11, <2>7, <2>8, <2>9, <2>10
<1>12. QED
  BY <1>10, <1>11

(* What the guardrails of router.py:85-113 promise of the choice b.         *)
Passes(v, tokens, cands, b) ==
  IF \A c \in ToSet(cands) : Saturated(v, c)
  THEN \A c \in ToSet(cands) : v.inflight[b] <= v.inflight[c]
  ELSE /\ ~Saturated(v, b)
       /\ \A c \in ToSet(cands) : ~Saturated(v, c) =>
            _est_ttft(v, tokens, b) <= _est_ttft(v, tokens, c) + Hysteresis

LEMMA PositionOf ==
  ASSUME NEW E, NEW s \in Seq(E), s # <<>>, NEW k \in Nat
  PROVE  s[(k % Len(s)) + 1] \in ToSet(s)
<1>1. PICK n \in Nat \ {0} : n = Len(s) /\ DOMAIN s = 1 .. n
  BY NonEmptyList
<1>2. (k % n) + 1 \in 1 .. n
  OBVIOUS
<1>3. QED
  BY <1>1, <1>2 DEF ToSet

LEMMA ChooseIs ==
  ASSUME NEW strategy, NEW v \in RouterViews, NEW h \in Seq(Nat), NEW cands \in Seq(Holders),
         cands # <<>>, NEW k \in Nat
  PROVE  /\ choose(strategy, v, h, cands, k).backend \in ToSet(cands)
         /\ choose(strategy, v, h, cands, k).rr \in Nat
         /\ strategy = "prefix_tree" =>
              Passes(v, Len(h) * BlockTokens, cands, choose(strategy, v, h, cands, k).backend)
<1>1. CASE strategy = "round_robin"
  <2>1. choose(strategy, v, h, cands, k) = choose_round_robin(cands, k)
    BY <1>1 DEF choose
  <2>2. cands[(k % Len(cands)) + 1] \in ToSet(cands)
    BY PositionOf
  <2>3. QED
    BY <1>1, <2>1, <2>2 DEF choose_round_robin
<1>2. CASE strategy = "consistent_hash"
  <2>1. choose(strategy, v, h, cands, k) = choose_consistent_hash(h, cands, k)
    BY <1>2 DEF choose
  <2>2. PICK x \in Nat : x = IF h = <<>> THEN 0 ELSE h[1]
    <3>1. h # <<>> => h[1] \in Nat
      OBVIOUS
    <3>2. QED
      BY <3>1
  <2>3. cands[(x % Len(cands)) + 1] \in ToSet(cands)
    BY PositionOf
  <2>4. QED
    BY <1>2, <2>1, <2>2, <2>3 DEF choose_consistent_hash
<1>3. CASE strategy # "round_robin" /\ strategy # "consistent_hash"
  <2>1. PICK res : res = choose_prefix_tree(v, h, cands, k)
    OBVIOUS
  <2>2. choose(strategy, v, h, cands, k) = res
    BY <1>3, <2>1 DEF choose
  <2>3. PICK tokens \in Nat : tokens = Len(h) * BlockTokens
    <3>1. Len(h) \in Nat
      OBVIOUS
    <3>2. QED
      BY <3>1, TimesNat, RouterAssumption
  <2>4. PICK good \in Seq(Holders) :
          /\ good = Equivalent(v, tokens, cands)
          /\ good = <<>> <=> \A c \in ToSet(cands) : Saturated(v, c)
          /\ \A x \in ToSet(good) :
               /\ x \in ToSet(cands) /\ ~Saturated(v, x)
               /\ \A c \in ToSet(cands) : ~Saturated(v, c) =>
                    _est_ttft(v, tokens, x) <= _est_ttft(v, tokens, c) + Hysteresis
    BY EquivalentIs
  <2>5. CASE good = <<>>
    <3>1. PICK t \in Seq(Holders) :
            /\ t = LeastLoaded(v, cands) /\ t # <<>>
            /\ \A x \in ToSet(t) : x \in ToSet(cands) /\ \A c \in ToSet(cands) : v.inflight[x] <= v.inflight[c]
      BY LeastLoadedIs
    <3>2. res = [backend |-> t[1], rr |-> k]
      BY <2>1, <2>3, <2>4, <2>5, <3>1 DEF choose_prefix_tree
    <3>3. t[1] \in ToSet(t)
      BY <3>1, NonEmptyList DEF ToSet
    <3>4. QED
      BY <2>2, <2>3, <2>4, <2>5, <3>1, <3>2, <3>3 DEF Passes
  <2>6. CASE good # <<>>
    <3>1. PICK t \in Seq(Holders) :
            t = LeastLoaded(v, good) /\ t # <<>> /\ \A x \in ToSet(t) : x \in ToSet(good)
      BY <2>6, LeastLoadedIs
    <3>2. res = [backend |-> t[(k % Len(t)) + 1], rr |-> k + 1]
      BY <2>1, <2>3, <2>4, <2>6, <3>1 DEF choose_prefix_tree
    <3>3. t[(k % Len(t)) + 1] \in ToSet(t)
      BY <3>1, PositionOf
    <3>4. QED
      BY <2>2, <2>3, <2>4, <2>6, <3>1, <3>2, <3>3 DEF Passes
  <2>7. QED
    BY <2>5, <2>6
<1>4. QED
  BY <1>1, <1>2, <1>3

-----------------------------------------------------------------------------
(* Turns through the handler                                               *)

TurnRecs == [phase : {"new", "routed", "connecting", "crashed", "done"},
             cands : Seq(Holders), backend : Backs]

LastTurns == [sid : Sids \cup {NoSession}, backend : Backs, at : Nat]

(* The types, and: a turn that connects has a backend; the session of the  *)
(* turn that finished last keeps the pin that turn left, until it idles    *)
(* out.                                                                    *)
LoadsTyped ==
  /\ inflight \in [Holders -> Nat]
  /\ kvHigh \in [Holders -> BOOLEAN] /\ peerBad \in [Holders -> BOOLEAN]

TurnsTyped ==
  /\ turn \in [Turns -> TurnRecs]
  /\ \A r \in Turns : turn[r].phase = "connecting" => turn[r].backend \in Holders

PinKept ==
  (lastTurn # NoTurn /\ now - lastTurn.at <= PinTtl) =>
    Pin(lastTurn.sid, lastTurn.backend, lastTurn.at) \in ToSet(pins)

RoutingInv ==
  /\ fleet \in Seq(Holders)
  /\ TreeNodes(tree) \subseteq AllRuns
  /\ IsTable(pins)
  /\ rr \in Nat
  /\ LoadsTyped
  /\ TurnsTyped
  /\ now \in Nat
  /\ lastTurn \in LastTurns
  /\ PinKept

(* Listing a finite set.                                                   *)
LEMMA SetToSeqIs ==
  ASSUME NEW S, IsFiniteSet(S)
  PROVE  SetToSeq(S) \in Seq(S)
<1>1. Cardinality(S) \in Nat /\ ExistsBijection(1 .. Cardinality(S), S)
  BY FS_CardinalityType
<1>2. \E f \in [1 .. Cardinality(S) -> S] : IsInjective(f)
  BY <1>1 DEF ExistsBijection, Bijection, Injection
<1>3. SetToSeq(S) \in [1 .. Cardinality(S) -> S]
  BY <1>2 DEF SetToSeq
<1>4. QED
  BY <1>1, <1>3

LEMMA SetToSeqOne ==
  ASSUME NEW x
  PROVE  SetToSeq({x}) \in Seq({x})
BY SetToSeqIs, FS_Singleton

LEMMA RoutingInvInit ==
  ASSUME RoutingInit
  PROVE  RoutingInv
<1>1. fleet \in Seq(Holders)
  BY SetToSeqIs, TreeAssumption DEF RoutingInit
<1>2. TreeNodes(tree) \subseteq AllRuns
  <2>1. tree.holders = <<>>
    BY DEF RoutingInit, EmptyTree
  <2>2. DOMAIN <<>> = {}
    OBVIOUS
  <2>3. QED
    BY <2>1, <2>2 DEF TreeNodes
<1>3. IsTable(pins)
  <2>1. pins = <<>>
    BY DEF RoutingInit
  <2>2. DOMAIN <<>> = {} /\ <<>> \in Seq(PinRecs)
    OBVIOUS
  <2>3. QED
    BY <2>1, <2>2, Zenon DEF IsTable, OnePinEach
<1>4. LoadsTyped
  BY DEF RoutingInit, LoadsTyped
<1>5. TurnsTyped
  <2>1. PICK x : x = [phase |-> "new", cands |-> <<>>, backend |-> ""]
    OBVIOUS
  <2>2. x \in TurnRecs /\ x.phase = "new"
    <3>1. "" \in Backs /\ <<>> \in Seq(Holders)
      BY DEF Backs
    <3>2. QED
      BY <2>1, <3>1 DEF TurnRecs
  <2>3. turn = [r \in Turns |-> x]
    BY <2>1 DEF RoutingInit
  <2>4. QED
    BY <2>2, <2>3 DEF TurnsTyped
<1>6. lastTurn \in LastTurns
  BY DEF RoutingInit, LastTurns, NoTurn, Backs
<1>7. QED
  BY <1>1, <1>2, <1>3, <1>4, <1>5, <1>6 DEF RoutingInv, RoutingInit, PinKept

LEMMA PromptIsRun == ASSUME NEW r \in Turns PROVE PromptOf[r] \in AllRuns
BY RoutingAssumption DEF AllRuns

LEMMA ViewIs ==
  ASSUME RoutingInv, NEW h \in AllRuns
  PROVE  View(h) \in RouterViews
BY MatchIsNat DEF RoutingInv, LoadsTyped, View, RouterViews

(* One turn changes.                                                       *)
LEMMA TurnStep ==
  ASSUME TurnsTyped, NEW r \in Turns, NEW x \in TurnRecs, turn' = [turn EXCEPT ![r] = x],
         x.phase = "connecting" => x.backend \in Holders
  PROVE  TurnsTyped' /\ turn'[r] = x /\ \A q \in Turns : q # r => turn'[q] = turn[q]
<1>1. turn \in [Turns -> TurnRecs] /\ \A q \in Turns : turn[q].phase = "connecting" => turn[q].backend \in Holders
  BY DEF TurnsTyped
<1>2. turn' \in [Turns -> TurnRecs] /\ turn'[r] = x /\ \A q \in Turns : q # r => turn'[q] = turn[q]
  BY <1>1
<1>3. \A q \in Turns : turn'[q].phase = "connecting" => turn'[q].backend \in Holders
  BY <1>1, <1>2
<1>4. QED
  BY <1>2, <1>3 DEF TurnsTyped

(* Arrive: the candidates are backends of the fleet.                       *)
LEMMA ArriveStep ==
  ASSUME RoutingInv, NEW r \in Turns, Arrive(r)
  PROVE  /\ RoutingInv'
         /\ \A q \in Turns : q # r => turn'[q] = turn[q]
         /\ ToSet(turn'[r].cands) \subseteq ToSet(fleet)
<1>1. PICK hit : hit = pick(pins, SessionOf[r], ToSet(fleet), now)
  OBVIOUS
<1>2. /\ IsTable(hit.table)
      /\ \A p \in ToSet(pins) : ~Expired(p, now) => p \in ToSet(hit.table)
      /\ hit.backend = {} \/ \E x \in ToSet(fleet) : hit.backend = {x}
  BY <1>1, PickIs DEF RoutingInv
<1>3. fleet \in Seq(Holders) /\ ToSet(fleet) \subseteq Holders
  BY NonEmptyList DEF RoutingInv
<1>4. PICK cs \in Seq(Holders) : /\ cs = IF SessionOf[r] # NoSession /\ hit.backend # {}
                                        THEN SetToSeq(hit.backend) ELSE fleet
                                 /\ ToSet(cs) \subseteq ToSet(fleet)
  <2>1. CASE SessionOf[r] # NoSession /\ hit.backend # {}
    <3>1. PICK x \in ToSet(fleet) : hit.backend = {x}
      BY <1>2, <2>1
    <3>2. SetToSeq(hit.backend) \in Seq({x})
      BY <3>1, SetToSeqOne
    <3>3. ToSet(SetToSeq(hit.backend)) \subseteq {x}
      BY <3>2, NonEmptyList
    <3>4. SetToSeq(hit.backend) \in Seq(Holders)
      BY <1>3, <3>2
    <3>5. QED
      BY <2>1, <3>3, <3>4
  <2>2. CASE ~(SessionOf[r] # NoSession /\ hit.backend # {})
    BY <1>3, <2>2
  <2>3. QED
    BY <2>1, <2>2
<1>5. turn' = [turn EXCEPT ![r] = [phase |-> "routed", backend |-> "", cands |-> cs]]
  BY <1>1, <1>4 DEF Arrive
<1>6. TurnsTyped' /\ turn'[r].cands = cs /\ \A q \in Turns : q # r => turn'[q] = turn[q]
  <2>1. PICK x \in TurnRecs : x = [phase |-> "routed", backend |-> "", cands |-> cs]
    <3>1. [phase |-> "routed", backend |-> "", cands |-> cs] \in TurnRecs
      BY DEF TurnRecs, Backs
    <3>2. QED
      BY <3>1
  <2>2. x.phase # "connecting" /\ x.cands = cs
    BY <2>1
  <2>3. QED
    BY <1>5, <2>1, <2>2, TurnStep DEF RoutingInv
<1>8. IsTable(pins') /\ \A p \in ToSet(pins) : ~Expired(p, now) => p \in ToSet(pins')
  BY <1>1, <1>2 DEF Arrive, RoutingInv
<1>9. PinKept'
  <2> SUFFICES ASSUME lastTurn # NoTurn, now - lastTurn.at <= PinTtl
               PROVE  Pin(lastTurn.sid, lastTurn.backend, lastTurn.at) \in ToSet(pins')
    BY DEF PinKept, Arrive, NoTurn
  <2>1. PICK p : p = Pin(lastTurn.sid, lastTurn.backend, lastTurn.at)
    OBVIOUS
  <2>2. p \in ToSet(pins) /\ p.last = lastTurn.at
    BY <2>1 DEF RoutingInv, PinKept, Pin
  <2>3. ~Expired(p, now)
    <3>1. lastTurn.at \in Nat /\ now \in Nat /\ PinTtl \in Nat
      BY PinAssumption DEF RoutingInv, LastTurns
    <3>2. QED
      BY <2>2, <3>1 DEF Expired
  <2>4. QED
    BY <1>8, <2>1, <2>2, <2>3
<1>10. RoutingInv'
  <2>1. /\ fleet' = fleet /\ tree' = tree /\ rr' = rr /\ now' = now /\ lastTurn' = lastTurn
        /\ inflight' = inflight /\ kvHigh' = kvHigh /\ peerBad' = peerBad
    BY DEF Arrive
  <2>2. LoadsTyped'
    BY <2>1 DEF RoutingInv, LoadsTyped
  <2>3. QED
    BY <1>6, <1>8, <1>9, <2>1, <2>2 DEF RoutingInv
<1>11. QED
  BY <1>4, <1>6, <1>10

(* Dispatch: the decision is one of the candidates, and passes the guards. *)
LEMMA DispatchStep ==
  ASSUME RoutingInv, NEW r \in Turns, Dispatch(r)
  PROVE  /\ RoutingInv'
         /\ \A q \in Turns : q # r => turn'[q] = turn[q]
         /\ turn'[r].backend \in ToSet(turn[r].cands)
         /\ StrategyOf[r] = "prefix_tree" =>
              Passes(View(PromptOf[r]), Len(PromptOf[r]) * BlockTokens, turn[r].cands, turn'[r].backend)
<1>1. PICK h \in AllRuns : h = PromptOf[r]
  BY PromptIsRun
<1>2. PICK t \in TurnRecs : t = turn[r]
  BY DEF RoutingInv, TurnsTyped
<1>3. t.cands \in Seq(Holders) /\ t.cands # <<>>
  BY <1>2 DEF TurnRecs, Dispatch
<1>4. PICK v \in RouterViews : v = View(h)
  BY ViewIs
<1>5. PICK c : c = choose(StrategyOf[r], v, h, t.cands, rr)
  OBVIOUS
<1>6. /\ c.backend \in ToSet(t.cands) /\ c.rr \in Nat
      /\ StrategyOf[r] = "prefix_tree" => Passes(v, Len(h) * BlockTokens, t.cands, c.backend)
  BY <1>3, <1>5, ChooseIs DEF RoutingInv, AllRuns
<1>7. PICK b \in Holders : b = c.backend
  BY <1>3, <1>6, NonEmptyList
<1>8. /\ rr' = c.rr /\ tree' = insert(tree, h, b) /\ inflight' = [inflight EXCEPT ![b] = @ + 1]
      /\ turn' = [turn EXCEPT ![r].backend = b,
                              ![r].phase = IF b \in ToSet(fleet) THEN "connecting" ELSE "crashed"]
      /\ fleet' = fleet /\ pins' = pins /\ kvHigh' = kvHigh /\ peerBad' = peerBad
      /\ now' = now /\ lastTurn' = lastTurn
  BY <1>1, <1>2, <1>4, <1>5, <1>7 DEF Dispatch
<1>9. TurnsTyped' /\ turn'[r].backend = b /\ \A q \in Turns : q # r => turn'[q] = turn[q]
  <2>0. PICK ph \in {"connecting", "crashed"} : ph = IF b \in ToSet(fleet) THEN "connecting" ELSE "crashed"
    OBVIOUS
  <2>1. PICK x \in TurnRecs : x = [t EXCEPT !.backend = b, !.phase = ph] /\ x.backend = b
    <3>1. b \in Backs
      BY DEF Backs
    <3>2. [t EXCEPT !.backend = b, !.phase = ph] \in TurnRecs
      BY <3>1 DEF TurnRecs
    <3>3. [t EXCEPT !.backend = b, !.phase = ph].backend = b
      BY DEF TurnRecs
    <3>4. QED
      BY <3>2, <3>3
  <2>2. turn \in [Turns -> TurnRecs]
    BY DEF RoutingInv, TurnsTyped
  <2>3. turn' = [turn EXCEPT ![r] = x]
    BY <1>2, <1>8, <2>0, <2>1, <2>2
  <2>4. QED
    BY <2>1, <2>3, TurnStep DEF RoutingInv
<1>10. LoadsTyped'
  BY <1>8 DEF RoutingInv, LoadsTyped
<1>11. TreeNodes(tree') \subseteq AllRuns
  <2>1. TreeNodes(tree) \in SUBSET AllRuns
    BY DEF RoutingInv
  <2>2. SplitAt(TreeNodes(tree), h) \subseteq AllRuns
    BY <2>1, SplitIsRun
  <2>3. QED
    BY <1>8, <2>1, <2>2, InsertNodes
<1>12. RoutingInv'
  <2>1. PinKept'
    BY <1>8 DEF RoutingInv, PinKept, NoTurn
  <2>2. QED
    BY <1>6, <1>8, <1>9, <1>10, <1>11, <2>1 DEF RoutingInv
<1>13. QED
  BY <1>1, <1>2, <1>4, <1>6, <1>7, <1>9, <1>12

LEMMA CompletedIs ==
  ASSUME LoadsTyped, NEW b \in Holders
  PROVE  Completed(b) \in [Holders -> Nat]
<1>1. inflight \in [Holders -> Nat]
  BY DEF LoadsTyped
<1>2. PICK k \in Nat : k = IF inflight[b] > 0 THEN inflight[b] - 1 ELSE 0
  BY <1>1
<1>3. Completed(b) = [inflight EXCEPT ![b] = k]
  BY <1>1, <1>2 DEF Completed
<1>4. QED
  BY <1>1, <1>3

LEMMA OverIs == Over \in TurnRecs /\ Over.phase = "done"
<1>1. "" \in Backs /\ <<>> \in Seq(Holders)
  BY DEF Backs
<1>2. QED
  BY <1>1 DEF Over, TurnRecs

LEMMA ConnectFailsStep ==
  ASSUME RoutingInv, NEW r \in Turns, NEW next \in {"routed", "done"}, ConnectFails(r, next)
  PROVE  /\ RoutingInv' /\ turn[r].phase = "connecting"
         /\ \A q \in Turns : q # r => turn'[q] = turn[q]
<1>1. PICK t \in TurnRecs : t = turn[r] /\ t.phase = "connecting" /\ t.backend \in Holders
  BY DEF RoutingInv, TurnsTyped, ConnectFails
<1>2. PICK rest \in Seq(Holders) : rest = Where(t.cands, LAMBDA c : c # t.backend)
  <2>1. t.cands \in Seq(Holders)
    BY DEF TurnRecs
  <2>2. PICK I : I = {i \in DOMAIN t.cands : t.cands[i] # t.backend}
    OBVIOUS
  <2>3. Kept(t.cands, I) \in Seq(Holders)
    BY <2>1, KeptInOrder
  <2>4. QED
    BY <2>2, <2>3 DEF Where
<1>3. /\ inflight' = Completed(t.backend)
      /\ turn' = [turn EXCEPT ![r] = IF next = "done" THEN Over ELSE [@ EXCEPT !.cands = rest, !.phase = next]]
      /\ UNCHANGED <<fleet, tree, pins, rr, kvHigh, peerBad, now, changes, seen, lastTurn>>
  BY <1>1, <1>2 DEF ConnectFails
<1>4. PICK x \in TurnRecs :
        /\ x = IF next = "done" THEN Over ELSE [t EXCEPT !.cands = rest, !.phase = next]
        /\ x.phase # "connecting"
  <2>1. CASE next = "done"
    BY <2>1, OverIs
  <2>2. CASE next # "done"
    <3>1. PICK y : y = [t EXCEPT !.cands = rest, !.phase = next]
      OBVIOUS
    <3>2. y \in TurnRecs /\ y.phase = next
      BY <2>2, <3>1 DEF TurnRecs
    <3>3. QED
      BY <2>2, <3>1, <3>2
  <2>3. QED
    BY <2>1, <2>2
<1>5. TurnsTyped' /\ \A q \in Turns : q # r => turn'[q] = turn[q]
  <2>1. turn \in [Turns -> TurnRecs]
    BY DEF RoutingInv, TurnsTyped
  <2>2. turn' = [turn EXCEPT ![r] = x]
    BY <1>1, <1>3, <1>4, <2>1
  <2>3. QED
    BY <1>4, <2>2, TurnStep DEF RoutingInv
<1>6. LoadsTyped'
  BY <1>1, <1>3, CompletedIs DEF RoutingInv, LoadsTyped
<1>7. PinKept'
  BY <1>3 DEF RoutingInv, PinKept, NoTurn
<1>8. RoutingInv'
  BY <1>3, <1>5, <1>6, <1>7 DEF RoutingInv
<1>9. QED
  BY <1>1, <1>5, <1>8

(* Finish: the pin that the turn leaves is in the table.                   *)
LEMMA FinishStep ==
  ASSUME RoutingInv, NEW r \in Turns, NEW status, Finish(r, status)
  PROVE  /\ RoutingInv' /\ turn[r].phase = "connecting"
         /\ \A q \in Turns : q # r => turn'[q] = turn[q]
<1>1. PICK b \in Holders : b = turn[r].backend /\ turn[r].phase = "connecting"
  BY DEF RoutingInv, TurnsTyped, Finish
<1>2. PICK sid \in Sids : sid = SessionOf[r]
  BY DEF Sids
<1>3. /\ inflight' = Completed(b) /\ turn' = [turn EXCEPT ![r] = Over]
      /\ UNCHANGED <<fleet, tree, rr, kvHigh, peerBad, now, changes, seen>>
  BY <1>1 DEF Finish
<1>4. TurnsTyped' /\ \A q \in Turns : q # r => turn'[q] = turn[q]
  BY <1>3, OverIs, TurnStep DEF RoutingInv
<1>5. LoadsTyped'
  BY <1>1, <1>3, CompletedIs DEF RoutingInv, LoadsTyped
<1>6. IsTable(pins') /\ lastTurn' \in LastTurns /\ PinKept'
  <2>1. CASE sid # NoSession /\ status = 200
    <3>1. pins' = remember(pins, sid, b, now) /\ lastTurn' = [sid |-> sid, backend |-> b, at |-> now]
      BY <1>1, <1>2, <2>1 DEF Finish
    <3>2. b \in Backs /\ now \in Nat /\ IsTable(pins)
      BY DEF Backs, RoutingInv
    <3>3. IsTable(pins') /\ Pin(sid, b, now) \in ToSet(pins')
      BY <3>1, <3>2, RememberIs
    <3>4. lastTurn' \in LastTurns
      BY <3>1, <3>2 DEF LastTurns
    <3>5. PinKept'
      BY <3>1, <3>3 DEF PinKept
    <3>6. QED
      BY <3>3, <3>4, <3>5
  <2>2. CASE ~(sid # NoSession /\ status = 200)
    <3>1. pins' = pins /\ lastTurn' = lastTurn
      BY <1>2, <2>2 DEF Finish
    <3>2. QED
      BY <1>3, <3>1 DEF RoutingInv, PinKept, NoTurn
  <2>3. QED
    BY <2>1, <2>2
<1>7. RoutingInv'
  BY <1>3, <1>4, <1>5, <1>6 DEF RoutingInv
<1>8. QED
  BY <1>1, <1>4, <1>7

LEMMA AdminRemoveStep ==
  ASSUME RoutingInv, NEW b \in Holders, AdminRemove(b)
  PROVE  RoutingInv' /\ turn' = turn
<1>1. fleet' \in Seq(Holders)
  <2>1. PICK I : I = {i \in DOMAIN fleet : fleet[i] # b}
    OBVIOUS
  <2>2. fleet' = Kept(fleet, I)
    BY <2>1 DEF AdminRemove, Where
  <2>3. QED
    BY <2>2, KeptInOrder DEF RoutingInv
<1>2. TreeNodes(tree') \subseteq AllRuns
  BY RemoveNodes DEF RoutingInv, AdminRemove
<1>3. IsTable(pins') /\ \A p \in ToSet(pins) : p.backend # b => p \in ToSet(pins')
  BY ForgetIs DEF RoutingInv, AdminRemove
<1>4. LoadsTyped'
  BY DEF RoutingInv, LoadsTyped, AdminRemove
<1>5. /\ rr' = rr /\ turn' = turn /\ now' = now
      /\ lastTurn' = IF lastTurn.backend = b THEN NoTurn ELSE lastTurn
  BY DEF AdminRemove
<1>6. TurnsTyped'
  BY <1>5 DEF RoutingInv, TurnsTyped
<1>7. lastTurn' \in LastTurns /\ PinKept'
  <2>1. NoTurn \in LastTurns
    BY DEF NoTurn, LastTurns, Backs
  <2>2. CASE lastTurn.backend = b
    BY <1>5, <2>1, <2>2 DEF PinKept
  <2>3. CASE lastTurn.backend # b
    <3>1. PICK p : p = Pin(lastTurn.sid, lastTurn.backend, lastTurn.at)
      OBVIOUS
    <3>2. p.backend # b /\ lastTurn' = lastTurn
      BY <1>5, <2>3, <3>1 DEF Pin
    <3>3. lastTurn # NoTurn /\ now - lastTurn.at <= PinTtl => p \in ToSet(pins')
      BY <1>3, <3>1, <3>2 DEF RoutingInv, PinKept
    <3>4. QED
      BY <1>5, <3>1, <3>2, <3>3 DEF RoutingInv, PinKept
  <2>4. QED
    BY <2>2, <2>3
<1>8. QED
  BY <1>1, <1>2, <1>3, <1>4, <1>5, <1>6, <1>7 DEF RoutingInv

LEMMA AdminAddStep ==
  ASSUME RoutingInv, NEW b \in Holders, AdminAdd(b)
  PROVE  RoutingInv' /\ turn' = turn
<1>1. fleet' \in Seq(Holders)
  BY DEF RoutingInv, AdminAdd
<1>2. UNCHANGED <<tree, pins, rr, inflight, kvHigh, peerBad, turn, now, lastTurn>>
  BY DEF AdminAdd
<1>3. LoadsTyped' /\ TurnsTyped' /\ PinKept'
  BY <1>2 DEF RoutingInv, LoadsTyped, TurnsTyped, PinKept, NoTurn
<1>4. QED
  BY <1>1, <1>2, <1>3 DEF RoutingInv

LEMMA ReportLoadStep ==
  ASSUME RoutingInv, NEW b \in Holders, ReportLoad(b)
  PROVE  RoutingInv' /\ turn' = turn
<1>1. LoadsTyped'
  <2>1. kvHigh \in [Holders -> BOOLEAN] /\ peerBad \in [Holders -> BOOLEAN] /\ inflight \in [Holders -> Nat]
    BY DEF RoutingInv, LoadsTyped
  <2>2. inflight' = inflight
    BY DEF ReportLoad
  <2>3. [kvHigh EXCEPT ![b] = ~@] \in [Holders -> BOOLEAN]
    BY <2>1
  <2>3a. [peerBad EXCEPT ![b] = ~@] \in [Holders -> BOOLEAN]
    BY <2>1
  <2>4. \/ kvHigh' = [kvHigh EXCEPT ![b] = ~@] /\ peerBad' = peerBad
        \/ peerBad' = [peerBad EXCEPT ![b] = ~@] /\ kvHigh' = kvHigh
    BY DEF ReportLoad
  <2>5. QED
    BY <2>1, <2>2, <2>3, <2>3a, <2>4, Zenon DEF LoadsTyped
<1>2. UNCHANGED <<fleet, tree, pins, rr, turn, now, lastTurn>>
  BY DEF ReportLoad
<1>3. TurnsTyped' /\ PinKept'
  BY <1>2 DEF RoutingInv, TurnsTyped, PinKept, NoTurn
<1>4. QED
  BY <1>1, <1>2, <1>3 DEF RoutingInv

LEMMA PeerInsertStep ==
  ASSUME RoutingInv, NEW b \in Holders, NEW h \in Prompts, PeerInsert(b, h)
  PROVE  RoutingInv' /\ turn' = turn
<1>1. h \in AllRuns
  BY PromptIsRun DEF Prompts
<1>2. TreeNodes(tree') \subseteq AllRuns
  <2>1. TreeNodes(tree) \in SUBSET AllRuns /\ tree' = insert(tree, h, b)
    BY DEF RoutingInv, PeerInsert
  <2>2. SplitAt(TreeNodes(tree), h) \subseteq AllRuns
    BY <1>1, <2>1, SplitIsRun
  <2>3. QED
    BY <1>1, <2>1, <2>2, InsertNodes
<1>3. UNCHANGED <<fleet, pins, rr, inflight, kvHigh, peerBad, turn, now, lastTurn>>
  BY DEF PeerInsert
<1>4. LoadsTyped' /\ TurnsTyped' /\ PinKept'
  BY <1>3 DEF RoutingInv, LoadsTyped, TurnsTyped, PinKept, NoTurn
<1>5. QED
  BY <1>2, <1>3, <1>4 DEF RoutingInv

LEMMA PinsAgeStep ==
  ASSUME RoutingInv, PinsAge
  PROVE  RoutingInv' /\ turn' = turn
<1>1. /\ now' = now + 1 /\ now \in Nat
      /\ UNCHANGED <<fleet, tree, pins, rr, inflight, kvHigh, peerBad, turn, lastTurn>>
  BY DEF PinsAge, RoutingInv
<1>2. LoadsTyped' /\ TurnsTyped'
  BY <1>1 DEF RoutingInv, LoadsTyped, TurnsTyped
<1>3. PinKept'
  <2>1. lastTurn.at \in Nat /\ PinTtl \in Nat
    BY PinAssumption DEF RoutingInv, LastTurns
  <2>2. now + 1 - lastTurn.at <= PinTtl => now - lastTurn.at <= PinTtl
    BY <1>1, <2>1
  <2>3. (lastTurn # NoTurn /\ now + 1 - lastTurn.at <= PinTtl) =>
          Pin(lastTurn.sid, lastTurn.backend, lastTurn.at) \in ToSet(pins)
    BY <2>2 DEF RoutingInv, PinKept
  <2>4. NoTurn' = NoTurn
    BY DEF NoTurn
  <2>5. QED
    <3> SUFFICES ASSUME lastTurn # NoTurn, now' - lastTurn.at <= PinTtl
                 PROVE  Pin(lastTurn.sid, lastTurn.backend, lastTurn.at) \in ToSet(pins)
      BY <1>1, <2>4, Zenon DEF PinKept
    <3>1. QED
      BY <1>1, <2>1, <2>3
<1>4. QED
  BY <1>1, <1>2, <1>3 DEF RoutingInv

LEMMA RoutingStutter ==
  ASSUME RoutingInv, UNCHANGED routingVars
  PROVE  RoutingInv' /\ turn' = turn
<1>1. UNCHANGED <<fleet, tree, pins, rr, inflight, kvHigh, peerBad, turn, now, lastTurn>>
  BY DEF routingVars
<1>2. LoadsTyped' /\ TurnsTyped' /\ PinKept'
  BY <1>1 DEF RoutingInv, LoadsTyped, TurnsTyped, PinKept, NoTurn
<1>3. QED
  BY <1>1, <1>2 DEF RoutingInv

(* What a step may do to a turn.                                           *)
TurnMoves ==
  \A r \in Turns :
    /\ (turn[r].phase = "new" /\ turn'[r].phase = "routed") =>
         ToSet(turn'[r].cands) \subseteq ToSet(fleet)
    /\ (turn[r].phase = "routed" /\ turn'[r].phase \in {"connecting", "crashed"}) =>
         /\ turn'[r].backend \in ToSet(turn[r].cands)
         /\ StrategyOf[r] = "prefix_tree" =>
              Passes(View(PromptOf[r]), Len(PromptOf[r]) * BlockTokens, turn[r].cands, turn'[r].backend)

LEMMA RoutingInvStep ==
  ASSUME RoutingInv, [RoutingNext]_routingVars
  PROVE  RoutingInv' /\ TurnMoves
<1>1. ASSUME turn' = turn PROVE TurnMoves
  BY <1>1 DEF TurnMoves
<1>2. ASSUME NEW r \in Turns, Arrive(r) PROVE RoutingInv' /\ TurnMoves
  <2>1. /\ RoutingInv' /\ \A q \in Turns : q # r => turn'[q] = turn[q]
        /\ ToSet(turn'[r].cands) \subseteq ToSet(fleet)
    BY <1>2, ArriveStep
  <2>2. turn[r].phase = "new"
    BY <1>2 DEF Arrive
  <2>3. QED
    BY <2>1, <2>2 DEF TurnMoves
<1>3. ASSUME NEW r \in Turns, Dispatch(r) PROVE RoutingInv' /\ TurnMoves
  <2>1. /\ RoutingInv' /\ \A q \in Turns : q # r => turn'[q] = turn[q]
        /\ turn'[r].backend \in ToSet(turn[r].cands)
        /\ StrategyOf[r] = "prefix_tree" =>
             Passes(View(PromptOf[r]), Len(PromptOf[r]) * BlockTokens, turn[r].cands, turn'[r].backend)
    BY <1>3, DispatchStep
  <2>2. turn[r].phase = "routed"
    BY <1>3 DEF Dispatch
  <2>3. QED
    BY <2>1, <2>2 DEF TurnMoves
<1>4. ASSUME NEW r \in Turns, turn[r].phase = "connecting", \A q \in Turns : q # r => turn'[q] = turn[q]
      PROVE  TurnMoves
  BY <1>4 DEF TurnMoves
<1>5. ASSUME NEW r \in Turns, NEW next \in {"routed", "done"}, ConnectFails(r, next)
      PROVE  RoutingInv' /\ TurnMoves
  BY <1>4, <1>5, ConnectFailsStep
<1>6. ASSUME NEW r \in Turns, NEW code \in {200, 500}, Finish(r, code) PROVE RoutingInv' /\ TurnMoves
  BY <1>4, <1>6, FinishStep
<1>7. ASSUME NEW b \in Holders, AdminRemove(b) \/ AdminAdd(b) \/ ReportLoad(b)
      PROVE  RoutingInv' /\ TurnMoves
  BY <1>1, <1>7, AdminRemoveStep, AdminAddStep, ReportLoadStep
<1>8. ASSUME NEW b \in Holders, NEW h \in Prompts, PeerInsert(b, h) PROVE RoutingInv' /\ TurnMoves
  BY <1>1, <1>8, PeerInsertStep
<1>9. ASSUME PinsAge PROVE RoutingInv' /\ TurnMoves
  BY <1>1, <1>9, PinsAgeStep
<1>10. ASSUME UNCHANGED routingVars PROVE RoutingInv' /\ TurnMoves
  BY <1>1, <1>10, RoutingStutter
<1>11. QED
  BY <1>2, <1>3, <1>5, <1>6, <1>7, <1>8, <1>9, <1>10 DEF RoutingNext

(* The invariant of the handler holds throughout, for every fleet, session *)
(* table, prompt set and bound.                                            *)
THEOREM RoutingInvHolds == RoutingSpec => []RoutingInv
<1>1. RoutingInit => RoutingInv
  BY RoutingInvInit
<1>2. RoutingInv /\ [RoutingNext]_routingVars => RoutingInv'
  BY RoutingInvStep
<1>3. QED
  BY <1>1, <1>2, PTL DEF RoutingSpec

(* session_affinity.py:53-62: however full the table is of other sessions' *)
(* pins, the session whose turn finished last keeps its pin until it idles *)
(* out or its backend is removed.                                          *)
THEOREM SessionsStayPinned == RoutingSpec => []LastTurnIsPinned
<1>1. RoutingInv => LastTurnIsPinned
  <2> SUFFICES ASSUME RoutingInv, lastTurn # NoTurn, now - lastTurn.at <= PinTtl
               PROVE  \E i \in DOMAIN pins : pins[i].sid = lastTurn.sid /\ pins[i].backend = lastTurn.backend
    BY DEF LastTurnIsPinned
  <2>1. Pin(lastTurn.sid, lastTurn.backend, lastTurn.at) \in ToSet(pins)
    BY DEF RoutingInv, PinKept
  <2>2. PICK i \in DOMAIN pins : pins[i] = Pin(lastTurn.sid, lastTurn.backend, lastTurn.at)
    BY <2>1 DEF ToSet
  <2>3. QED
    BY <2>2 DEF Pin
<1>2. QED
  BY <1>1, RoutingInvHolds, PTL

(* A turn is confined to backends of the fleet, and the backend that the   *)
(* prefix router picks passes the guardrails, whatever changed between the *)
(* handler's awaits (router.py:62-112, session_affinity.py:36-53).         *)
THEOREM RoutingDecisionsAreSound == RoutingSpec => RoutingIsSound
<1> DEFINE Choice(r) ==
      (turn[r].phase = "routed" /\ turn'[r].phase \in {"connecting", "crashed"}) =>
         LET h == PromptOf[r]
             v == View(h)
             b == turn'[r].backend
             est(c) == _est_ttft(v, Len(h) * BlockTokens, c)
             fit == {c \in ToSet(turn[r].cands) : ~Saturated(v, c)}
         IN  StrategyOf[r] = "prefix_tree" =>
               IF fit = {} THEN \A c \in ToSet(turn[r].cands) : v.inflight[b] <= v.inflight[c]
               ELSE b \in fit /\ \A c \in fit : est(b) <= est(c) + Hysteresis
<1>1. ASSUME TurnMoves, NEW r \in Turns PROVE Choice(r)
  BY <1>1 DEF TurnMoves, Passes
<1> HIDE DEF Choice
<1>2. RoutingInv /\ [RoutingNext]_routingVars => [\A r \in Turns : Choice(r)]_routingVars
  BY <1>1, RoutingInvStep
<1>3. RoutingInv /\ [RoutingNext]_routingVars =>
        [\A r \in Turns : (turn[r].phase = "new" /\ turn'[r].phase = "routed") =>
            ToSet(turn'[r].cands) \subseteq ToSet(fleet)]_routingVars
  BY RoutingInvStep DEF TurnMoves
<1>4. PrefixChoiceIsSound <=> [][\A r \in Turns : Choice(r)]_routingVars
  BY DEF PrefixChoiceIsSound, Choice
<1>5. QED
  BY <1>2, <1>3, <1>4, RoutingInvHolds, PTL DEF RoutingSpec, RoutingIsSound, PinnedTurnsStayInFleet

-----------------------------------------------------------------------------
(* The prefix tree                                                         *)

(* The invariant of the tree along a run of the handler.                   *)
TreeInv == seen \in Histories /\ TreeOK(tree, seen)

LEMMA TreeInserted ==
  ASSUME TreeInv, NEW b \in Holders, NEW h \in AllRuns,
         tree' = insert(tree, h, b), seen' = [seen EXCEPT ![b] = @ \cup {h}]
  PROVE  TreeInv'
<1>1. seen \in Histories /\ TreeOK(tree, seen)
  BY DEF TreeInv
<1>2. PICK T, sn : T = tree /\ sn = seen
  OBVIOUS
<1>3. TreeOK(insert(T, h, b), Told(sn, b, h))
  BY <1>1, <1>2, InsertOK
<1>4. Told(sn, b, h) \in Histories
  BY <1>1, <1>2, ToldIs
<1>5. tree' = insert(T, h, b) /\ seen' = Told(sn, b, h)
  BY <1>2 DEF Told
<1>6. TreeOK(tree', seen') /\ seen' \in Histories
  BY <1>3, <1>4, <1>5
<1>7. QED
  BY <1>6 DEF TreeInv

LEMMA TreeUnchanged ==
  ASSUME TreeInv, tree' = tree, seen' = seen
  PROVE  TreeInv'
<1>1. TreeOK(tree', seen') /\ seen' \in Histories
  BY DEF TreeInv
<1>2. QED
  BY <1>1 DEF TreeInv

LEMMA TreeInvStep ==
  ASSUME RoutingInv, TreeInv, [RoutingNext]_routingVars
  PROVE  TreeInv'
<1>1. ASSUME NEW r \in Turns, Dispatch(r) PROVE TreeInv'
  <2>1. PICK b : /\ tree' = insert(tree, PromptOf[r], b)
                 /\ seen' = [seen EXCEPT ![b] = @ \cup {PromptOf[r]}]
                 /\ turn' = [turn EXCEPT ![r].backend = b,
                                         ![r].phase = IF b \in ToSet(fleet) THEN "connecting" ELSE "crashed"]
    BY <1>1 DEF Dispatch
  <2>2. turn'[r].backend \in ToSet(turn[r].cands)
    BY <1>1, DispatchStep
  <2>3. turn[r] \in TurnRecs /\ turn \in [Turns -> TurnRecs]
    BY DEF RoutingInv, TurnsTyped
  <2>4. turn'[r].backend = b
    BY <2>1, <2>3 DEF TurnRecs
  <2>5. turn[r].cands \in Seq(Holders)
    BY <2>3 DEF TurnRecs
  <2>6. b \in Holders
    BY <2>2, <2>4, <2>5 DEF ToSet
  <2>7. PromptOf[r] \in AllRuns
    BY PromptIsRun
  <2>8. QED
    BY <2>1, <2>6, <2>7, TreeInserted
<1>2. ASSUME NEW b \in Holders, NEW h \in Prompts, PeerInsert(b, h) PROVE TreeInv'
  <2>1. h \in AllRuns
    BY PromptIsRun DEF Prompts
  <2>2. tree' = insert(tree, h, b) /\ seen' = [seen EXCEPT ![b] = @ \cup {h}]
    BY <1>2 DEF PeerInsert
  <2>3. QED
    BY <2>1, <2>2, TreeInserted
<1>3. ASSUME NEW b \in Holders, AdminRemove(b) PROVE TreeInv'
  <2>1. tree' = remove_backend(tree, b) /\ seen' = Forgotten(seen, b)
    BY <1>3 DEF AdminRemove, Forgotten
  <2>2. seen \in Histories /\ TreeOK(tree, seen)
    BY DEF TreeInv
  <2>3. TreeOK(remove_backend(tree, b), Forgotten(seen, b)) /\ Forgotten(seen, b) \in Histories
    BY <2>2, RemoveOK
  <2>4. TreeOK(tree', seen') /\ seen' \in Histories
    BY <2>1, <2>3
  <2>5. QED
    BY <2>4 DEF TreeInv
<1>4. ASSUME NEW r \in Turns,
             Arrive(r) \/ (\E next \in {"routed", "done"} : ConnectFails(r, next))
                       \/ (\E code \in {200, 500} : Finish(r, code))
      PROVE  TreeInv'
  BY <1>4, TreeUnchanged DEF Arrive, ConnectFails, Finish
<1>5. ASSUME NEW b \in Holders, AdminAdd(b) \/ ReportLoad(b) PROVE TreeInv'
  BY <1>5, TreeUnchanged DEF AdminAdd, ReportLoad
<1>6. ASSUME PinsAge \/ UNCHANGED routingVars PROVE TreeInv'
  BY <1>6, TreeUnchanged DEF PinsAge, routingVars
<1>7. QED
  BY <1>1, <1>2, <1>3, <1>4, <1>5, <1>6 DEF RoutingNext

(* The tree stays a radix tree whose nodes, holders, LRU lists and budget  *)
(* agree with the history of insertions.                                   *)
THEOREM TreeInvHolds == RoutingSpec => []TreeInv
<1>1. RoutingInit => TreeInv
  BY EmptyOK DEF RoutingInit, TreeInv
<1>2. RoutingInv /\ TreeInv /\ [RoutingNext]_routingVars => TreeInv'
  BY TreeInvStep
<1>3. QED
  BY <1>1, <1>2, RoutingInvHolds, PTL DEF RoutingSpec

LEMMA TreeAgrees == ASSUME TreeInv PROVE TreeAgreesWithHistory
<1>0. PICK T : T = tree
  OBVIOUS
<1>1. PICK sn \in Histories : T = tree /\ sn = seen /\ TreeOK(T, sn)
  BY <1>0 DEF TreeInv
<1>2. WithinBudget
  <2> SUFFICES ASSUME NEW b \in Holders PROVE held_blocks(tree, b) <= CacheBlocks
    BY DEF WithinBudget
  <2>1. Weight(TreeNodes(T), ToSet(T.lru[b])) <= CacheBlocks
    BY <1>1 DEF TreeOK, Budget
  <2>2. QED
    BY <1>1, <2>1 DEF held_blocks, Weight
<1>3. ListedIffHolding
  <2> SUFFICES ASSUME NEW b \in Holders
               PROVE  /\ ToSet(T.lru[b]) = {p \in TreeNodes(T) : b \in T.holders[p]}
                      /\ Cardinality(ToSet(T.lru[b])) = Len(T.lru[b])
    BY <1>1 DEF ListedIffHolding
  <2>1. TreeTyped(T) /\ Listed(T)
    BY <1>1 DEF TreeOK
  <2>2. Cardinality(ToSet(T.lru[b])) = Len(T.lru[b])
    BY <2>1, ListedFinite
  <2>3. QED
    BY <2>1, <2>2 DEF Listed
<1>4. MatchAgreesWithHistory
  <2> SUFFICES ASSUME NEW h \in Prompts, NEW b \in Holders
               PROVE  /\ match(tree, h)[b] <= Reference(b, h)
                      /\ \A p \in Visited(TreeNodes(tree), h) :
                           Len(p) <= match(tree, h)[b] => b \in tree.holders[p]
                      /\ Footprint(b) <= CacheBlocks => match(tree, h)[b] = Reference(b, h)
    BY DEF MatchAgreesWithHistory
  <2>1. h \in AllRuns
    BY PromptIsRun DEF Prompts
  <2>2. Reference(b, h) = Longest(h, sn[b])
    BY <1>1 DEF Reference, Longest
  <2>3. Footprint(b) <= CacheBlocks <=> Roomy(sn[b])
    BY <1>1 DEF Footprint, Roomy, AllBlocks
  <2>4. /\ match(T, h)[b] \in Nat
        /\ match(T, h)[b] <= Longest(h, sn[b])
        /\ \A p \in Visited(TreeNodes(T), h) : Len(p) <= match(T, h)[b] => b \in T.holders[p]
    BY <1>1, <2>1, MatchWasGiven
  <2>5. Roomy(sn[b]) => Longest(h, sn[b]) <= match(T, h)[b]
    BY <1>1, <2>1, MatchFindsAll
  <2>6. Longest(h, sn[b]) \in Nat
    <3>1. sn[b] \in SUBSET AllRuns
      BY <1>1 DEF Histories
    <3>2. QED
      BY <2>1, <3>1, LongestIs
  <2>7. PICK m \in Nat, n \in Nat : m = match(T, h)[b] /\ n = Longest(h, sn[b])
    BY <2>4, <2>6
  <2>8. m <= n /\ (Roomy(sn[b]) => m = n)
    <3>1. m <= n /\ (Roomy(sn[b]) => n <= m)
      BY <2>4, <2>5, <2>7
    <3>2. QED
      BY <3>1
  <2>9. match(tree, h)[b] = m /\ Reference(b, h) = n
    BY <1>1, <2>2, <2>7
  <2>10. \A p \in Visited(TreeNodes(tree), h) : Len(p) <= match(tree, h)[b] => b \in tree.holders[p]
    BY <1>1, <2>4
  <2>11. QED
    BY <2>3, <2>8, <2>9, <2>10
<1>5. QED
  BY <1>2, <1>3, <1>4 DEF TreeAgreesWithHistory

(* radix_tree.py:39-66, 97-140: for every number of backends, budget and   *)
(* set of prompts, and whatever insertions, splits, evictions and removals *)
(* came before, match credits a backend with nothing it was not given and  *)
(* with no gap, with all of it while its insertions fit; the LRU lists     *)
(* name exactly the holdings, once, and no backend exceeds its budget.     *)
THEOREM TreeFollowsHistory == RoutingSpec => []TreeAgreesWithHistory
BY TreeAgrees, TreeInvHolds, PTL

-----------------------------------------------------------------------------
(* The tree of the Rust gateway                                            *)

(* T is the arena, with each map of a backend as a list of its nodes.      *)
Mirrors(T, A) ==
  /\ T.holders = A.holders
  /\ A.lru = [x \in Holders |-> A.lru[x]]
  /\ \A x \in Holders : DOMAIN A.lru[x] = ToSet(T.lru[x])

RTreeInv == inserted \in Histories /\ \E T : TreeOK(T, inserted) /\ Mirrors(T, arena)

(* hold and track reach the nodes that _hold and _track reach.             *)
LEMMA RustHoldIs ==
  ASSUME NEW T, NEW sn, TreeOK(T, sn), Mirrors(T, arena), NEW h \in AllRuns, h # <<>>, NEW b \in Holders
  PROVE  /\ hold(h, b) = _hold(T, h, b).holders
         /\ \A x \in Holders : DOMAIN track(h, b, x) = ToSet(_hold(T, h, b).lru[x])
<1>1. PICK N : N = TreeNodes(T) /\ GoodNodes(N) /\ TreeTyped(T) /\ Listed(T)
  BY DEF TreeOK
<1>2. TreeNodes(arena) = N /\ T.holders = arena.holders
  BY <1>1 DEF Mirrors, TreeNodes
<1>3. \A p : inherit(h, p) = Inherited(T, h, p)
  BY <1>1, <1>2 DEF inherit, Inherited
<1>4. hold(h, b) = _hold(T, h, b).holders
  BY <1>1, <1>2, <1>3 DEF hold, _hold
<1>5. PICK H : H = _hold(T, h, b)
  OBVIOUS
<1>6. PICK M : /\ M = Grown(N, h) /\ TreeNodes(H) = M /\ M = N \cup PathNodes(N, h)
               /\ \A p \in M : \A x : x \in H.holders[p] <=> After(T, h, b, p, x)
  BY <1>1, <1>5, HoldHolders, PathIs
<1>7. \A p \in M : p \in PathNodes(N, h) <=> Agree(p, h, Len(p))
  BY <1>1, <1>6, PathIs
<1>8. Listed(H)
  BY <1>5, HoldListed
<1>9. ASSUME NEW x \in Holders PROVE DOMAIN track(h, b, x) = ToSet(H.lru[x])
  <2>1. ToSet(H.lru[x]) = {p \in M : After(T, h, b, p, x)}
    BY <1>6, <1>8 DEF Listed
  <2>2. DOMAIN arena.lru[x] = {p \in N : x \in T.holders[p]}
    BY <1>1 DEF Mirrors, Listed
  <2>3. DOMAIN track(h, b, x) = DOMAIN arena.lru[x] \cup Touched(h, b, x)
    BY DEF track
  <2>4. SplitAt(N, h) \subseteq PathNodes(N, h)
    BY DEF PathNodes
  <2>5. \A p : x \in inherit(h, p) <=>
           \/ p \in N /\ x \in T.holders[p]
           \/ p \in SplitAt(N, h) /\ \E c \in Diverging(N, h) : x \in T.holders[c]
    BY <1>1, <1>3, InheritedIs
  <2>6. CASE x = b
    <3>1. Touched(h, b, x) = PathNodes(N, h)
      BY <1>2, <2>6 DEF Touched
    <3>2. QED
      BY <1>1, <1>6, <1>7, <2>1, <2>2, <2>3, <2>4, <2>6, <3>1 DEF After
  <2>7. CASE x # b
    <3>1. Touched(h, b, x) = {s \in SplitAt(N, h) : x \in inherit(h, s)}
      BY <1>2, <2>7 DEF Touched
    <3>2. QED
      BY <1>1, <1>6, <2>1, <2>2, <2>3, <2>4, <2>5, <2>7, <3>1 DEF After
  <2>8. QED
    BY <2>6, <2>7
<1>10. QED
  BY <1>4, <1>5, <1>9

(* Whatever evict picks, what is left fits, and all is left that fitted.   *)
LEMMA VictimsFit ==
  ASSUME NEW M, NEW old, NEW V \in Victims(M, old), Weight(M, DOMAIN old) \in Nat
  PROVE  /\ V \subseteq DOMAIN old
         /\ Weight(M, DOMAIN old \ V) <= CacheBlocks
         /\ Weight(M, DOMAIN old) <= CacheBlocks => V = {}
<1>1. \A S : Blocks(M, S) = Weight(M, S)
  BY DEF Blocks, Weight
<1>2. CASE Weight(M, DOMAIN old) <= CacheBlocks
  <2>1. V = {}
    BY <1>1, <1>2 DEF Victims
  <2>2. DOMAIN old \ V = DOMAIN old
    BY <2>1
  <2>3. QED
    BY <1>2, <2>1, <2>2
<1>3. CASE ~(Weight(M, DOMAIN old) <= CacheBlocks)
  <2>1. V \in SUBSET DOMAIN old /\ Blocks(M, DOMAIN old \ V) <= CacheBlocks
    BY <1>1, <1>3 DEF Victims
  <2>2. QED
    BY <1>1, <1>3, <2>1
<1>4. QED
  BY <1>2, <1>3

LEMMA RustInsertStep ==
  ASSUME RTreeInv, NEW h \in AllRuns, NEW b \in Holders, RustInsert(h, b)
  PROVE  RTreeInv'
<1>1. PICK T : TreeOK(T, inserted) /\ Mirrors(T, arena)
  BY DEF RTreeInv
<1>2. PICK sn \in Histories : sn = inserted
  BY DEF RTreeInv
<1>3. PICK H, tn : H = _hold(T, h, b) /\ tn = Told(sn, b, h)
  OBVIOUS
<1>4. h # <<>>
  BY DEF RustInsert
<1>5. tn \in Histories
  BY <1>2, <1>3, ToldIs
<1>6. /\ GoodNodes(TreeNodes(H)) /\ TreeTyped(H) /\ Listed(H)
      /\ \A x \in Holders : x # b => Budget(H, x)
  BY <1>1, <1>3, <1>4, HoldListed
<1>7. Given(H, tn) /\ Complete(H, tn)
  BY <1>1, <1>2, <1>3, <1>4, HoldGiven, HoldComplete
<1>8. PICK M : M = TreeNodes(H) /\ GoodNodes(M)
  BY <1>6
<1>9. PICK l \in Seq(M) : l = H.lru[b] /\ NoDup(l) /\ IsFiniteSet(ToSet(l)) /\ ToSet(l) \in SUBSET M
  BY <1>6, <1>8, ListedFinite DEF TreeTyped, Listed
<1>10. PICK lists : lists = [x \in Holders |-> track(h, b, x)]
  OBVIOUS
<1>11. hold(h, b) = H.holders /\ DOMAIN hold(h, b) = M /\ \A x \in Holders : DOMAIN lists[x] = ToSet(H.lru[x])
  BY <1>1, <1>3, <1>4, <1>8, <1>10, RustHoldIs DEF TreeNodes
<1>12. PICK V \in Victims(M, lists[b]) :
         arena' = [holders |-> [p \in M |-> H.holders[p] \ (IF p \in V THEN {b} ELSE {})],
                   lru |-> [lists EXCEPT ![b] = [p \in DOMAIN @ \ V |-> @[p]]]]
  BY <1>10, <1>11, ZenonT(30) DEF RustInsert
<1>13. inserted' = tn
  BY <1>2, <1>3 DEF RustInsert, Told
<1>14. Weight(M, ToSet(l)) \in Nat
  <2>1. Weight(M, ToSet(l)) = Cardinality(BlocksOf(M, ToSet(l))) /\ IsFiniteSet(BlocksOf(M, ToSet(l)))
    BY <1>8, <1>9, WeightIs, BlocksFinite
  <2>2. QED
    BY <2>1, FS_CardinalityType
<1>15. /\ V \subseteq ToSet(l) /\ Weight(M, ToSet(l) \ V) <= CacheBlocks
       /\ Weight(M, ToSet(l)) <= CacheBlocks => V = {}
  <2>1. DOMAIN lists[b] = ToSet(l)
    BY <1>9, <1>11
  <2>2. Weight(M, DOMAIN lists[b]) \in Nat
    BY <1>14, <2>1
  <2>3. QED
    BY <2>1, <2>2, VictimsFit
<1>16. PICK kept : kept = Kept(l, {i \in DOMAIN l : l[i] \notin V})
  OBVIOUS
<1>17. kept \in Seq(M) /\ NoDup(kept) /\ ToSet(kept) = ToSet(l) \ V
  <2>1. kept \in Seq(M) /\ NoDup(kept) /\ ToSet(kept) = {l[i] : i \in {j \in DOMAIN l : l[j] \notin V} \cap DOMAIN l}
    BY <1>9, <1>16, NoDupKept
  <2>2. QED
    BY <2>1 DEF ToSet
<1>18. PICK E : E = [holders |-> [p \in M |-> H.holders[p] \ (IF p \in V THEN {b} ELSE {})],
                     lru |-> [H.lru EXCEPT ![b] = kept]]
  OBVIOUS
<1>19. ToSet(l) \ ToSet(kept) = V
  BY <1>15, <1>17
<1>20. Drops(H, b, kept, E)
  <2>1. E.holders = [p \in M |-> H.holders[p] \ (IF p \in ToSet(l) \ ToSet(kept) THEN {b} ELSE {})]
    BY <1>18, <1>19
  <2>2. E.lru = [H.lru EXCEPT ![b] = kept]
    BY <1>18
  <2>3. Weight(M, ToSet(kept)) <= CacheBlocks
    BY <1>15, <1>17
  <2>4. Weight(M, ToSet(l)) <= CacheBlocks => ToSet(kept) = ToSet(l)
    BY <1>15, <1>17
  <2>5. QED
    BY <1>8, <1>9, <1>17, <2>1, <2>2, <2>3, <2>4 DEF Drops
<1>21. TreeOK(E, tn)
  BY <1>5, <1>6, <1>7, <1>20, DropOK
<1>22. Mirrors(E, arena')
  <2>1. E.holders = arena'.holders
    BY <1>12, <1>18
  <2>2. arena'.lru = [lists EXCEPT ![b] = [p \in DOMAIN lists[b] \ V |-> lists[b][p]]]
    BY <1>12
  <2>3. arena'.lru = [x \in Holders |-> arena'.lru[x]]
    BY <1>10, <2>2
  <2>4. DOMAIN arena'.lru[b] = ToSet(l) \ V
    <3>1. arena'.lru[b] = [p \in DOMAIN lists[b] \ V |-> lists[b][p]]
      BY <1>10, <2>2
    <3>2. QED
      BY <1>9, <1>11, <3>1
  <2>5. E.lru[b] = kept /\ \A x \in Holders : x # b => E.lru[x] = H.lru[x]
    BY <1>6, <1>18 DEF TreeTyped
  <2>6. \A x \in Holders : x # b => arena'.lru[x] = lists[x]
    BY <1>10, <2>2
  <2>7. \A x \in Holders : DOMAIN arena'.lru[x] = ToSet(E.lru[x])
    BY <1>11, <1>17, <2>4, <2>5, <2>6
  <2>8. QED
    BY <2>1, <2>3, <2>7 DEF Mirrors
<1>23. QED
  BY <1>5, <1>13, <1>21, <1>22 DEF RTreeInv

LEMMA RustRemoveStep ==
  ASSUME RTreeInv, NEW b \in Holders, RustRemove(b)
  PROVE  RTreeInv'
<1>1. PICK T : TreeOK(T, inserted) /\ Mirrors(T, arena)
  BY DEF RTreeInv
<1>2. inserted \in Histories /\ inserted' = Forgotten(inserted, b)
  BY DEF RTreeInv, RustRemove, Forgotten
<1>3. PICK R : R = remove_backend(T, b)
  OBVIOUS
<1>4. TreeOK(R, inserted') /\ inserted' \in Histories
  BY <1>1, <1>2, <1>3, RemoveOK
<1>5. T.holders = arena.holders /\ TreeNodes(T) = TreeNodes(arena)
  BY <1>1 DEF Mirrors, TreeNodes
<1>6. arena' = [holders |-> [p \in TreeNodes(arena) |->
                  arena.holders[p] \ (IF p \in DOMAIN arena.lru[b] THEN {b} ELSE {})],
               lru |-> [arena.lru EXCEPT ![b] = <<>>]]
  BY DEF RustRemove
<1>7. DOMAIN arena.lru[b] = ToSet(T.lru[b])
  BY <1>1 DEF Mirrors
<1>8. R.holders = arena'.holders /\ R.lru = [T.lru EXCEPT ![b] = <<>>]
  BY <1>3, <1>5, <1>6, <1>7 DEF remove_backend
<1>9. T.lru \in [Holders -> Seq(TreeNodes(T))]
  BY <1>1 DEF TreeOK, TreeTyped
<1>10. arena'.lru = [arena.lru EXCEPT ![b] = <<>>] /\ arena.lru = [x \in Holders |-> arena.lru[x]]
  BY <1>1, <1>6 DEF Mirrors
<1>11. arena'.lru = [x \in Holders |-> arena'.lru[x]]
  BY <1>10
<1>12. ASSUME NEW x \in Holders PROVE DOMAIN arena'.lru[x] = ToSet(R.lru[x])
  <2>1. CASE x = b
    <3>1. arena'.lru[x] = <<>> /\ R.lru[x] = <<>>
      BY <1>8, <1>9, <1>10, <2>1
    <3>2. DOMAIN <<>> = {}
      OBVIOUS
    <3>3. ToSet(<<>>) = {}
      BY <3>2, Zenon DEF ToSet
    <3>4. QED
      BY <3>1, <3>2, <3>3
  <2>2. CASE x # b
    <3>1. arena'.lru[x] = arena.lru[x] /\ R.lru[x] = T.lru[x]
      BY <1>8, <1>9, <1>10, <2>2
    <3>2. QED
      BY <1>1, <3>1 DEF Mirrors
  <2>3. QED
    BY <2>1, <2>2
<1>13. QED
  BY <1>4, <1>8, <1>11, <1>12 DEF RTreeInv, Mirrors

(* The arena mirrors a tree that agrees with the insertions.               *)
THEOREM RustTreeInvHolds == RTreeSpec => []RTreeInv
<1>1. RTreeInit => RTreeInv
  <2> SUFFICES ASSUME RTreeInit PROVE RTreeInv
    OBVIOUS
  <2>1. TreeOK(EmptyTree, inserted) /\ inserted \in Histories
    BY EmptyOK DEF RTreeInit
  <2>2. DOMAIN <<>> = {}
    OBVIOUS
  <2>3. ToSet(<<>>) = {}
    BY <2>2, Zenon DEF ToSet
  <2>4. arena = EmptyTree
    BY DEF RTreeInit, EmptyTree
  <2>5. Mirrors(EmptyTree, arena)
    BY <2>2, <2>3, <2>4 DEF Mirrors, EmptyTree
  <2>6. QED
    BY <2>1, <2>5 DEF RTreeInv
<1>2. RTreeInv /\ [RTreeNext]_rtreeVars => RTreeInv'
  <2> SUFFICES ASSUME RTreeInv, [RTreeNext]_rtreeVars PROVE RTreeInv'
    OBVIOUS
  <2>1. ASSUME NEW h \in Runs, NEW b \in Holders, RustInsert(h, b) PROVE RTreeInv'
    <3>1. h \in AllRuns
      BY RustTreeAssumption DEF AllRuns
    <3>2. QED
      BY <2>1, <3>1, RustInsertStep
  <2>2. ASSUME NEW b \in Holders, RustRemove(b) PROVE RTreeInv'
    BY <2>2, RustRemoveStep
  <2>3. CASE UNCHANGED rtreeVars
    BY <2>3 DEF rtreeVars, RTreeInv
  <2>4. QED
    BY <2>1, <2>2, <2>3 DEF RTreeNext
<1>3. QED
  BY <1>1, <1>2, PTL DEF RTreeSpec

LEMMA RustTreeAgrees == ASSUME RTreeInv PROVE RustMatchAgrees /\ RustHoldingsBounded
<1>1. PICK T : TreeOK(T, inserted) /\ Mirrors(T, arena)
  BY DEF RTreeInv
<1>2. PICK sn \in Histories : sn = inserted
  BY DEF RTreeInv
<1>3. TreeOK(T, sn)
  BY <1>1, <1>2
<1>4. T.holders = arena.holders /\ TreeNodes(T) = TreeNodes(arena)
  BY <1>1 DEF Mirrors, TreeNodes
<1>5. RustHoldingsBounded
  <2> SUFFICES ASSUME NEW b \in Holders
               PROVE  /\ DOMAIN arena.lru[b] = {p \in TreeNodes(arena) : b \in arena.holders[p]}
                      /\ Blocks(TreeNodes(arena), DOMAIN arena.lru[b]) <= CacheBlocks
    BY DEF RustHoldingsBounded
  <2>1. Weight(TreeNodes(T), ToSet(T.lru[b])) <= CacheBlocks
    BY <1>3 DEF TreeOK, Budget
  <2>2. DOMAIN arena.lru[b] = ToSet(T.lru[b])
    BY <1>1 DEF Mirrors
  <2>3. ToSet(T.lru[b]) = {p \in TreeNodes(T) : b \in T.holders[p]}
    BY <1>3 DEF TreeOK, Listed
  <2>4. Blocks(TreeNodes(arena), DOMAIN arena.lru[b]) = Weight(TreeNodes(T), ToSet(T.lru[b]))
    BY <1>4, <2>2 DEF Blocks, Weight
  <2>5. QED
    BY <1>4, <2>1, <2>2, <2>3, <2>4
<1>6. RustMatchAgrees
  <2> SUFFICES ASSUME NEW h \in Runs, NEW b \in Holders
               PROVE  LET found == match_prefix(h)[b]
                          best == Max({0} \cup {Shared(h, s) : s \in inserted[b]})
                      IN  /\ found <= best
                          /\ \A p \in Visited(TreeNodes(arena), h) : Len(p) <= found => b \in arena.holders[p]
                          /\ Cardinality(UNION {Prefixes(s) \ {<<>>} : s \in inserted[b]}) <= CacheBlocks => found = best
    BY DEF RustMatchAgrees
  <2>1. h \in AllRuns
    BY RustTreeAssumption DEF AllRuns
  <2>2. Max({0} \cup {Shared(h, s) : s \in inserted[b]}) = Longest(h, sn[b])
    BY <1>2 DEF Longest
  <2>3. Cardinality(UNION {Prefixes(s) \ {<<>>} : s \in inserted[b]}) <= CacheBlocks <=> Roomy(sn[b])
    BY <1>2 DEF Roomy, AllBlocks
  <2>4. match_prefix(h)[b] = match(T, h)[b]
    BY <1>4 DEF match_prefix, match
  <2>5. /\ match(T, h)[b] \in Nat
        /\ match(T, h)[b] <= Longest(h, sn[b])
        /\ \A p \in Visited(TreeNodes(T), h) : Len(p) <= match(T, h)[b] => b \in T.holders[p]
    BY <1>3, <2>1, MatchWasGiven
  <2>6. Roomy(sn[b]) => Longest(h, sn[b]) <= match(T, h)[b]
    BY <1>3, <2>1, MatchFindsAll
  <2>7. Longest(h, sn[b]) \in Nat
    <3>1. sn[b] \in SUBSET AllRuns
      BY <1>2 DEF Histories
    <3>2. QED
      BY <2>1, <3>1, LongestIs
  <2>8. PICK m \in Nat, n \in Nat : m = match(T, h)[b] /\ n = Longest(h, sn[b])
    BY <2>5, <2>7
  <2>9. m <= n /\ (Roomy(sn[b]) => m = n)
    <3>1. m <= n /\ (Roomy(sn[b]) => n <= m)
      BY <2>5, <2>6, <2>8
    <3>2. QED
      BY <3>1
  <2>10. \A p \in Visited(TreeNodes(arena), h) : Len(p) <= m => b \in arena.holders[p]
    BY <1>4, <2>5, <2>8
  <2>11. match_prefix(h)[b] = m /\ Max({0} \cup {Shared(h, s) : s \in inserted[b]}) = n
    BY <2>2, <2>4, <2>8
  <2>12. QED
    BY <2>3, <2>9, <2>10, <2>11
<1>7. QED
  BY <1>5, <1>6
-----------------------------------------------------------------------------
(* The router of the Rust gateway                                          *)

RustViews == [match : [Holders -> Nat], inflight : [Holders -> Nat], kvHigh : [Holders -> BOOLEAN]]

(* What the Python router sees of the same fleet when no peer reports.     *)
AsPython(w) == [match |-> w.match, inflight |-> w.inflight, kvHigh |-> w.kvHigh,
                peerBad |-> [b \in DOMAIN w.kvHigh |-> FALSE]]

LEMMA AsPythonIs ==
  ASSUME NEW w \in RustViews
  PROVE  /\ AsPython(w) \in RouterViews
         /\ AsPython(w).inflight = w.inflight /\ AsPython(w).match = w.match
         /\ \A b \in Holders : Saturated(AsPython(w), b) <=> w.kvHigh[b] \/ w.inflight[b] > InflightLimit
<1>1. DOMAIN w.kvHigh = Holders
  BY DEF RustViews
<1>2. PICK v : v = AsPython(w)
  OBVIOUS
<1>3. v = [match |-> w.match, inflight |-> w.inflight, kvHigh |-> w.kvHigh, peerBad |-> [b \in Holders |-> FALSE]]
  BY <1>1, <1>2 DEF AsPython
<1>4. v \in RouterViews
  <2>1. w.match \in [Holders -> Nat] /\ w.inflight \in [Holders -> Nat] /\ w.kvHigh \in [Holders -> BOOLEAN]
    BY DEF RustViews
  <2>2. [b \in Holders |-> FALSE] \in [Holders -> BOOLEAN]
    OBVIOUS
  <2>3. QED
    BY <1>3, <2>1, <2>2 DEF RouterViews
<1>5. \A b \in Holders : v.peerBad[b] = FALSE /\ v.kvHigh[b] = w.kvHigh[b] /\ v.inflight[b] = w.inflight[b]
  BY <1>3
<1>6. \A b \in Holders : Saturated(v, b) <=> w.kvHigh[b] \/ w.inflight[b] > InflightLimit
  BY <1>5 DEF Saturated
<1>7. v.inflight = w.inflight /\ v.match = w.match
  BY <1>3
<1>8. QED
  BY <1>2, <1>4, <1>6, <1>7

(* saturating_sub and max(0, .) agree.                                     *)
LEMMA EstimatesAgree ==
  ASSUME NEW w \in RustViews, NEW tokens \in Nat, NEW b \in Holders
  PROVE  est_ttft(w, tokens, b) = _est_ttft(AsPython(w), tokens, b) /\ est_ttft(w, tokens, b) \in Nat
<1>1. PICK v \in RouterViews : v = AsPython(w) /\ v.inflight = w.inflight /\ v.match = w.match
  BY AsPythonIs
<1>2. w.match[b] \in Nat
  BY DEF RustViews
<1>3. PICK c \in Nat : c = w.match[b] * BlockTokens
  BY <1>2, TimesNat, RouterAssumption
<1>4. (IF c >= tokens THEN 0 ELSE tokens - c) = (IF tokens - c > 0 THEN tokens - c ELSE 0)
  OBVIOUS
<1>5. est_ttft(w, tokens, b) = _est_ttft(v, tokens, b)
  BY <1>1, <1>3, <1>4 DEF est_ttft, _est_ttft
<1>6. QED
  BY <1>1, <1>5, EstimateIsNat

Scores == [ttft : Nat, backend : Holders]
Accs == [scored : Seq(Scores), fallback : Seq(Holders)]

(* The scored form of a list of backends.                                  *)
Score(w, tokens, b) == [ttft |-> est_ttft(w, tokens, b), backend |-> b]
Scored(w, tokens, s) == [i \in DOMAIN s |-> Score(w, tokens, s[i])]

LEMMA ScoreIs ==
  ASSUME NEW w \in RustViews, NEW tokens \in Nat, NEW b \in Holders
  PROVE  Score(w, tokens, b) \in Scores
BY EstimatesAgree DEF Score, Scores

LEMMA ScoredIs ==
  ASSUME NEW w \in RustViews, NEW tokens \in Nat, NEW s \in Seq(Holders)
  PROVE  /\ Scored(w, tokens, s) \in Seq(Scores)
         /\ DOMAIN Scored(w, tokens, s) = DOMAIN s /\ Len(Scored(w, tokens, s)) = Len(s)
         /\ \A i \in DOMAIN s : Scored(w, tokens, s)[i] = Score(w, tokens, s[i])
         /\ Scored(w, tokens, s) = <<>> <=> s = <<>>
<1>1. PICK n \in Nat : n = Len(s) /\ DOMAIN s = 1 .. n /\ \A i \in 1 .. n : s[i] \in Holders
  OBVIOUS
<1>2. PICK t : t = Scored(w, tokens, s)
  OBVIOUS
<1>3. t = [i \in 1 .. n |-> Score(w, tokens, s[i])]
  BY <1>1, <1>2 DEF Scored
<1>4. \A i \in 1 .. n : Score(w, tokens, s[i]) \in Scores
  BY <1>1, ScoreIs
<1>5. t \in Seq(Scores) /\ Len(t) = n /\ DOMAIN t = 1 .. n
  BY <1>3, <1>4
<1>6. t = <<>> <=> s = <<>>
  <2>1. t = <<>> <=> n = 0
    BY <1>5
  <2>2. s = <<>> <=> n = 0
    BY <1>1
  <2>3. QED
    BY <2>1, <2>2
<1>7. QED
  BY <1>1, <1>2, <1>3, <1>5, <1>6

LEMMA ScoredAppend ==
  ASSUME NEW w \in RustViews, NEW tokens \in Nat, NEW s \in Seq(Holders), NEW b \in Holders
  PROVE  Scored(w, tokens, Append(s, b)) = Append(Scored(w, tokens, s), Score(w, tokens, b))
<1>1. PICK n \in Nat : n = Len(s) /\ DOMAIN s = 1 .. n
  OBVIOUS
<1>2. PICK t \in Seq(Scores) : /\ t = Scored(w, tokens, s) /\ Len(t) = n
                               /\ \A i \in 1 .. n : t[i] = Score(w, tokens, s[i])
  BY <1>1, ScoredIs
<1>3. PICK c \in Scores : c = Score(w, tokens, b)
  BY ScoreIs
<1>4. PICK sb \in Seq(Holders) : sb = Append(s, b)
  <2>1. Append(s, b) \in Seq(Holders)
    OBVIOUS
  <2>2. QED
    BY <2>1
<1>4a. Len(sb) = n + 1 /\ DOMAIN sb = 1 .. (n + 1) /\ sb[n + 1] = b /\ \A i \in 1 .. n : sb[i] = s[i]
  BY <1>1, <1>4
<1>5. PICK tb \in Seq(Scores) : tb = Append(t, c)
  <2>1. Append(t, c) \in Seq(Scores)
    BY <1>2, <1>3
  <2>2. QED
    BY <2>1
<1>5a. Len(tb) = n + 1 /\ DOMAIN tb = 1 .. (n + 1) /\ tb[n + 1] = c /\ \A i \in 1 .. n : tb[i] = t[i]
  BY <1>2, <1>5
<1>6. PICK r \in Seq(Scores) : r = Scored(w, tokens, sb)
  BY ScoredIs
<1>6a. DOMAIN r = 1 .. (n + 1) /\ Len(r) = n + 1 /\ \A i \in 1 .. (n + 1) : r[i] = Score(w, tokens, sb[i])
  BY <1>4a, <1>6, ScoredIs
<1>7. \A i \in 1 .. (n + 1) : r[i] = tb[i]
  <2>1. \A i \in 1 .. n : r[i] = tb[i]
    <3>1. \A i \in 1 .. n : i \in 1 .. (n + 1)
      OBVIOUS
    <3>2. QED
      BY <1>2, <1>4a, <1>5a, <1>6a, <3>1
  <2>2. n + 1 \in 1 .. (n + 1)
    OBVIOUS
  <2>3. r[n + 1] = tb[n + 1]
    BY <1>3, <1>4a, <1>5a, <1>6a, <2>2
  <2>4. \A i \in 1 .. (n + 1) : i = n + 1 \/ i \in 1 .. n
    OBVIOUS
  <2>5. QED
    BY <2>1, <2>3, <2>4
<1>8. r = tb
  BY <1>5a, <1>6a, <1>7
<1>9. QED
  BY <1>2, <1>3, <1>4, <1>5, <1>6, <1>8

(* Filtering the scored list scores the filtered one.                      *)
LEMMA KeptScored ==
  ASSUME NEW w \in RustViews, NEW tokens \in Nat, NEW s \in Seq(Holders), NEW I
  PROVE  Kept(Scored(w, tokens, s), I) = Scored(w, tokens, Kept(s, I))
<1>1. PICK n \in Nat : n = Len(s) /\ DOMAIN s = 1 .. n
  OBVIOUS
<1>2. PICK t \in Seq(Scores) : /\ t = Scored(w, tokens, s) /\ Len(t) = n
                               /\ \A i \in 1 .. n : t[i] = Score(w, tokens, s[i])
  BY <1>1, ScoredIs
<1>3. PICK a \in [0 .. n -> Seq(Holders)] : KeptAfter(a, s, I) /\ Kept(s, I) = a[n]
  BY <1>1, KeptIsLoop
<1>4. PICK c \in [0 .. n -> Seq(Scores)] : KeptAfter(c, t, I) /\ Kept(t, I) = c[n]
  <2>1. \E c \in [0 .. Len(t) -> Seq(Scores)] : KeptAfter(c, t, I) /\ Kept(t, I) = c[Len(t)]
    BY KeptIsLoop
  <2>2. QED
    BY <1>2, <2>1
<1> DEFINE T == {k \in 0 .. n : c[k] = Scored(w, tokens, a[k])}
<1>5. 0 \in T
  <2>1. a[0] = <<>> /\ c[0] = <<>> /\ 0 \in 0 .. n
    BY <1>3, <1>4 DEF KeptAfter
  <2>2. Scored(w, tokens, a[0]) = <<>>
    BY <1>3, <2>1, ScoredIs
  <2>3. QED
    BY <2>1, <2>2
<1>6. ASSUME NEW k \in 1 .. n, k - 1 \in T PROVE k \in T
  <2>1. k \in 0 .. n /\ k - 1 \in 0 .. n
    OBVIOUS
  <2>2. c[k - 1] = Scored(w, tokens, a[k - 1]) /\ a[k - 1] \in Seq(Holders)
    BY <1>6, <2>1
  <2>3. a[k] = IF k \in I THEN Append(a[k - 1], s[k]) ELSE a[k - 1]
    BY <1>1, <1>3 DEF KeptAfter
  <2>4. c[k] = IF k \in I THEN Append(c[k - 1], Score(w, tokens, s[k])) ELSE c[k - 1]
    BY <1>2, <1>4 DEF KeptAfter
  <2>5. s[k] \in Holders
    BY <1>1
  <2>6. Scored(w, tokens, Append(a[k - 1], s[k])) = Append(Scored(w, tokens, a[k - 1]), Score(w, tokens, s[k]))
    BY <2>2, <2>5, ScoredAppend
  <2>7. c[k] = Scored(w, tokens, a[k])
    BY <2>2, <2>3, <2>4, <2>6
  <2>8. QED
    BY <2>1, <2>7
<1>7. \A k \in 0 .. n : k \in T
  BY <1>5, <1>6, UpToN
<1>8. c[n] = Scored(w, tokens, a[n])
  BY <1>7
<1>9. QED
  BY <1>2, <1>3, <1>4, <1>8

-----------------------------------------------------------------------------
(* The loop over the candidates                                            *)

Busy(w, b) == w.kvHigh[b] \/ w.inflight[b] > InflightLimit

Unscored == [scored |-> <<>>, fallback |-> <<>>]

LEMMA ScoreOneIs ==
  ASSUME NEW w \in RustViews, NEW tokens \in Nat, NEW acc \in Accs, NEW b \in Holders
  PROVE  /\ ScoreOne(w, tokens, acc, b) \in Accs
         /\ Busy(w, b) => /\ ScoreOne(w, tokens, acc, b).scored = acc.scored
                          /\ ScoreOne(w, tokens, acc, b).fallback = Fallback(w, acc.fallback, b)
         /\ ~Busy(w, b) => /\ ScoreOne(w, tokens, acc, b).scored = Append(acc.scored, Score(w, tokens, b))
                           /\ ScoreOne(w, tokens, acc, b).fallback = acc.fallback
<1>1. PICK sc \in Seq(Scores), fb \in Seq(Holders) :
        sc = acc.scored /\ fb = acc.fallback /\ acc = [scored |-> sc, fallback |-> fb]
  BY DEF Accs
<1>2. PICK res : res = ScoreOne(w, tokens, acc, b)
  OBVIOUS
<1>3. CASE Busy(w, b)
  <2>1. res = [acc EXCEPT !.fallback = Fallback(w, acc.fallback, b)]
    BY <1>2, <1>3 DEF ScoreOne, Busy
  <2>2. PICK nf \in Seq(Holders) : nf = Fallback(w, fb, b)
    <3>1. <<b>> \in Seq(Holders)
      OBVIOUS
    <3>2. Fallback(w, fb, b) \in Seq(Holders)
      BY <1>1, <3>1 DEF Fallback
    <3>3. QED
      BY <3>2
  <2>3. res = [scored |-> sc, fallback |-> nf]
    BY <1>1, <2>1, <2>2
  <2>4. QED
    BY <1>1, <1>2, <1>3, <2>2, <2>3 DEF Accs
<1>4. CASE ~Busy(w, b)
  <2>1. res = [acc EXCEPT !.scored = Append(acc.scored, Score(w, tokens, b))]
    BY <1>2, <1>4 DEF ScoreOne, Busy, Score
  <2>2. PICK ns \in Seq(Scores) : ns = Append(sc, Score(w, tokens, b))
    <3>1. Score(w, tokens, b) \in Scores
      BY ScoreIs
    <3>2. Append(sc, Score(w, tokens, b)) \in Seq(Scores)
      BY <1>1, <3>1
    <3>3. QED
      BY <3>2
  <2>3. res = [scored |-> ns, fallback |-> fb]
    BY <1>1, <2>1, <2>2
  <2>4. res \in Accs
    BY <2>2, <2>3 DEF Accs
  <2>5. res.scored = Append(acc.scored, Score(w, tokens, b)) /\ res.fallback = acc.fallback
    BY <1>1, <2>2, <2>3
  <2>6. QED
    BY <1>2, <1>4, <2>4, <2>5
<1>5. QED
  BY <1>3, <1>4

ScoredAfter(u, w, tokens, s) ==
  /\ u[0] = Unscored
  /\ \A k \in 1 .. Len(s) : u[k] = ScoreOne(w, tokens, u[k - 1], s[k])

LEMMA ScoreIsLoop ==
  ASSUME NEW w \in RustViews, NEW tokens \in Nat, NEW s \in Seq(Holders)
  PROVE  \E u \in [0 .. Len(s) -> Accs] :
           ScoredAfter(u, w, tokens, s) /\ ScoreAll(w, tokens, s) = u[Len(s)]
<1> DEFINE F == [x \in Accs \X Holders |-> ScoreOne(w, tokens, x[1], x[2])]
           Loop(g) == g = [S \in SUBSET DOMAIN s |->
                             IF S = {} THEN Unscored ELSE ScoreOne(w, tokens, g[S \ {Max(S)}], s[Max(S)])]
<1>0. Unscored \in Accs
  <2>1. <<>> \in Seq(Scores) /\ <<>> \in Seq(Holders)
    OBVIOUS
  <2>2. QED
    BY <2>1 DEF Unscored, Accs
<1>1. F \in [Accs \X Holders -> Accs] /\ \A x \in Accs, b \in Holders : F[<<x, b>>] = ScoreOne(w, tokens, x, b)
  BY ScoreOneIs
<1>2. ScoreAll(w, tokens, s) = (CHOOSE g : Loop(g))[DOMAIN s]
  BY DEF ScoreAll, FoldLeft, MapThenFoldSet, Unscored
<1> HIDE DEF F
<1>3. \E g : Loop(g)
  <2>1. PICK g \in [SUBSET DOMAIN s -> Accs] : IsFold(g, F, Unscored, s)
    BY <1>0, <1>1, FoldExists
  <2>2. ASSUME NEW S \in SUBSET DOMAIN s, S # {}
        PROVE  F[<<g[S \ {Max(S)}], s[Max(S)]>>] = ScoreOne(w, tokens, g[S \ {Max(S)}], s[Max(S)])
    <3>1. PICK m : m = Max(S)
      OBVIOUS
    <3>2. m \in DOMAIN s
      <4>1. DOMAIN s = 1 .. Len(s) /\ Len(s) \in Nat /\ S \in SUBSET (0 .. Len(s))
        OBVIOUS
      <4>2. QED
        BY <2>2, <3>1, <4>1, MaxIsGreatest
    <3>3. g[S \ {m}] \in Accs /\ s[m] \in Holders
      BY <3>2
    <3>4. QED
      BY <1>1, <3>1, <3>3
  <2>3. Loop(g)
    BY <2>1, <2>2 DEF IsFold
  <2>4. QED
    BY <2>3
<1>4. PICK g : g = CHOOSE x : Loop(x)
  OBVIOUS
<1> HIDE DEF Loop
<1>5. Loop(g)
  BY <1>3, <1>4
<1>6. PICK u : u = [k \in 0 .. Len(s) |-> g[1 .. k]]
  OBVIOUS
<1>7. u[0] = Unscored /\ \A k \in 1 .. Len(s) : u[k] = ScoreOne(w, tokens, u[k - 1], s[k])
  <2>1. u[0] = Unscored
    <3>1. 1 .. 0 = {} /\ {} \in SUBSET DOMAIN s /\ 0 \in 0 .. Len(s)
      OBVIOUS
    <3>2. QED
      BY <1>5, <1>6, <3>1 DEF Loop
  <2>2. ASSUME NEW k \in 1 .. Len(s) PROVE u[k] = ScoreOne(w, tokens, u[k - 1], s[k])
    <3>1. 1 .. k \in SUBSET DOMAIN s /\ k \in Nat /\ k > 0 /\ k - 1 \in 0 .. Len(s) /\ k \in 0 .. Len(s)
      OBVIOUS
    <3>2. 1 .. k # {} /\ Max(1 .. k) = k /\ (1 .. k) \ {k} = 1 .. (k - 1)
      BY <3>1, LastPosition
    <3>3. g[1 .. k] = ScoreOne(w, tokens, g[1 .. (k - 1)], s[k])
      BY <1>5, <3>1, <3>2 DEF Loop
    <3>4. QED
      BY <1>6, <3>1, <3>3
  <2>3. QED
    BY <2>1, <2>2
<1>8. \A k \in 0 .. Len(s) : u[k] \in Accs
  <2> DEFINE T == {k \in 0 .. Len(s) : u[k] \in Accs}
  <2>1. Len(s) \in Nat /\ 0 \in 0 .. Len(s)
    OBVIOUS
  <2>2. 0 \in T
    BY <1>0, <1>7, <2>1
  <2>3. ASSUME NEW k \in 1 .. Len(s), k - 1 \in T PROVE k \in T
    <3>1. u[k - 1] \in Accs /\ s[k] \in Holders /\ k \in 0 .. Len(s)
      BY <2>3
    <3>2. QED
      BY <1>7, <3>1, ScoreOneIs
  <2>4. \A k \in 0 .. Len(s) : k \in T
    BY <2>1, <2>2, <2>3, UpToN
  <2>5. QED
    BY <2>4
<1>9. u \in [0 .. Len(s) -> Accs] /\ ScoredAfter(u, w, tokens, s)
  BY <1>6, <1>7, <1>8 DEF ScoredAfter
<1>10. ScoreAll(w, tokens, s) = u[Len(s)]
  <2>1. DOMAIN s = 1 .. Len(s) /\ Len(s) \in 0 .. Len(s)
    OBVIOUS
  <2>2. QED
    BY <1>2, <1>4, <1>6, <2>1
<1>11. QED
  BY <1>9, <1>10

(* The backends that score are the fit ones, in the candidates' order.     *)
LEMMA ScoredAreFit ==
  ASSUME NEW w \in RustViews, NEW tokens \in Nat, NEW s \in Seq(Holders)
  PROVE  ScoreAll(w, tokens, s).scored = Scored(w, tokens, Kept(s, {i \in DOMAIN s : ~Busy(w, s[i])}))
<1>1. PICK n \in Nat : n = Len(s) /\ DOMAIN s = 1 .. n
  OBVIOUS
<1>2. PICK I : I = {i \in DOMAIN s : ~Busy(w, s[i])}
  OBVIOUS
<1>3. PICK u \in [0 .. n -> Accs] : ScoredAfter(u, w, tokens, s) /\ ScoreAll(w, tokens, s) = u[n]
  BY <1>1, ScoreIsLoop
<1>4. PICK a \in [0 .. n -> Seq(Holders)] : KeptAfter(a, s, I) /\ Kept(s, I) = a[n]
  BY <1>1, KeptIsLoop
<1> DEFINE T == {k \in 0 .. n : u[k].scored = Scored(w, tokens, a[k])}
<1>5. 0 \in T
  <2>1. a[0] = <<>> /\ u[0].scored = <<>> /\ 0 \in 0 .. n
    BY <1>3, <1>4 DEF KeptAfter, ScoredAfter, Unscored
  <2>2. Scored(w, tokens, a[0]) = <<>>
    BY <1>4, <2>1, ScoredIs
  <2>3. QED
    BY <2>1, <2>2
<1>6. ASSUME NEW k \in 1 .. n, k - 1 \in T PROVE k \in T
  <2>1. k \in 0 .. n /\ k - 1 \in 0 .. n /\ k \in DOMAIN s /\ s[k] \in Holders
    BY <1>1
  <2>2. u[k - 1].scored = Scored(w, tokens, a[k - 1]) /\ a[k - 1] \in Seq(Holders) /\ u[k - 1] \in Accs
    BY <1>3, <1>4, <1>6, <2>1
  <2>3. a[k] = IF k \in I THEN Append(a[k - 1], s[k]) ELSE a[k - 1]
    BY <1>1, <1>4 DEF KeptAfter
  <2>4. u[k] = ScoreOne(w, tokens, u[k - 1], s[k])
    BY <1>1, <1>3 DEF ScoredAfter
  <2>5. u[k].scored = IF k \in I THEN Append(u[k - 1].scored, Score(w, tokens, s[k])) ELSE u[k - 1].scored
    <3>1. CASE k \in I
      <4>1. ~Busy(w, s[k])
        BY <1>2, <3>1
      <4>2. ScoreOne(w, tokens, u[k - 1], s[k]).scored = Append(u[k - 1].scored, Score(w, tokens, s[k]))
        BY <2>1, <2>2, <4>1, ScoreOneIs
      <4>3. QED
        BY <2>4, <3>1, <4>2
    <3>2. CASE k \notin I
      <4>1. Busy(w, s[k])
        BY <1>2, <2>1, <3>2
      <4>2. ScoreOne(w, tokens, u[k - 1], s[k]).scored = u[k - 1].scored
        BY <2>1, <2>2, <4>1, ScoreOneIs
      <4>3. QED
        BY <2>4, <3>2, <4>2
    <3>3. QED
      BY <3>1, <3>2
  <2>6. Scored(w, tokens, Append(a[k - 1], s[k])) = Append(Scored(w, tokens, a[k - 1]), Score(w, tokens, s[k]))
    BY <2>1, <2>2, ScoredAppend
  <2>7. u[k].scored = Scored(w, tokens, a[k])
    BY <2>2, <2>3, <2>5, <2>6
  <2>8. QED
    BY <2>1, <2>7
<1>7. \A k \in 0 .. n : k \in T
  BY <1>5, <1>6, UpToN
<1>8. u[n].scored = Scored(w, tokens, a[n])
  BY <1>7
<1>9. QED
  BY <1>2, <1>3, <1>4, <1>8

(* The position of the earliest least loaded among the first k.            *)
Earliest(w, s, k, m) ==
  /\ m \in 1 .. k
  /\ \A j \in 1 .. k : w.inflight[s[m]] <= w.inflight[s[j]]
  /\ \A j \in 1 .. k : j < m => w.inflight[s[m]] < w.inflight[s[j]]

(* With every candidate saturated the fallback is the earliest of the      *)
(* least loaded ones.                                                      *)
LEMMA FallbackIs ==
  ASSUME NEW w \in RustViews, NEW tokens \in Nat, NEW s \in Seq(Holders), s # <<>>,
         \A i \in DOMAIN s : Busy(w, s[i])
  PROVE  \E m : Earliest(w, s, Len(s), m) /\ ScoreAll(w, tokens, s).fallback = <<s[m]>>
<1>1. PICK n \in Nat : n = Len(s) /\ DOMAIN s = 1 .. n /\ n >= 1
  <2>1. Len(s) \in Nat /\ DOMAIN s = 1 .. Len(s) /\ Len(s) >= 1
    OBVIOUS
  <2>2. QED
    BY <2>1
<1>2. \A i \in 1 .. n : s[i] \in Holders /\ w.inflight[s[i]] \in Nat
  BY <1>1 DEF RustViews
<1>3. PICK u \in [0 .. n -> Accs] : ScoredAfter(u, w, tokens, s) /\ ScoreAll(w, tokens, s) = u[n]
  BY <1>1, ScoreIsLoop
<1> DEFINE Good(k) == IF k = 0 THEN u[k].fallback = <<>>
                      ELSE \E m : Earliest(w, s, k, m) /\ u[k].fallback = <<s[m]>>
           T == {k \in 0 .. n : Good(k)}
<1>5. 0 \in T
  BY <1>3 DEF ScoredAfter, Unscored
<1>6. ASSUME NEW k \in 1 .. n, k - 1 \in T PROVE k \in T
  <2>1. k \in 0 .. n /\ k - 1 \in 0 .. n /\ k \in DOMAIN s /\ s[k] \in Holders /\ k # 0
    BY <1>1
  <2>2. u[k - 1] \in Accs /\ Good(k - 1)
    BY <1>3, <1>6, <2>1
  <2>3. u[k] = ScoreOne(w, tokens, u[k - 1], s[k])
    BY <1>1, <1>3 DEF ScoredAfter
  <2>4. u[k].fallback = Fallback(w, u[k - 1].fallback, s[k])
    <3>1. Busy(w, s[k])
      BY <2>1
    <3>2. ScoreOne(w, tokens, u[k - 1], s[k]).fallback = Fallback(w, u[k - 1].fallback, s[k])
      BY <2>1, <2>2, <3>1, ScoreOneIs
    <3>3. QED
      BY <2>3, <3>2
  <2>5. CASE k - 1 = 0
    <3>1. k = 1 /\ u[k - 1].fallback = <<>>
      BY <2>2, <2>5
    <3>2. u[k].fallback = <<s[k]>>
      BY <2>4, <3>1 DEF Fallback
    <3>3. Earliest(w, s, k, k)
      BY <1>2, <3>1 DEF Earliest
    <3>4. QED
      BY <2>1, <3>2, <3>3
  <2>6. CASE k - 1 # 0
    <3>1. PICK m : Earliest(w, s, k - 1, m) /\ u[k - 1].fallback = <<s[m]>>
      BY <2>2, <2>6
    <3>2. /\ m \in 1 .. (k - 1) /\ m \in 1 .. n
          /\ \A j \in 1 .. (k - 1) : w.inflight[s[m]] <= w.inflight[s[j]]
          /\ \A j \in 1 .. (k - 1) : j < m => w.inflight[s[m]] < w.inflight[s[j]]
      BY <3>1 DEF Earliest
    <3>3. <<s[m]>> # <<>> /\ <<s[m]>>[1] = s[m]
      OBVIOUS
    <3>4. PICK a \in Nat, c \in Nat : a = w.inflight[s[m]] /\ c = w.inflight[s[k]]
      BY <1>2, <3>2
    <3>5. \A j \in 1 .. k : j = k \/ j \in 1 .. (k - 1)
      OBVIOUS
    <3>6. \A j \in 1 .. n : w.inflight[s[j]] \in Nat
      BY <1>2
    <3>7. CASE c < a
      <4>1. u[k].fallback = <<s[k]>>
        BY <2>4, <3>1, <3>3, <3>4, <3>7 DEF Fallback
      <4>2. \A j \in 1 .. (k - 1) : c < w.inflight[s[j]]
        <5>1. ASSUME NEW j \in 1 .. (k - 1) PROVE c < w.inflight[s[j]]
          <6>1. a <= w.inflight[s[j]] /\ w.inflight[s[j]] \in Nat
            BY <3>2, <3>4, <3>6
          <6>2. QED
            BY <3>4, <3>7, <6>1
        <5>2. QED
          BY <5>1
      <4>3. \A j \in 1 .. k : c <= w.inflight[s[j]] /\ (j < k => c < w.inflight[s[j]])
        <5>1. ASSUME NEW j \in 1 .. k PROVE c <= w.inflight[s[j]] /\ (j < k => c < w.inflight[s[j]])
          <6>1. w.inflight[s[j]] \in Nat
            BY <3>6
          <6>2. CASE j = k
            BY <3>4, <6>2
          <6>3. CASE j \in 1 .. (k - 1)
            BY <3>4, <4>2, <6>1, <6>3
          <6>4. QED
            BY <3>5, <6>2, <6>3
        <5>2. QED
          BY <5>1
      <4>4. Earliest(w, s, k, k)
        BY <3>4, <4>3 DEF Earliest
      <4>5. QED
        BY <2>1, <4>1, <4>4
    <3>8. CASE ~(c < a)
      <4>1. u[k].fallback = <<s[m]>>
        BY <2>4, <3>1, <3>3, <3>4, <3>8 DEF Fallback
      <4>2. a <= c
        BY <3>4, <3>8
      <4>3. \A j \in 1 .. k : a <= w.inflight[s[j]]
        BY <3>2, <3>4, <3>5, <4>2
      <4>4. \A j \in 1 .. k : j < m => j \in 1 .. (k - 1)
        BY <3>2
      <4>5. m \in 1 .. k
        BY <3>2
      <4>6. Earliest(w, s, k, m)
        BY <3>2, <3>4, <4>3, <4>4, <4>5 DEF Earliest
      <4>7. QED
        BY <2>1, <4>1, <4>6
    <3>9. QED
      BY <3>7, <3>8
  <2>7. QED
    BY <2>5, <2>6
<1>7. \A k \in 0 .. n : k \in T
  BY <1>5, <1>6, UpToN
<1>8. Good(n) /\ n # 0
  BY <1>1, <1>7
<1>9. QED
  BY <1>1, <1>3, <1>8, SMTT(20)

(* So it is the first of the list that Python filters.                     *)
LEMMA FallbackAgrees ==
  ASSUME NEW w \in RustViews, NEW v \in RouterViews, v.inflight = w.inflight,
         NEW s \in Seq(Holders), s # <<>>, NEW m, Earliest(w, s, Len(s), m)
  PROVE  LeastLoaded(v, s)[1] = s[m]
<1>1. PICK n \in Nat : n = Len(s) /\ DOMAIN s = 1 .. n
  OBVIOUS
<1>2. \A i \in 1 .. n : s[i] \in Holders /\ w.inflight[s[i]] \in Nat
  BY <1>1 DEF RustViews
<1>3. /\ m \in 1 .. n
      /\ \A j \in 1 .. n : w.inflight[s[m]] <= w.inflight[s[j]]
      /\ \A j \in 1 .. n : j < m => w.inflight[s[m]] < w.inflight[s[j]]
  BY <1>1 DEF Earliest
<1>4. PICK L \in SUBSET Nat : L = {v.inflight[c] : c \in ToSet(s)} /\ L # {}
  <2>1. ToSet(s) = {s[i] : i \in 1 .. n}
    BY <1>1 DEF ToSet
  <2>2. {v.inflight[c] : c \in ToSet(s)} \in SUBSET Nat
    BY <1>2, <2>1
  <2>3. v.inflight[s[m]] \in {v.inflight[c] : c \in ToSet(s)}
    BY <1>3, <2>1
  <2>4. QED
    BY <2>2, <2>3
<1>5. PICK least : least = Min(L) /\ least \in L /\ \A y \in L : least <= y
  BY <1>4, MinIsLeast
<1>6. least = w.inflight[s[m]]
  <2>1. PICK j \in 1 .. n : least = w.inflight[s[j]]
    BY <1>1, <1>4, <1>5 DEF ToSet
  <2>2. w.inflight[s[m]] <= least
    BY <1>3, <2>1
  <2>3. w.inflight[s[m]] \in L
    BY <1>1, <1>3, <1>4 DEF ToSet
  <2>4. least <= w.inflight[s[m]] /\ least \in Nat /\ w.inflight[s[m]] \in Nat
    BY <1>4, <1>5, <2>3
  <2>5. QED
    BY <2>2, <2>4
<1>7. PICK I : I = {i \in DOMAIN s : v.inflight[s[i]] = least}
  OBVIOUS
<1>8. LeastLoaded(v, s) = Kept(s, I)
  BY <1>4, <1>5, <1>7 DEF LeastLoaded, Where
<1>9. PICK t \in Seq(Holders) : t = Kept(s, I)
  BY KeptInOrder
<1>10. PICK f : Embedding(f, t, s, n, I)
  BY <1>1, <1>9, KeptInOrder
<1>11. m \in I
  BY <1>1, <1>3, <1>6, <1>7
<1>12. PICK i \in DOMAIN t : f[i] = m
  BY <1>3, <1>10, <1>11 DEF Embedding
<1>13. i \in Nat /\ i >= 1 /\ 1 \in DOMAIN t
  <2>1. DOMAIN t = 1 .. Len(t) /\ Len(t) \in Nat
    OBVIOUS
  <2>2. QED
    BY <1>12, <2>1
<1>14. f[1] \in 1 .. n /\ t[1] = s[f[1]] /\ f[1] \in I
  BY <1>10, <1>13 DEF Embedding
<1>15. ~(f[1] < m)
  <2>1. v.inflight[s[f[1]]] = least
    BY <1>7, <1>14
  <2>2. f[1] < m => w.inflight[s[m]] < w.inflight[s[f[1]]]
    BY <1>3, <1>14
  <2>3. w.inflight[s[m]] \in Nat
    BY <1>2, <1>3
  <2>4. QED
    BY <1>6, <2>1, <2>2, <2>3
<1>16. 1 < i => f[1] < f[i]
  BY <1>10, <1>12, <1>13 DEF Embedding
<1>17. f[1] = m
  BY <1>3, <1>12, <1>13, <1>14, <1>15, <1>16
<1>18. QED
  BY <1>8, <1>9, <1>14, <1>17

(* Both filters of the choice, on the scored list and on the plain one.    *)
QuickScores(sc, best) == Kept(sc, {i \in DOMAIN sc : sc[i].ttft <= best + Hysteresis})

QuickOnes(v, tokens, fit, best) ==
  Kept(fit, {i \in DOMAIN fit : _est_ttft(v, tokens, fit[i]) <= best + Hysteresis})

IdlestScores(w, sc, least) == Kept(sc, {i \in DOMAIN sc : w.inflight[sc[i].backend] = least})

LeastTtft(sc) == Min({x.ttft : x \in ToSet(sc)})

LeastEstimate(v, tokens, fit) == Min({_est_ttft(v, tokens, c) : c \in ToSet(fit)})

LeastLoad(w, sc) == Min({w.inflight[x.backend] : x \in ToSet(sc)})

LEMMA FiltersAgree ==
  ASSUME NEW w \in RustViews, NEW v \in RouterViews, v = AsPython(w), NEW tokens \in Nat,
         NEW fit \in Seq(Holders), fit # <<>>, NEW best, NEW sc, sc = Scored(w, tokens, fit),
         best = LeastEstimate(v, tokens, fit)
  PROVE  /\ LeastTtft(sc) = best
         /\ QuickScores(sc, best) = Scored(w, tokens, QuickOnes(v, tokens, fit, best))
<1>1. /\ sc \in Seq(Scores) /\ DOMAIN sc = DOMAIN fit
      /\ \A i \in DOMAIN fit : sc[i] = Score(w, tokens, fit[i])
  BY ScoredIs
<1>2. \A i \in DOMAIN fit : fit[i] \in Holders
  OBVIOUS
<1>3. \A i \in DOMAIN fit : sc[i].ttft = _est_ttft(v, tokens, fit[i])
  BY <1>1, <1>2, EstimatesAgree DEF Score
<1>4. {x.ttft : x \in ToSet(sc)} = {_est_ttft(v, tokens, c) : c \in ToSet(fit)}
  <2>1. ToSet(sc) = {sc[i] : i \in DOMAIN fit} /\ ToSet(fit) = {fit[i] : i \in DOMAIN fit}
    BY <1>1 DEF ToSet
  <2>2. QED
    BY <1>3, <2>1
<1>5. PICK J : J = {i \in DOMAIN fit : _est_ttft(v, tokens, fit[i]) <= best + Hysteresis}
  OBVIOUS
<1>6. {i \in DOMAIN sc : sc[i].ttft <= best + Hysteresis} = J
  BY <1>1, <1>3, <1>5
<1>7. QuickScores(sc, best) = Kept(sc, J)
  BY <1>6 DEF QuickScores
<1>8. QuickOnes(v, tokens, fit, best) = Kept(fit, J)
  BY <1>5 DEF QuickOnes
<1>9. Kept(sc, J) = Scored(w, tokens, Kept(fit, J))
  BY KeptScored
<1>10. LeastTtft(sc) = best
  BY <1>4 DEF LeastTtft, LeastEstimate
<1>11. QED
  BY <1>7, <1>8, <1>9, <1>10

LEMMA TiesAgree ==
  ASSUME NEW w \in RustViews, NEW v \in RouterViews, v = AsPython(w), NEW tokens \in Nat,
         NEW good \in Seq(Holders), good # <<>>, NEW sc, sc = Scored(w, tokens, good),
         NEW least, least = LeastLoad(w, sc)
  PROVE  IdlestScores(w, sc, least) = Scored(w, tokens, LeastLoaded(v, good))
<1>0. v.inflight = w.inflight
  BY AsPythonIs
<1>1. /\ sc \in Seq(Scores) /\ DOMAIN sc = DOMAIN good
      /\ \A i \in DOMAIN good : sc[i] = Score(w, tokens, good[i])
  BY ScoredIs
<1>2. \A i \in DOMAIN good : sc[i].backend = good[i]
  BY <1>1 DEF Score
<1>3. {w.inflight[x.backend] : x \in ToSet(sc)} = {v.inflight[c] : c \in ToSet(good)}
  <2>1. ToSet(sc) = {sc[i] : i \in DOMAIN good} /\ ToSet(good) = {good[i] : i \in DOMAIN good}
    BY <1>1 DEF ToSet
  <2>2. QED
    BY <1>0, <1>2, <2>1
<1>4. PICK J : J = {i \in DOMAIN good : v.inflight[good[i]] = least}
  OBVIOUS
<1>5. {i \in DOMAIN sc : w.inflight[sc[i].backend] = least} = J
  BY <1>0, <1>1, <1>2, <1>4
<1>6. IdlestScores(w, sc, least) = Kept(sc, J)
  BY <1>5 DEF IdlestScores
<1>7. LeastLoaded(v, good) = Kept(good, J)
  BY <1>3, <1>4 DEF LeastLoaded, LeastLoad, Where
<1>8. Kept(sc, J) = Scored(w, tokens, Kept(good, J))
  BY KeptScored
<1>9. QED
  BY <1>6, <1>7, <1>8

LEMMA PrefixChoicesAgree ==
  ASSUME NEW w \in RustViews, NEW h \in Seq(Nat), NEW s \in Seq(Holders), s # <<>>, NEW k \in Nat
  PROVE  rust_prefix_tree(w, h, s, k) = choose_prefix_tree(AsPython(w), h, s, k)
<1>1. PICK v \in RouterViews : v = AsPython(w) /\ v.inflight = w.inflight
  BY AsPythonIs
<1>2. \A b \in Holders : Saturated(v, b) <=> Busy(w, b)
  BY <1>1, AsPythonIs DEF Busy
<1>3. PICK tokens \in Nat : tokens = Len(h) * BlockTokens
  <2>1. Len(h) \in Nat
    OBVIOUS
  <2>2. QED
    BY <2>1, TimesNat, RouterAssumption
<1>4. PICK pass : pass = ScoreAll(w, tokens, s)
  OBVIOUS
<1>5. PICK I : I = {i \in DOMAIN s : ~Busy(w, s[i])} /\ I = {i \in DOMAIN s : ~Saturated(v, s[i])}
  <2>1. \A i \in DOMAIN s : s[i] \in Holders
    OBVIOUS
  <2>2. {i \in DOMAIN s : ~Busy(w, s[i])} = {i \in DOMAIN s : ~Saturated(v, s[i])}
    BY <1>2, <2>1
  <2>3. QED
    BY <2>2
<1>6. PICK fit \in Seq(Holders) : fit = Kept(s, I)
  BY KeptInOrder
<1>7. pass.scored = Scored(w, tokens, fit)
  BY <1>4, <1>5, <1>6, ScoredAreFit
<1>8. pass.scored = <<>> <=> fit = <<>>
  BY <1>7, ScoredIs
<1>9. fit = Where(s, LAMBDA b : ~Saturated(v, b))
  BY <1>5, <1>6 DEF Where
<1>10. PICK rust : rust = rust_prefix_tree(w, h, s, k)
  OBVIOUS
<1>11. PICK python : python = choose_prefix_tree(v, h, s, k)
  OBVIOUS
<1>12. CASE fit = <<>>
  <2>1. \A i \in DOMAIN s : Busy(w, s[i])
    <3>1. ToSet(fit) = {s[i] : i \in I \cap DOMAIN s}
      BY <1>6, KeptRange
    <3>2. ToSet(fit) = {}
      BY <1>12, NonEmptyList
    <3>3. QED
      BY <1>5, <3>1, <3>2
  <2>2. PICK m : Earliest(w, s, Len(s), m) /\ pass.fallback = <<s[m]>>
    BY <1>4, <2>1, FallbackIs
  <2>3. LeastLoaded(v, s)[1] = s[m]
    BY <1>1, <2>2, FallbackAgrees
  <2>4. rust = [backend |-> pass.fallback[1], rr |-> k]
    BY <1>3, <1>4, <1>8, <1>10, <1>12 DEF rust_prefix_tree
  <2>5. Equivalent(v, tokens, s) = <<>>
    BY <1>9, <1>12 DEF Equivalent
  <2>6. python = [backend |-> LeastLoaded(v, s)[1], rr |-> k]
    BY <1>3, <1>11, <2>5 DEF choose_prefix_tree
  <2>7. pass.fallback[1] = s[m]
    BY <2>2
  <2>8. QED
    BY <1>1, <1>10, <1>11, <2>3, <2>4, <2>6, <2>7
<1>13. CASE fit # <<>>
  <2>1. PICK sc : sc = Scored(w, tokens, fit) /\ sc = pass.scored /\ sc # <<>>
    BY <1>7, <1>8, <1>13
  <2>2. PICK best : best = LeastEstimate(v, tokens, fit)
    OBVIOUS
  <2>3. PICK good : good = QuickOnes(v, tokens, fit, best)
    OBVIOUS
  <2>4. Equivalent(v, tokens, s) = good
    BY <1>9, <1>13, <2>2, <2>3 DEF Equivalent, QuickOnes, LeastEstimate, Where
  <2>5. good \in Seq(Holders) /\ good # <<>>
    <3>1. /\ Equivalent(v, tokens, s) \in Seq(Holders)
          /\ Equivalent(v, tokens, s) = <<>> <=> \A c \in ToSet(s) : Saturated(v, c)
      BY EquivalentIs
    <3>2. ToSet(fit) = {s[i] : i \in I \cap DOMAIN s} /\ ToSet(fit) # {}
      BY <1>6, <1>13, KeptRange, NonEmptyList
    <3>3. \E c \in ToSet(s) : ~Saturated(v, c)
      BY <1>5, <3>2 DEF ToSet
    <3>4. QED
      BY <2>4, <3>1, <3>3
  <2>6. LeastTtft(sc) = best /\ QuickScores(sc, best) = Scored(w, tokens, good)
    <3>0. v = AsPython(w) /\ sc = Scored(w, tokens, fit)
      BY <1>1, <2>1
    <3>1. LeastTtft(sc) = best /\ QuickScores(sc, best) = Scored(w, tokens, QuickOnes(v, tokens, fit, best))
      BY <1>13, <2>2, <3>0, FiltersAgree
    <3>2. QED
      BY <2>3, <3>1
  <2>7. PICK sg : sg = Scored(w, tokens, good)
    OBVIOUS
  <2>8. PICK least : least = LeastLoad(w, sg)
    OBVIOUS
  <2>9. PICK tied \in Seq(Holders) : tied = LeastLoaded(v, good) /\ tied # <<>>
    <3>1. LeastLoaded(v, good) \in Seq(Holders) /\ LeastLoaded(v, good) # <<>>
      BY <2>5, LeastLoadedIs
    <3>2. QED
      BY <3>1
  <2>10. IdlestScores(w, sg, least) = Scored(w, tokens, tied)
    <3>1. IdlestScores(w, sg, least) = Scored(w, tokens, LeastLoaded(v, good))
      BY <1>1, <2>5, <2>7, <2>8, TiesAgree
    <3>2. QED
      BY <2>9, <3>1
  <2>11. PICK st : st = Scored(w, tokens, tied)
    OBVIOUS
  <2>12. rust = [backend |-> st[(k % Len(st)) + 1].backend, rr |-> k + 1]
    <3>1. rust_prefix_tree(w, h, s, k)
            = LET p == ScoreAll(w, Len(h) * BlockTokens, s)
                  g == QuickScores(p.scored, LeastTtft(p.scored))
                  t == IdlestScores(w, g, LeastLoad(w, g))
              IN  IF p.scored = <<>> THEN [backend |-> p.fallback[1], rr |-> k]
                  ELSE [backend |-> t[(k % Len(t)) + 1].backend, rr |-> k + 1]
      BY DEF rust_prefix_tree, QuickScores, LeastTtft, IdlestScores, LeastLoad, Where
    <3>2. QED
      BY <1>3, <1>4, <1>10, <2>1, <2>6, <2>7, <2>8, <2>10, <2>11, <3>1
  <2>13. python = [backend |-> tied[(k % Len(tied)) + 1], rr |-> k + 1]
    BY <1>3, <1>11, <2>4, <2>5, <2>9 DEF choose_prefix_tree
  <2>14. Len(st) = Len(tied) /\ \A i \in DOMAIN tied : st[i] = Score(w, tokens, tied[i])
    BY <2>11, ScoredIs
  <2>15. (k % Len(tied)) + 1 \in DOMAIN tied
    <3>1. PICK n \in Nat \ {0} : n = Len(tied) /\ DOMAIN tied = 1 .. n
      BY <2>9, NonEmptyList
    <3>2. (k % n) + 1 \in 1 .. n
      OBVIOUS
    <3>3. QED
      BY <3>1, <3>2
  <2>16. PICK j : j = (k % Len(tied)) + 1 /\ j \in DOMAIN tied
    BY <2>15
  <2>17. st[j].backend = tied[j]
    <3>1. Score(w, tokens, tied[j]).backend = tied[j]
      BY DEF Score
    <3>2. st[j] = Score(w, tokens, tied[j])
      BY <2>14, <2>16
    <3>3. QED
      BY <3>1, <3>2
  <2>18. rust = python
    BY <2>12, <2>13, <2>14, <2>16, <2>17
  <2>19. QED
    BY <1>1, <1>10, <1>11, <2>18
<1>14. QED
  BY <1>12, <1>13

LEMMA RustChoosesAlike ==
  ASSUME NEW strategy, NEW w \in RustViews, NEW h \in Seq(Nat), NEW s \in Seq(Holders), s # <<>>,
         NEW k \in Nat
  PROVE  rust_choose(strategy, w, h, s, k) = choose(strategy, AsPython(w), h, s, k)
<1>1. CASE strategy = "round_robin"
  BY <1>1 DEF rust_choose, choose, choose_round_robin
<1>2. CASE strategy = "consistent_hash"
  BY <1>2 DEF rust_choose, choose, choose_consistent_hash
<1>3. CASE strategy # "round_robin" /\ strategy # "consistent_hash"
  BY <1>3, PrefixChoicesAgree DEF rust_choose, choose
<1>4. QED
  BY <1>1, <1>2, <1>3

(* The last call was made with arguments of their types.                   *)
RustRouterInv ==
  routed # Unasked =>
    \E s \in {"round_robin", "consistent_hash", "prefix_tree"}, v \in SomeViews,
       h \in HashRuns, c \in Orders, n \in Counters :
      routed = [strategy |-> s, view |-> v, hashes |-> h, cands |-> c, rr |-> n]

LEMMA RustRouterInvHolds == RustRouterSpec => []RustRouterInv
<1>1. RustRouterInit => RustRouterInv
  BY DEF RustRouterInit, RustRouterInv
<1>2. RustRouterInv /\ [RustRouterNext]_routed => RustRouterInv'
  <2> SUFFICES ASSUME RustRouterInv, [RustRouterNext]_routed PROVE RustRouterInv'
    OBVIOUS
  <2>1. CASE RustRouterNext
    <3>1. PICK s \in {"round_robin", "consistent_hash", "prefix_tree"}, v \in SomeViews,
               h \in HashRuns, c \in Orders, n \in Counters : RustRoute(s, v, h, c, n)
      BY <2>1 DEF RustRouterNext
    <3>2. routed' = [strategy |-> s, view |-> v, hashes |-> h, cands |-> c, rr |-> n]
      BY <3>1 DEF RustRoute
    <3>3. QED
      BY <3>1, <3>2 DEF RustRouterInv
  <2>2. CASE routed' = routed
    BY <2>2 DEF RustRouterInv
  <2>3. QED
    BY <2>1, <2>2
<1>3. QED
  BY <1>1, <1>2, PTL DEF RustRouterSpec

LEMMA RustRouterMirrors == ASSUME RustRouterInv PROVE RustRouterAgrees
<1> SUFFICES ASSUME routed # Unasked
             PROVE  rust_choose(routed.strategy, routed.view, routed.hashes, routed.cands, routed.rr)
                      = choose(routed.strategy, AsPython(routed.view), routed.hashes, routed.cands, routed.rr)
  BY DEF RustRouterAgrees, AsPython
<1>1. PICK s \in {"round_robin", "consistent_hash", "prefix_tree"}, v \in SomeViews,
           h \in HashRuns, c \in Orders, n \in Counters :
        routed = [strategy |-> s, view |-> v, hashes |-> h, cands |-> c, rr |-> n]
  BY DEF RustRouterInv
<1>2. v \in RustViews /\ h \in Seq(Nat) /\ c \in Seq(Holders) /\ c # <<>> /\ n \in Nat
  BY RustRouterAssumption DEF RustViews
<1>3. rust_choose(s, v, h, c, n) = choose(s, AsPython(v), h, c, n)
  BY <1>2, RustChoosesAlike
<1>4. QED
  BY <1>1, <1>3

(* radix_tree.rs and router.rs "mirror Python" for every number of         *)
(* backends, budget, set of prompts, cost, load and counter: whatever      *)
(* equally old node the hash map yields first, what is matched was         *)
(* inserted, is held without a gap and fits the budget, all of it while    *)
(* nothing was evicted; and the one pass with its fallback chooses the     *)
(* backend, and leaves the counter, of the filters of router.py.           *)
THEOREM RustPortsDecideAlike == RTreeSpec /\ RustRouterSpec => []RustDecidesAlike
<1>1. RTreeInv /\ RustRouterInv => RustDecidesAlike
  BY RustTreeAgrees, RustRouterMirrors DEF RustDecidesAlike
<1>2. QED
  BY <1>1, RustTreeInvHolds, RustRouterInvHolds, PTL
=============================================================================
