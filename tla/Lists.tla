------------------------------- MODULE Lists -------------------------------
(***************************************************************************)
(* Lists the way the program filters and folds them, dictionaries, and the *)
(* facts about them that the proofs rest on.  The filter is written as the *)
(* loop it is.                                                             *)
(***************************************************************************)
EXTENDS Integers, Sequences, SequencesExt, FiniteSets, FiniteSetsExt, WellFoundedInduction, TLAPS

\* The elements of s at the positions in I, in their order.
Kept(s, I) ==
  LET upTo[k \in 0 .. Len(s)] == IF k = 0 THEN <<>>
                                 ELSE IF k \in I THEN Append(upTo[k - 1], s[k]) ELSE upTo[k - 1]
  IN  upTo[Len(s)]

\* [e for e in s if Test(e)]
Where(s, Test(_)) == Kept(s, {i \in DOMAIN s : Test(s[i])})

\* sorted(S): the members of a finite set of numbers in ascending order.
Sorted(S) ==
  CHOOSE s \in [1 .. Cardinality(S) -> S] : \A i, k \in 1 .. Cardinality(S) : i < k => s[i] < s[k]

\* map[key] = value, of a dictionary
Put(map, key, value) == [x \in DOMAIN map \cup {key} |-> IF x = key THEN value ELSE map[x]]

-----------------------------------------------------------------------------
(* Least and greatest numbers.                                             *)

(* A set of natural numbers that is not empty has a least one.             *)
LEMMA LeastNat ==
  ASSUME NEW T \in SUBSET Nat, T # {}
  PROVE  \E x \in T : \A y \in T : x <= y
<1>1. PICK R : R = OpToRel(<, Nat)
  OBVIOUS
<1>2. IsWellFoundedOn(R, Nat)
  BY <1>1, NatLessThanWellFounded
<1>3. PICK x \in T : \A y \in T : ~(<<y, x>> \in R)
  BY <1>2, WFMin
<1>4. \A y \in T : ~(y < x)
  BY <1>1, <1>3 DEF OpToRel
<1>5. QED
  BY <1>4

(* Min of such a set is that number.                                       *)
LEMMA MinIsLeast ==
  ASSUME NEW T \in SUBSET Nat, T # {}
  PROVE  Min(T) \in T /\ \A y \in T : Min(T) <= y
<1>1. PICK x \in T : \A y \in T : x <= y
  BY LeastNat
<1>2. QED
  BY <1>1 DEF Min

(* A set of natural numbers with an upper bound has a greatest one.        *)
LEMMA MaxIsGreatest ==
  ASSUME NEW n \in Nat, NEW T \in SUBSET (0 .. n), T # {}
  PROVE  Max(T) \in T /\ \A y \in T : y <= Max(T)
<1>1. PICK G \in SUBSET Nat : G = {n - y : y \in T} /\ G # {}
  <2>1. \A y \in T : n - y \in Nat
    OBVIOUS
  <2>2. {n - y : y \in T} \in SUBSET Nat /\ {n - y : y \in T} # {}
    BY <2>1
  <2>3. QED
    BY <2>2
<1>2. PICK g \in G : \A x \in G : g <= x
  BY <1>1, LeastNat
<1>3. PICK m \in T : g = n - m
  BY <1>1, <1>2
<1>4. \A y \in T : m >= y
  BY <1>1, <1>2, <1>3
<1>5. QED
  BY <1>4 DEF Max

(* Induction up to n, for a set of numbers.                                *)
LEMMA UpToN ==
  ASSUME NEW n \in Nat, NEW T \in SUBSET (0 .. n), 0 \in T,
         \A k \in 1 .. n : k - 1 \in T => k \in T
  PROVE  \A k \in 0 .. n : k \in T
<1> DEFINE Missing == (0 .. n) \ T
<1> SUFFICES ASSUME Missing # {} PROVE FALSE
  OBVIOUS
<1>1. Missing \in SUBSET Nat
  OBVIOUS
<1>2. PICK m \in Missing : \A k \in Missing : m <= k
  BY <1>1, LeastNat
<1>3. m \in 1 .. n /\ m - 1 \in 0 .. n /\ m - 1 \notin Missing
  BY <1>2
<1>4. QED
  BY <1>3

-----------------------------------------------------------------------------
(* Folds                                                                   *)

(* The equation of a fold over the positions of s, with the step as a      *)
(* function F on accumulators and elements.                                *)
IsFold(g, F, base, s) ==
  g = [S \in SUBSET DOMAIN s |-> IF S = {} THEN base ELSE F[<<g[S \ {Max(S)}], s[Max(S)]>>]]

(* It has a solution, and the solution stays within the accumulators.      *)
LEMMA FoldExists ==
  ASSUME NEW V, NEW E, NEW F \in [V \X E -> V], NEW base \in V, NEW s \in Seq(E)
  PROVE  \E g \in [SUBSET DOMAIN s -> V] : IsFold(g, F, base, s)
<1> DEFINE D == DOMAIN s
           Step(g, S) == IF S = {} THEN base ELSE F[<<g[S \ {Max(S)}], s[Max(S)]>>]
           UpTo(g, n) == \A S \in SUBSET D : (\A i \in S : i <= n) => g[S] = Step(g, S)
           Reached(n) == \E g \in [SUBSET D -> V] : UpTo(g, n)
           Missing == {n \in Nat : ~Reached(n)}
<1>0. D = 1 .. Len(s) /\ Len(s) \in Nat /\ \A i \in D : s[i] \in E
  OBVIOUS
<1>1. \A S \in SUBSET D : S # {} => Max(S) \in S /\ \A y \in S : y <= Max(S)
  <2>1. D \subseteq 0 .. Len(s)
    BY <1>0
  <2>2. QED
    BY <1>0, <2>1, MaxIsGreatest
<1>2. \A g \in [SUBSET D -> V] : \A S \in SUBSET D : Step(g, S) \in V
  <2> SUFFICES ASSUME NEW g \in [SUBSET D -> V], NEW S \in SUBSET D, S # {}
               PROVE  F[<<g[S \ {Max(S)}], s[Max(S)]>>] \in V
    OBVIOUS
  <2>1. PICK m : m = Max(S)
    OBVIOUS
  <2>2. m \in D /\ S \ {m} \in SUBSET D
    BY <1>1, <2>1
  <2>3. g[S \ {m}] \in V /\ s[m] \in E
    BY <1>0, <2>2
  <2>4. QED
    BY <2>1, <2>3
<1> HIDE DEF Step, Reached, D
<1>3. Missing = {}
  <2> SUFFICES ASSUME Missing # {} PROVE FALSE
    OBVIOUS
  <2>1. PICK m \in Missing : \A k \in Missing : m <= k
    BY LeastNat
  <2>2. m # 0
    <3>1. PICK z \in [SUBSET D -> V] : z = [S \in SUBSET D |-> base]
      <4>1. [S \in SUBSET D |-> base] \in [SUBSET D -> V]
        OBVIOUS
      <4>2. QED
        BY <4>1
    <3>2. \A S \in SUBSET D : (\A i \in S : i <= 0) => S = {}
      BY <1>0
    <3>3. UpTo(z, 0)
      BY <3>1, <3>2 DEF Step
    <3>4. QED
      BY <2>1, <3>3 DEF Reached
  <2>3. m - 1 \in Nat /\ m - 1 \notin Missing
    BY <2>1, <2>2
  <2>4. PICK g \in [SUBSET D -> V] : UpTo(g, m - 1)
    BY <2>3 DEF Reached
  <2>5. PICK h \in [SUBSET D -> V] : h = [S \in SUBSET D |-> Step(g, S)]
    <3>1. [S \in SUBSET D |-> Step(g, S)] \in [SUBSET D -> V]
      BY <1>2
    <3>2. QED
      BY <3>1
  <2>6. ASSUME NEW S \in SUBSET D, \A i \in S : i <= m PROVE h[S] = Step(h, S)
    <3>1. CASE S = {}
      BY <2>5, <3>1 DEF Step
    <3>2. CASE S # {}
      <4>1. PICK x : x = Max(S)
        OBVIOUS
      <4>2. x \in S /\ S \ {x} \in SUBSET D /\ \A i \in S \ {x} : i <= m - 1
        <5>1. x \in S /\ \A y \in S : y <= x
          BY <1>1, <3>2, <4>1
        <5>2. x <= m /\ x \in Int /\ m \in Int /\ \A y \in S : y \in Int
          BY <1>0, <2>6, <5>1
        <5>3. \A i \in S \ {x} : i <= m - 1
          BY <5>1, <5>2
        <5>4. QED
          BY <5>1, <5>3
      <4>3. h[S \ {x}] = g[S \ {x}]
        <5>1. g[S \ {x}] = Step(g, S \ {x})
          BY <2>4, <4>2
        <5>2. h[S \ {x}] = Step(g, S \ {x})
          BY <2>5, <4>2
        <5>3. QED
          BY <5>1, <5>2
      <4>4. h[S] = F[<<g[S \ {x}], s[x]>>]
        BY <2>5, <3>2, <4>1 DEF Step
      <4>5. QED
        BY <3>2, <4>1, <4>3, <4>4 DEF Step
    <3>3. QED
      BY <3>1, <3>2
  <2>7. QED
    BY <2>1, <2>6 DEF Reached
<1>4. PICK g \in [SUBSET D -> V] : UpTo(g, Len(s))
  BY <1>0, <1>3 DEF Reached
<1>5. \A S \in SUBSET D : g[S] = Step(g, S)
  BY <1>0, <1>4
<1>6. g = [S \in SUBSET D |-> Step(g, S)]
  BY <1>5
<1>7. QED
  BY <1>6 DEF IsFold, Step, D

(* The positions before k and k: the last is the greatest.                 *)
LEMMA LastPosition ==
  ASSUME NEW k \in Nat, k > 0
  PROVE  1 .. k # {} /\ Max(1 .. k) = k /\ (1 .. k) \ {k} = 1 .. (k - 1)
<1>1. k \in 1 .. k /\ \A y \in 1 .. k : k >= y
  OBVIOUS
<1>2. Max(1 .. k) = k
  BY <1>1 DEF Max
<1>3. QED
  BY <1>1, <1>2

-----------------------------------------------------------------------------
(* The filter                                                              *)

(* What the loop has kept after each position.                             *)
KeptAfter(u, s, I) ==
  /\ u[0] = <<>>
  /\ \A k \in 1 .. Len(s) : u[k] = IF k \in I THEN Append(u[k - 1], s[k]) ELSE u[k - 1]

LEMMA KeptIsLoop ==
  ASSUME NEW E, NEW s \in Seq(E), NEW I
  PROVE  \E u \in [0 .. Len(s) -> Seq(E)] : KeptAfter(u, s, I) /\ Kept(s, I) = u[Len(s)]
<1> DEFINE V == Seq(E)
           Step(v, k) == IF k \in I THEN Append(v, s[k]) ELSE v
           Loop(u) == u = [k \in 0 .. Len(s) |-> IF k = 0 THEN <<>> ELSE Step(u[k - 1], k)]
<1>1. PICK n \in Nat : n = Len(s) /\ DOMAIN s = 1 .. n
  OBVIOUS
<1>2. \A v \in V, k \in 1 .. n : Step(v, k) \in V
  BY <1>1
<1>3. Kept(s, I) = (CHOOSE u : Loop(u))[Len(s)]
  BY DEF Kept
<1> HIDE DEF Step
<1>4. \E u : Loop(u)
  <2> DEFINE UpTo(u, m) == u[0] = <<>> /\ \A k \in 1 .. m : u[k] = Step(u[k - 1], k)
             T == {m \in 0 .. n : \E u : UpTo(u, m)}
  <2>1. 0 \in T
    <3>1. UpTo([k \in {0} |-> <<>>], 0) /\ 0 \in 0 .. n
      OBVIOUS
    <3> HIDE DEF UpTo
    <3>2. QED
      BY <3>1
  <2>2. ASSUME NEW m \in 1 .. n, m - 1 \in T PROVE m \in T
    <3>1. PICK u : UpTo(u, m - 1)
      BY <2>2
    <3>2. PICK h : h = [k \in 0 .. m |-> IF k = m THEN Step(u[m - 1], m) ELSE u[k]]
      OBVIOUS
    <3>3. h[0] = <<>> /\ \A k \in 0 .. (m - 1) : h[k] = u[k]
      BY <3>1, <3>2
    <3>4. ASSUME NEW k \in 1 .. m PROVE h[k] = Step(h[k - 1], k)
      <4>1. k - 1 \in 0 .. (m - 1) /\ h[k - 1] = u[k - 1]
        BY <3>3
      <4>2. CASE k = m
        BY <3>2, <4>1, <4>2
      <4>3. CASE k # m
        <5>1. k \in 1 .. (m - 1) /\ k \in 0 .. (m - 1)
          BY <4>3
        <5>2. u[k] = Step(u[k - 1], k)
          BY <3>1, <5>1
        <5>3. QED
          BY <3>3, <4>1, <5>1, <5>2
      <4>4. QED
        BY <4>2, <4>3
    <3>5. UpTo(h, m) /\ m \in 0 .. n
      BY <3>3, <3>4
    <3>6. QED
      BY <3>5
  <2> HIDE DEF UpTo
  <2>3. n \in T
    <3>1. T \in SUBSET (0 .. n) /\ n \in 0 .. n
      OBVIOUS
    <3> HIDE DEF T
    <3>2. QED
      BY <2>1, <2>2, <3>1, UpToN
  <2>4. PICK u : UpTo(u, n)
    BY <2>3
  <2>5. PICK h : h = [k \in 0 .. n |-> u[k]]
    OBVIOUS
  <2>6. h[0] = <<>>
    BY <2>4, <2>5 DEF UpTo
  <2>7. ASSUME NEW k \in 1 .. n PROVE h[k] = Step(h[k - 1], k)
    <3>1. k \in 0 .. n /\ k - 1 \in 0 .. n
      OBVIOUS
    <3>2. QED
      BY <2>4, <2>5, <3>1 DEF UpTo
  <2>8. \A k \in 0 .. n : h[k] = IF k = 0 THEN <<>> ELSE Step(h[k - 1], k)
    BY <2>6, <2>7
  <2>9. h = [k \in 0 .. n |-> IF k = 0 THEN <<>> ELSE Step(h[k - 1], k)]
    BY <2>5, <2>8
  <2>10. QED
    BY <1>1, <2>9
<1>5. PICK u : u = CHOOSE x : Loop(x)
  OBVIOUS
<1>6. Loop(u)
  <2> HIDE DEF Loop
  <2> QED
    BY <1>4, <1>5
<1>7. u[0] = <<>> /\ \A k \in 1 .. n : u[k] = Step(u[k - 1], k)
  BY <1>1, <1>6
<1>8. \A k \in 0 .. n : u[k] \in V
  <2> DEFINE T == {k \in 0 .. n : u[k] \in V}
  <2>1. 0 \in T
    <3>1. <<>> \in V /\ 0 \in 0 .. n
      OBVIOUS
    <3> HIDE DEF V
    <3>2. QED
      BY <1>7, <3>1
  <2>2. ASSUME NEW k \in 1 .. n, k - 1 \in T PROVE k \in T
    BY <1>2, <1>7, <2>2
  <2>3. T \in SUBSET (0 .. n)
    OBVIOUS
  <2> HIDE DEF T
  <2>4. \A k \in 0 .. n : k \in T
    BY <2>1, <2>2, <2>3, UpToN
  <2>5. QED
    BY <2>4 DEF T
<1>9. u \in [0 .. n -> V]
  BY <1>1, <1>6, <1>8
<1>10. KeptAfter(u, s, I)
  BY <1>1, <1>7 DEF KeptAfter, Step
<1>11. QED
  BY <1>1, <1>3, <1>5, <1>9, <1>10

(* Kept lists the wanted elements of s, in the order of s: position i of   *)
(* it is position f[i] of s.                                               *)
Embedding(f, t, s, n, I) ==
  /\ \A i \in DOMAIN t : f[i] \in 1 .. n /\ t[i] = s[f[i]] /\ f[i] \in I
  /\ \A i, j \in DOMAIN t : i < j => f[i] < f[j]
  /\ \A k \in 1 .. n : k \in I => \E i \in DOMAIN t : f[i] = k

LEMMA EmbedSkip ==
  ASSUME NEW E, NEW s \in Seq(E), NEW I, NEW k \in 1 .. Len(s), NEW t \in Seq(E), NEW f,
         Embedding(f, t, s, k - 1, I), k \notin I
  PROVE  Embedding(f, t, s, k, I)
<1>1. \A i \in DOMAIN t : f[i] \in 1 .. k /\ t[i] = s[f[i]] /\ f[i] \in I
  BY DEF Embedding
<1>2. \A i, j \in DOMAIN t : i < j => f[i] < f[j]
  BY DEF Embedding
<1>3. ASSUME NEW q \in 1 .. k, q \in I PROVE \E i \in DOMAIN t : f[i] = q
  <2>1. q \in 1 .. (k - 1)
    BY <1>3
  <2>2. QED
    BY <1>3, <2>1 DEF Embedding
<1>4. QED
  BY <1>1, <1>2, <1>3 DEF Embedding

LEMMA EmbedAppend ==
  ASSUME NEW E, NEW s \in Seq(E), NEW I, NEW k \in 1 .. Len(s), NEW t \in Seq(E), NEW f,
         Embedding(f, t, s, k - 1, I), k \in I
  PROVE  \E h : Embedding(h, Append(t, s[k]), s, k, I)
<1>1. s[k] \in E
  OBVIOUS
<1>2. PICK n \in Nat : n = Len(t) /\ DOMAIN t = 1 .. n
  OBVIOUS
<1>3. PICK h : h = [i \in 1 .. (n + 1) |-> IF i = n + 1 THEN k ELSE f[i]]
  OBVIOUS
<1>4. PICK a : a = Append(t, s[k])
  OBVIOUS
<1>5. DOMAIN a = 1 .. (n + 1) /\ a[n + 1] = s[k] /\ \A i \in 1 .. n : a[i] = t[i]
  BY <1>1, <1>2, <1>4
<1>6. ASSUME NEW i \in 1 .. n
      PROVE  h[i] = f[i] /\ f[i] \in 1 .. (k - 1) /\ t[i] = s[f[i]] /\ f[i] \in I /\ i \in 1 .. (n + 1)
  <2>1. i \in DOMAIN t /\ i \in 1 .. (n + 1) /\ i # n + 1
    BY <1>2
  <2>2. f[i] \in 1 .. (k - 1) /\ t[i] = s[f[i]] /\ f[i] \in I
    BY <2>1 DEF Embedding
  <2>3. QED
    BY <1>3, <2>1, <2>2
<1>7. h[n + 1] = k
  BY <1>3
<1>8. ASSUME NEW i \in DOMAIN a PROVE h[i] \in 1 .. k /\ a[i] = s[h[i]] /\ h[i] \in I
  <2>1. CASE i = n + 1
    BY <1>5, <1>7, <2>1
  <2>2. CASE i \in 1 .. n
    BY <1>5, <1>6, <2>2
  <2>3. QED
    BY <1>5, <2>1, <2>2
<1>9. ASSUME NEW i \in DOMAIN a, NEW j \in DOMAIN a, i < j PROVE h[i] < h[j]
  <2>1. i \in 1 .. n /\ (j = n + 1 \/ j \in 1 .. n)
    BY <1>5, <1>9
  <2>2. CASE j = n + 1
    BY <1>6, <1>7, <2>1, <2>2
  <2>3. CASE j \in 1 .. n
    <3>1. f[i] < f[j]
      BY <1>2, <1>9, <2>1, <2>3 DEF Embedding
    <3>2. QED
      BY <1>6, <2>1, <2>3, <3>1
  <2>4. QED
    BY <2>1, <2>2, <2>3
<1>10. ASSUME NEW q \in 1 .. k, q \in I PROVE \E i \in DOMAIN a : h[i] = q
  <2>1. CASE q = k
    BY <1>5, <1>7, <2>1
  <2>2. CASE q # k
    <3>1. q \in 1 .. (k - 1)
      BY <2>2
    <3>2. PICK i \in 1 .. n : f[i] = q
      BY <1>2, <1>10, <3>1 DEF Embedding
    <3>3. QED
      BY <1>5, <1>6, <3>2
  <2>3. QED
    BY <2>1, <2>2
<1>11. Embedding(h, a, s, k, I)
  BY <1>8, <1>9, <1>10 DEF Embedding
<1>12. QED
  BY <1>4, <1>11

LEMMA KeptInOrder ==
  ASSUME NEW E, NEW s \in Seq(E), NEW I
  PROVE  Kept(s, I) \in Seq(E) /\ \E f : Embedding(f, Kept(s, I), s, Len(s), I)
<1>1. PICK u \in [0 .. Len(s) -> Seq(E)] : KeptAfter(u, s, I) /\ Kept(s, I) = u[Len(s)]
  BY KeptIsLoop
<1> DEFINE Good(k) == \E f : Embedding(f, u[k], s, k, I)
           T == {k \in 0 .. Len(s) : Good(k)}
<1>2. Good(0)
  <2>1. u[0] = <<>>
    BY <1>1 DEF KeptAfter
  <2>2. Embedding(<<>>, <<>>, s, 0, I)
    <3>1. DOMAIN <<>> = {} /\ 1 .. 0 = {}
      OBVIOUS
    <3>2. QED
      BY <3>1, Zenon DEF Embedding
  <2>3. QED
    BY <2>1, <2>2
<1>3. ASSUME NEW k \in 1 .. Len(s), Good(k - 1) PROVE Good(k)
  <2>1. k - 1 \in 0 .. Len(s)
    OBVIOUS
  <2>2. PICK f : Embedding(f, u[k - 1], s, k - 1, I)
    BY <1>3
  <2>3. PICK t \in Seq(E) : t = u[k - 1]
    BY <2>1
  <2>4. CASE k \notin I
    <3>1. u[k] = t
      BY <1>1, <2>3, <2>4 DEF KeptAfter
    <3>2. Embedding(f, t, s, k, I)
      BY <2>2, <2>3, <2>4, EmbedSkip
    <3>3. QED
      BY <3>1, <3>2
  <2>5. CASE k \in I
    <3>1. u[k] = Append(t, s[k])
      BY <1>1, <2>3, <2>5 DEF KeptAfter
    <3>2. \E h : Embedding(h, Append(t, s[k]), s, k, I)
      BY <2>2, <2>3, <2>5, EmbedAppend
    <3>3. QED
      BY <3>1, <3>2
  <2>6. QED
    BY <2>4, <2>5
<1> HIDE DEF Good
<1>4. \A k \in 0 .. Len(s) : k \in T
  <2>1. Len(s) \in Nat /\ 0 \in 0 .. Len(s) /\ \A k \in 1 .. Len(s) : k \in 0 .. Len(s)
    OBVIOUS
  <2>2. 0 \in T /\ \A k \in 1 .. Len(s) : k - 1 \in T => k \in T
    BY <1>2, <1>3, <2>1
  <2>3. QED
    BY <2>1, <2>2, UpToN
<1>5. Len(s) \in 0 .. Len(s)
  OBVIOUS
<1>6. Good(Len(s))
  BY <1>4, <1>5
<1>7. QED
  BY <1>1, <1>5, <1>6 DEF Good

(* As a set, it holds exactly the wanted elements.                         *)
LEMMA KeptRange ==
  ASSUME NEW E, NEW s \in Seq(E), NEW I
  PROVE  ToSet(Kept(s, I)) = {s[k] : k \in I \cap DOMAIN s}
<1>1. PICK t \in Seq(E) : t = Kept(s, I)
  BY KeptInOrder
<1>2. PICK f : Embedding(f, t, s, Len(s), I)
  BY <1>1, KeptInOrder
<1>3. DOMAIN s = 1 .. Len(s)
  OBVIOUS
<1>4. \A i \in DOMAIN t : \E k \in I \cap DOMAIN s : t[i] = s[k]
  BY <1>2, <1>3 DEF Embedding
<1>5. \A k \in DOMAIN s : k \in I => \E i \in DOMAIN t : t[i] = s[k]
  BY <1>2, <1>3 DEF Embedding
<1>6. QED
  BY <1>1, <1>4, <1>5 DEF ToSet
=============================================================================
