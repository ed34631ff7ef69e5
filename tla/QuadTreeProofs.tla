--------------------------- MODULE QuadTreeProofs ---------------------------
(***************************************************************************)
(* The theorems about the quad-tree, for any number of colliders, any      *)
(* depth and any capacity of the nodes: its pool of nodes is always large  *)
(* enough, no leaf holds more than a subdivision copies, and it finds      *)
(* every intersecting pair once and no other pair.                         *)
(*                                                                         *)
(* The invariant gives each node of the tree its place in a complete tree, *)
(* so that a node still to be divided has free places below it, and the    *)
(* nodes on the way to it, at each of which a collider that went on into a *)
(* child intersects the quadrant of that child only.  Where the ways of    *)
(* two intersecting colliders part, both would then have gone into the     *)
(* same quadrant: one is always at a node on the way to the other, and     *)
(* that is where they are compared.                                        *)
(*                                                                         *)
(* First come facts about recursion and sequences: that a function defined *)
(* by recursion exists, and what concatenating the sequences of a sequence *)
(* gives.  The library's theorems about recursion take an operator; here   *)
(* the step of a recursion is a function, and induction is the choice of a *)
(* least counterexample.                                                   *)
(*                                                                         *)
(* The tree names a pair in either order.  Last comes that the narrow      *)
(* phase, as Detection has it, does not mind which, and that for circles   *)
(* and rectangles World finds a contact exactly where there is one.        *)
(***************************************************************************)
EXTENDS QuadTree, Detection, SequenceTheorems, FiniteSetTheorems, WellFoundedInduction, TLAPS

Before == {ss \in Nat \X Nat : ss[1] < ss[2]}

\* A set of natural numbers that is not empty has a least element.
LEMMA LeastNatural ==
  ASSUME NEW T, T \subseteq Nat, T # {}
  PROVE  \E x \in T : \A y \in T : x <= y
<1>1. IsWellFoundedOn(Before, Nat)
  BY NatLessThanWellFounded DEF OpToRel, Before
<1>2. PICK x \in T : \A y \in T : <<y, x>> \notin Before
  BY <1>1, WFMin
<1>3. ASSUME NEW y \in T PROVE x <= y
  <2>1. x \in Nat /\ y \in Nat /\ <<y, x>> \in Nat \X Nat
    OBVIOUS
  <2>2. ~(y < x)
    BY <1>2, <2>1 DEF Before
  <2> QED
    BY <2>1, <2>2
<1> QED
  BY <1>3

\* Of elements with a rank, one has the least.
LEMMA LeastRank ==
  ASSUME NEW D, NEW rank \in [D -> Nat], NEW T, T \subseteq D, T # {}
  PROVE  \E x \in T : \A y \in D : rank[y] < rank[x] => y \notin T
<1>1. PICK r \in {rank[x] : x \in T} : \A s \in {rank[x] : x \in T} : r <= s
  <2>1. {rank[x] : x \in T} \subseteq Nat /\ {rank[x] : x \in T} # {}
    OBVIOUS
  <2> QED
    BY <2>1, LeastNatural
<1>2. PICK x \in T : rank[x] = r
  BY <1>1
<1>3. ASSUME NEW y \in D, rank[y] < rank[x], y \in T PROVE FALSE
  <2>1. rank[x] <= rank[y]
    BY <1>1, <1>2, <1>3
  <2>2. rank[x] \in Nat /\ rank[y] \in Nat
    OBVIOUS
  <2> QED
    BY <1>3, <2>1, <2>2
<1> QED
  BY <1>3

\* A bounded set of natural numbers has a greatest element.
LEMMA GreatestNatural ==
  ASSUME NEW n \in Nat, NEW T, T \subseteq 0 .. n, T # {}
  PROVE  \E x \in T : \A y \in T : y <= x
<1>1. PICK d \in {n - x : x \in T} : \A e \in {n - x : x \in T} : d <= e
  <2>1. \A x \in T : n - x \in Nat
    OBVIOUS
  <2>2. {n - x : x \in T} \subseteq Nat /\ {n - x : x \in T} # {}
    BY <2>1
  <2> QED
    BY <2>2, LeastNatural
<1>2. PICK x \in T : d = n - x
  BY <1>1
<1>3. ASSUME NEW y \in T PROVE y <= x
  <2>1. n - x <= n - y
    BY <1>1, <1>2
  <2> QED
    BY <2>1
<1> QED
  BY <1>3

-----------------------------------------------------------------------------
(* Recursion.  step gives the value at a place from the values at places   *)
(* of a lower rank.                                                        *)

LooksDown(D, V, rank, step) ==
  \A n \in D : \A f, g \in [D -> V] :
    (\A m \in D : rank[m] < rank[n] => f[m] = g[m]) => step[<<n, f>>] = step[<<n, g>>]

\* f is right at the places of a rank below r.
RightBelow(D, rank, step, f, r) ==
  \A n \in D : rank[n] < r => f[n] = step[<<n, f>>]

\* Two functions that are right below a rank agree there.
LEMMA RightBelowAgree ==
  ASSUME NEW D, NEW V, NEW rank \in [D -> Nat], NEW step, LooksDown(D, V, rank, step),
         NEW f \in [D -> V], NEW g \in [D -> V], NEW q \in Nat, NEW r \in Nat,
         RightBelow(D, rank, step, f, q), RightBelow(D, rank, step, g, r),
         NEW n \in D, rank[n] < q, rank[n] < r
  PROVE  f[n] = g[n]
<1> DEFINE T == {m \in D : rank[m] < q /\ rank[m] < r /\ f[m] # g[m]}
<1> SUFFICES ASSUME T # {} PROVE FALSE
  OBVIOUS
<1>1. PICK x \in T : \A y \in D : rank[y] < rank[x] => y \notin T
  <2>1. T \subseteq D
    OBVIOUS
  <2> HIDE DEF T
  <2> QED
    BY <2>1, LeastRank
<1>2. \A y \in D : rank[y] \in Nat
  OBVIOUS
<1>3. \A y \in D : rank[y] < rank[x] => f[y] = g[y]
  BY <1>1, <1>2
<1>4. step[<<x, f>>] = step[<<x, g>>]
  BY <1>3 DEF LooksDown
<1>5. f[x] = step[<<x, f>>] /\ g[x] = step[<<x, g>>]
  BY DEF RightBelow
<1> QED
  BY <1>4, <1>5

\* There is a function that is right below any rank.
LEMMA RightBelowExists ==
  ASSUME NEW D, NEW V, V # {}, NEW rank \in [D -> Nat],
         NEW step \in [D \X [D -> V] -> V], LooksDown(D, V, rank, step), NEW r \in Nat
  PROVE  \E f \in [D -> V] : RightBelow(D, rank, step, f, r)
<1> DEFINE T == {q \in Nat : ~\E f \in [D -> V] : RightBelow(D, rank, step, f, q)}
<1> SUFFICES ASSUME T # {} PROVE FALSE
  OBVIOUS
<1>1. PICK q \in T : \A p \in T : q <= p
  <2>1. T \subseteq Nat
    OBVIOUS
  <2> QED
    BY <2>1, LeastNatural
<1>2. \A n \in D : rank[n] \in Nat
  OBVIOUS
<1>3. q # 0
  <2>1. PICK v \in V : TRUE
    OBVIOUS
  <2>2. RightBelow(D, rank, step, [n \in D |-> v], 0)
    BY <1>2 DEF RightBelow
  <2>3. [n \in D |-> v] \in [D -> V]
    OBVIOUS
  <2>4. 0 \notin T
    BY <2>2, <2>3
  <2> QED
    BY <2>4
<1>4. q - 1 \in Nat /\ q - 1 \notin T
  BY <1>1, <1>3
<1>5. PICK f \in [D -> V] : RightBelow(D, rank, step, f, q - 1)
  BY <1>4
<1> DEFINE g == [n \in D |-> IF rank[n] < q - 1 THEN f[n] ELSE step[<<n, f>>]]
<1>6. g \in [D -> V]
  OBVIOUS
<1>7. ASSUME NEW n \in D, rank[n] < q PROVE g[n] = step[<<n, g>>]
  <2>1. \A m \in D : rank[m] < rank[n] => f[m] = g[m]
    BY <1>2, <1>7
  <2>2. step[<<n, f>>] = step[<<n, g>>]
    BY <1>6, <2>1 DEF LooksDown
  <2>3. g[n] = step[<<n, f>>]
    BY <1>5 DEF RightBelow
  <2> QED
    BY <2>2, <2>3
<1>8. RightBelow(D, rank, step, g, q)
  BY <1>7 DEF RightBelow
<1> QED
  BY <1>6, <1>8

IsRecursion(D, V, rank, step) ==
  /\ V # {} /\ rank \in [D -> Nat]
  /\ step \in [D \X [D -> V] -> V] /\ LooksDown(D, V, rank, step)

Solves(f, D, V, step) == f \in [D -> V] /\ \A n \in D : f[n] = step[<<n, f>>]

\* A recursion that goes down in rank has a solution.
LEMMA Recursion ==
  ASSUME NEW D, NEW V, NEW rank, NEW step, IsRecursion(D, V, rank, step)
  PROVE  \E f : Solves(f, D, V, step)
<1> USE DEF IsRecursion
<1> DEFINE approx(r) == CHOOSE f \in [D -> V] : RightBelow(D, rank, step, f, r)
           F == [n \in D |-> approx(rank[n] + 1)[n]]
<1>1. \A r \in Nat : approx(r) \in [D -> V] /\ RightBelow(D, rank, step, approx(r), r)
  BY RightBelowExists
<1>2. \A n \in D : rank[n] \in Nat /\ rank[n] + 1 \in Nat /\ rank[n] < rank[n] + 1
  OBVIOUS
<1> HIDE DEF approx
<1>3. F \in [D -> V]
  BY <1>1, <1>2
<1>4. ASSUME NEW n \in D PROVE F[n] = step[<<n, F>>]
  <2> DEFINE f == approx(rank[n] + 1)
  <2>1. f \in [D -> V] /\ RightBelow(D, rank, step, f, rank[n] + 1)
    BY <1>1, <1>2
  <2>2. ASSUME NEW m \in D, rank[m] < rank[n] PROVE F[m] = f[m]
    <3>1. rank[m] < rank[n] + 1
      BY <1>2, <2>2
    <3>2. /\ approx(rank[m] + 1) \in [D -> V]
          /\ RightBelow(D, rank, step, approx(rank[m] + 1), rank[m] + 1)
      BY <1>1, <1>2
    <3>3. approx(rank[m] + 1)[m] = f[m]
      BY <1>2, <2>1, <3>1, <3>2, RightBelowAgree
    <3> QED
      BY <3>3
  <2>3. step[<<n, F>>] = step[<<n, f>>]
    BY <1>3, <2>1, <2>2 DEF LooksDown
  <2>4. f[n] = step[<<n, f>>]
    BY <1>2, <2>1 DEF RightBelow
  <2> QED
    BY <2>3, <2>4
<1> QED
  BY <1>3, <1>4 DEF Solves

-----------------------------------------------------------------------------
(* Sequences that list a set: every element of it, each once.              *)

Lists(q, P) ==
  /\ q \in Seq(P)
  /\ \A x \in P : \E i \in 1 .. Len(q) : q[i] = x
  /\ \A i, j \in 1 .. Len(q) : q[i] = q[j] => i = j

\* The empty sequence lists the empty set, and one with a single element lists that
\* element.
LEMMA ListsEmpty == Lists(<<>>, {})
BY DEF Lists

LEMMA ListsSingle ==
  ASSUME NEW x PROVE Lists(<<x>>, {x})
BY DEF Lists

\* Sequences that list disjoint sets, one after the other, list their union.
LEMMA ListsConcat ==
  ASSUME NEW P, NEW Q, P \intersect Q = {}, NEW p, Lists(p, P), NEW q, Lists(q, Q)
  PROVE  Lists(p \o q, P \union Q)
<1>1. p \in Seq(P) /\ q \in Seq(Q) /\ Len(p) \in Nat /\ Len(q) \in Nat
  BY DEF Lists
<1>2. p \in Seq(P \union Q) /\ q \in Seq(P \union Q)
  BY <1>1, SeqMonotonic
<1> DEFINE r == p \o q
<1>3. /\ r \in Seq(P \union Q) /\ Len(r) = Len(p) + Len(q)
      /\ \A i \in 1 .. Len(p) : r[i] = p[i]
      /\ \A i \in Len(p) + 1 .. Len(p) + Len(q) : r[i] = q[i - Len(p)]
  BY <1>2, ConcatProperties
<1> HIDE DEF r
<1>4. ASSUME NEW i \in 1 .. Len(r)
      PROVE  \/ i \in 1 .. Len(p) /\ r[i] = p[i] /\ r[i] \in P
             \/ i - Len(p) \in 1 .. Len(q) /\ r[i] = q[i - Len(p)] /\ r[i] \in Q
  <2>1. CASE i <= Len(p)
    <3>1. i \in 1 .. Len(p)
      BY <1>1, <2>1
    <3> QED
      BY <1>1, <1>3, <3>1, ElementOfSeq
  <2>2. CASE i > Len(p)
    <3>1. i - Len(p) \in 1 .. Len(q) /\ i \in Len(p) + 1 .. Len(p) + Len(q)
      BY <1>1, <1>3, <2>2
    <3> QED
      BY <1>1, <1>3, <3>1, ElementOfSeq
  <2> QED
    BY <1>1, <2>1, <2>2
<1>5. ASSUME NEW i \in 1 .. Len(r), NEW j \in 1 .. Len(r), r[i] = r[j] PROVE i = j
  <2>1. CASE r[i] \in P
    BY <1>4, <1>5, <2>1 DEF Lists
  <2>2. CASE r[i] \in Q
    <3>1. /\ i - Len(p) \in 1 .. Len(q) /\ r[i] = q[i - Len(p)]
          /\ j - Len(p) \in 1 .. Len(q) /\ r[j] = q[j - Len(p)]
      BY <1>4, <1>5, <2>2
    <3>2. i - Len(p) = j - Len(p)
      BY <1>5, <3>1 DEF Lists
    <3> QED
      BY <1>1, <3>2
  <2> QED
    BY <1>4, <2>1, <2>2
<1>6. ASSUME NEW x \in P \union Q PROVE \E i \in 1 .. Len(r) : r[i] = x
  <2>1. CASE x \in P
    <3>1. PICK i \in 1 .. Len(p) : p[i] = x
      BY <2>1 DEF Lists
    <3>2. i \in 1 .. Len(r) /\ r[i] = x
      BY <1>1, <1>3, <3>1
    <3> QED
      BY <3>2
  <2>2. CASE x \in Q
    <3>1. PICK i \in 1 .. Len(q) : q[i] = x
      BY <2>2 DEF Lists
    <3>2. i + Len(p) \in Len(p) + 1 .. Len(p) + Len(q) /\ i + Len(p) - Len(p) = i
      BY <1>1
    <3>3. i + Len(p) \in 1 .. Len(r)
      BY <1>1, <1>3
    <3>4. r[i + Len(p)] = q[i + Len(p) - Len(p)]
      BY <1>3, <3>2
    <3> QED
      BY <3>1, <3>2, <3>3, <3>4
  <2> QED
    BY <2>1, <2>2
<1>7. Lists(r, P \union Q)
  BY <1>3, <1>5, <1>6 DEF Lists
<1> QED
  BY <1>7 DEF r

\* A sequence that lists a set is as long as the set is large.
LEMMA ListsSize ==
  ASSUME NEW P, NEW q, Lists(q, P)
  PROVE  IsFiniteSet(P) /\ Cardinality(P) = Len(q)
<1>1. q \in Seq(P) /\ Len(q) \in Nat
  BY DEF Lists
<1>2. q \in [1 .. Len(q) -> P]
  BY <1>1
<1>3. IsFiniteSet(1 .. Len(q)) /\ Cardinality(1 .. Len(q)) = Len(q)
  BY <1>1, FS_Interval
<1>4. ExistsBijection(1 .. Len(q), P)
  <2>1. q \in Bijection(1 .. Len(q), P)
    BY <1>2 DEF Lists, Bijection, Injection, Surjection, IsInjective
  <2> QED
    BY <2>1 DEF ExistsBijection
<1> QED
  BY <1>3, <1>4, FS_Bijection

-----------------------------------------------------------------------------
(* FlattenSeq.                                                             *)

\* FlattenSeq goes through the prefixes.
LEMMA FlattenByPrefix ==
  ASSUME NEW S, NEW seqs \in Seq(Seq(S)), seqs # <<>>
  PROVE  \E f \in [1 .. Len(seqs) -> Seq(S)] :
           /\ f[1] = seqs[1]
           /\ \A i \in 2 .. Len(seqs) : f[i] = f[i - 1] \o seqs[i]
           /\ FlattenSeq(seqs) = f[Len(seqs)]
<1> DEFINE D == 1 .. Len(seqs)
           V == Seq(S)
           rank == [i \in D |-> i]
           value(i, f) == IF i = 1 THEN seqs[1] ELSE f[i - 1] \o seqs[i]
           step == [nf \in D \X [D -> V] |-> value(nf[1], nf[2])]
<1>1. Len(seqs) \in Nat /\ Len(seqs) > 0
  OBVIOUS
<1>2. V # {} /\ rank \in [D -> Nat]
  OBVIOUS
<1>3. \A i \in D : i # 1 => i - 1 \in D
  BY <1>1
<1>4. \A i \in D, f \in [D -> V] : value(i, f) \in V /\ step[<<i, f>>] = value(i, f)
  <2> SUFFICES ASSUME NEW i \in D, NEW f \in [D -> V]
               PROVE  value(i, f) \in V /\ step[<<i, f>>] = value(i, f)
    OBVIOUS
  <2>1. seqs[i] \in V /\ seqs[1] \in V
    BY <1>1
  <2>2. i # 1 => f[i - 1] \in V
    BY <1>3
  <2> QED
    BY <2>1, <2>2
<1>5. step \in [D \X [D -> V] -> V]
  BY <1>4
<1>6. LooksDown(D, V, rank, step)
  <2> SUFFICES ASSUME NEW i \in D, NEW f \in [D -> V], NEW g \in [D -> V],
                      \A m \in D : rank[m] < rank[i] => f[m] = g[m]
               PROVE  step[<<i, f>>] = step[<<i, g>>]
    BY DEF LooksDown
  <2>1. i # 1 => f[i - 1] = g[i - 1]
    BY <1>1, <1>3
  <2>2. value(i, f) = value(i, g)
    BY <2>1
  <2> QED
    BY <1>4, <2>2
<1>7. PICK f : Solves(f, D, V, step)
  <2>1. IsRecursion(D, V, rank, step)
    BY <1>2, <1>5, <1>6 DEF IsRecursion
  <2> HIDE DEF D, V, rank, step
  <2> QED
    BY <2>1, Recursion
<1>8. f \in [D -> V] /\ \A i \in D : f[i] = value(i, f)
  BY <1>4, <1>7 DEF Solves
<1> HIDE DEF step
<1> DEFINE Flatten(h) == h = [i \in 1 .. Len(seqs) |->
                               IF i = 1 THEN seqs[i] ELSE h[i - 1] \o seqs[i]]
           h0 == CHOOSE h : Flatten(h)
<1>9. FlattenSeq(seqs) = h0[Len(seqs)]
  BY <1>1 DEF FlattenSeq
<1>10. Flatten(f)
  BY <1>8
<1>11. Flatten(h0)
  <2> HIDE DEF Flatten
  <2> QED
    BY <1>10
<1> HIDE DEF h0
<1>12. \A i \in D : h0[i] = f[i]
  <2> DEFINE T == {i \in D : h0[i] # f[i]}
  <2> SUFFICES ASSUME T # {} PROVE FALSE
    OBVIOUS
  <2>1. T \subseteq Nat
    OBVIOUS
  <2>2. PICK x \in T : \A y \in T : x <= y
    <3> HIDE DEF T
    <3> QED
      BY <2>1, LeastNatural
  <2>3. x \in D /\ h0[x] # f[x]
    OBVIOUS
  <2>4. x # 1
    BY <1>8, <1>11, <2>3
  <2>5. x - 1 \in D /\ x - 1 \notin T
    BY <1>3, <2>1, <2>2, <2>3, <2>4
  <2>6. h0[x - 1] = f[x - 1]
    BY <2>5
  <2>7. h0[x] = h0[x - 1] \o seqs[x]
    BY <1>11, <2>3, <2>4
  <2>8. f[x] = f[x - 1] \o seqs[x]
    BY <1>8, <2>3, <2>4
  <2> QED
    BY <2>3, <2>6, <2>7, <2>8
<1>13. Len(seqs) \in D /\ 1 \in D
  BY <1>1
<1>14. FlattenSeq(seqs) = f[Len(seqs)]
  BY <1>9, <1>12, <1>13
<1>15. f[1] = seqs[1] /\ \A i \in 2 .. Len(seqs) : f[i] = f[i - 1] \o seqs[i]
  <2>1. \A i \in 2 .. Len(seqs) : i \in D /\ i # 1
    BY <1>1
  <2> QED
    BY <1>8, <1>13, <2>1
<1> QED
  BY <1>8, <1>14, <1>15

\* Each of the sequences lists a part of S, and the parts are disjoint.
ListParts(seqs, parts, S) ==
  /\ seqs \in Seq(Seq(S)) /\ parts \in [1 .. Len(seqs) -> SUBSET S]
  /\ \A i \in 1 .. Len(seqs) : Lists(seqs[i], parts[i])
  /\ \A i, j \in 1 .. Len(seqs) : i # j => parts[i] \intersect parts[j] = {}

AllOf(parts) == UNION {parts[i] : i \in DOMAIN parts}

\* What the sequences list together, the flattened one lists.
LEMMA FlattenLists ==
  ASSUME NEW S, NEW seqs, NEW parts, ListParts(seqs, parts, S)
  PROVE  Lists(FlattenSeq(seqs), AllOf(parts))
<1> SUFFICES Lists(FlattenSeq(seqs), UNION {parts[i] : i \in 1 .. Len(seqs)})
  BY DEF ListParts, AllOf
<1> USE DEF ListParts
<1>1. CASE seqs = <<>>
  <2>1. FlattenSeq(seqs) = <<>> /\ 1 .. Len(seqs) = {}
    BY <1>1 DEF FlattenSeq
  <2>2. UNION {parts[i] : i \in 1 .. Len(seqs)} = {}
    BY <2>1
  <2> QED
    BY <2>1, <2>2, ListsEmpty
<1>2. CASE seqs # <<>>
  <2>1. PICK f \in [1 .. Len(seqs) -> Seq(S)] :
           /\ f[1] = seqs[1]
           /\ \A i \in 2 .. Len(seqs) : f[i] = f[i - 1] \o seqs[i]
           /\ FlattenSeq(seqs) = f[Len(seqs)]
    BY <1>2, FlattenByPrefix
  <2> DEFINE upTo(i) == UNION {parts[j] : j \in 1 .. i}
             T == {i \in 1 .. Len(seqs) : ~Lists(f[i], upTo(i))}
  <2>2. Len(seqs) \in Nat /\ Len(seqs) > 0 /\ Len(seqs) \in 1 .. Len(seqs)
    BY <1>2
  <2>3. ASSUME T # {} PROVE FALSE
    <3>1. PICK x \in T : \A y \in T : x <= y
      <4>1. T \subseteq Nat
        OBVIOUS
      <4> HIDE DEF T
      <4> QED
        BY <2>3, <4>1, LeastNatural
    <3>2. x \in 1 .. Len(seqs) /\ ~Lists(f[x], upTo(x))
      OBVIOUS
    <3>3. x # 1
      <4>1. upTo(1) = parts[1]
        <5>1. 1 .. 1 = {1}
          OBVIOUS
        <5> QED
          BY <5>1
      <4>2. 1 \in 1 .. Len(seqs)
        BY <2>2
      <4>3. Lists(f[1], parts[1])
        BY <2>1, <4>2
      <4> HIDE DEF upTo
      <4> QED
        BY <3>2, <4>1, <4>3
    <3>4. x - 1 \in 1 .. Len(seqs) /\ x \in 2 .. Len(seqs) /\ ~(x <= x - 1)
      BY <2>2, <3>2, <3>3
    <3>5. Lists(f[x - 1], upTo(x - 1))
      BY <3>1, <3>4
    <3>6. upTo(x) = upTo(x - 1) \union parts[x]
      <4>1. 1 .. x = (1 .. x - 1) \union {x}
        BY <3>2
      <4> QED
        BY <4>1
    <3>7. upTo(x - 1) \intersect parts[x] = {}
      <4>1. \A j \in 1 .. x - 1 : j \in 1 .. Len(seqs) /\ j # x
        BY <2>2, <3>2
      <4> QED
        BY <3>2, <4>1
    <3>8. Lists(f[x - 1] \o seqs[x], upTo(x - 1) \union parts[x])
      <4> HIDE DEF upTo
      <4> QED
        BY <3>2, <3>5, <3>7, ListsConcat
    <3> HIDE DEF upTo, T
    <3> QED
      BY <2>1, <3>2, <3>4, <3>6, <3>8
  <2> QED
    BY <2>1, <2>2, <2>3
<1> QED
  BY <1>1, <1>2

-----------------------------------------------------------------------------
(* What Append adds.                                                       *)

NoRepeats(s) == \A i, j \in DOMAIN s : s[i] = s[j] => i = j

\* An element that is new to a sequence does not repeat when it is appended.
LEMMA AppendNoRepeats ==
  ASSUME NEW S, NEW s \in Seq(S), NEW x \in S, NoRepeats(s), x \notin ToSet(s)
  PROVE  NoRepeats(Append(s, x))
<1>1. /\ Len(s) \in Nat /\ DOMAIN s = 1 .. Len(s) /\ DOMAIN Append(s, x) = 1 .. Len(s) + 1
      /\ \A i \in 1 .. Len(s) : Append(s, x)[i] = s[i]
      /\ Append(s, x)[Len(s) + 1] = x
  OBVIOUS
<1>2. \A i \in 1 .. Len(s) + 1 : i \in 1 .. Len(s) \/ i = Len(s) + 1
  BY <1>1
<1>3. \A i \in DOMAIN s : s[i] # x
  BY DEF ToSet
<1> QED
  BY <1>1, <1>2, <1>3 DEF NoRepeats

\* Appending adds one element to the set of the elements.
LEMMA AppendToSet ==
  ASSUME NEW S, NEW s \in Seq(S), NEW x \in S
  PROVE  ToSet(Append(s, x)) = ToSet(s) \union {x}
<1>1. /\ Len(s) \in Nat /\ DOMAIN s = 1 .. Len(s) /\ DOMAIN Append(s, x) = 1 .. Len(s) + 1
      /\ \A i \in 1 .. Len(s) : Append(s, x)[i] = s[i]
      /\ Append(s, x)[Len(s) + 1] = x
  OBVIOUS
<1>2. 1 .. Len(s) + 1 = 1 .. Len(s) \union {Len(s) + 1}
  BY <1>1
<1> QED
  BY <1>1, <1>2 DEF ToSet

-----------------------------------------------------------------------------
(* Why the tree may compare a collider only with those of the nodes above  *)
(* and below its own.  No exactness of the division is needed: the four    *)
(* quadrants share their corner, and that is enough, so rounding does no   *)
(* harm either.                                                            *)

Points == [X : Int, Y : Int]

\* Two intervals that meet each other, and both meet an interval, meet the
\* same half of it.
LEMMA SameHalf ==
  ASSUME NEW a \in Int, NEW b \in Int, NEW p \in Int, NEW q \in Int,
         NEW c \in Int, NEW h \in Nat,
         a <= b, p <= q, a <= q, p <= b,
         a <= c + h, b >= c - h, p <= c + h, q >= c - h
  PROVE  \/ a <= c /\ b >= c - h /\ p <= c /\ q >= c - h
         \/ a <= c + h /\ b >= c /\ p <= c + h /\ q >= c
OBVIOUS

\* What intersecting each of the four quadrants means, coordinate by coordinate.
LEMMA QuadrantFields ==
  ASSUME NEW c \in Points, NEW h \in [X : Nat, Y : Nat], NEW r \in Rectangles
  PROVE
    LET q == QuadrantsAround(c, h)
        left   == r.Min.X <= c.X /\ r.Max.X >= c.X - h.X
        right  == r.Min.X <= c.X + h.X /\ r.Max.X >= c.X
        bottom == r.Min.Y <= c.Y /\ r.Max.Y >= c.Y - h.Y
        top    == r.Min.Y <= c.Y + h.Y /\ r.Max.Y >= c.Y
    IN /\ DOMAIN q = 1 .. 4
       /\ Intersect(q[1], r) <=> left /\ top
       /\ Intersect(q[2], r) <=> right /\ top
       /\ Intersect(q[3], r) <=> left /\ bottom
       /\ Intersect(q[4], r) <=> right /\ bottom
BY DEF QuadrantsAround, Rectangle, Point, Points, Rectangles, Intersect

\* Two rectangles that intersect each other, and both some quadrant, both
\* intersect the same one.
LEMMA CommonQuadrant ==
  ASSUME NEW c \in Points, NEW h \in [X : Nat, Y : Nat],
         NEW q, q = QuadrantsAround(c, h),
         NEW r, Proper(r), NEW s, Proper(s), Intersect(r, s),
         Meeting(q, r) # {}, Meeting(q, s) # {}
  PROVE  Meeting(q, r) \intersect Meeting(q, s) # {}
<1> DEFINE left(x)   == x.Min.X <= c.X /\ x.Max.X >= c.X - h.X
           right(x)  == x.Min.X <= c.X + h.X /\ x.Max.X >= c.X
           bottom(x) == x.Min.Y <= c.Y /\ x.Max.Y >= c.Y - h.Y
           top(x)    == x.Min.Y <= c.Y + h.Y /\ x.Max.Y >= c.Y
<1>1. r \in Rectangles /\ s \in Rectangles
  BY DEF Proper
<1>2. \A x \in {r, s} :
        /\ Intersect(q[1], x) <=> left(x) /\ top(x)
        /\ Intersect(q[2], x) <=> right(x) /\ top(x)
        /\ Intersect(q[3], x) <=> left(x) /\ bottom(x)
        /\ Intersect(q[4], x) <=> right(x) /\ bottom(x)
  BY <1>1, QuadrantFields
<1>3. DOMAIN q = 1 .. 4
  BY <1>1, QuadrantFields
<1>4. \A x \in {r, s} : Meeting(q, x) # {} =>
        (left(x) \/ right(x)) /\ (bottom(x) \/ top(x))
  <2>1. 1 .. 4 = {1, 2, 3, 4}
    OBVIOUS
  <2> QED
    BY <1>2, <1>3, <2>1 DEF Meeting
<1>5. /\ \A x \in {r, s} : /\ x.Min.X \in Int /\ x.Max.X \in Int /\ x.Min.X <= x.Max.X
                           /\ x.Min.Y \in Int /\ x.Max.Y \in Int /\ x.Min.Y <= x.Max.Y
      /\ c.X \in Int /\ c.Y \in Int /\ h.X \in Nat /\ h.Y \in Nat
  BY DEF Proper, Rectangles, Points
<1>6. \/ left(r) /\ left(s)
      \/ right(r) /\ right(s)
  <2>1. \A x \in {r, s} : x.Min.X <= c.X + h.X /\ x.Max.X >= c.X - h.X
    BY <1>4, <1>5
  <2>2. r.Min.X <= s.Max.X /\ s.Min.X <= r.Max.X
    BY <1>5 DEF Intersect
  <2>3. /\ r.Min.X <= c.X + h.X /\ r.Max.X >= c.X - h.X
        /\ s.Min.X <= c.X + h.X /\ s.Max.X >= c.X - h.X
    BY <2>1
  <2>4. /\ r.Min.X \in Int /\ r.Max.X \in Int /\ r.Min.X <= r.Max.X
        /\ s.Min.X \in Int /\ s.Max.X \in Int /\ s.Min.X <= s.Max.X
        /\ c.X \in Int /\ h.X \in Nat
    BY <1>5
  <2> HIDE DEF left, right
  <2>5. \/ /\ r.Min.X <= c.X /\ r.Max.X >= c.X - h.X
           /\ s.Min.X <= c.X /\ s.Max.X >= c.X - h.X
        \/ /\ r.Min.X <= c.X + h.X /\ r.Max.X >= c.X
           /\ s.Min.X <= c.X + h.X /\ s.Max.X >= c.X
    BY <2>2, <2>3, <2>4, SameHalf
  <2> QED
    BY <2>5 DEF left, right
<1>7. \/ bottom(r) /\ bottom(s)
      \/ top(r) /\ top(s)
  <2>1. \A x \in {r, s} : x.Min.Y <= c.Y + h.Y /\ x.Max.Y >= c.Y - h.Y
    BY <1>4, <1>5
  <2>2. r.Min.Y <= s.Max.Y /\ s.Min.Y <= r.Max.Y
    BY <1>5 DEF Intersect
  <2>3. /\ r.Min.Y <= c.Y + h.Y /\ r.Max.Y >= c.Y - h.Y
        /\ s.Min.Y <= c.Y + h.Y /\ s.Max.Y >= c.Y - h.Y
    BY <2>1
  <2>4. /\ r.Min.Y \in Int /\ r.Max.Y \in Int /\ r.Min.Y <= r.Max.Y
        /\ s.Min.Y \in Int /\ s.Max.Y \in Int /\ s.Min.Y <= s.Max.Y
        /\ c.Y \in Int /\ h.Y \in Nat
    BY <1>5
  <2> HIDE DEF bottom, top
  <2>5. \/ /\ r.Min.Y <= c.Y /\ r.Max.Y >= c.Y - h.Y
           /\ s.Min.Y <= c.Y /\ s.Max.Y >= c.Y - h.Y
        \/ /\ r.Min.Y <= c.Y + h.Y /\ r.Max.Y >= c.Y
           /\ s.Min.Y <= c.Y + h.Y /\ s.Max.Y >= c.Y
    BY <2>2, <2>3, <2>4, SameHalf
  <2> QED
    BY <2>5 DEF bottom, top
<1>8. \E k \in {1, 2, 3, 4} : Intersect(q[k], r) /\ Intersect(q[k], s)
  BY <1>2, <1>6, <1>7
<1> QED
  BY <1>3, <1>8 DEF Meeting

\* If two intersecting colliders both go down into a single quadrant, it is
\* the same one: dividing a node never separates a pair the tree must find.
THEOREM DivisionKeepsPairs ==
  ASSUME NEW c \in Points, NEW h \in [X : Nat, Y : Nat],
         NEW q, q = QuadrantsAround(c, h),
         NEW r, Proper(r), NEW s, Proper(s), Intersect(r, s),
         GoesDown(q, r), GoesDown(q, s)
  PROVE  Down(q, r) = Down(q, s)
<1>1. PICK j \in DOMAIN q : Meeting(q, r) = {j}
  BY DEF GoesDown
<1>2. PICK k \in DOMAIN q : Meeting(q, s) = {k}
  BY DEF GoesDown
<1>3. j = k
  BY <1>1, <1>2, CommonQuadrant
<1> QED
  BY <1>1, <1>2, <1>3 DEF Down

-----------------------------------------------------------------------------
(* How many nodes a complete tree has.                                     *)

\* QuadCount satisfies the equation that defines it.
LEMMA QuadCountRecursion ==
  QuadCount = [depth \in Nat |-> IF depth = 0 THEN 1 ELSE 1 + 4 * QuadCount[depth - 1]]
<1> DEFINE value(d, f) == IF d = 0 THEN 1 ELSE 1 + 4 * f[d - 1]
           rank == [d \in Nat |-> d]
           step == [df \in Nat \X [Nat -> Nat] |-> value(df[1], df[2])]
           IsCount(h) == h = [depth \in Nat |-> IF depth = 0 THEN 1 ELSE 1 + 4 * h[depth - 1]]
<1>1. \A d \in Nat, f \in [Nat -> Nat] : value(d, f) \in Nat /\ step[<<d, f>>] = value(d, f)
  OBVIOUS
<1>2. LooksDown(Nat, Nat, rank, step)
  <2> SUFFICES ASSUME NEW d \in Nat, NEW f \in [Nat -> Nat], NEW g \in [Nat -> Nat],
                      \A m \in Nat : rank[m] < rank[d] => f[m] = g[m]
               PROVE  step[<<d, f>>] = step[<<d, g>>]
    BY DEF LooksDown
  <2>1. d # 0 => f[d - 1] = g[d - 1]
    OBVIOUS
  <2> QED
    BY <1>1, <2>1
<1>3. IsRecursion(Nat, Nat, rank, step)
  BY <1>1, <1>2 DEF IsRecursion
<1>4. PICK f : Solves(f, Nat, Nat, step)
  <2> HIDE DEF rank, step
  <2> QED
    BY <1>3, Recursion
<1>5. IsCount(f)
  BY <1>1, <1>4 DEF Solves
<1>6. QuadCount = CHOOSE h : IsCount(h)
  BY DEF QuadCount
<1> HIDE DEF IsCount
<1>7. IsCount(QuadCount)
  BY <1>5, <1>6
<1> QED
  BY <1>7 DEF IsCount

\* A tree has at least its root, and one more level four times as many nodes below it.
LEMMA QuadCountFacts ==
  /\ QuadCount \in [Nat -> Nat \ {0}] /\ QuadCount[0] = 1
  /\ \A d \in Nat : QuadCount[d + 1] = 1 + 4 * QuadCount[d]
<1>1. QuadCount[0] = 1
  BY QuadCountRecursion, Zenon
<1>2. \A d \in Nat : d # 0 => QuadCount[d] = 1 + 4 * QuadCount[d - 1]
  BY QuadCountRecursion
<1>3. ASSUME NEW d \in Nat PROVE QuadCount[d + 1] = 1 + 4 * QuadCount[d]
  <2>1. d + 1 \in Nat /\ d + 1 # 0 /\ d + 1 - 1 = d
    OBVIOUS
  <2> QED
    BY <1>2, <2>1
<1> DEFINE T == {d \in Nat : QuadCount[d] \notin Nat \ {0}}
<1>4. ASSUME T # {} PROVE FALSE
  <2>1. PICK d \in T : \A c \in T : d <= c
    <3>1. T \subseteq Nat
      OBVIOUS
    <3> HIDE DEF T
    <3> QED
      BY <1>4, <3>1, LeastNatural
  <2>2. d \in Nat /\ d # 0
    BY <1>1
  <2>3. d - 1 \in Nat /\ ~(d <= d - 1)
    BY <2>2
  <2>4. QuadCount[d - 1] \in Nat \ {0}
    BY <2>1, <2>3
  <2>5. QuadCount[d] \in Nat \ {0}
    BY <1>2, <2>2, <2>4
  <2> QED
    BY <2>5
<1>5. \A d \in Nat : QuadCount[d] \in Nat \ {0}
  BY <1>4
<1>6. DOMAIN QuadCount = Nat /\ QuadCount = [d \in Nat |-> QuadCount[d]]
  BY QuadCountRecursion, Zenon
<1> QED
  BY <1>1, <1>3, <1>5, <1>6

\* A deeper tree does not have fewer nodes.
LEMMA QuadCountMonotone ==
  ASSUME NEW c \in Nat, NEW d \in Nat, c <= d
  PROVE  QuadCount[c] <= QuadCount[d]
<1> DEFINE T == {x \in Nat : c <= x /\ ~(QuadCount[c] <= QuadCount[x])}
<1> SUFFICES ASSUME T # {} PROVE FALSE
  OBVIOUS
<1>1. PICK x \in T : \A y \in T : x <= y
  <2>1. T \subseteq Nat
    OBVIOUS
  <2> HIDE DEF T
  <2> QED
    BY <2>1, LeastNatural
<1>2. /\ x \in Nat /\ QuadCount[c] \in Nat /\ QuadCount[x] \in Nat
      /\ c <= x /\ ~(QuadCount[c] <= QuadCount[x])
  BY QuadCountFacts
<1>3. c # x
  BY <1>2
<1>4. x - 1 \in Nat /\ c <= x - 1 /\ ~(x <= x - 1)
  BY <1>2, <1>3
<1>5. QuadCount[c] <= QuadCount[x - 1] /\ QuadCount[x - 1] \in Nat
  BY <1>1, <1>4, QuadCountFacts
<1>6. QuadCount[x - 1 + 1] = 1 + 4 * QuadCount[x - 1] /\ x - 1 + 1 = x
  BY <1>4, QuadCountFacts
<1> QED
  BY <1>2, <1>5, <1>6

-----------------------------------------------------------------------------
(* The invariant.                                                          *)

InTree == 0 .. nodeIndex - 1

Inner(n) == nodes[n].Children # <<>>

Child(n, k) == nodes[n].Children[k]

\* The four quadrants an inner node was divided into.
Quarters(n) == QuadrantsOf(nodes[n].Boundary)

NodeRecords ==
  [Boundary : Rectangles, Children : {<<>>} \union [1 .. 4 -> DOMAIN nodes],
   Colliders : Seq(Entries)]

CallRecords == [node : InTree, entry : Entries, depth : 0 .. MaxDepth]

\* The nodes are as Init makes them, and those given out are the first ones.
Pool ==
  /\ nodeIndex \in 1 .. QuadCount[MaxDepth]
  /\ DOMAIN nodes = 0 .. QuadCount[MaxDepth] - 1
  /\ nodes \in [DOMAIN nodes -> NodeRecords]
  /\ \A n \in DOMAIN nodes \ InTree :
       nodes[n].Children = <<>> /\ nodes[n].Colliders = <<>>
  /\ calls \in Seq(CallRecords)

\* The place of each node in a complete tree of depth MaxDepth, counted level by
\* level, and its depth.  No two nodes have the same place, and the places below
\* a node without children are free.
Placed(dep, pos) ==
  /\ dep \in [InTree -> 0 .. MaxDepth] /\ pos \in [InTree -> Nat]
  /\ dep[Root] = 0 /\ pos[Root] = 0
  /\ \A n \in InTree : pos[n] < QuadCount[dep[n]]
  /\ \A m, n \in InTree : pos[m] = pos[n] => m = n
  /\ \A n \in InTree : Inner(n) =>
       \A k \in 1 .. 4 : /\ Child(n, k) \in InTree /\ Child(n, k) > n
                         /\ dep[Child(n, k)] = dep[n] + 1
                         /\ pos[Child(n, k)] = 4 * pos[n] + k
  /\ \A n \in InTree : ~Inner(n) =>
       \A m \in InTree, k \in 1 .. 4 : pos[m] # 4 * pos[n] + k
  /\ \A c \in InTree \ {Root} :
       \E n \in InTree : Inner(n) /\ \E k \in 1 .. 4 : c = Child(n, k)

\* The nodes on the way from the root to each node, itself included.
Ways(way) ==
  /\ way \in [InTree -> SUBSET InTree]
  /\ \A m \in InTree : Root \in way[m] /\ m \in way[m] /\ way[m] \subseteq 0 .. m
  /\ \A n \in InTree : Inner(n) =>
       \A k \in 1 .. 4 : way[Child(n, k)] = way[n] \union {Child(n, k)}
  /\ \A m \in InTree : \A n \in way[m] \ {m} :
       Inner(n) /\ \E k \in 1 .. 4 : Child(n, k) \in way[m]
  /\ \A m, n \in InTree : Inner(n) =>
       \A j, k \in 1 .. 4 : Child(n, j) \in way[m] =>
         n \in way[m] /\ (Child(n, k) \in way[m] => j = k)

\* A collider at node m went, at each node on its way, into the only quadrant it
\* intersects.
Routed(way, m, e) ==
  \A n \in InTree : Inner(n) =>
    \A k \in 1 .. 4 : Child(n, k) \in way[m] => Meeting(Quarters(n), e.Rectangle) = {k}

\* The children of a node have its quadrants for boundaries.
Quartered ==
  /\ \A n \in InTree : Proper(nodes[n].Boundary)
  /\ \A n \in InTree : Inner(n) =>
       \A k \in 1 .. 4 : nodes[Child(n, k)].Boundary = Quarters(n)[k]

Routes(way) ==
  /\ \A m \in InTree : \A e \in StoredIn(m) : Routed(way, m, e)
  /\ \A i \in DOMAIN calls : Routed(way, calls[i].node, calls[i].entry)

\* A node with children is above the greatest depth, and so is one without
\* children that is full.
Fits(dep) ==
  /\ \A n \in InTree : Inner(n) => dep[n] < MaxDepth
  /\ \A n \in InTree : ~Inner(n) /\ dep[n] < MaxDepth
       => Len(nodes[n].Colliders) <= MaxColliderNbr
  /\ \A i \in DOMAIN calls : calls[i].depth = dep[calls[i].node]

EntriesOf(s) == {s[i].entry : i \in DOMAIN s}
Distinct(s) == \A i, j \in DOMAIN s : s[i].entry = s[j].entry => i = j

AllEntries == StoredEntries \union PendingEntries

\* No collider is in two places.
Once ==
  /\ \A n \in DOMAIN nodes : NoRepeats(nodes[n].Colliders)
  /\ \A m, n \in DOMAIN nodes : m # n => StoredIn(m) \intersect StoredIn(n) = {}
  /\ Distinct(calls)
  /\ PendingEntries \intersect StoredEntries = {}

\* The colliders inserted are numbered from zero.
Numbered ==
  /\ IsFiniteSet(AllEntries)
  /\ \A e \in AllEntries : e.ColRef < Cardinality(AllEntries)

Frame ==
  /\ possiblePairs \in Seq(Entries \X Entries)
  /\ stage = "inserting" => possiblePairs = <<>>
  /\ stage = "paired" => calls = <<>>

TreeInv(dep, pos, way) ==
  Placed(dep, pos) /\ Ways(way) /\ Quartered /\ Routes(way) /\ Fits(dep)

RunningInv ==
  /\ Pool /\ Once /\ Numbered /\ Frame
  /\ \E dep, pos, way : TreeInv(dep, pos, way)

NotStarted ==
  /\ nodes = <<>> /\ nodeIndex = 1 /\ possiblePairs = <<>> /\ calls = <<>>
  /\ stage = "paired"

IInv ==
  /\ status \in {"constructed", "running"} /\ stage \in {"inserting", "paired"}
  /\ status = "constructed" => NotStarted
  /\ status = "running" => RunningInv

\* A tree that consists of the root, with nothing in it.
LEMMA RootAlone ==
  ASSUME nodeIndex' = 1, calls' = <<>>, possiblePairs' = <<>>,
         DOMAIN nodes' = 0 .. QuadCount[MaxDepth] - 1,
         \A n \in DOMAIN nodes' :
           \E b \in Rectangles : nodes'[n] = Node(b, <<>>, <<>>),
         nodes' = [n \in DOMAIN nodes' |-> nodes'[n]],
         Proper(nodes'[Root].Boundary)
  PROVE  RunningInv'
<1> DEFINE zero == [n \in {0} |-> 0]
           way == [n \in {0} |-> {0}]
<1>1. /\ QuadCount[MaxDepth] \in Nat \ {0} /\ MaxDepth \in Nat
      /\ MaxColliderNbr \in Nat /\ QuadCount[0] = 1
  BY QuadCountFacts, SizesAssumption
<1>2. InTree' = {0} /\ Root \in DOMAIN nodes'
  BY <1>1 DEF InTree, Root
<1>3. \A n \in DOMAIN nodes' : /\ nodes'[n].Boundary \in Rectangles
                               /\ nodes'[n].Children = <<>> /\ nodes'[n].Colliders = <<>>
                               /\ nodes'[n] \in NodeRecords'
  <2> SUFFICES ASSUME NEW n \in DOMAIN nodes'
               PROVE  /\ nodes'[n].Boundary \in Rectangles
                      /\ nodes'[n].Children = <<>> /\ nodes'[n].Colliders = <<>>
                      /\ nodes'[n] \in NodeRecords'
    OBVIOUS
  <2>1. PICK b \in Rectangles : nodes'[n] = Node(b, <<>>, <<>>)
    OBVIOUS
  <2> QED
    BY <2>1 DEF NodeRecords, Node
<1>4. Pool'
  <2>1. \A n \in DOMAIN nodes' : nodes'[n] \in NodeRecords'
    BY <1>3
  <2> QED
    BY <1>1, <1>3, <2>1 DEF Pool
<1>5. (StoredEntries = {} /\ PendingEntries = {})'
  BY <1>3 DEF StoredEntries, StoredIn, PendingEntries, ToSet
<1>6. Once'
  BY <1>3, <1>5 DEF Once, NoRepeats, Distinct, StoredIn, ToSet
<1>7. Numbered'
  BY <1>5, FS_EmptySet DEF Numbered, AllEntries
<1>8. Frame'
  BY DEF Frame
<1>9. TreeInv(zero, zero, way)'
  <2>1. \A n \in {0} : ~Inner(n)'
    BY <1>2, <1>3 DEF Inner, Root
  <2>2. Placed(zero, zero)'
    BY <1>1, <1>2, <2>1 DEF Placed, Root
  <2>3. Ways(way)'
    BY <1>2, <2>1 DEF Ways, Root
  <2>4. Quartered' /\ Routes(way)'
    BY <1>2, <1>3, <2>1 DEF Quartered, Routes, Root, StoredIn, ToSet
  <2>5. Fits(zero)'
    BY <1>1, <1>2, <1>3, <2>1 DEF Fits, Root
  <2> QED
    BY <2>2, <2>3, <2>4, <2>5 DEF TreeInv
<1> QED
  BY <1>4, <1>6, <1>7, <1>8, <1>9 DEF RunningInv

\* The invariant holds before the tree is initialised.
LEMMA InitHolds == Init => IInv
  BY DEF Init, IInv, NotStarted

\* QuadTree::Init makes a tree of a root without colliders.
LEMMA InitTreeHolds ==
  ASSUME IInv, InitTree PROVE IInv'
<1>1. NotStarted
  BY DEF IInv, InitTree
<1>2. /\ nodes' = [n \in 0 .. QuadCount[MaxDepth] - 1 |-> Node(Zero, <<>>, <<>>)]
      /\ nodeIndex' = 1 /\ calls' = <<>> /\ possiblePairs' = <<>>
      /\ stage' = "paired" /\ status' = "running"
  BY <1>1 DEF InitTree, NotStarted
<1>3. Zero \in Rectangles /\ Proper(Zero)
  BY DEF Zero, Proper, Rectangle, Rectangles, Point
<1>4. Root \in 0 .. QuadCount[MaxDepth] - 1
  BY QuadCountFacts, SizesAssumption DEF Root
<1>5. nodes'[Root].Boundary = Zero
  BY <1>2, <1>4 DEF Node
<1>6. RunningInv'
  BY <1>2, <1>3, <1>5, RootAlone
<1> QED
  BY <1>2, <1>6 DEF IInv

\* Clear and SetRootNodeBoundary make a tree of a root without colliders.
LEMMA BeginFrameHolds ==
  ASSUME IInv, NEW b \in Boundaries, BeginFrame(b) PROVE IInv'
<1>1. RunningInv /\ stage = "paired"
  BY DEF IInv, BeginFrame
<1>2. /\ nodes' = [Cleared EXCEPT ![Root].Boundary = b]
      /\ nodeIndex' = 1 /\ calls' = <<>> /\ possiblePairs' = <<>>
      /\ stage' = "inserting" /\ status' = "running"
  BY <1>1 DEF BeginFrame, RunningInv, Frame
<1>3. b \in Rectangles /\ Proper(b)
  BY ProperAssumption DEF Proper
<1>4. /\ DOMAIN nodes = 0 .. QuadCount[MaxDepth] - 1
      /\ \A n \in DOMAIN nodes : nodes[n].Boundary \in Rectangles
  BY <1>1 DEF RunningInv, Pool, NodeRecords
<1>5. Root \in DOMAIN nodes
  <2>1. Root \in 0 .. QuadCount[MaxDepth] - 1
    BY QuadCountFacts, SizesAssumption DEF Root
  <2> QED
    BY <1>4, <2>1
<1>6. /\ DOMAIN nodes' = DOMAIN nodes
      /\ nodes' = [n \in DOMAIN nodes' |-> nodes'[n]]
      /\ nodes'[Root] = Node(b, <<>>, <<>>)
      /\ \A n \in DOMAIN nodes \ {Root} : nodes'[n] = Node(nodes[n].Boundary, <<>>, <<>>)
  BY <1>2, <1>5 DEF Cleared, Node
<1>7. \A n \in DOMAIN nodes' : \E c \in Rectangles : nodes'[n] = Node(c, <<>>, <<>>)
  BY <1>3, <1>4, <1>6
<1>8. nodes'[Root].Boundary = b
  BY <1>6 DEF Node
<1>9. RunningInv'
  BY <1>2, <1>3, <1>4, <1>6, <1>7, <1>8, RootAlone
<1> QED
  BY <1>2, <1>9 DEF IInv

\* After Deinit the tree is as it was constructed.
LEMMA DeinitTreeHolds ==
  ASSUME IInv, DeinitTree PROVE IInv'
<1>1. RunningInv /\ stage = "paired"
  BY DEF IInv, DeinitTree
<1>2. calls = <<>>
  BY <1>1 DEF RunningInv, Frame
<1> QED
  BY <1>1, <1>2 DEF DeinitTree, IInv, NotStarted

-----------------------------------------------------------------------------
(* The activations of insertInNode.                                        *)

\* The nodes given out are nodes of the pool.
LEMMA TreeInPool ==
  ASSUME Pool PROVE InTree \subseteq DOMAIN nodes
<1>1. QuadCount[MaxDepth] \in Nat
  BY QuadCountFacts, SizesAssumption
<1> QED
  BY <1>1 DEF Pool, InTree

\* What the activation that runs next, and those after it, are known to be.
LEMMA HeadCall ==
  ASSUME RunningInv, calls # <<>>
  PROVE  /\ InTree \subseteq DOMAIN nodes
         /\ Head(calls) \in CallRecords /\ Head(calls).node \in DOMAIN nodes
         /\ Proper(Head(calls).entry.Rectangle)
         /\ 1 \in DOMAIN calls /\ calls[1] = Head(calls)
         /\ Tail(calls) \in Seq(CallRecords)
         /\ \A i \in DOMAIN Tail(calls) : i + 1 \in DOMAIN calls /\ Tail(calls)[i] = calls[i + 1]
         /\ Distinct(Tail(calls))
         /\ EntriesOf(Tail(calls)) = PendingEntries \ {Head(calls).entry}
         /\ Head(calls).entry \in PendingEntries
         /\ Head(calls).entry \notin StoredEntries
<1>1. /\ calls \in Seq(CallRecords) /\ Distinct(calls)
      /\ PendingEntries \intersect StoredEntries = {}
      /\ nodeIndex \in 1 .. QuadCount[MaxDepth]
      /\ DOMAIN nodes = 0 .. QuadCount[MaxDepth] - 1
  BY DEF RunningInv, Pool, Once
<1>2. Len(calls) \in Nat /\ Len(calls) > 0 /\ DOMAIN calls = 1 .. Len(calls)
  BY <1>1
<1>3. Head(calls) \in CallRecords /\ 1 \in DOMAIN calls /\ calls[1] = Head(calls)
  BY <1>1, <1>2
<1>4. /\ Tail(calls) \in Seq(CallRecords) /\ Len(Tail(calls)) = Len(calls) - 1
      /\ \A i \in 1 .. Len(Tail(calls)) : Tail(calls)[i] = calls[i + 1]
  BY <1>1, HeadTailProperties
<1>5. DOMAIN Tail(calls) = 1 .. Len(calls) - 1
  BY <1>4, LenProperties
<1>6. \A i \in DOMAIN Tail(calls) : i + 1 \in DOMAIN calls /\ Tail(calls)[i] = calls[i + 1]
  BY <1>2, <1>4, <1>5
<1>7. InTree \subseteq DOMAIN nodes
  BY TreeInPool DEF RunningInv
<1>8. Head(calls).node \in DOMAIN nodes
  BY <1>3, <1>7 DEF CallRecords
<1>9. Proper(Head(calls).entry.Rectangle)
  BY <1>3, ProperAssumption DEF CallRecords, Entries
<1>10. Distinct(Tail(calls))
  <2> SUFFICES ASSUME NEW i \in DOMAIN Tail(calls), NEW j \in DOMAIN Tail(calls),
                      Tail(calls)[i].entry = Tail(calls)[j].entry
               PROVE  i = j
    BY DEF Distinct
  <2>1. i + 1 = j + 1
    BY <1>1, <1>6 DEF Distinct
  <2> QED
    BY <1>5, <2>1
<1>11. ASSUME NEW x PROVE x \in EntriesOf(Tail(calls)) <=> x \in PendingEntries \ {Head(calls).entry}
  <2>1. ASSUME x \in EntriesOf(Tail(calls))
        PROVE  x \in PendingEntries \ {Head(calls).entry}
    <3>1. PICK i \in DOMAIN Tail(calls) : x = Tail(calls)[i].entry
      BY <2>1 DEF EntriesOf
    <3>2. i + 1 \in DOMAIN calls /\ x = calls[i + 1].entry /\ i + 1 # 1
      BY <1>5, <1>6, <3>1
    <3>3. x # calls[1].entry
      BY <1>1, <1>3, <3>2 DEF Distinct
    <3> QED
      BY <1>3, <3>2, <3>3 DEF PendingEntries
  <2>2. ASSUME x \in PendingEntries \ {Head(calls).entry}
        PROVE  x \in EntriesOf(Tail(calls))
    <3>1. PICK i \in DOMAIN calls : x = calls[i].entry /\ x # calls[1].entry
      BY <1>3, <2>2 DEF PendingEntries
    <3>2. i # 1
      BY <3>1
    <3>3. i - 1 \in DOMAIN Tail(calls) /\ i - 1 + 1 = i
      BY <1>2, <1>5, <3>2
    <3>4. x = Tail(calls)[i - 1].entry
      BY <1>6, <3>1, <3>3
    <3> QED
      BY <3>3, <3>4 DEF EntriesOf
  <2> QED
    BY <2>1, <2>2
<1>12. Head(calls).entry \in PendingEntries
  BY <1>3 DEF PendingEntries
<1> QED
  BY <1>1, <1>3, <1>4, <1>6, <1>7, <1>8, <1>9, <1>10, <1>11, <1>12

\* What the activations in r have to do with those in p and q.
Joined(p, q, r) ==
  /\ Distinct(r) /\ EntriesOf(r) = EntriesOf(p) \union EntriesOf(q)
  /\ \A i \in DOMAIN r : \/ \E j \in DOMAIN p : r[i] = p[j]
                         \/ \E j \in DOMAIN q : r[i] = q[j]

\* Activations of different colliders, put one group before the other, stay distinct.
LEMMA CallsBefore ==
  ASSUME NEW C, NEW p \in Seq(C), NEW q \in Seq(C), Distinct(p), Distinct(q),
         EntriesOf(p) \intersect EntriesOf(q) = {}
  PROVE  Joined(p, q, p \o q)
<1> DEFINE r == p \o q
<1>1. /\ Len(p) \in Nat /\ DOMAIN p = 1 .. Len(p)
      /\ Len(q) \in Nat /\ DOMAIN q = 1 .. Len(q)
  BY LenProperties
<1>2. /\ r \in Seq(C) /\ Len(r) = Len(p) + Len(q)
      /\ \A i \in 1 .. Len(p) : r[i] = p[i]
      /\ \A i \in Len(p) + 1 .. Len(p) + Len(q) : r[i] = q[i - Len(p)]
  BY ConcatProperties
<1> HIDE DEF r
<1>3. DOMAIN r = 1 .. Len(p) + Len(q)
  BY <1>2, LenProperties
<1>4. ASSUME NEW i \in DOMAIN r
      PROVE  \/ i \in DOMAIN p /\ r[i] = p[i]
             \/ i - Len(p) \in DOMAIN q /\ r[i] = q[i - Len(p)]
  <2>1. CASE i <= Len(p)
    BY <1>1, <1>2, <1>3, <2>1
  <2>2. CASE i > Len(p)
    <3>1. i - Len(p) \in 1 .. Len(q) /\ i \in Len(p) + 1 .. Len(p) + Len(q)
      BY <1>1, <1>3, <2>2
    <3> QED
      BY <1>1, <1>2, <3>1
  <2> QED
    BY <1>1, <1>3, <2>1, <2>2
<1>5. ASSUME NEW j \in DOMAIN q
      PROVE  j + Len(p) \in DOMAIN r /\ r[j + Len(p)] = q[j]
  <2>1. j + Len(p) \in Len(p) + 1 .. Len(p) + Len(q) /\ j + Len(p) - Len(p) = j
    BY <1>1
  <2>2. r[j + Len(p)] = q[j + Len(p) - Len(p)]
    BY <1>2, <2>1
  <2>3. j + Len(p) \in DOMAIN r
    BY <1>1, <1>3
  <2> QED
    BY <2>1, <2>2, <2>3
<1>6. ASSUME NEW j \in DOMAIN p PROVE j \in DOMAIN r /\ r[j] = p[j]
  BY <1>1, <1>2, <1>3
<1>7. EntriesOf(r) = EntriesOf(p) \union EntriesOf(q)
  <2>1. ASSUME NEW x \in EntriesOf(r) PROVE x \in EntriesOf(p) \union EntriesOf(q)
    <3>1. PICK i \in DOMAIN r : x = r[i].entry
      BY DEF EntriesOf
    <3> QED
      BY <1>4, <3>1 DEF EntriesOf
  <2>2. ASSUME NEW x \in EntriesOf(p) PROVE x \in EntriesOf(r)
    BY <1>6 DEF EntriesOf
  <2>3. ASSUME NEW x \in EntriesOf(q) PROVE x \in EntriesOf(r)
    <3>1. PICK j \in DOMAIN q : x = q[j].entry
      BY DEF EntriesOf
    <3>2. j + Len(p) \in DOMAIN r /\ x = r[j + Len(p)].entry
      BY <1>5, <3>1
    <3> QED
      BY <3>2 DEF EntriesOf
  <2> QED
    BY <2>1, <2>2, <2>3
<1>8. Distinct(r)
  <2> SUFFICES ASSUME NEW i \in DOMAIN r, NEW j \in DOMAIN r, r[i].entry = r[j].entry
               PROVE  i = j
    BY DEF Distinct
  <2>1. CASE r[i].entry \in EntriesOf(p)
    <3>1. i \in DOMAIN p /\ r[i] = p[i]
      BY <1>4, <2>1 DEF EntriesOf
    <3>2. j \in DOMAIN p /\ r[j] = p[j]
      BY <1>4, <2>1 DEF EntriesOf
    <3> QED
      BY <3>1, <3>2 DEF Distinct
  <2>2. CASE r[i].entry \in EntriesOf(q)
    <3>1. i - Len(p) \in DOMAIN q /\ r[i] = q[i - Len(p)]
      BY <1>4, <2>2 DEF EntriesOf
    <3>2. j - Len(p) \in DOMAIN q /\ r[j] = q[j - Len(p)]
      BY <1>4, <2>2 DEF EntriesOf
    <3>3. i - Len(p) = j - Len(p)
      BY <3>1, <3>2 DEF Distinct
    <3> QED
      BY <1>1, <1>3, <3>3
  <2> QED
    BY <1>7, <2>1, <2>2 DEF EntriesOf
<1>9. \A i \in DOMAIN r : \/ \E j \in DOMAIN p : r[i] = p[j]
                          \/ \E j \in DOMAIN q : r[i] = q[j]
  BY <1>4
<1> QED
  BY <1>7, <1>8, <1>9 DEF r, Joined

\* What the invariant says of the tree, where no node is divided.
LEMMA SameTree ==
  ASSUME nodeIndex' = nodeIndex, DOMAIN nodes' = DOMAIN nodes,
         InTree \subseteq DOMAIN nodes,
         \A n \in DOMAIN nodes : /\ nodes'[n].Boundary = nodes[n].Boundary
                                 /\ nodes'[n].Children = nodes[n].Children,
         NEW dep, NEW pos, NEW way, TreeInv(dep, pos, way)
  PROVE  /\ InTree' = InTree /\ \A n \in InTree : Inner(n)' <=> Inner(n)
         /\ Placed(dep, pos)' /\ Ways(way)' /\ Quartered'
         /\ \A m, e : Routed(way, m, e)' <=> Routed(way, m, e)
<1>1. InTree' = InTree
  BY DEF InTree
<1>2. \A n \in InTree : /\ Inner(n)' <=> Inner(n)
                        /\ \A k : Child(n, k)' = Child(n, k)
                        /\ Quarters(n)' = Quarters(n)
                        /\ nodes'[n].Boundary = nodes[n].Boundary
  BY DEF Inner, Child, Quarters
<1>3. Placed(dep, pos)'
  BY <1>1, <1>2 DEF TreeInv, Placed, Root
<1>4. Ways(way)'
  <2>1. Ways(way) /\ \A m \in InTree : way[m] \subseteq InTree
    BY DEF TreeInv, Ways
  <2> QED
    BY <1>1, <1>2, <2>1 DEF Ways, Root
<1>5. Quartered'
  <2>1. Quartered /\ \A n \in InTree : Inner(n) => \A k \in 1 .. 4 : Child(n, k) \in InTree
    BY DEF TreeInv, Placed
  <2> QED
    BY <1>1, <1>2, <2>1 DEF Quartered
<1>6. \A m, e : Routed(way, m, e)' <=> Routed(way, m, e)
  BY <1>1, <1>2 DEF Routed
<1> QED
  BY <1>1, <1>2, <1>3, <1>4, <1>5, <1>6

\* Insert adds an activation at the root, for a collider the tree does not hold.
LEMMA InsertHolds ==
  ASSUME IInv, NEW rect \in Shapes, Insert(rect)
  PROVE  /\ IInv'
         /\ \E e \in Entries : e \notin AllEntries /\ AllEntries' = AllEntries \union {e}
<1> DEFINE ref == Cardinality(StoredEntries)
           e == SimplifiedCollider(ref, rect)
<1>1. /\ RunningInv /\ status = "running" /\ stage = "inserting" /\ calls = <<>> /\ ref < MaxColliders
      /\ calls' = <<Call(Root, e, 0)>>
      /\ UNCHANGED <<nodes, nodeIndex, possiblePairs, stage, status>>
  BY DEF IInv, Insert
<1>2. PICK dep, pos, way : TreeInv(dep, pos, way)
  BY <1>1 DEF RunningInv
<1>3. PendingEntries = {} /\ AllEntries = StoredEntries
  BY <1>1 DEF PendingEntries, AllEntries
<1>4. IsFiniteSet(StoredEntries) /\ ref \in Nat /\ MaxColliders \in Nat /\ MaxDepth \in Nat
  BY <1>1, <1>3, FS_CardinalityType, SizesAssumption DEF RunningInv, Numbered
<1>5. e \in Entries
  BY <1>1, <1>4 DEF SimplifiedCollider, Entries
<1>6. e \notin StoredEntries
  BY <1>1, <1>3, <1>4 DEF RunningInv, Numbered, SimplifiedCollider
<1>7. Root \in InTree
  BY <1>1 DEF RunningInv, Pool, InTree, Root
<1>8. StoredEntries' = StoredEntries
  BY <1>1 DEF StoredEntries, StoredIn
<1>9. PendingEntries' = {e}
  BY <1>1 DEF PendingEntries, Call
<1>10. InTree' = InTree
  BY <1>1 DEF InTree
<1>11. Pool'
  <2>1. Call(Root, e, 0) \in CallRecords'
    BY <1>4, <1>5, <1>7, <1>10 DEF CallRecords, Call
  <2>2. calls' \in Seq(CallRecords')
    BY <1>1, <2>1
  <2> QED
    BY <1>1, <1>10, <2>2 DEF RunningInv, Pool, NodeRecords
<1>12. Once'
  <2>1. Distinct(calls')
    BY <1>1 DEF Distinct
  <2> QED
    BY <1>1, <1>6, <1>8, <1>9, <2>1 DEF RunningInv, Once, StoredIn
<1>13. Numbered'
  <2>1. AllEntries' = StoredEntries \union {e}
    BY <1>8, <1>9 DEF AllEntries
  <2>2. IsFiniteSet(AllEntries') /\ Cardinality(AllEntries') = ref + 1
    BY <1>4, <1>6, <2>1, FS_AddElement
  <2>3. \A x \in StoredEntries : x.ColRef \in Nat /\ x.ColRef < ref
    <3>1. StoredEntries \subseteq Entries
      BY <1>1 DEF RunningInv, Pool, NodeRecords, StoredEntries, StoredIn, ToSet
    <3> QED
      BY <1>1, <1>3, <3>1 DEF RunningInv, Numbered, Entries
  <2>4. e.ColRef = ref
    BY DEF SimplifiedCollider
  <2> QED
    BY <1>4, <2>1, <2>2, <2>3, <2>4 DEF Numbered
<1>14. Frame'
  BY <1>1 DEF RunningInv, Frame
<1>15. TreeInv(dep, pos, way)'
  <2>1. /\ \A n \in InTree : Inner(n)' <=> Inner(n)
        /\ Placed(dep, pos)' /\ Ways(way)' /\ Quartered'
        /\ \A m, x : Routed(way, m, x)' <=> Routed(way, m, x)
    <3>1. InTree \subseteq DOMAIN nodes
      BY <1>1, TreeInPool DEF RunningInv
    <3> QED
      BY <1>1, <1>2, <3>1, SameTree
  <2>2. Routed(way, Root, e)
    <3> SUFFICES ASSUME NEW n \in InTree, Inner(n), NEW k \in 1 .. 4,
                        Child(n, k) \in way[Root]
                 PROVE  FALSE
      BY DEF Routed
    <3>1. Child(n, k) \in InTree /\ Child(n, k) > n
      BY <1>2 DEF TreeInv, Placed
    <3>2. Child(n, k) \in 0 .. 0
      BY <1>2, <1>7 DEF TreeInv, Ways, Root
    <3> QED
      BY <1>1, <3>1, <3>2 DEF InTree
  <2>3. Routes(way)'
    <3>1. \A i \in DOMAIN calls' : calls'[i].node = Root /\ calls'[i].entry = e
      BY <1>1 DEF Call
    <3> QED
      BY <1>1, <1>2, <1>10, <2>1, <2>2, <3>1 DEF TreeInv, Routes, StoredIn
  <2>4. Fits(dep)'
    <3>1. \A i \in DOMAIN calls' : calls'[i].node = Root /\ calls'[i].depth = 0
      BY <1>1 DEF Call
    <3> QED
      BY <1>1, <1>2, <1>10, <2>1, <3>1 DEF TreeInv, Fits, Placed
  <2> QED
    BY <2>1, <2>3, <2>4 DEF TreeInv
<1>16. RunningInv'
  BY <1>11, <1>12, <1>13, <1>14, <1>15 DEF RunningInv
<1>17. e \notin AllEntries /\ AllEntries' = AllEntries \union {e}
  BY <1>3, <1>6, <1>8, <1>9 DEF AllEntries
<1> QED
  BY <1>1, <1>5, <1>16, <1>17 DEF IInv

\* insertInNode leaves the collider in the node.
LEMMA StoreHolds ==
  ASSUME RunningInv, calls # <<>>, NEW n, n = Head(calls).node,
         IsLeaf(n) => ~IsToDivide(n, Head(calls).depth),
         Store(n), UNCHANGED <<possiblePairs, stage>>
  PROVE  RunningInv' /\ AllEntries' = AllEntries
<1> DEFINE e == Head(calls).entry
<1>1. /\ nodes' = [nodes EXCEPT ![n].Colliders = Append(nodes[n].Colliders, e)]
      /\ calls' = Tail(calls) /\ nodeIndex' = nodeIndex
  BY DEF Store, WithEntry
<1>2. /\ InTree \subseteq DOMAIN nodes /\ n \in InTree /\ n \in DOMAIN nodes
      /\ e \in Entries /\ e \in PendingEntries /\ e \notin StoredEntries
      /\ Head(calls).depth \in 0 .. MaxDepth
      /\ 1 \in DOMAIN calls /\ calls[1] = Head(calls)
  BY HeadCall DEF CallRecords
<1>3. /\ Tail(calls) \in Seq(CallRecords) /\ Distinct(Tail(calls))
      /\ EntriesOf(Tail(calls)) = PendingEntries \ {e}
      /\ \A i \in DOMAIN Tail(calls) : i + 1 \in DOMAIN calls /\ Tail(calls)[i] = calls[i + 1]
  BY HeadCall
<1>4. Pool /\ Once /\ Numbered /\ Frame
  BY DEF RunningInv
<1>5. PICK dep, pos, way : TreeInv(dep, pos, way)
  BY DEF RunningInv
<1>6. /\ DOMAIN nodes' = DOMAIN nodes
      /\ \A m \in DOMAIN nodes : /\ nodes'[m].Boundary = nodes[m].Boundary
                                 /\ nodes'[m].Children = nodes[m].Children
      /\ \A m \in DOMAIN nodes \ {n} : nodes'[m] = nodes[m]
      /\ nodes'[n].Colliders = Append(nodes[n].Colliders, e)
      /\ nodes'[n] = Node(nodes[n].Boundary, nodes[n].Children, Append(nodes[n].Colliders, e))
  BY <1>1, <1>2, <1>4 DEF Pool, NodeRecords, Node
<1>7. /\ InTree' = InTree /\ \A m \in InTree : Inner(m)' <=> Inner(m)
      /\ Placed(dep, pos)' /\ Ways(way)' /\ Quartered'
      /\ \A m, x : Routed(way, m, x)' <=> Routed(way, m, x)
  BY <1>1, <1>2, <1>5, <1>6, SameTree
<1>8. nodes[n].Colliders \in Seq(Entries)
  BY <1>2, <1>4 DEF Pool, NodeRecords
<1> DEFINE old == nodes[n].Colliders
           new == nodes'[n].Colliders
<1>9. /\ Append(old, e) \in Seq(Entries) /\ Len(new) = Len(old) + 1 /\ Len(old) \in Nat
      /\ ToSet(new) = ToSet(old) \union {e}
      /\ NoRepeats(old) /\ e \notin ToSet(old) => NoRepeats(new)
  <2>1. old \in Seq(Entries) /\ e \in Entries /\ new = Append(old, e)
    BY <1>2, <1>6, <1>8
  <2> HIDE DEF old, new, e
  <2>2. ToSet(new) = ToSet(old) \union {e}
    BY <2>1, AppendToSet
  <2>3. new \in Seq(Entries) /\ Len(new) = Len(old) + 1 /\ Len(old) \in Nat
    BY <2>1
  <2>4. NoRepeats(old) /\ e \notin ToSet(old) => NoRepeats(new)
    BY <2>1, AppendNoRepeats
  <2> QED
    BY <2>1, <2>2, <2>3, <2>4
<1>11. StoredIn(n)' = StoredIn(n) \union {e}
  BY <1>9 DEF StoredIn
<1>12. \A m \in DOMAIN nodes \ {n} : StoredIn(m)' = StoredIn(m)
  BY <1>6 DEF StoredIn
<1>13. StoredEntries' = StoredEntries \union {e}
  BY <1>2, <1>6, <1>11, <1>12 DEF StoredEntries
<1>14. PendingEntries' = PendingEntries \ {e}
  BY <1>1, <1>3 DEF PendingEntries, EntriesOf
<1>15. AllEntries' = AllEntries
  BY <1>2, <1>13, <1>14 DEF AllEntries
<1>16. Pool'
  <2>1. \A m \in DOMAIN nodes' : nodes'[m] \in NodeRecords'
    <3>1. NodeRecords' = NodeRecords
      BY <1>6 DEF NodeRecords
    <3>2. nodes'[n] \in NodeRecords
      BY <1>2, <1>4, <1>6, <1>9 DEF Pool, NodeRecords, Node
    <3> QED
      BY <1>2, <1>4, <1>6, <3>1, <3>2 DEF Pool
  <2>2. CallRecords' = CallRecords
    BY <1>7 DEF CallRecords
  <2>3. nodes' \in [DOMAIN nodes' -> NodeRecords']
    BY <1>1, <1>4, <2>1 DEF Pool
  <2> QED
    BY <1>1, <1>2, <1>3, <1>4, <1>6, <1>7, <2>2, <2>3 DEF Pool
<1>17. Once'
  <2>1. e \notin StoredIn(n) /\ \A m \in DOMAIN nodes : e \notin StoredIn(m)
    BY <1>2 DEF StoredEntries
  <2>2. NoRepeats(nodes'[n].Colliders)
    BY <1>2, <1>4, <1>9, <2>1 DEF Once, StoredIn
  <2>3. \A l, m \in DOMAIN nodes' : l # m => StoredIn(l)' \intersect StoredIn(m)' = {}
    BY <1>2, <1>4, <1>6, <1>11, <1>12, <2>1 DEF Once
  <2>4. PendingEntries' \intersect StoredEntries' = {}
    BY <1>4, <1>13, <1>14 DEF Once
  <2>5. \A m \in DOMAIN nodes' : NoRepeats(nodes'[m].Colliders)
    BY <1>4, <1>6, <2>2 DEF Once
  <2>6. Distinct(calls)'
    BY <1>1, <1>3
  <2> QED
    BY <2>3, <2>4, <2>5, <2>6 DEF Once
<1>18. Numbered' /\ Frame'
  <2>1. calls' # <<>> => calls # <<>>
    OBVIOUS
  <2> QED
    BY <1>4, <1>15 DEF Numbered, Frame
<1>19. TreeInv(dep, pos, way)'
  <2>1. Routes(way)'
    <3>1. Routed(way, n, e)
      BY <1>2, <1>5 DEF TreeInv, Routes
    <3>2. \A m \in InTree : \A x \in StoredIn(m)' : Routed(way, m, x)
      BY <1>2, <1>5, <1>11, <1>12, <3>1 DEF TreeInv, Routes
    <3>3. \A i \in DOMAIN calls' : Routed(way, calls'[i].node, calls'[i].entry)
      BY <1>1, <1>3, <1>5 DEF TreeInv, Routes
    <3> QED
      BY <1>7, <3>2, <3>3 DEF Routes
  <2>2. Fits(dep)'
    <3>1. Fits(dep)
      BY <1>5 DEF TreeInv
    <3>2. \A i \in DOMAIN calls' : calls'[i].depth = dep[calls'[i].node]
      BY <1>1, <1>3, <3>1 DEF Fits
    <3>3. Head(calls).depth = dep[n]
      BY <1>2, <3>1 DEF Fits
    <3>4. ~Inner(n) /\ dep[n] < MaxDepth => Len(nodes'[n].Colliders) <= MaxColliderNbr
      <4>1. Len(WithEntry(n)) = Len(nodes'[n].Colliders)
        BY <1>6 DEF WithEntry
      <4>3. Len(nodes'[n].Colliders) \in Nat
        BY <1>9
      <4>2. MaxColliderNbr \in Nat /\ MaxDepth \in Nat /\ dep[n] \in 0 .. MaxDepth
        BY <1>2, <3>3, SizesAssumption
      <4> QED
        BY <3>3, <4>1, <4>2, <4>3 DEF IsToDivide, IsLeaf, Inner
    <3> QED
      BY <1>2, <1>6, <1>7, <3>1, <3>2, <3>4 DEF Fits
  <2> QED
    BY <1>7, <2>1, <2>2 DEF TreeInv
<1> QED
  BY <1>15, <1>16, <1>17, <1>18, <1>19 DEF RunningInv

\* An inner node's children have its quarters for boundaries.
LEMMA ChildBoundariesAre ==
  ASSUME RunningInv, NEW n \in InTree, Inner(n)
  PROVE  ChildBoundaries(n) = Quarters(n) /\ DOMAIN Quarters(n) = 1 .. 4
<1>1. nodes[n].Children \in [1 .. 4 -> DOMAIN nodes]
  BY TreeInPool DEF RunningInv, Pool, NodeRecords, Inner
<1>2. DOMAIN Quarters(n) = 1 .. 4 /\ Quarters(n) = [k \in 1 .. 4 |-> Quarters(n)[k]]
  BY DEF Quarters, QuadrantsOf, QuadrantsAround
<1>3. \A k \in 1 .. 4 : nodes[nodes[n].Children[k]].Boundary = Quarters(n)[k]
  BY DEF RunningInv, TreeInv, Quartered, Child
<1>4. ChildBoundaries(n) = [k \in 1 .. 4 |-> nodes[nodes[n].Children[k]].Boundary]
  BY <1>1 DEF ChildBoundaries
<1> QED
  BY <1>2, <1>3, <1>4

\* The places below two places are different.
LEMMA OnePlace ==
  ASSUME NEW p \in Nat, NEW q \in Nat, NEW j \in 1 .. 4, NEW k \in 1 .. 4,
         4 * p + j = 4 * q + k
  PROVE  p = q /\ j = k
  OBVIOUS

\* insertInNode hands the collider to a child.
LEMMA PassDownHolds ==
  ASSUME RunningInv, calls # <<>>, NEW n, n = Head(calls).node, ~IsLeaf(n),
         GoesDown(ChildBoundaries(n), Head(calls).entry.Rectangle),
         PassDown(n, Head(calls).entry, Head(calls).depth),
         UNCHANGED <<possiblePairs, stage>>
  PROVE  RunningInv' /\ AllEntries' = AllEntries
<1> DEFINE e == Head(calls).entry
           k == Down(ChildBoundaries(n), e.Rectangle)
           c == Child(n, k)
           new == <<Call(c, e, Head(calls).depth + 1)>>
<1>1. /\ calls' = new \o Tail(calls)
      /\ nodes' = nodes /\ nodeIndex' = nodeIndex
  BY DEF PassDown, Child
<1>2. /\ InTree \subseteq DOMAIN nodes /\ n \in InTree
      /\ e \in Entries /\ e \in PendingEntries /\ e \notin StoredEntries
      /\ 1 \in DOMAIN calls /\ calls[1] = Head(calls)
  BY HeadCall DEF CallRecords
<1>3. /\ Tail(calls) \in Seq(CallRecords) /\ Distinct(Tail(calls))
      /\ EntriesOf(Tail(calls)) = PendingEntries \ {e}
      /\ \A i \in DOMAIN Tail(calls) : i + 1 \in DOMAIN calls /\ Tail(calls)[i] = calls[i + 1]
  BY HeadCall
<1>4. Pool /\ Once /\ Numbered /\ Frame
  BY DEF RunningInv
<1>5. PICK dep, pos, way : TreeInv(dep, pos, way)
  BY DEF RunningInv
<1>6. Inner(n)
  BY DEF IsLeaf, Inner
<1>7. k \in 1 .. 4 /\ Meeting(Quarters(n), e.Rectangle) = {k}
  <2>1. ChildBoundaries(n) = Quarters(n) /\ DOMAIN Quarters(n) = 1 .. 4
    BY <1>2, <1>6, ChildBoundariesAre
  <2> QED
    BY <2>1 DEF GoesDown, Down
<1>8. c = Child(n, k) /\ c \in InTree /\ dep[c] = dep[n] + 1 /\ dep[c] \in 0 .. MaxDepth
      /\ way[c] = way[n] \union {c}
  <2> HIDE DEF e, k
  <2>1. Placed(dep, pos) /\ Ways(way)
    BY <1>5 DEF TreeInv
  <2>2. c \in InTree /\ dep[c] = dep[n] + 1
    BY <1>2, <1>6, <1>7, <2>1 DEF Placed
  <2>3. way[c] = way[n] \union {c}
    BY <1>2, <1>6, <1>7, <2>1 DEF Ways
  <2>4. dep[c] \in 0 .. MaxDepth
    BY <2>1, <2>2 DEF Placed
  <2> QED
    BY <2>2, <2>3, <2>4
<1>9. Head(calls).depth = dep[n]
  BY <1>2, <1>5 DEF TreeInv, Fits
<1> HIDE DEF e, k, c
<1>10. /\ new \in Seq(CallRecords) /\ Distinct(new) /\ EntriesOf(new) = {e}
       /\ \A i \in DOMAIN new : new[i] = Call(c, e, dep[c])
  BY <1>2, <1>8, <1>9 DEF CallRecords, Call, Distinct, EntriesOf
<1> HIDE DEF new
<1>11. Joined(new, Tail(calls), calls')
  <2>1. EntriesOf(new) \intersect EntriesOf(Tail(calls)) = {}
    BY <1>3, <1>10
  <2> QED
    BY <1>1, <1>3, <1>10, <2>1, CallsBefore
<1>17. calls' \in Seq(CallRecords)
  BY <1>1, <1>3, <1>10
<1>18. \A i \in DOMAIN calls' : \/ calls'[i] = Call(c, e, dep[c])
                               \/ \E j \in DOMAIN calls : calls'[i] = calls[j]
  BY <1>3, <1>10, <1>11 DEF Joined
<1>12. PendingEntries' = PendingEntries /\ StoredEntries' = StoredEntries
  <2>1. PendingEntries' = EntriesOf(new) \union EntriesOf(Tail(calls))
    BY <1>11 DEF Joined, PendingEntries, EntriesOf
  <2>2. {e} \union (PendingEntries \ {e}) = PendingEntries
    BY <1>2
  <2> QED
    BY <1>1, <1>3, <1>10, <2>1, <2>2 DEF StoredEntries, StoredIn
<1>13. InTree' = InTree
  BY <1>1 DEF InTree
<1>14. Pool'
  <2>1. CallRecords' = CallRecords
    BY <1>13 DEF CallRecords
  <2> QED
    BY <1>1, <1>4, <1>13, <1>17, <2>1 DEF Pool, NodeRecords
<1>15. Once' /\ Numbered' /\ Frame' /\ AllEntries' = AllEntries
  <2>1. Distinct(calls)' /\ AllEntries' = AllEntries
    BY <1>11, <1>12 DEF Joined, Distinct, AllEntries
  <2>2. Once'
    BY <1>1, <1>4, <1>12, <2>1 DEF Once, StoredIn
  <2>3. calls' # <<>> => calls # <<>>
    OBVIOUS
  <2> QED
    BY <1>4, <2>1, <2>2, <2>3 DEF Numbered, Frame
<1>16. TreeInv(dep, pos, way)'
  <2>1. /\ \A m \in InTree : Inner(m)' <=> Inner(m)
        /\ Placed(dep, pos)' /\ Ways(way)' /\ Quartered'
        /\ \A m, x : Routed(way, m, x)' <=> Routed(way, m, x)
    BY <1>1, <1>2, <1>5, SameTree
  <2>2. Routed(way, c, e)
    <3> SUFFICES ASSUME NEW m \in InTree, Inner(m), NEW j \in 1 .. 4, Child(m, j) \in way[c]
                 PROVE  Meeting(Quarters(m), e.Rectangle) = {j}
      BY DEF Routed
    <3>1. CASE Child(m, j) \in way[n]
      <4>1. Routed(way, n, e)
        BY <1>2, <1>5 DEF TreeInv, Routes, e
      <4> QED
        BY <3>1, <4>1 DEF Routed
    <3>2. CASE Child(m, j) = c
      <4>1. pos[Child(m, j)] = 4 * pos[m] + j /\ pos[Child(n, k)] = 4 * pos[n] + k
        BY <1>2, <1>5, <1>6, <1>7 DEF TreeInv, Placed
      <4>2. pos[m] \in Nat /\ pos[n] \in Nat
        BY <1>2, <1>5 DEF TreeInv, Placed
      <4>3. pos[m] = pos[n] /\ j = k
        <5>1. 4 * pos[m] + j = 4 * pos[n] + k
          BY <1>8, <3>2, <4>1
        <5>2. k \in 1 .. 4
          BY <1>7
        <5> DEFINE p == pos[m]
                   q == pos[n]
        <5>3. p \in Nat /\ q \in Nat /\ 4 * p + j = 4 * q + k
          BY <4>2, <5>1
        <5> HIDE DEF p, q
        <5>4. p = q /\ j = k
          BY <5>2, <5>3, OnePlace
        <5> QED
          BY <5>4 DEF p, q
      <4>4. m = n
        BY <1>2, <1>5, <4>3 DEF TreeInv, Placed
      <4> QED
        BY <1>7, <4>3, <4>4
    <3> QED
      BY <1>8, <3>1, <3>2
  <2>3. Routes(way)'
    <3>1. \A i \in DOMAIN calls' : Routed(way, calls'[i].node, calls'[i].entry)
      BY <1>5, <1>18, <2>2 DEF TreeInv, Routes, Call
    <3> QED
      BY <1>1, <1>5, <1>13, <2>1, <3>1 DEF TreeInv, Routes, StoredIn
  <2>4. Fits(dep)'
    <3>1. \A i \in DOMAIN calls' : calls'[i].depth = dep[calls'[i].node]
      BY <1>5, <1>18 DEF TreeInv, Fits, Call
    <3> QED
      BY <1>1, <1>5, <1>13, <2>1, <3>1 DEF TreeInv, Fits
  <2> QED
    BY <2>1, <2>3, <2>4 DEF TreeInv
<1> QED
  BY <1>14, <1>15, <1>16 DEF RunningInv

-----------------------------------------------------------------------------
(* A subdivision.                                                          *)

\* A sequence without repetitions lists the set of its elements, and the other way
\* round.
LEMMA ListsItself ==
  ASSUME NEW S, NEW q \in Seq(S), NoRepeats(q) PROVE Lists(q, ToSet(q))
<1>1. Len(q) \in Nat /\ DOMAIN q = 1 .. Len(q)
  BY LenProperties
<1>2. \A i \in 1 .. Len(q) : q[i] \in ToSet(q)
  BY <1>1 DEF ToSet
<1>3. q = [i \in 1 .. Len(q) |-> q[i]]
  BY <1>1
<1>4. q \in Seq(ToSet(q))
  BY <1>1, <1>2, <1>3
<1>5. \A x \in ToSet(q) : \E i \in 1 .. Len(q) : q[i] = x
  BY <1>1 DEF ToSet
<1> QED
  BY <1>1, <1>4, <1>5 DEF Lists, NoRepeats

LEMMA ListedItself ==
  ASSUME NEW P, NEW q, Lists(q, P)
  PROVE  NoRepeats(q) /\ ToSet(q) = P
<1>1. q \in Seq(P) /\ Len(q) \in Nat /\ DOMAIN q = 1 .. Len(q)
  BY LenProperties DEF Lists
<1>2. \A i \in 1 .. Len(q) : q[i] \in P
  BY <1>1
<1>3. ToSet(q) \subseteq P
  BY <1>1, <1>2 DEF ToSet
<1>4. P \subseteq ToSet(q)
  BY <1>1 DEF Lists, ToSet
<1> QED
  BY <1>1, <1>3, <1>4 DEF Lists, NoRepeats

\* Choosing some elements of a sequence, and writing something for each.
Chosen(q, C, to) == [i \in DOMAIN q |-> IF q[i] \in C THEN <<to[q[i]]>> ELSE <<>>]

Choice(q, P, C, to, S) ==
  /\ Lists(q, P) /\ C \subseteq P /\ to \in [P -> S]
  /\ \A x, y \in P : to[x] = to[y] => x = y

\* Going through a listed set and taking only some of its elements lists those.
LEMMA ChosenLists ==
  ASSUME NEW P, NEW q, NEW C, NEW S, NEW to, Choice(q, P, C, to, S)
  PROVE  Lists(FlattenSeq(Chosen(q, C, to)), {to[x] : x \in C})
<1> DEFINE seqs == Chosen(q, C, to)
           parts == [i \in 1 .. Len(q) |-> IF q[i] \in C THEN {to[q[i]]} ELSE {}]
<1>1. q \in Seq(P) /\ Len(q) \in Nat /\ DOMAIN q = 1 .. Len(q)
  BY LenProperties DEF Lists, Choice
<1>2. \A i \in 1 .. Len(q) : q[i] \in P /\ to[q[i]] \in S
  BY <1>1 DEF Choice
<1>3. /\ \A x \in P : \E i \in 1 .. Len(q) : q[i] = x
      /\ \A i, j \in 1 .. Len(q) : q[i] = q[j] => i = j
  BY DEF Lists, Choice
<1>4. \A i \in 1 .. Len(q) : seqs[i] \in Seq(S) /\ Lists(seqs[i], parts[i])
  <2> SUFFICES ASSUME NEW i \in 1 .. Len(q)
               PROVE  seqs[i] \in Seq(S) /\ Lists(seqs[i], parts[i])
    OBVIOUS
  <2>1. to[q[i]] \in S
    BY <1>2
  <2>2. CASE q[i] \in C
    <3>1. seqs[i] = <<to[q[i]]>> /\ parts[i] = {to[q[i]]}
      BY <1>1, <2>2 DEF Chosen
    <3>2. Lists(<<to[q[i]]>>, {to[q[i]]})
      BY ListsSingle
    <3> QED
      BY <2>1, <3>1, <3>2
  <2>3. CASE q[i] \notin C
    <3>1. seqs[i] = <<>> /\ parts[i] = {}
      BY <1>1, <2>3 DEF Chosen
    <3> QED
      BY <3>1, ListsEmpty
  <2> QED
    BY <2>2, <2>3
<1>5. seqs \in Seq(Seq(S)) /\ Len(seqs) = Len(q)
  <2>1. seqs \in [1 .. Len(q) -> Seq(S)]
    BY <1>1, <1>4 DEF Chosen
  <2> QED
    BY <1>1, <2>1
<1>6. parts \in [1 .. Len(seqs) -> SUBSET S]
  BY <1>2, <1>5
<1>7. \A i, j \in 1 .. Len(seqs) : i # j => parts[i] \intersect parts[j] = {}
  <2> SUFFICES ASSUME NEW i \in 1 .. Len(q), NEW j \in 1 .. Len(q), i # j
               PROVE  parts[i] \intersect parts[j] = {}
    BY <1>5
  <2>1. q[i] # q[j] /\ q[i] \in P /\ q[j] \in P
    BY <1>2, <1>3
  <2>2. to[q[i]] # to[q[j]]
    BY <2>1 DEF Choice
  <2> QED
    BY <2>2
<1>8. AllOf(parts) = {to[x] : x \in C}
  <2>1. ASSUME NEW y \in AllOf(parts) PROVE y \in {to[x] : x \in C}
    <3>1. PICK i \in 1 .. Len(q) : y \in parts[i]
      BY DEF AllOf
    <3> QED
      BY <3>1
  <2>2. ASSUME NEW x \in C PROVE to[x] \in AllOf(parts)
    <3>1. PICK i \in 1 .. Len(q) : q[i] = x
      BY <1>3 DEF Choice
    <3>2. to[x] \in parts[i]
      BY <3>1
    <3> QED
      BY <3>2 DEF AllOf
  <2> HIDE DEF parts
  <2> QED
    BY <2>1, <2>2
<1>9. ListParts(seqs, parts, S)
  BY <1>4, <1>5, <1>6, <1>7 DEF ListParts
<1> HIDE DEF parts
<1> QED
  BY <1>8, <1>9, FlattenLists

Stayers(b, P) == {x \in P : ~GoesDown(b, x.Rectangle)}
Goers(b, P) == {x \in P : GoesDown(b, x.Rectangle)}
CallFor(children, b, x, depth) == Call(children[Down(b, x.Rectangle)], x, depth + 1)

\* A divided node keeps, once each, the colliders that fit in no single quadrant.
LEMMA StayingLists ==
  ASSUME NEW P, NEW q, Lists(q, P), NEW b
  PROVE  Lists(Staying(b, q), Stayers(b, P))
<1> DEFINE to == [x \in P |-> x]
           C == Stayers(b, P)
           seqs == Chosen(q, C, to)
<1>1. q \in Seq(P) /\ Len(q) \in Nat /\ DOMAIN q = 1 .. Len(q)
  BY LenProperties DEF Lists
<1>2. \A i \in DOMAIN q : q[i] \in P
  BY <1>1
<1>3. Staying(b, q) = FlattenSeq(seqs)
  <2>1. seqs = [i \in DOMAIN q |-> IF GoesDown(b, q[i].Rectangle) THEN <<>> ELSE <<q[i]>>]
    BY <1>2 DEF Stayers, Chosen
  <2> QED
    BY <2>1 DEF Staying
<1>4. to \in [P -> P] /\ C \subseteq P /\ \A x, y \in P : to[x] = to[y] => x = y
  BY DEF Stayers
<1>5. {to[x] : x \in C} = C
  BY DEF Stayers
<1> HIDE DEF to, C
<1>8. Choice(q, P, C, to, P)
  BY <1>4 DEF Choice
<1>6. Lists(FlattenSeq(seqs), {to[x] : x \in C})
  BY <1>8, ChosenLists
<1> QED
  BY <1>3, <1>5, <1>6 DEF C

\* It passes on, once each, the others.
LEMMA CallsBelowList ==
  ASSUME NEW P, NEW q, Lists(q, P), NEW b, NEW children, NEW depth
  PROVE  Lists(CallsBelow(children, b, q, depth),
               {CallFor(children, b, x, depth) : x \in Goers(b, P)})
<1> DEFINE to == [x \in P |-> CallFor(children, b, x, depth)]
           S == {to[x] : x \in P}
           C == Goers(b, P)
           seqs == Chosen(q, C, to)
<1>1. q \in Seq(P) /\ Len(q) \in Nat /\ DOMAIN q = 1 .. Len(q)
  BY LenProperties DEF Lists
<1>2. \A i \in DOMAIN q : q[i] \in P
  BY <1>1
<1>3. CallsBelow(children, b, q, depth) = FlattenSeq(seqs)
  <2>1. seqs = [i \in DOMAIN q |->
          IF GoesDown(b, q[i].Rectangle)
          THEN <<Call(children[Down(b, q[i].Rectangle)], q[i], depth + 1)>> ELSE <<>>]
    BY <1>2 DEF Goers, CallFor, Chosen
  <2> QED
    BY <2>1 DEF CallsBelow
<1>4. to \in [P -> S] /\ C \subseteq P
  BY DEF Goers
<1>5. \A x, y \in P : to[x] = to[y] => x = y
  BY DEF CallFor, Call
<1>6. {to[x] : x \in C} = {CallFor(children, b, x, depth) : x \in C}
  BY DEF Goers
<1> HIDE DEF to, C, S
<1>8. Choice(q, P, C, to, S)
  BY <1>4, <1>5 DEF Choice
<1>7. Lists(FlattenSeq(seqs), {to[x] : x \in C})
  BY <1>8, ChosenLists
<1> QED
  BY <1>3, <1>6, <1>7 DEF C

\* The quadrants of a rectangle are rectangles.
LEMMA QuartersProper ==
  ASSUME NEW r, Proper(r), NEW k \in 1 .. 4
  PROVE  Proper(QuadrantsOf(r)[k]) /\ QuadrantsOf(r)[k] \in Rectangles
<1>1. /\ r.Min.X \in Int /\ r.Min.Y \in Int /\ r.Max.X \in Int /\ r.Max.Y \in Int
      /\ r.Min.X <= r.Max.X /\ r.Min.Y <= r.Max.Y
  BY DEF Proper, Rectangles
<1> DEFINE c == Center(r)
           h == HalfSize(r)
<1>2. c.X \in Int /\ c.Y \in Int /\ h.X \in Nat /\ h.Y \in Nat
  <2>1. /\ (r.Min.X + r.Max.X) \div 2 \in Int /\ (r.Min.Y + r.Max.Y) \div 2 \in Int
        /\ (r.Max.X - r.Min.X) \div 2 \in Nat /\ (r.Max.Y - r.Min.Y) \div 2 \in Nat
    BY <1>1
  <2> QED
    BY <2>1 DEF Center, HalfSize, Point
<1> HIDE DEF c, h
<1>5. c \in [X : Int, Y : Int]
  BY <1>2 DEF Center, Point, c
<1>3. Proper(QuadrantsAround(c, h)[k])
  <2>1. k = 1 \/ k = 2 \/ k = 3 \/ k = 4
    OBVIOUS
  <2> QED
    BY <1>2, <1>5, <2>1 DEF QuadrantsAround, Rectangle, Point, Proper, Rectangles
<1>4. QuadrantsOf(r) = QuadrantsAround(c, h)
  BY DEF QuadrantsOf, c, h
<1> QED
  BY <1>3, <1>4 DEF Proper

\* The four nodes a subdivision takes, with the depth and the place it gives
\* them and the way to them.
NewNodes == nodeIndex .. nodeIndex + 3

Deeper(n, dep) ==
  [m \in 0 .. nodeIndex + 3 |-> IF m < nodeIndex THEN dep[m] ELSE dep[n] + 1]

Further(n, pos) ==
  [m \in 0 .. nodeIndex + 3 |->
     IF m < nodeIndex THEN pos[m] ELSE 4 * pos[n] + (m - nodeIndex + 1)]

Longer(n, way) ==
  [m \in 0 .. nodeIndex + 3 |-> IF m < nodeIndex THEN way[m] ELSE way[n] \union {m}]

\* The place of a node above the greatest depth leaves room for those below it.
LEMMA PlacesBelow ==
  ASSUME Pool, NEW dep, NEW pos, Placed(dep, pos), NEW n \in InTree
  PROVE  /\ pos[n] \in Nat /\ QuadCount[MaxDepth] \in Nat /\ pos[n] < QuadCount[MaxDepth]
         /\ dep[n] < MaxDepth => /\ QuadCount[dep[n] + 1] \in Nat
                                 /\ 4 * pos[n] + 4 < QuadCount[dep[n] + 1]
                                 /\ QuadCount[dep[n] + 1] <= QuadCount[MaxDepth]
<1>1. dep[n] \in 0 .. MaxDepth /\ pos[n] \in Nat /\ pos[n] < QuadCount[dep[n]]
  BY DEF Placed
<1>2. MaxDepth \in Nat
  BY SizesAssumption
<1>3. QuadCount[MaxDepth] \in Nat /\ QuadCount[dep[n]] \in Nat
  BY <1>1, <1>2, QuadCountFacts
<1>4. QuadCount[dep[n]] <= QuadCount[MaxDepth]
  BY <1>1, <1>2, QuadCountMonotone
<1>5. ASSUME dep[n] < MaxDepth
      PROVE  /\ QuadCount[dep[n] + 1] \in Nat /\ 4 * pos[n] + 4 < QuadCount[dep[n] + 1]
             /\ QuadCount[dep[n] + 1] <= QuadCount[MaxDepth]
  <2>1. dep[n] \in Nat /\ dep[n] + 1 \in Nat /\ dep[n] + 1 <= MaxDepth
    BY <1>1, <1>2, <1>5
  <2>2. QuadCount[dep[n] + 1] = 1 + 4 * QuadCount[dep[n]]
    BY <2>1, QuadCountFacts
  <2>3. QuadCount[dep[n] + 1] <= QuadCount[MaxDepth]
    BY <1>2, <2>1, QuadCountMonotone
  <2> QED
    BY <1>1, <1>3, <2>2, <2>3
<1> QED
  BY <1>1, <1>3, <1>4, <1>5

\* The places of the new nodes are new.
LEMMA FurtherPlaces ==
  ASSUME nodeIndex \in Nat, NEW dep, NEW pos, Placed(dep, pos),
         NEW n \in InTree, ~Inner(n),
         NEW l \in 0 .. nodeIndex + 3, NEW m \in 0 .. nodeIndex + 3,
         Further(n, pos)[l] = Further(n, pos)[m]
  PROVE  l = m
<1>1. pos[n] \in Nat
  BY DEF Placed
<1>2. ASSUME NEW x \in 0 .. nodeIndex + 3, x >= nodeIndex
      PROVE  /\ x - nodeIndex + 1 \in 1 .. 4
             /\ Further(n, pos)[x] = 4 * pos[n] + (x - nodeIndex + 1)
  BY <1>2 DEF Further
<1>3. ASSUME NEW x \in 0 .. nodeIndex + 3, x < nodeIndex
      PROVE  x \in InTree /\ Further(n, pos)[x] = pos[x]
  BY <1>3 DEF Further, InTree
<1>4. ASSUME NEW x \in 0 .. nodeIndex + 3, x < nodeIndex,
             NEW y \in 0 .. nodeIndex + 3, y >= nodeIndex
      PROVE  Further(n, pos)[x] # Further(n, pos)[y]
  BY <1>2, <1>3, <1>4 DEF Placed
<1>5. CASE l < nodeIndex /\ m < nodeIndex
  BY <1>3, <1>5 DEF Placed
<1>6. CASE l >= nodeIndex /\ m >= nodeIndex
  BY <1>1, <1>2, <1>6
<1> QED
  BY <1>4, <1>5, <1>6

\* The pool has four more nodes for every subdivision.
LEMMA PoolHasRoom ==
  ASSUME Pool, NEW dep, NEW pos, Placed(dep, pos),
         NEW n \in InTree, ~Inner(n), dep[n] < MaxDepth
  PROVE  nodeIndex + 4 <= QuadCount[MaxDepth]
<1> DEFINE S == 0 .. nodeIndex + 3
           T == 0 .. QuadCount[MaxDepth] - 1
           g == Further(n, pos)
<1>1. nodeIndex \in Nat /\ nodeIndex > 0 /\ QuadCount[MaxDepth] \in Nat
  <2>1. QuadCount[MaxDepth] \in Nat
    BY SizesAssumption, QuadCountFacts
  <2> QED
    BY <2>1 DEF Pool
<1>2. \A m \in S : g[m] \in T
  <2> SUFFICES ASSUME NEW m \in S PROVE g[m] \in T
    OBVIOUS
  <2>1. CASE m < nodeIndex
    <3>1. m \in InTree /\ g[m] = pos[m]
      BY <1>1, <2>1 DEF InTree, Further
    <3>2. pos[m] \in Nat /\ pos[m] < QuadCount[MaxDepth]
      BY <3>1, PlacesBelow
    <3> QED
      BY <1>1, <3>1, <3>2
  <2>2. CASE m >= nodeIndex
    <3>1. m - nodeIndex + 1 \in 1 .. 4 /\ g[m] = 4 * pos[n] + (m - nodeIndex + 1)
      BY <1>1, <2>2 DEF Further
    <3>2. pos[n] \in Nat /\ 4 * pos[n] + 4 < QuadCount[MaxDepth]
      <4>1. /\ pos[n] \in Nat /\ QuadCount[dep[n] + 1] \in Nat
            /\ 4 * pos[n] + 4 < QuadCount[dep[n] + 1]
            /\ QuadCount[dep[n] + 1] <= QuadCount[MaxDepth]
        BY PlacesBelow
      <4> QED
        BY <1>1, <4>1
    <3> QED
      BY <1>1, <3>1, <3>2
  <2> QED
    BY <1>1, <2>1, <2>2
<1>3. \A l, m \in S : g[l] = g[m] => l = m
  BY <1>1, FurtherPlaces
<1>4. g \in Injection(S, T)
  <2>1. g \in [S -> T]
    BY <1>2 DEF Further
  <2> QED
    BY <1>3, <2>1 DEF Injection, IsInjective
<1>5. /\ IsFiniteSet(S) /\ Cardinality(S) = nodeIndex + 4
      /\ IsFiniteSet(T) /\ Cardinality(T) = QuadCount[MaxDepth]
  <2> DEFINE a == nodeIndex + 3
             b == QuadCount[MaxDepth] - 1
  <2>1. a \in Int /\ b \in Int /\ 0 <= a /\ 0 <= b + 1
    BY <1>1
  <2> HIDE DEF a, b
  <2>2. IsFiniteSet(0 .. a) /\ Cardinality(0 .. a) = a + 1
    BY <2>1, FS_Interval
  <2>3. IsFiniteSet(0 .. b) /\ Cardinality(0 .. b) = b + 1
    BY <2>1, FS_Interval
  <2> QED
    BY <1>1, <2>2, <2>3 DEF a, b
<1> HIDE DEF S, T, g
<1>6. Cardinality(S) <= Cardinality(T)
  BY <1>4, <1>5, FS_Injection
<1> QED
  BY <1>5, <1>6

\* A step that divides n and leaves the other nodes as they are.
Divides(n) ==
  /\ n \in InTree /\ ~Inner(n) /\ nodeIndex \in Nat /\ nodeIndex' = nodeIndex + 4
  /\ nodes'[n].Boundary = nodes[n].Boundary
  /\ nodes'[n].Children = [k \in 1 .. 4 |-> nodeIndex + k - 1]
  /\ \A m \in InTree \ {n} : nodes'[m] = nodes[m]
  /\ \A k \in 1 .. 4 : nodes'[nodeIndex + k - 1] = Node(Quarters(n)[k], <<>>, <<>>)

\* What it does to the tree.
Grows(n) ==
  /\ n \in InTree /\ ~Inner(n) /\ nodeIndex \in Nat
  /\ InTree = 0 .. nodeIndex - 1 /\ InTree' = 0 .. nodeIndex + 3
  /\ \A m \in InTree' : Inner(m)' <=> m = n \/ (m \in InTree /\ Inner(m))
  /\ \A m \in InTree \ {n} : \A k \in 1 .. 4 : Child(m, k)' = Child(m, k)
  /\ \A k \in 1 .. 4 : Child(n, k)' = nodeIndex + k - 1
  /\ \A m \in InTree : Quarters(m)' = Quarters(m)

\* A node that is divided gets the next four nodes of the pool as its children, each
\* with one of its quadrants, and no other node changes its place.
LEMMA DividingGrows ==
  ASSUME NEW n, Divides(n) PROVE Grows(n)
<1>1. nodeIndex \in Nat /\ InTree = 0 .. nodeIndex - 1 /\ InTree' = 0 .. nodeIndex + 3
  BY DEF Divides, InTree
<1>2. \A m \in InTree' \ InTree :
        \E k \in 1 .. 4 : nodes'[m] = Node(Quarters(n)[k], <<>>, <<>>)
  <2> SUFFICES ASSUME NEW m \in InTree' \ InTree
               PROVE \E k \in 1 .. 4 : nodes'[m] = Node(Quarters(n)[k], <<>>, <<>>)
    OBVIOUS
  <2>1. m - nodeIndex + 1 \in 1 .. 4 /\ nodeIndex + (m - nodeIndex + 1) - 1 = m
    BY <1>1
  <2> QED
    BY <2>1 DEF Divides
<1>3. ASSUME NEW m \in InTree' PROVE Inner(m)' <=> m = n \/ (m \in InTree /\ Inner(m))
  <2>1. CASE m \in InTree' \ InTree
    <3>1. nodes'[m].Children = <<>>
      BY <1>2, <2>1 DEF Node
    <3> QED
      BY <2>1, <3>1 DEF Inner, Divides
  <2>2. CASE m = n
    <3>1. 1 \in DOMAIN nodes'[n].Children
      BY DEF Divides
    <3>2. nodes'[n].Children # <<>>
      BY <3>1
    <3> QED
      BY <2>2, <3>2 DEF Inner
  <2>3. CASE m \in InTree \ {n}
    BY <2>3 DEF Inner, Divides
  <2> QED
    BY <2>1, <2>2, <2>3
<1>4. \A m \in InTree \ {n} : \A k \in 1 .. 4 : Child(m, k)' = Child(m, k)
  BY DEF Divides, Child
<1>5. \A k \in 1 .. 4 : Child(n, k)' = nodeIndex + k - 1
  BY DEF Divides, Child
<1>6. \A m \in InTree : Quarters(m)' = Quarters(m)
  BY DEF Divides, Quarters
<1> QED
  BY <1>1, <1>3, <1>4, <1>5, <1>6 DEF Grows, Divides

\* The children take the places below the divided node, which were free.
LEMMA GrownPlaced ==
  ASSUME NEW n, Grows(n), NEW dep, NEW pos, Placed(dep, pos), Pool, dep[n] < MaxDepth,
         NEW d, d = Deeper(n, dep), NEW p, p = Further(n, pos)
  PROVE  Placed(d, p)'
<1>1. /\ n \in InTree /\ ~Inner(n) /\ nodeIndex \in Nat /\ MaxDepth \in Nat /\ nodeIndex > 0
      /\ InTree = 0 .. nodeIndex - 1 /\ InTree' = 0 .. nodeIndex + 3
  <2>1. nodeIndex > 0
    <3>1. QuadCount[MaxDepth] \in Nat
      BY SizesAssumption, QuadCountFacts
    <3> QED
      BY <3>1 DEF Pool
  <2> QED
    BY <2>1, SizesAssumption DEF Grows
<1>2. /\ \A m \in InTree : m \in InTree' /\ d[m] = dep[m] /\ p[m] = pos[m]
      /\ \A m \in InTree' \ InTree :
           /\ d[m] = dep[n] + 1 /\ p[m] = 4 * pos[n] + (m - nodeIndex + 1)
           /\ m - nodeIndex + 1 \in 1 .. 4
  BY <1>1 DEF Deeper, Further
<1>3. \A m \in InTree : dep[m] \in 0 .. MaxDepth /\ pos[m] \in Nat
  BY DEF Placed
<1>4. d \in [InTree' -> 0 .. MaxDepth]
  <2>1. \A m \in InTree' : d[m] \in 0 .. MaxDepth
    <3>1. \A m \in InTree : d[m] \in 0 .. MaxDepth
      BY <1>2, <1>3
    <3>2. dep[n] + 1 \in 0 .. MaxDepth
      BY <1>1, <1>3
    <3> QED
      BY <1>2, <3>1, <3>2
  <2> QED
    BY <1>1, <2>1 DEF Deeper
<1>5. p \in [InTree' -> Nat]
  <2>1. \A m \in InTree' : p[m] \in Nat
    <3>1. \A m \in InTree : p[m] \in Nat
      BY <1>2, <1>3
    <3>2. pos[n] \in Nat
      BY <1>1, <1>3
    <3>3. \A m \in InTree' \ InTree : p[m] \in Nat
      BY <1>2, <3>2
    <3> QED
      BY <3>1, <3>3
  <2> QED
    BY <1>1, <2>1 DEF Further
<1>6. \A m \in InTree' : p[m] < QuadCount[d[m]]
  <2>1. \A m \in InTree : p[m] < QuadCount[d[m]]
    BY <1>2 DEF Placed
  <2>2. ASSUME NEW m \in InTree' \ InTree PROVE p[m] < QuadCount[d[m]]
    <3>1. /\ pos[n] \in Nat /\ QuadCount[dep[n] + 1] \in Nat
          /\ 4 * pos[n] + 4 < QuadCount[dep[n] + 1]
      BY <1>1, PlacesBelow
    <3> DEFINE q == QuadCount[dep[n] + 1]
    <3>2. q \in Nat /\ 4 * pos[n] + 4 < q /\ q = QuadCount[d[m]]
      BY <1>2, <3>1
    <3> HIDE DEF q
    <3> QED
      BY <1>2, <3>1, <3>2
  <2> QED
    BY <2>1, <2>2
<1>7. \A l, m \in InTree' : p[l] = p[m] => l = m
  BY <1>1, FurtherPlaces
<1>8. d[Root] = 0 /\ p[Root] = 0
  BY <1>1, <1>2 DEF Placed, Root
<1>9. ASSUME NEW m \in InTree, Inner(m), NEW k \in 1 .. 4
      PROVE  /\ Child(m, k)' = Child(m, k) /\ Child(m, k) \in InTree /\ Child(m, k) > m
             /\ dep[Child(m, k)] = dep[m] + 1 /\ pos[Child(m, k)] = 4 * pos[m] + k
  <2>1. m # n
    BY <1>1, <1>9
  <2> QED
    BY <1>9, <2>1 DEF Grows, Placed
<1>10. ASSUME NEW k \in 1 .. 4
       PROVE  /\ Child(n, k)' = nodeIndex + k - 1 /\ Child(n, k)' \in InTree' \ InTree
              /\ Child(n, k)' > n /\ Child(n, k)' - nodeIndex + 1 = k
  BY <1>1 DEF Grows
<1>11. ASSUME NEW m \in InTree', Inner(m)', NEW k \in 1 .. 4
       PROVE  /\ Child(m, k)' \in InTree' /\ Child(m, k)' > m
              /\ d[Child(m, k)'] = d[m] + 1 /\ p[Child(m, k)'] = 4 * p[m] + k
  <2>1. CASE m = n
    <3> DEFINE c == Child(n, k)'
    <3>1. c \in InTree' \ InTree /\ c > n /\ c - nodeIndex + 1 = k
      BY <1>10
    <3>2. d[c] = dep[n] + 1 /\ p[c] = 4 * pos[n] + (c - nodeIndex + 1)
      <4> HIDE DEF c
      <4> QED
        BY <1>2, <3>1
    <3>3. d[n] = dep[n] /\ p[n] = pos[n]
      BY <1>1, <1>2
    <3>4. p[c] = 4 * p[n] + k
      BY <3>1, <3>2, <3>3
    <3> QED
      BY <2>1, <3>1, <3>2, <3>3, <3>4
  <2>2. CASE m # n
    <3>1. m \in InTree /\ Inner(m)
      BY <1>11, <2>2 DEF Grows
    <3> QED
      BY <1>2, <1>9, <3>1
  <2> QED
    BY <2>1, <2>2
<1>12. ASSUME NEW m \in InTree', ~Inner(m)', NEW x \in InTree', NEW k \in 1 .. 4
       PROVE  p[x] # 4 * p[m] + k
  <2> SUFFICES ASSUME p[x] = 4 * p[m] + k PROVE FALSE
    OBVIOUS
  <2>0. m # n
    BY <1>1, <1>12 DEF Grows
  <2>1. p[x] \in Nat /\ p[m] \in Nat /\ p[n] \in Nat /\ p[n] = pos[n]
    BY <1>1, <1>2, <1>5
  <2>2. CASE x \in InTree' \ InTree
    <3>1. 4 * p[n] + (x - nodeIndex + 1) = 4 * p[m] + k /\ x - nodeIndex + 1 \in 1 .. 4
      BY <1>2, <2>1, <2>2
    <3>2. p[n] = p[m]
      <4> DEFINE s == p[n]
                 t == p[m]
                 j == x - nodeIndex + 1
      <4>1. s \in Nat /\ t \in Nat /\ j \in 1 .. 4 /\ 4 * s + j = 4 * t + k
        BY <2>1, <3>1
      <4> HIDE DEF s, t, j
      <4>2. s = t
        BY <4>1, OnePlace
      <4> QED
        BY <4>2 DEF s, t
    <3> QED
      BY <1>1, <1>2, <1>7, <2>0, <3>2
  <2>3. CASE x \in InTree /\ m \in InTree
    <3>1. ~Inner(m)
      BY <1>12, <2>3 DEF Grows
    <3>2. pos[x] = 4 * pos[m] + k
      BY <1>2, <2>3
    <3> QED
      BY <2>3, <3>1, <3>2 DEF Placed
  <2>4. CASE x \in InTree /\ m \in InTree' \ InTree
    <3>1. pos[x] = 4 * p[m] + k /\ x # Root
      BY <1>2, <1>8, <2>1, <2>4
    <3>2. PICK y \in InTree : Inner(y) /\ \E i \in 1 .. 4 : x = Child(y, i)
      BY <2>4, <3>1 DEF Placed
    <3>3. PICK i \in 1 .. 4 : x = Child(y, i)
      BY <3>2
    <3>4. pos[x] = 4 * pos[y] + i /\ pos[y] \in Nat
      BY <1>3, <1>9, <3>2, <3>3
    <3>5. pos[y] = p[m]
      <4> DEFINE s == pos[y]
                 t == p[m]
      <4>1. s \in Nat /\ t \in Nat /\ 4 * s + i = 4 * t + k
        BY <2>1, <3>1, <3>4
      <4> HIDE DEF s, t
      <4>2. s = t
        BY <4>1, OnePlace
      <4> QED
        BY <4>2 DEF s, t
    <3>6. pos[y] = 4 * pos[n] + (m - nodeIndex + 1) /\ m - nodeIndex + 1 \in 1 .. 4
      BY <1>2, <2>4, <3>5
    <3>7. \A l \in InTree, j \in 1 .. 4 : pos[l] # 4 * pos[n] + j
      BY <1>1 DEF Placed
    <3> QED
      BY <3>6, <3>7
  <2> QED
    BY <2>2, <2>3, <2>4
<1>13. ASSUME NEW c \in InTree' \ {Root}
       PROVE  \E m \in InTree' : Inner(m)' /\ \E k \in 1 .. 4 : c = Child(m, k)'
  <2>1. CASE c \in InTree
    <3>1. PICK m \in InTree : Inner(m) /\ \E k \in 1 .. 4 : c = Child(m, k)
      BY <1>13, <2>1 DEF Placed
    <3>2. Inner(m)' /\ m \in InTree' /\ \E k \in 1 .. 4 : c = Child(m, k)'
      BY <1>2, <1>9, <3>1 DEF Grows
    <3> QED
      BY <3>2
  <2>2. CASE c \notin InTree
    <3>1. PICK k \in 1 .. 4 : c = nodeIndex + k - 1
      <4>1. c - nodeIndex + 1 \in 1 .. 4 /\ c = nodeIndex + (c - nodeIndex + 1) - 1
        BY <1>1, <2>2
      <4> QED
        BY <4>1
    <3>2. c = Child(n, k)'
      BY <3>1 DEF Grows
    <3>3. Inner(n)' /\ n \in InTree'
      BY <1>1, <1>2 DEF Grows
    <3> QED
      BY <3>1, <3>2, <3>3
  <2> QED
    BY <2>1, <2>2
<1> QED
  BY <1>4, <1>5, <1>6, <1>7, <1>8, <1>11, <1>12, <1>13 DEF Placed, Root

\* The way to each child is that to the divided node, and the child.
LEMMA GrownWays ==
  ASSUME NEW n, Grows(n), NEW dep, NEW pos, Placed(dep, pos), NEW way, Ways(way),
         NEW w, w = Longer(n, way)
  PROVE  Ways(w)'
<1>1. /\ n \in InTree /\ ~Inner(n) /\ nodeIndex \in Nat
      /\ InTree = 0 .. nodeIndex - 1 /\ InTree' = 0 .. nodeIndex + 3
  BY DEF Grows
<1>2. \A m \in InTree : m \in InTree' /\ w[m] = way[m]
  BY <1>1 DEF Longer
<1>3. \A m \in InTree' \ InTree : w[m] = way[n] \union {m} /\ m > n
  BY <1>1 DEF Longer
<1>4. \A m \in InTree : way[m] \subseteq InTree /\ way[m] \subseteq 0 .. m
                        /\ Root \in way[m] /\ m \in way[m]
  BY DEF Ways
<1>5. w \in [InTree' -> SUBSET InTree']
  <2>1. \A m \in InTree' : w[m] \subseteq InTree'
    BY <1>1, <1>2, <1>3, <1>4
  <2> QED
    BY <1>1, <2>1 DEF Longer
<1>6. ASSUME NEW m \in InTree' PROVE Root \in w[m] /\ m \in w[m] /\ w[m] \subseteq 0 .. m
  <2>1. CASE m \in InTree
    BY <1>2, <1>4, <2>1
  <2>2. CASE m \notin InTree
    <3>1. w[m] = way[n] \union {m} /\ m > n
      BY <1>3, <2>2
    <3>2. way[n] \subseteq 0 .. n /\ Root \in way[n]
      BY <1>1, <1>4
    <3> QED
      BY <1>1, <3>1, <3>2
  <2> QED
    BY <2>1, <2>2
<1>7. ASSUME NEW x \in InTree, Inner(x), NEW k \in 1 .. 4
      PROVE  x # n /\ Child(x, k)' = Child(x, k) /\ Child(x, k) \in InTree
  BY <1>1, <1>7 DEF Grows, Placed
<1>8. ASSUME NEW k \in 1 .. 4
      PROVE  /\ Child(n, k)' = nodeIndex + k - 1 /\ Child(n, k)' \in InTree' \ InTree
             /\ Child(n, k)' > n
  BY <1>1 DEF Grows
<1>9. ASSUME NEW x \in InTree', Inner(x)' PROVE x = n \/ (x \in InTree /\ Inner(x))
  BY <1>9 DEF Grows
<1>10. ASSUME NEW x \in InTree', Inner(x)', NEW k \in 1 .. 4
       PROVE  w[Child(x, k)'] = w[x] \union {Child(x, k)'}
  <2>1. CASE x = n
    BY <1>1, <1>2, <1>3, <1>8, <2>1
  <2>2. CASE x # n
    <3>1. x \in InTree /\ Inner(x)
      BY <1>9, <1>10, <2>2
    <3> QED
      BY <1>2, <1>7, <3>1 DEF Ways
  <2> QED
    BY <2>1, <2>2
<1>11. ASSUME NEW m \in InTree', NEW x \in w[m] \ {m}
       PROVE  Inner(x)' /\ \E k \in 1 .. 4 : Child(x, k)' \in w[m]
  <2>1. ASSUME NEW y \in InTree, x \in way[y] \ {y}
        PROVE  Inner(x)' /\ \E k \in 1 .. 4 : Child(x, k)' \in way[y]
    <3>1. x \in InTree /\ Inner(x) /\ \E k \in 1 .. 4 : Child(x, k) \in way[y]
      BY <1>4, <2>1 DEF Ways
    <3>2. Inner(x)'
      BY <1>2, <3>1 DEF Grows
    <3> QED
      BY <1>7, <3>1, <3>2
  <2>2. CASE m \in InTree
    BY <1>2, <2>1, <2>2
  <2>3. CASE m \notin InTree /\ x # n
    <3>1. x \in way[n] \ {n} /\ way[n] \subseteq w[m]
      BY <1>3, <2>3
    <3> QED
      BY <1>1, <2>1, <3>1
  <2>4. CASE m \notin InTree /\ x = n
    <3>1. PICK k \in 1 .. 4 : m = nodeIndex + k - 1
      <4>1. m - nodeIndex + 1 \in 1 .. 4 /\ m = nodeIndex + (m - nodeIndex + 1) - 1
        BY <1>1, <2>4
      <4> QED
        BY <4>1
    <3>2. m = Child(n, k)' /\ m \in w[m]
      BY <1>6, <1>8, <3>1
    <3>3. Inner(n)'
      BY <1>1, <1>2 DEF Grows
    <3> QED
      BY <2>4, <3>2, <3>3
  <2> QED
    BY <2>2, <2>3, <2>4
<1>12. ASSUME NEW m \in InTree', NEW x \in InTree', Inner(x)', NEW j \in 1 .. 4,
              NEW k \in 1 .. 4, Child(x, j)' \in w[m]
       PROVE  x \in w[m] /\ (Child(x, k)' \in w[m] => j = k)
  <2>1. CASE x = n
    <3>1. m \notin InTree
      BY <1>2, <1>4, <1>8, <1>12, <2>1
    <3>2. w[m] = way[n] \union {m} /\ n \in way[n] /\ way[n] \subseteq InTree
      BY <1>1, <1>3, <1>4, <3>1
    <3>3. m = nodeIndex + j - 1 /\ (Child(n, k)' \in w[m] => m = nodeIndex + k - 1)
      BY <1>8, <1>12, <2>1, <3>2
    <3> QED
      BY <1>1, <2>1, <3>2, <3>3
  <2>2. CASE x # n
    <3>1. x \in InTree /\ Inner(x)
      BY <1>9, <1>12, <2>2
    <3>2. /\ Child(x, j)' = Child(x, j) /\ Child(x, j) \in InTree
          /\ Child(x, k)' = Child(x, k) /\ Child(x, k) \in InTree
      BY <1>7, <3>1
    <3>3. PICK y \in InTree : /\ way[y] \subseteq w[m] /\ Child(x, j) \in way[y]
                              /\ Child(x, k) \in w[m] => Child(x, k) \in way[y]
      <4>1. CASE m \in InTree
        BY <1>2, <1>12, <3>2, <4>1
      <4>2. CASE m \notin InTree
        BY <1>1, <1>3, <1>12, <3>2, <4>2
      <4> QED
        BY <4>1, <4>2
    <3>4. x \in way[y] /\ (Child(x, k) \in way[y] => j = k)
      BY <3>1, <3>3 DEF Ways
    <3> QED
      BY <3>2, <3>3, <3>4
  <2> QED
    BY <2>1, <2>2
<1> QED
  BY <1>5, <1>6, <1>10, <1>11, <1>12 DEF Ways, Root

\* A collider is routed to the nodes there were as it was.
LEMMA GrownRouted ==
  ASSUME NEW n, Grows(n), NEW dep, NEW pos, Placed(dep, pos), NEW way, Ways(way),
         NEW w, w = Longer(n, way), NEW m \in InTree, NEW e, Routed(way, m, e)
  PROVE  Routed(w, m, e)'
<1>1. /\ n \in InTree /\ ~Inner(n) /\ nodeIndex \in Nat
      /\ InTree = 0 .. nodeIndex - 1 /\ InTree' = 0 .. nodeIndex + 3
  BY DEF Grows
<1>2. w[m] = way[m] /\ way[m] \subseteq InTree
  BY <1>1 DEF Longer, Ways
<1>4. ASSUME NEW x \in InTree', Inner(x)', NEW k \in 1 .. 4, Child(x, k)' \in way[m]
      PROVE  Meeting(Quarters(x)', e.Rectangle) = {k}
  <2>1. x # n
    <3>1. nodeIndex + k - 1 \notin InTree
      BY <1>1
    <3> QED
      BY <1>2, <1>4, <3>1 DEF Grows
  <2>2. x \in InTree /\ Inner(x) /\ Child(x, k)' = Child(x, k) /\ Quarters(x)' = Quarters(x)
    BY <1>4, <2>1 DEF Grows
  <2> QED
    BY <1>4, <2>2 DEF Routed
<1> QED
  BY <1>2, <1>4 DEF Routed

\* And from n to the child that has the only quadrant it intersects.
LEMMA GrownRoutedBelow ==
  ASSUME NEW n, Grows(n), NEW dep, NEW pos, Placed(dep, pos), NEW way, Ways(way),
         NEW w, w = Longer(n, way), NEW e, Routed(way, n, e),
         NEW k \in 1 .. 4, NEW c, c = nodeIndex + k - 1,
         Meeting(Quarters(n), e.Rectangle) = {k}
  PROVE  Routed(w, c, e)'
<1>1. /\ n \in InTree /\ ~Inner(n) /\ nodeIndex \in Nat
      /\ InTree = 0 .. nodeIndex - 1 /\ InTree' = 0 .. nodeIndex + 3
  BY DEF Grows
<1>2. w[n] = way[n] /\ way[n] \subseteq InTree /\ Routed(w, n, e)'
  <2>1. Routed(w, n, e)'
    BY <1>1, GrownRouted
  <2> QED
    BY <1>1, <2>1 DEF Longer, Ways
<1>3. w[c] = way[n] \union {c}
  <2>1. c \in 0 .. nodeIndex + 3 /\ ~(c < nodeIndex)
    BY <1>1
  <2> QED
    BY <2>1 DEF Longer
<1> SUFFICES ASSUME NEW x \in InTree', Inner(x)', NEW j \in 1 .. 4, Child(x, j)' \in w[c]
             PROVE  Meeting(Quarters(x)', e.Rectangle) = {j}
  BY DEF Routed
<1>4. CASE Child(x, j)' \in way[n]
  BY <1>2, <1>4 DEF Routed
<1>5. CASE Child(x, j)' = c /\ x = n
  <2>1. nodeIndex + j - 1 = nodeIndex + k - 1 /\ Quarters(n)' = Quarters(n)
    BY <1>1, <1>5 DEF Grows
  <2>2. j = k
    BY <1>1, <2>1
  <2> QED
    BY <1>5, <2>1, <2>2
<1>6. CASE Child(x, j)' = c /\ x # n
  <2>1. x \in InTree /\ Inner(x) /\ Child(x, j)' = Child(x, j)
    BY <1>6 DEF Grows
  <2>2. Child(x, j) \in InTree
    BY <2>1 DEF Placed
  <2>3. c \notin InTree
    BY <1>1
  <2> QED
    BY <1>6, <2>1, <2>2, <2>3
<1> QED
  BY <1>3, <1>4, <1>5, <1>6

\* What a subdivision of n does with the colliders it redistributes: P of them,
\* of which the node keeps those in kept and the activations in below handle the
\* others.
Redistributes(n, P, kept, below) ==
  LET b == Quarters(n)
      children == [k \in 1 .. 4 |-> nodeIndex + k - 1]
  IN
  /\ P = StoredIn(n) \union {Head(calls).entry}
  /\ Lists(kept, Stayers(b, P))
  /\ Lists(below, {CallFor(children, b, x, Head(calls).depth) : x \in Goers(b, P)})

\* The pool has four more nodes for a node that is to be divided, and the node's
\* colliders, with the new one, are divided among it and its children.
LEMMA SubdivideDoes ==
  ASSUME RunningInv, calls # <<>>, NEW n, n = Head(calls).node,
         IsLeaf(n), IsToDivide(n, Head(calls).depth), Subdivide(n, Head(calls).depth)
  PROVE  /\ Divides(n) /\ nodeIndex + 4 <= QuadCount[MaxDepth] /\ UNCHANGED status
         /\ DOMAIN nodes' = DOMAIN nodes /\ nodes' = [m \in DOMAIN nodes' |-> nodes'[m]]
         /\ \E c, q : nodes'[n] = Node(nodes[n].Boundary, c, q)
         /\ \A m \in DOMAIN nodes \ (InTree' \union InTree) : nodes'[m] = nodes[m]
         /\ \E P, below :
              /\ Redistributes(n, P, nodes'[n].Colliders, below)
              /\ calls' = below \o Tail(calls)
<1> DEFINE e == Head(calls).entry
           depth == Head(calls).depth
           b == Quarters(n)
           children == [k \in 1 .. 4 |-> nodeIndex + k - 1]
           old == nodes[n].Colliders
           with == WithEntry(n)
           P == StoredIn(n) \union {e}
           kept == Staying(b, with)
           below == CallsBelow(children, b, with, depth)
<1>1. /\ InTree \subseteq DOMAIN nodes /\ n \in InTree /\ n \in DOMAIN nodes
      /\ e \in Entries /\ e \notin StoredEntries /\ depth \in 0 .. MaxDepth
      /\ 1 \in DOMAIN calls /\ calls[1] = Head(calls)
  BY HeadCall DEF CallRecords
<1>2. Pool /\ Once
  BY DEF RunningInv
<1>3. PICK dep, pos, way : TreeInv(dep, pos, way)
  BY DEF RunningInv
<1>4. Placed(dep, pos) /\ Fits(dep) /\ ~Inner(n)
  BY <1>3 DEF TreeInv, Inner, IsLeaf
<1>5. MaxColliderNbr \in Nat /\ MaxDepth \in Nat /\ QuadCount[MaxDepth] \in Nat
  BY SizesAssumption, QuadCountFacts
<1>6. depth = dep[n] /\ depth < MaxDepth
  <2>1. depth = dep[n]
    BY <1>1, <1>4 DEF Fits
  <2>2. depth # MaxDepth
    BY DEF IsToDivide
  <2> HIDE DEF depth
  <2> QED
    BY <1>1, <1>5, <2>1, <2>2
<1>7. /\ nodeIndex + 4 <= QuadCount[MaxDepth]
      /\ nodeIndex \in Nat /\ InTree = 0 .. nodeIndex - 1
      /\ DOMAIN nodes = 0 .. QuadCount[MaxDepth] - 1
  <2>1. nodeIndex + 4 <= QuadCount[MaxDepth]
    BY <1>1, <1>2, <1>4, <1>6, PoolHasRoom
  <2> QED
    BY <1>2, <1>5, <2>1 DEF Pool, InTree
<1>8. old \in Seq(Entries) /\ with = Append(old, e) /\ Len(old) \in Nat
  BY <1>1, <1>2 DEF Pool, NodeRecords, WithEntry
<1>9. Remaining(n) = with
  <2>1. Len(old) <= MaxColliderNbr
    BY <1>1, <1>4, <1>6 DEF Fits
  <2>2. with \in Seq(Entries) /\ Len(with) = Len(old) + 1
    <3> HIDE DEF with, old, e
    <3> QED
      BY <1>1, <1>8
  <2>3. Len(with) > MaxColliderNbr
    BY DEF IsToDivide
  <2>4. Len(with) = MaxColliderNbr + 1
    BY <1>5, <1>8, <2>1, <2>2, <2>3
  <2> HIDE DEF with
  <2>5. SubSeq(with, 1, Len(with)) = with
    BY <2>2
  <2> QED
    BY <2>4, <2>5 DEF Remaining, with
<1>10. Lists(with, P)
  <2>1. e \notin ToSet(old) /\ NoRepeats(old)
    BY <1>1, <1>2 DEF Once, StoredEntries, StoredIn
  <2> HIDE DEF old, with, e
  <2>2. NoRepeats(with) /\ with \in Seq(Entries)
    BY <1>1, <1>8, <2>1, AppendNoRepeats
  <2>3. ToSet(with) = ToSet(old) \union {e}
    BY <1>1, <1>8, AppendToSet
  <2>4. Lists(with, ToSet(with))
    BY <2>2, ListsItself
  <2> QED
    BY <2>3, <2>4 DEF StoredIn, old
<1>11. Redistributes(n, P, kept, below)
  <2>1. Lists(kept, Stayers(b, P))
    <3> HIDE DEF P, b, with
    <3> QED
      BY <1>10, StayingLists
  <2>2. Lists(below, {CallFor(children, b, x, depth) : x \in Goers(b, P)})
    <3> HIDE DEF P, b, with, children, depth
    <3> QED
      BY <1>10, CallsBelowList
  <2> QED
    BY <2>1, <2>2 DEF Redistributes
<1>12. ToSet(children) = NewNodes /\ \A k \in 1 .. 4 : children[k] = nodeIndex + k - 1
  <2>1. DOMAIN children = 1 .. 4 /\ \A k \in 1 .. 4 : children[k] = nodeIndex + k - 1
    OBVIOUS
  <2>2. \A m \in NewNodes : m - nodeIndex + 1 \in 1 .. 4 /\ m = nodeIndex + (m - nodeIndex + 1) - 1
    BY <1>7 DEF NewNodes
  <2>3. \A m \in NewNodes : \E k \in 1 .. 4 : m = children[k]
    BY <2>1, <2>2
  <2>4. \A k \in 1 .. 4 : children[k] \in NewNodes
    BY <1>7 DEF NewNodes
  <2> HIDE DEF children
  <2> QED
    BY <2>1, <2>3, <2>4 DEF ToSet
<1>13. NewNodes \subseteq DOMAIN nodes \ InTree
  BY <1>5, <1>7 DEF NewNodes
<1>14. /\ nodes' = [m \in DOMAIN nodes |->
             IF m = n
             THEN Node(nodes[n].Boundary, children, kept)
             ELSE IF m \in NewNodes
                  THEN [nodes[m] EXCEPT !.Boundary = b[m - nodeIndex + 1]]
                  ELSE nodes[m]]
       /\ nodeIndex' = nodeIndex + 4
       /\ calls' = below \o Tail(calls)
       /\ status' = status
  BY <1>9, <1>12, <1>13 DEF Subdivide, Quarters
<1>15. /\ DOMAIN nodes' = DOMAIN nodes /\ nodes' = [m \in DOMAIN nodes' |-> nodes'[m]]
       /\ nodes'[n] = Node(nodes[n].Boundary, children, kept)
       /\ \A m \in NewNodes : nodes'[m] = [nodes[m] EXCEPT !.Boundary = b[m - nodeIndex + 1]]
       /\ \A m \in DOMAIN nodes \ NewNodes : m # n => nodes'[m] = nodes[m]
  <2> HIDE DEF b, kept, children
  <2> QED
    BY <1>1, <1>13, <1>14
<1>16. \A k \in 1 .. 4 : nodes'[nodeIndex + k - 1] = Node(b[k], <<>>, <<>>)
  <2> SUFFICES ASSUME NEW k \in 1 .. 4
               PROVE  nodes'[nodeIndex + k - 1] = Node(b[k], <<>>, <<>>)
    OBVIOUS
  <2> DEFINE m == nodeIndex + k - 1
  <2>1. m \in NewNodes /\ m - nodeIndex + 1 = k
    BY <1>7 DEF NewNodes
  <2> HIDE DEF m, b
  <2>2. nodes[m] \in NodeRecords /\ nodes[m].Children = <<>> /\ nodes[m].Colliders = <<>>
    BY <1>2, <1>13, <2>1 DEF Pool
  <2>3. nodes'[m] = Node(b[k], <<>>, <<>>)
    BY <1>15, <2>1, <2>2 DEF NodeRecords, Node
  <2> QED
    BY <2>3 DEF m
<1>17. Divides(n)
  <2>1. nodes'[n].Boundary = nodes[n].Boundary /\ nodes'[n].Children = children
    BY <1>15 DEF Node
  <2>2. \A m \in InTree \ {n} : nodes'[m] = nodes[m]
    BY <1>1, <1>13, <1>15
  <2> QED
    BY <1>1, <1>4, <1>7, <1>14, <1>16, <2>1, <2>2 DEF Divides
<1>18. \A m \in DOMAIN nodes \ (InTree' \union InTree) : nodes'[m] = nodes[m]
  <2>1. InTree' = 0 .. nodeIndex + 3
    BY <1>7, <1>14 DEF InTree
  <2>2. NewNodes \subseteq InTree'
    BY <1>7, <2>1 DEF NewNodes
  <2> QED
    BY <1>1, <1>15, <2>2
<1>19. nodes'[n].Colliders = kept
  BY <1>15 DEF Node
<1> HIDE DEF below, kept, P
<1>20. Redistributes(n, P, nodes'[n].Colliders, below) /\ calls' = below \o Tail(calls)
  BY <1>11, <1>14, <1>19
<1>21. UNCHANGED status
  BY <1>14
<1>22. \E c, q : nodes'[n] = Node(nodes[n].Boundary, c, q)
  BY <1>15
<1> HIDE DEF b, children
<1> QED
  BY <1>22, <1>7, <1>15, <1>17, <1>18, <1>20, <1>21

\* The activations a subdivision makes: one for each collider that goes down.
InsertedBelow(n, G, below, depth) ==
  \A i \in DOMAIN below : \E x \in G, k \in 1 .. 4 :
    /\ Meeting(Quarters(n), x.Rectangle) = {k}
    /\ below[i] = Call(nodeIndex + k - 1, x, depth + 1)

\* The activations a subdivision adds are those of the colliders that go down, each for
\* the child with the only quadrant its collider intersects.
LEMMA BelowFacts ==
  ASSUME NEW n, NEW P, NEW kept, NEW below, Redistributes(n, P, kept, below),
         nodeIndex \in Nat
  PROVE  /\ Distinct(below) /\ EntriesOf(below) = Goers(Quarters(n), P)
         /\ InsertedBelow(n, Goers(Quarters(n), P), below, Head(calls).depth)
<1> DEFINE b == Quarters(n)
           depth == Head(calls).depth
           children == [k \in 1 .. 4 |-> nodeIndex + k - 1]
           G == Goers(b, P)
           for(x) == CallFor(children, b, x, depth)
<1>1. Lists(below, {for(x) : x \in G})
  BY DEF Redistributes
<1>2. DOMAIN b = 1 .. 4
  BY DEF Quarters, QuadrantsOf, QuadrantsAround
<1>3. ASSUME NEW x \in G
      PROVE  \E k \in 1 .. 4 : /\ Meeting(b, x.Rectangle) = {k}
                               /\ for(x) = Call(nodeIndex + k - 1, x, depth + 1)
  <2>1. GoesDown(b, x.Rectangle)
    BY DEF Goers
  <2>2. PICK k \in 1 .. 4 : k = Down(b, x.Rectangle) /\ Meeting(b, x.Rectangle) = {k}
    BY <1>2, <2>1 DEF GoesDown, Down
  <2>3. for(x) = Call(nodeIndex + k - 1, x, depth + 1)
    BY <2>2 DEF CallFor
  <2> QED
    BY <2>2, <2>3
<1>4. \A x \in G : for(x).entry = x
  BY DEF CallFor, Call
<1> HIDE DEF for, G, b
<1>5. /\ DOMAIN below = 1 .. Len(below)
      /\ \A i \in DOMAIN below : \E x \in G : below[i] = for(x)
      /\ \A x \in G : \E i \in DOMAIN below : below[i] = for(x)
      /\ \A i, j \in DOMAIN below : below[i] = below[j] => i = j
  <2> DEFINE S == {for(x) : x \in G}
  <2>1. Lists(below, S)
    BY <1>1
  <2>2. /\ \A y \in S : \E x \in G : y = for(x)
        /\ \A x \in G : for(x) \in S
    OBVIOUS
  <2> HIDE DEF S
  <2>3. below \in Seq(S) /\ DOMAIN below = 1 .. Len(below)
    BY <2>1, LenProperties DEF Lists
  <2>4. \A i \in DOMAIN below : below[i] \in S
    BY <2>3
  <2> QED
    BY <2>1, <2>2, <2>3, <2>4 DEF Lists
<1>6. Distinct(below)
  BY <1>4, <1>5 DEF Distinct
<1>7. EntriesOf(below) = G
  <2>1. ASSUME NEW x \in EntriesOf(below) PROVE x \in G
    BY <1>4, <1>5 DEF EntriesOf
  <2>2. ASSUME NEW x \in G PROVE x \in EntriesOf(below)
    BY <1>4, <1>5 DEF EntriesOf
  <2> QED
    BY <2>1, <2>2
<1>8. ASSUME NEW i \in DOMAIN below
      PROVE  \E x \in G, k \in 1 .. 4 :
               Meeting(b, x.Rectangle) = {k} /\ below[i] = Call(nodeIndex + k - 1, x, depth + 1)
  <2>1. PICK x \in G : below[i] = for(x)
    BY <1>5
  <2>2. PICK k \in 1 .. 4 : /\ Meeting(b, x.Rectangle) = {k}
                            /\ for(x) = Call(nodeIndex + k - 1, x, depth + 1)
    BY <1>3
  <2> QED
    BY <2>1, <2>2
<1> QED
  BY <1>6, <1>7, <1>8 DEF G, b, InsertedBelow

\* insertInNode divides the node.
LEMMA SubdivideHolds ==
  ASSUME RunningInv, calls # <<>>, NEW n, n = Head(calls).node,
         IsLeaf(n), IsToDivide(n, Head(calls).depth), Subdivide(n, Head(calls).depth),
         UNCHANGED <<possiblePairs, stage>>
  PROVE  RunningInv' /\ AllEntries' = AllEntries /\ UNCHANGED status
<1> DEFINE e == Head(calls).entry
           b == Quarters(n)
<1>1. /\ Divides(n) /\ nodeIndex + 4 <= QuadCount[MaxDepth] /\ UNCHANGED status
      /\ DOMAIN nodes' = DOMAIN nodes /\ nodes' = [m \in DOMAIN nodes' |-> nodes'[m]]
      /\ \A m \in DOMAIN nodes \ (InTree' \union InTree) : nodes'[m] = nodes[m]
  BY SubdivideDoes
<1>2. PICK P, below : /\ Redistributes(n, P, nodes'[n].Colliders, below)
                      /\ calls' = below \o Tail(calls)
  BY SubdivideDoes
<1> DEFINE kept == nodes'[n].Colliders
<1>3. /\ InTree \subseteq DOMAIN nodes /\ n \in InTree /\ n \in DOMAIN nodes
      /\ e \in Entries /\ e \in PendingEntries /\ e \notin StoredEntries
      /\ 1 \in DOMAIN calls /\ calls[1] = Head(calls)
  BY HeadCall DEF CallRecords
<1>4. /\ Tail(calls) \in Seq(CallRecords) /\ Distinct(Tail(calls))
      /\ EntriesOf(Tail(calls)) = PendingEntries \ {e}
      /\ \A i \in DOMAIN Tail(calls) : i + 1 \in DOMAIN calls /\ Tail(calls)[i] = calls[i + 1]
  BY HeadCall
<1>5. Pool /\ Once /\ Numbered /\ Frame
  BY DEF RunningInv
<1>6. PICK dep, pos, way : TreeInv(dep, pos, way)
  BY DEF RunningInv
<1>7. Placed(dep, pos) /\ Ways(way) /\ Quartered /\ Routes(way) /\ Fits(dep)
  BY <1>6 DEF TreeInv
<1>8. Grows(n) /\ nodeIndex \in Nat /\ nodeIndex' = nodeIndex + 4
  BY <1>1, DividingGrows DEF Divides
<1>9. Head(calls).depth = dep[n] /\ dep[n] \in 0 .. MaxDepth /\ dep[n] < MaxDepth
  <2>1. Head(calls).depth = dep[n]
    BY <1>3, <1>7 DEF Fits
  <2>2. dep[n] \in 0 .. MaxDepth /\ dep[n] # MaxDepth /\ MaxDepth \in Nat
    BY <1>3, <1>7, <2>1, SizesAssumption DEF Placed, IsToDivide
  <2> QED
    BY <2>1, <2>2
<1>10. /\ InTree = 0 .. nodeIndex - 1 /\ InTree' = 0 .. nodeIndex + 3
       /\ QuadCount[MaxDepth] \in Nat /\ DOMAIN nodes = 0 .. QuadCount[MaxDepth] - 1
       /\ InTree' \subseteq DOMAIN nodes' /\ InTree \subseteq InTree'
  <2>1. QuadCount[MaxDepth] \in Nat
    BY QuadCountFacts, SizesAssumption
  <2> QED
    BY <1>1, <1>5, <1>8, <2>1 DEF Pool, Grows
<1>11. \A m \in InTree' \ InTree : \E k \in 1 .. 4 :
         m = nodeIndex + k - 1 /\ nodes'[m] = Node(b[k], <<>>, <<>>)
  <2> SUFFICES ASSUME NEW m \in InTree' \ InTree
               PROVE \E k \in 1 .. 4 : m = nodeIndex + k - 1 /\ nodes'[m] = Node(b[k], <<>>, <<>>)
    OBVIOUS
  <2>1. m - nodeIndex + 1 \in 1 .. 4 /\ nodeIndex + (m - nodeIndex + 1) - 1 = m
    BY <1>8, <1>10
  <2> QED
    BY <1>1, <2>1 DEF Divides
<1>12. /\ P = StoredIn(n) \union {e} /\ StoredIn(n) \subseteq Entries /\ P \subseteq Entries
       /\ NoRepeats(kept) /\ StoredIn(n)' = Stayers(b, P)
  <2>1. P = StoredIn(n) \union {e} /\ Lists(kept, Stayers(b, P))
    BY <1>2 DEF Redistributes
  <2>2. nodes[n].Colliders \in Seq(Entries)
    BY <1>3, <1>5 DEF Pool, NodeRecords
  <2>3. StoredIn(n) \subseteq Entries
    BY <2>2 DEF StoredIn, ToSet
  <2>4. NoRepeats(kept) /\ ToSet(kept) = Stayers(b, P)
    <3> HIDE DEF kept, b
    <3> QED
      BY <2>1, ListedItself
  <2> QED
    BY <1>3, <2>1, <2>3, <2>4 DEF StoredIn
<1>13. Distinct(below) /\ EntriesOf(below) = Goers(b, P)
  BY <1>2, <1>8, BelowFacts
<1>14. InsertedBelow(n, Goers(b, P), below, dep[n])
  BY <1>2, <1>8, <1>9, BelowFacts
<1>15. Stayers(b, P) \union Goers(b, P) = P /\ Stayers(b, P) \intersect Goers(b, P) = {}
  BY DEF Stayers, Goers
<1>28. \A j \in DOMAIN calls : calls[j].node \in InTree
  <2>1. calls \in Seq(CallRecords)
    BY <1>5 DEF Pool
  <2>2. \A j \in DOMAIN calls : calls[j] \in CallRecords
    BY <2>1
  <2> QED
    BY <2>2 DEF CallRecords
<1> HIDE DEF e, b, kept
<1>16. ASSUME NEW m \in DOMAIN nodes, m # n
       PROVE  StoredIn(m)' = StoredIn(m) /\ NoRepeats(nodes'[m].Colliders)
  <2>1. CASE m \in InTree' \ InTree
    <3>1. nodes'[m].Colliders = <<>> /\ nodes[m].Colliders = <<>>
      BY <1>5, <1>11, <1>16, <2>1 DEF Pool, Node
    <3> QED
      BY <3>1 DEF StoredIn, NoRepeats
  <2>2. CASE m \notin InTree' \ InTree
    <3>1. nodes'[m] = nodes[m]
      BY <1>1, <1>16, <2>2 DEF Divides
    <3> QED
      BY <1>5, <3>1 DEF StoredIn, Once
  <2> QED
    BY <2>1, <2>2
<1>17. StoredEntries' = (StoredEntries \ StoredIn(n)) \union Stayers(b, P)
  <2>1. ASSUME NEW x \in StoredEntries'
        PROVE  x \in (StoredEntries \ StoredIn(n)) \union Stayers(b, P)
    <3>1. PICK m \in DOMAIN nodes : x \in StoredIn(m)'
      BY <1>1 DEF StoredEntries
    <3>2. CASE m = n
      BY <1>12, <3>1, <3>2
    <3>3. CASE m # n
      <4>1. x \in StoredIn(m) /\ x \notin StoredIn(n)
        BY <1>3, <1>5, <1>16, <3>1, <3>3 DEF Once
      <4> QED
        BY <4>1 DEF StoredEntries
    <3> QED
      BY <3>2, <3>3
  <2>2. ASSUME NEW x \in Stayers(b, P) PROVE x \in StoredEntries'
    BY <1>1, <1>3, <1>12 DEF StoredEntries
  <2>3. ASSUME NEW x \in StoredEntries \ StoredIn(n) PROVE x \in StoredEntries'
    <3>1. PICK m \in DOMAIN nodes : x \in StoredIn(m)
      BY DEF StoredEntries
    <3>2. m # n /\ x \in StoredIn(m)'
      BY <1>16, <3>1
    <3> QED
      BY <1>1, <3>2 DEF StoredEntries
  <2> QED
    BY <2>1, <2>2, <2>3
<1>18. EntriesOf(below) \intersect EntriesOf(Tail(calls)) = {}
  <2>1. StoredIn(n) \subseteq StoredEntries /\ PendingEntries \intersect StoredEntries = {}
    BY <1>3, <1>5 DEF StoredEntries, Once
  <2> QED
    BY <1>4, <1>12, <1>13, <1>15, <2>1
<1>19. /\ CallRecords' = [node : InTree', entry : Entries, depth : 0 .. MaxDepth]
       /\ below \in Seq(CallRecords') /\ Tail(calls) \in Seq(CallRecords')
  <2>1. CallRecords' = [node : InTree', entry : Entries, depth : 0 .. MaxDepth]
    BY DEF CallRecords
  <2>2. CallRecords \subseteq CallRecords'
    BY <1>10, <2>1 DEF CallRecords
  <2>3. \A i \in DOMAIN below : below[i] \in CallRecords'
    <3> SUFFICES ASSUME NEW i \in DOMAIN below PROVE below[i] \in CallRecords'
      OBVIOUS
    <3>1. PICK x \in Goers(b, P), k \in 1 .. 4 :
            below[i] = Call(nodeIndex + k - 1, x, dep[n] + 1)
      BY <1>14 DEF InsertedBelow
    <3>2. nodeIndex + k - 1 \in InTree'
      BY <1>8, <1>10
    <3>3. x \in Entries
      BY <1>12, <1>15
    <3>4. dep[n] + 1 \in 0 .. MaxDepth
      BY <1>9, SizesAssumption
    <3> QED
      BY <2>1, <3>1, <3>2, <3>3, <3>4 DEF Call
  <2>4. \E S : below \in Seq(S)
    BY <1>2 DEF Redistributes, Lists
  <2>5. below \in Seq(CallRecords')
    <3>1. PICK S : below \in Seq(S)
      BY <2>4
    <3>2. below = [i \in 1 .. Len(below) |-> below[i]] /\ DOMAIN below = 1 .. Len(below)
          /\ Len(below) \in Nat
      BY <3>1
    <3> HIDE DEF CallRecords
    <3> QED
      BY <2>3, <3>2
  <2>6. Tail(calls) \in Seq(CallRecords')
    BY <1>4, <2>2, SeqMonotonic
  <2> QED
    BY <2>1, <2>5, <2>6
<1>20. Joined(below, Tail(calls), calls')
  BY <1>2, <1>4, <1>13, <1>18, <1>19, CallsBefore
<1>21. calls' \in Seq(CallRecords')
  BY <1>2, <1>19
<1>22. PendingEntries' = Goers(b, P) \union (PendingEntries \ {e})
  BY <1>4, <1>13, <1>20 DEF Joined, PendingEntries, EntriesOf
<1>23. AllEntries' = AllEntries
  <2>1. StoredIn(n) \subseteq StoredEntries
    BY <1>3 DEF StoredEntries
  <2> QED
    BY <1>3, <1>12, <1>15, <1>17, <1>22, <2>1 DEF AllEntries
<1>24. Pool'
  <2>1. NodeRecords' = NodeRecords
    BY <1>1 DEF NodeRecords
  <2>6. kept \in Seq(Entries)
    <3>1. kept \in Seq(Stayers(b, P))
      BY <1>2 DEF Redistributes, Lists, b, kept
    <3>2. Stayers(b, P) \subseteq Entries
      BY <1>12, <1>15
    <3> QED
      BY <3>1, <3>2, SeqMonotonic
  <2>7. nodes'[n] \in NodeRecords
    <3>1. \A k \in 1 .. 4 : nodeIndex + k - 1 \in DOMAIN nodes
      BY <1>1, <1>8, <1>10
    <3>2. nodes'[n].Children \in [1 .. 4 -> DOMAIN nodes]
      BY <1>1, <3>1 DEF Divides
    <3>3. nodes[n] \in NodeRecords
      BY <1>3, <1>5 DEF Pool
    <3>4. PICK c, q : nodes'[n] = Node(nodes[n].Boundary, c, q)
      BY SubdivideDoes
    <3>5. nodes'[n] = Node(nodes[n].Boundary, nodes'[n].Children, kept)
      BY <3>4 DEF Node, kept
    <3> QED
      BY <2>6, <3>2, <3>3, <3>5 DEF NodeRecords, Node
  <2>8. \A m \in InTree' \ InTree : nodes'[m] \in NodeRecords
    <3> SUFFICES ASSUME NEW m \in InTree' \ InTree PROVE nodes'[m] \in NodeRecords
      OBVIOUS
    <3>1. PICK k \in 1 .. 4 : nodes'[m] = Node(b[k], <<>>, <<>>)
      BY <1>11
    <3>2. b[k] \in Rectangles
      BY <1>3, <1>7, QuartersProper DEF Quartered, b, Quarters
    <3>3. <<>> \in Seq(Entries)
      OBVIOUS
    <3> QED
      BY <3>1, <3>2, <3>3 DEF NodeRecords, Node
  <2>2. \A m \in DOMAIN nodes' : nodes'[m] \in NodeRecords
    <3> SUFFICES ASSUME NEW m \in DOMAIN nodes, m # n, m \notin InTree' \ InTree
                 PROVE  nodes'[m] \in NodeRecords
      BY <1>1, <2>7, <2>8
    <3>1. nodes'[m] = nodes[m]
      BY <1>1 DEF Divides
    <3> QED
      BY <1>5, <3>1 DEF Pool
  <2>3. \A m \in DOMAIN nodes' \ InTree' : nodes'[m].Children = <<>> /\ nodes'[m].Colliders = <<>>
    BY <1>1, <1>5, <1>10 DEF Pool
  <2>4. nodeIndex' \in 1 .. QuadCount[MaxDepth]
    BY <1>1, <1>8, <1>10
  <2>5. nodes' \in [DOMAIN nodes' -> NodeRecords']
    BY <1>1, <2>1, <2>2
  <2> QED
    BY <1>1, <1>5, <1>21, <2>3, <2>4, <2>5 DEF Pool
<1>25. Once'
  <2>1. \A m \in DOMAIN nodes' : NoRepeats(nodes'[m].Colliders)
    BY <1>1, <1>12, <1>16 DEF kept
  <2>2. \A l, m \in DOMAIN nodes' : l # m => StoredIn(l)' \intersect StoredIn(m)' = {}
    <3>1. e \notin StoredIn(n) /\ \A m \in DOMAIN nodes : e \notin StoredIn(m)
      BY <1>3 DEF StoredEntries
    <3>2. StoredIn(n)' \subseteq StoredIn(n) \union {e}
      BY <1>12, <1>15
    <3> QED
      BY <1>1, <1>3, <1>5, <1>16, <3>1, <3>2 DEF Once
  <2>3. Distinct(calls)'
    BY <1>20 DEF Joined, Distinct
  <2>4. PendingEntries' \intersect StoredEntries' = {}
    <3>1. PendingEntries \intersect StoredEntries = {} /\ StoredIn(n) \subseteq StoredEntries
      BY <1>3, <1>5 DEF Once, StoredEntries
    <3> SUFFICES ASSUME NEW x \in PendingEntries', x \in StoredEntries' PROVE FALSE
      OBVIOUS
    <3>2. CASE x \in Goers(b, P)
      <4>1. x \in StoredIn(n) \union {e} /\ x \notin Stayers(b, P)
        BY <1>12, <1>15, <3>2
      <4> QED
        BY <1>3, <1>17, <4>1
    <3>3. CASE x \in PendingEntries \ {e}
      <4>1. x \notin StoredEntries /\ x # e
        BY <3>1, <3>3
      <4>2. x \notin P
        BY <1>12, <3>1, <4>1
      <4> QED
        BY <1>15, <1>17, <4>1, <4>2
    <3> QED
      BY <1>22, <3>2, <3>3
  <2> QED
    BY <2>1, <2>2, <2>3, <2>4 DEF Once
<1>26. Numbered' /\ Frame'
  <2>1. calls' # <<>> => calls # <<>>
    OBVIOUS
  <2> QED
    BY <1>5, <1>23, <2>1 DEF Numbered, Frame
<1>27. ASSUME NEW d, d = Deeper(n, dep), NEW p, p = Further(n, pos), NEW w, w = Longer(n, way)
       PROVE  TreeInv(d, p, w)'
  <2>1. Placed(d, p)'
    BY <1>5, <1>7, <1>8, <1>9, <1>27, GrownPlaced
  <2>2. Ways(w)'
    BY <1>7, <1>8, <1>27, GrownWays
  <2>3. /\ \A m \in InTree : d[m] = dep[m]
        /\ \A m \in InTree' \ InTree : d[m] = dep[n] + 1
    BY <1>8, <1>10, <1>27 DEF Deeper
  <2>4. Quartered'
    <3>1. \A m \in InTree : nodes'[m].Boundary = nodes[m].Boundary
      BY <1>1 DEF Divides
    <3>2. \A m \in InTree' \ InTree : Proper(nodes'[m].Boundary)
      <4> SUFFICES ASSUME NEW m \in InTree' \ InTree PROVE Proper(nodes'[m].Boundary)
        OBVIOUS
      <4>1. PICK k \in 1 .. 4 : nodes'[m] = Node(b[k], <<>>, <<>>)
        BY <1>11
      <4>2. Proper(b[k])
        BY <1>3, <1>7, QuartersProper DEF Quartered, b, Quarters
      <4> QED
        BY <4>1, <4>2 DEF Node
    <3>3. \A m \in InTree' : Proper(nodes'[m].Boundary)
      BY <1>7, <3>1, <3>2 DEF Quartered
    <3>4. ASSUME NEW m \in InTree', Inner(m)', NEW k \in 1 .. 4
          PROVE  nodes'[Child(m, k)'].Boundary = Quarters(m)'[k]
      <4>1. CASE m = n
        <5>1. Child(n, k)' = nodeIndex + k - 1 /\ Quarters(n)' = b
          BY <1>3, <1>8 DEF Grows, b
        <5>2. nodes'[nodeIndex + k - 1] = Node(b[k], <<>>, <<>>)
          BY <1>1 DEF Divides, b
        <5> QED
          BY <4>1, <5>1, <5>2 DEF Node
      <4>2. CASE m # n
        <5>1. /\ m \in InTree /\ Inner(m) /\ Child(m, k)' = Child(m, k)
              /\ Quarters(m)' = Quarters(m)
          BY <1>8, <3>4, <4>2 DEF Grows
        <5>2. Child(m, k) \in InTree
          BY <1>7, <5>1 DEF Placed
        <5>3. nodes[Child(m, k)].Boundary = Quarters(m)[k]
          BY <1>7, <5>1 DEF Quartered
        <5> QED
          BY <3>1, <5>1, <5>2, <5>3
      <4> QED
        BY <4>1, <4>2
    <3> QED
      BY <3>3, <3>4 DEF Quartered
  <2>5. ASSUME NEW m \in InTree, NEW x, Routed(way, m, x) PROVE Routed(w, m, x)'
    BY <1>7, <1>8, <1>27, <2>5, GrownRouted
  <2>6. \A x \in P : Routed(way, n, x)
    BY <1>3, <1>7, <1>12 DEF Routes, e
  <2>7. Routes(w)'
    <3>1. ASSUME NEW m \in InTree', NEW x \in StoredIn(m)' PROVE Routed(w, m, x)'
      <4>1. CASE m \in InTree' \ InTree
        <5>1. nodes'[m].Colliders = <<>>
          BY <1>11, <4>1 DEF Node
        <5> QED
          BY <3>1, <5>1 DEF StoredIn, ToSet
      <4>2. CASE m = n
        BY <1>3, <1>12, <1>15, <2>5, <2>6, <3>1, <4>2
      <4>3. CASE m \in InTree /\ m # n
        <5>1. x \in StoredIn(m)
          BY <1>3, <1>16, <3>1, <4>3
        <5> QED
          BY <1>7, <2>5, <4>3, <5>1 DEF Routes
      <4> QED
        BY <4>1, <4>2, <4>3
    <3>2. \A i \in DOMAIN calls' : Routed(w, calls[i].node, calls[i].entry)'
      <4> SUFFICES ASSUME NEW i \in DOMAIN calls'
                   PROVE  Routed(w, calls[i].node, calls[i].entry)'
        OBVIOUS
      <4>1. CASE \E j \in DOMAIN below : calls'[i] = below[j]
        <5>1. PICK x \in Goers(b, P), k \in 1 .. 4 :
                /\ Meeting(b, x.Rectangle) = {k}
                /\ calls'[i] = Call(nodeIndex + k - 1, x, dep[n] + 1)
          BY <1>14, <4>1 DEF InsertedBelow, b
        <5>2. PICK c : c = nodeIndex + k - 1
          OBVIOUS
        <5>3. Routed(way, n, x)
          BY <1>15, <2>6
        <5>4. Routed(w, c, x)'
          BY <1>7, <1>8, <1>27, <5>1, <5>2, <5>3, GrownRoutedBelow DEF b
        <5>5. calls'[i].node = c /\ calls'[i].entry = x
          BY <5>1, <5>2 DEF Call
        <5> QED
          BY <5>4, <5>5
      <4>2. CASE \E j \in DOMAIN Tail(calls) : calls'[i] = Tail(calls)[j]
        <5>1. PICK j \in DOMAIN calls : calls'[i] = calls[j]
          BY <1>4, <4>2
        <5>2. calls[j].node \in InTree /\ Routed(way, calls[j].node, calls[j].entry)
          BY <1>7, <1>28 DEF Routes
        <5>3. PICK m, x : m = calls[j].node /\ x = calls[j].entry
          OBVIOUS
        <5>4. Routed(w, m, x)'
          BY <2>5, <5>2, <5>3
        <5> QED
          BY <5>1, <5>3, <5>4
      <4> QED
        BY <1>20, <4>1, <4>2 DEF Joined
    <3> QED
      BY <3>1, <3>2 DEF Routes
  <2>8. Fits(d)'
    <3>1. \A m \in InTree' : Inner(m)' => d[m] < MaxDepth
      BY <1>3, <1>7, <1>8, <1>9, <2>3 DEF Fits, Grows
    <3>2. ASSUME NEW m \in InTree', ~Inner(m)', d[m] < MaxDepth
          PROVE  Len(nodes'[m].Colliders) <= MaxColliderNbr
      <4>1. CASE m \in InTree' \ InTree
        <5>1. nodes'[m].Colliders = <<>>
          BY <1>11, <4>1 DEF Node
        <5> QED
          BY <5>1, SizesAssumption
      <4>2. CASE m \in InTree
        <5>1. m # n /\ ~Inner(m)
          BY <1>8, <1>10, <3>2, <4>2 DEF Grows
        <5>2. nodes'[m] = nodes[m]
          BY <1>1, <4>2, <5>1 DEF Divides
        <5> QED
          BY <1>7, <2>3, <3>2, <4>2, <5>1, <5>2 DEF Fits
      <4> QED
        BY <4>1, <4>2
    <3>3. ASSUME NEW i \in DOMAIN calls' PROVE calls'[i].depth = d[calls'[i].node]
      <4>1. CASE \E j \in DOMAIN below : calls'[i] = below[j]
        <5>1. PICK x \in Goers(b, P), k \in 1 .. 4 :
                calls'[i] = Call(nodeIndex + k - 1, x, dep[n] + 1)
          BY <1>14, <4>1 DEF InsertedBelow
        <5>2. nodeIndex + k - 1 \in InTree' \ InTree
          BY <1>8, <1>10
        <5> QED
          BY <2>3, <5>1, <5>2 DEF Call
      <4>2. CASE \E j \in DOMAIN Tail(calls) : calls'[i] = Tail(calls)[j]
        <5>1. PICK j \in DOMAIN calls : calls'[i] = calls[j]
          BY <1>4, <4>2
        <5>2. calls[j].node \in InTree /\ calls[j].depth = dep[calls[j].node]
          BY <1>7, <1>28 DEF Fits
        <5> QED
          BY <2>3, <5>1, <5>2
      <4> QED
        BY <1>20, <4>1, <4>2 DEF Joined
    <3> QED
      BY <3>1, <3>2, <3>3 DEF Fits
  <2> QED
    BY <2>1, <2>2, <2>4, <2>7, <2>8 DEF TreeInv
<1> QED
  BY <1>1, <1>23, <1>24, <1>25, <1>26, <1>27 DEF RunningInv

-----------------------------------------------------------------------------
(* What the two recursions over the tree list.                             *)

\* Flattened, the sequences of sequences over a set are sequences over it.
LEMMA FlattenType ==
  ASSUME NEW S, NEW seqs \in Seq(Seq(S)) PROVE FlattenSeq(seqs) \in Seq(S)
<1>1. CASE seqs = <<>>
  BY <1>1 DEF FlattenSeq
<1>2. CASE seqs # <<>>
  <2>1. PICK f \in [1 .. Len(seqs) -> Seq(S)] : FlattenSeq(seqs) = f[Len(seqs)]
    BY <1>2, FlattenByPrefix
  <2>2. Len(seqs) \in 1 .. Len(seqs)
    BY <1>2
  <2> QED
    BY <2>1, <2>2
<1> QED
  BY <1>1, <1>2

OfChildren(f, n) == [k \in DOMAIN nodes[n].Children |-> f[nodes[n].Children[k]]]

\* f gathers, for each node, what own has for it and for the nodes below it.
Gathers(f, own) ==
  f = [n \in DOMAIN nodes |->
         own[n] \o FlattenSeq([k \in DOMAIN nodes[n].Children |-> f[nodes[n].Children[k]]])]

\* The children of a node come after it in the pool.
LEMMA ChildrenAfter ==
  ASSUME Pool, NEW dep, NEW pos, Placed(dep, pos), NEW n \in DOMAIN nodes,
         NEW k \in DOMAIN nodes[n].Children
  PROVE  /\ n \in InTree /\ Inner(n) /\ k \in 1 .. 4
         /\ nodes[n].Children[k] \in DOMAIN nodes /\ nodes[n].Children[k] > n
<1>1. nodes[n].Children # <<>>
  <2>1. DOMAIN <<>> = {}
    OBVIOUS
  <2> QED
    BY <2>1
<1>2. n \in InTree /\ Inner(n)
  BY <1>1 DEF Pool, Inner
<1>3. nodes[n].Children \in [1 .. 4 -> DOMAIN nodes]
  BY <1>1 DEF Pool, NodeRecords
<1> QED
  BY <1>2, <1>3 DEF Placed, Child

\* A function on the first numbers is a sequence.
LEMMA MappingIsSeq ==
  ASSUME NEW l \in Nat, NEW V, NEW f \in [1 .. l -> V]
  PROVE  f \in Seq(V) /\ Len(f) = l
  OBVIOUS

\* Four values are a sequence of length four.
LEMMA FourAreASeq ==
  ASSUME NEW V, NEW f \in [1 .. 4 -> V] PROVE f \in Seq(V) /\ Len(f) = 4
<1> DEFINE l == 4
<1>1. l \in Nat /\ f \in [1 .. l -> V]
  OBVIOUS
<1> HIDE DEF l
<1>2. f \in Seq(V) /\ Len(f) = l
  BY <1>1, MappingIsSeq
<1> QED
  BY <1>2 DEF l

\* There is a function that gathers: it is defined from the last node of the pool
\* upwards.
LEMMA GatherExists ==
  ASSUME Pool, NEW dep, NEW pos, Placed(dep, pos),
         NEW S, NEW own \in [DOMAIN nodes -> Seq(S)]
  PROVE  \E f \in [DOMAIN nodes -> Seq(S)] : Gathers(f, own)
<1> DEFINE D == DOMAIN nodes
           V == Seq(S)
           value(n, f) == own[n] \o FlattenSeq(OfChildren(f, n))
           rank == [n \in D |-> QuadCount[MaxDepth] - n]
           step == [df \in D \X [D -> V] |-> value(df[1], df[2])]
<1>1. QuadCount[MaxDepth] \in Nat
  BY QuadCountFacts, SizesAssumption
<1>2. \A n \in D : \A k \in DOMAIN nodes[n].Children :
        nodes[n].Children[k] \in D /\ nodes[n].Children[k] > n
  BY ChildrenAfter
<1>3. rank \in [D -> Nat] /\ D \subseteq Nat
  BY <1>1 DEF Pool
<1>4. \A n \in D, f \in [D -> V] : value(n, f) \in V /\ step[<<n, f>>] = value(n, f)
  <2> SUFFICES ASSUME NEW n \in D, NEW f \in [D -> V] PROVE value(n, f) \in V
    OBVIOUS
  <2>1. nodes[n].Children \in {<<>>} \union [1 .. 4 -> D]
    BY DEF Pool, NodeRecords
  <2>2. OfChildren(f, n) \in Seq(V)
    <3>1. CASE nodes[n].Children = <<>>
      <4>1. OfChildren(f, n) = <<>>
        BY <3>1 DEF OfChildren
      <4> QED
        BY <4>1
    <3>2. CASE nodes[n].Children \in [1 .. 4 -> D]
      <4>1. OfChildren(f, n) \in [1 .. 4 -> V]
        BY <3>2 DEF OfChildren
      <4> QED
        BY <4>1, FourAreASeq
    <3> QED
      BY <2>1, <3>1, <3>2
  <2>3. FlattenSeq(OfChildren(f, n)) \in Seq(S) /\ own[n] \in Seq(S)
    BY <2>2, FlattenType
  <2> QED
    BY <2>3
<1>5. LooksDown(D, V, rank, step)
  <2> SUFFICES ASSUME NEW n \in D, NEW f \in [D -> V], NEW g \in [D -> V],
                      \A m \in D : rank[m] < rank[n] => f[m] = g[m]
               PROVE  step[<<n, f>>] = step[<<n, g>>]
    BY DEF LooksDown
  <2>1. \A k \in DOMAIN nodes[n].Children : f[nodes[n].Children[k]] = g[nodes[n].Children[k]]
    BY <1>1, <1>2, <1>3
  <2>2. OfChildren(f, n) = OfChildren(g, n)
    BY <2>1 DEF OfChildren
  <2> HIDE DEF step
  <2> QED
    BY <1>4, <2>2
<1>6. V # {} /\ step \in [D \X [D -> V] -> V]
  <2>1. <<>> \in V
    OBVIOUS
  <2>2. \A df \in D \X [D -> V] : value(df[1], df[2]) \in V
    BY <1>4
  <2> HIDE DEF value, V, D
  <2> QED
    BY <2>1, <2>2
<1>7. IsRecursion(D, V, rank, step)
  BY <1>3, <1>5, <1>6 DEF IsRecursion
<1>8. PICK f : Solves(f, D, V, step)
  <2> HIDE DEF rank, step, D, V
  <2> QED
    BY <1>7, Recursion
<1>9. f \in [D -> V] /\ \A n \in D : f[n] = value(n, f)
  <2> HIDE DEF step
  <2> QED
    BY <1>4, <1>8 DEF Solves
<1>10. Gathers(f, own)
  BY <1>9 DEF Gathers, OfChildren
<1> QED
  BY <1>9, <1>10

\* The nodes below a node, itself included, and what is listed for them.
NodesBelow(way, n) == {m \in InTree : n \in way[m]}
AllBelow(way, part, n) == UNION {part[m] : m \in NodesBelow(way, n)}
AllUnder(way, part, n) == UNION {part[m] : m \in NodesBelow(way, n) \ {n}}

\* Every node lists a part of S, and the parts are disjoint.
Apart(own, part, S) ==
  /\ own \in [DOMAIN nodes -> Seq(S)] /\ part \in [InTree -> SUBSET S]
  /\ \A m \in InTree : Lists(own[m], part[m])
  /\ \A l, m \in InTree : l # m => part[l] \intersect part[m] = {}

\* The nodes below n are n and those below its children, which are different
\* for different children.
LEMMA BelowChild ==
  ASSUME NEW dep, NEW pos, Placed(dep, pos), NEW way, Ways(way), NEW n \in InTree, Inner(n)
  PROVE  /\ \A m \in InTree : m \in NodesBelow(way, n) \ {n} <=>
               \E k \in 1 .. 4 : m \in NodesBelow(way, Child(n, k))
         /\ \A j, k \in 1 .. 4 : j # k =>
               NodesBelow(way, Child(n, j)) \intersect NodesBelow(way, Child(n, k)) = {}
<1>1. \A k \in 1 .. 4 : Child(n, k) \in InTree /\ Child(n, k) > n
  BY DEF Placed
<1>2. ASSUME NEW m \in InTree, n \in way[m], m # n
      PROVE  \E k \in 1 .. 4 : Child(n, k) \in way[m]
  BY <1>2 DEF Ways
<1>3. ASSUME NEW m \in InTree, NEW k \in 1 .. 4, Child(n, k) \in way[m]
      PROVE  n \in way[m] /\ m # n
  <2>1. n \in way[m]
    BY <1>3 DEF Ways
  <2>2. Child(n, k) \in 0 .. m
    BY <1>3 DEF Ways
  <2>3. m # n
    BY <1>1, <2>2 DEF InTree
  <2> QED
    BY <2>1, <2>3
<1>4. ASSUME NEW m \in InTree, NEW j \in 1 .. 4, NEW k \in 1 .. 4,
             Child(n, j) \in way[m], Child(n, k) \in way[m]
      PROVE  j = k
  BY <1>4 DEF Ways
<1> QED
  BY <1>2, <1>3, <1>4 DEF NodesBelow

\* If the nodes after n have gathered what is below them, n gathers from its children
\* what is below it.
LEMMA GatherChildren ==
  ASSUME Pool, NEW dep, NEW pos, Placed(dep, pos), NEW way, Ways(way),
         NEW S, NEW own, NEW part, Apart(own, part, S),
         NEW f \in [DOMAIN nodes -> Seq(S)], NEW n \in InTree,
         \A m \in InTree : m > n => Lists(f[m], AllBelow(way, part, m))
  PROVE  Lists(FlattenSeq(OfChildren(f, n)), AllUnder(way, part, n))
<1>1. n \in DOMAIN nodes
  BY TreeInPool
<1>2. CASE ~Inner(n)
  <2>1. OfChildren(f, n) = <<>>
    BY <1>2 DEF OfChildren, Inner
  <2>2. FlattenSeq(<<>>) = <<>>
    BY DEF FlattenSeq
  <2>3. NodesBelow(way, n) \ {n} = {}
    BY <1>2 DEF NodesBelow, Ways
  <2>4. AllUnder(way, part, n) = {}
    BY <2>3 DEF AllUnder
  <2> QED
    BY <2>1, <2>2, <2>4, ListsEmpty
<1>3. CASE Inner(n)
  <2> DEFINE seqs == OfChildren(f, n)
             parts == [k \in 1 .. 4 |-> AllBelow(way, part, Child(n, k))]
  <2>1. nodes[n].Children \in [1 .. 4 -> DOMAIN nodes]
    BY <1>1, <1>3 DEF Pool, NodeRecords, Inner
  <2>2. seqs = [k \in 1 .. 4 |-> f[Child(n, k)]]
    BY <2>1 DEF OfChildren, Child
  <2>3. seqs \in [1 .. 4 -> Seq(S)]
    BY <2>1 DEF OfChildren
  <2> HIDE DEF seqs
  <2>4. seqs \in Seq(Seq(S)) /\ Len(seqs) = 4
    BY <2>3, FourAreASeq
  <2>5. \A k \in 1 .. 4 : Child(n, k) \in InTree /\ Child(n, k) > n
    BY <1>3 DEF Placed
  <2>6. \A k \in 1 .. 4 : Lists(seqs[k], parts[k])
    BY <2>2, <2>5
  <2>7. \A m \in InTree : part[m] \subseteq S
    BY DEF Apart
  <2>8. parts \in [1 .. 4 -> SUBSET S]
    BY <2>7 DEF AllBelow, NodesBelow
  <2>9. \A j, k \in 1 .. 4 : j # k => parts[j] \intersect parts[k] = {}
    <3> SUFFICES ASSUME NEW j \in 1 .. 4, NEW k \in 1 .. 4, j # k,
                        NEW x \in parts[j], x \in parts[k]
                 PROVE  FALSE
      OBVIOUS
    <3>1. PICK l \in NodesBelow(way, Child(n, j)) : x \in part[l]
      BY DEF AllBelow
    <3>2. PICK m \in NodesBelow(way, Child(n, k)) : x \in part[m]
      BY DEF AllBelow
    <3>3. l # m
      BY <1>3, BelowChild
    <3> QED
      BY <3>1, <3>2, <3>3 DEF Apart, NodesBelow
  <2>10. AllOf(parts) = AllUnder(way, part, n)
    <3>1. ASSUME NEW x \in AllOf(parts) PROVE x \in AllUnder(way, part, n)
      <4>1. PICK k \in 1 .. 4 : x \in AllBelow(way, part, Child(n, k))
        BY DEF AllOf
      <4>2. PICK m \in NodesBelow(way, Child(n, k)) : x \in part[m]
        BY <4>1 DEF AllBelow
      <4>3. m \in InTree
        BY DEF NodesBelow
      <4>4. m \in NodesBelow(way, n) \ {n}
        BY <1>3, <4>2, <4>3, BelowChild
      <4> QED
        BY <4>2, <4>4 DEF AllUnder
    <3>2. ASSUME NEW x \in AllUnder(way, part, n) PROVE x \in AllOf(parts)
      <4>1. PICK m \in NodesBelow(way, n) \ {n} : x \in part[m]
        BY DEF AllUnder
      <4>2. m \in InTree
        BY DEF NodesBelow
      <4>3. PICK k \in 1 .. 4 : m \in NodesBelow(way, Child(n, k))
        BY <1>3, <4>1, <4>2, BelowChild
      <4>4. x \in parts[k]
        BY <4>1, <4>3 DEF AllBelow
      <4> QED
        BY <4>4 DEF AllOf
    <3> QED
      BY <3>1, <3>2
  <2> HIDE DEF parts
  <2>11. ListParts(seqs, parts, S)
    BY <2>4, <2>6, <2>8, <2>9 DEF ListParts
  <2>12. Lists(FlattenSeq(seqs), AllOf(parts))
    BY <2>11, FlattenLists
  <2> QED
    BY <2>10, <2>12 DEF seqs
<1> QED
  BY <1>2, <1>3

\* Gathered, the parts of a node and of the nodes below it are listed.
LEMMA GatherLists ==
  ASSUME Pool, NEW dep, NEW pos, Placed(dep, pos), NEW way, Ways(way),
         NEW S, NEW own, NEW part, Apart(own, part, S),
         NEW f \in [DOMAIN nodes -> Seq(S)], Gathers(f, own), NEW n \in InTree
  PROVE  Lists(f[n], AllBelow(way, part, n))
<1> DEFINE T == {m \in InTree : ~Lists(f[m], AllBelow(way, part, m))}
<1> SUFFICES ASSUME T # {} PROVE FALSE
  OBVIOUS
<1>1. nodeIndex \in Nat /\ nodeIndex - 1 \in Nat
  <2>1. QuadCount[MaxDepth] \in Nat
    BY QuadCountFacts, SizesAssumption
  <2> QED
    BY <2>1 DEF Pool
<1>2. PICK m \in T : \A l \in T : l <= m
  <2>1. T \subseteq 0 .. nodeIndex - 1
    BY DEF InTree
  <2> HIDE DEF T
  <2> QED
    BY <1>1, <2>1, GreatestNatural
<1>3. m \in InTree /\ ~Lists(f[m], AllBelow(way, part, m))
  OBVIOUS
<1>4. \A l \in InTree : l > m => Lists(f[l], AllBelow(way, part, l))
  BY <1>1, <1>2, <1>3 DEF InTree
<1>5. Lists(FlattenSeq(OfChildren(f, m)), AllUnder(way, part, m))
  BY <1>3, <1>4, GatherChildren
<1>6. f[m] = own[m] \o FlattenSeq(OfChildren(f, m))
  <2>1. m \in DOMAIN nodes
    BY <1>3, TreeInPool
  <2> QED
    BY <2>1 DEF Gathers, OfChildren
<1>7. Lists(own[m], part[m]) /\ part[m] \intersect AllUnder(way, part, m) = {}
  BY <1>3 DEF Apart, AllUnder, NodesBelow
<1>8. AllBelow(way, part, m) = part[m] \union AllUnder(way, part, m)
  <2>1. m \in NodesBelow(way, m)
    BY <1>3 DEF NodesBelow, Ways
  <2> QED
    BY <2>1 DEF AllBelow, AllUnder
<1>9. Lists(own[m] \o FlattenSeq(OfChildren(f, m)), part[m] \union AllUnder(way, part, m))
  BY <1>5, <1>7, ListsConcat
<1> QED
  BY <1>3, <1>6, <1>8, <1>9

\* There is only one.
LEMMA GatherUnique ==
  ASSUME Pool, NEW dep, NEW pos, Placed(dep, pos), NEW own,
         NEW f, Gathers(f, own), NEW g, Gathers(g, own)
  PROVE  f = g
<1> DEFINE T == {m \in DOMAIN nodes : f[m] # g[m]}
<1>1. /\ DOMAIN f = DOMAIN nodes /\ f = [n \in DOMAIN nodes |-> f[n]]
      /\ DOMAIN g = DOMAIN nodes /\ g = [n \in DOMAIN nodes |-> g[n]]
  BY DEF Gathers
<1>2. \A n \in DOMAIN nodes : /\ f[n] = own[n] \o FlattenSeq(OfChildren(f, n))
                              /\ g[n] = own[n] \o FlattenSeq(OfChildren(g, n))
  BY DEF Gathers, OfChildren
<1>3. ASSUME T # {} PROVE FALSE
  <2>1. QuadCount[MaxDepth] \in Nat \ {0} /\ DOMAIN nodes = 0 .. QuadCount[MaxDepth] - 1
    BY QuadCountFacts, SizesAssumption DEF Pool
  <2>2. PICK m \in T : \A l \in T : l <= m
    <3> DEFINE q == QuadCount[MaxDepth] - 1
    <3>1. T \subseteq 0 .. q /\ q \in Nat
      BY <2>1
    <3> HIDE DEF T, q
    <3> QED
      BY <1>3, <3>1, GreatestNatural
  <2>3. m \in DOMAIN nodes /\ f[m] # g[m]
    OBVIOUS
  <2>4. \A k \in DOMAIN nodes[m].Children : f[nodes[m].Children[k]] = g[nodes[m].Children[k]]
    <3> SUFFICES ASSUME NEW k \in DOMAIN nodes[m].Children
                 PROVE  f[nodes[m].Children[k]] = g[nodes[m].Children[k]]
      OBVIOUS
    <3> DEFINE c == nodes[m].Children[k]
    <3>1. c \in DOMAIN nodes /\ c > m
      BY <2>3, ChildrenAfter
    <3>2. ~(c <= m)
      BY <2>1, <2>3, <3>1
    <3> HIDE DEF c
    <3>3. f[c] = g[c]
      BY <2>2, <3>1, <3>2
    <3> QED
      BY <3>3 DEF c
  <2>5. OfChildren(f, m) = OfChildren(g, m)
    BY <2>4 DEF OfChildren
  <2> QED
    BY <1>2, <2>3, <2>5
<1> QED
  BY <1>1, <1>3

OwnColliders == [n \in DOMAIN nodes |-> nodes[n].Colliders]
StoredParts == [m \in InTree |-> StoredIn(m)]

\* Below gathers the colliders.
LEMMA BelowGathers ==
  ASSUME Pool, NEW dep, NEW pos, Placed(dep, pos)
  PROVE  Below \in [DOMAIN nodes -> Seq(Entries)] /\ Gathers(Below, OwnColliders)
<1> DEFINE Is(g) ==
      g = [n \in DOMAIN nodes |->
             nodes[n].Colliders
               \o FlattenSeq([k \in DOMAIN nodes[n].Children |-> g[nodes[n].Children[k]]])]
<1>1. OwnColliders \in [DOMAIN nodes -> Seq(Entries)]
  BY DEF Pool, NodeRecords, OwnColliders
<1>2. PICK f \in [DOMAIN nodes -> Seq(Entries)] : Gathers(f, OwnColliders)
  BY <1>1, GatherExists
<1>3. ASSUME NEW g PROVE Is(g) <=> Gathers(g, OwnColliders)
  BY DEF Gathers, OwnColliders
<1>4. Below = CHOOSE g : Is(g)
  BY DEF Below
<1> HIDE DEF Is
<1>5. Is(Below)
  BY <1>2, <1>3, <1>4
<1>6. Below = f
  BY <1>2, <1>3, <1>5, GatherUnique
<1> QED
  BY <1>2, <1>6

\* No collider is in two nodes.
LEMMA StoredApart ==
  ASSUME Pool, Once PROVE Apart(OwnColliders, StoredParts, Entries)
<1>1. InTree \subseteq DOMAIN nodes
  BY TreeInPool
<1>2. \A m \in DOMAIN nodes : nodes[m].Colliders \in Seq(Entries) /\ NoRepeats(nodes[m].Colliders)
  BY DEF Pool, NodeRecords, Once
<1>3. \A m \in DOMAIN nodes : Lists(nodes[m].Colliders, StoredIn(m)) /\ StoredIn(m) \subseteq Entries
  <2> SUFFICES ASSUME NEW m \in DOMAIN nodes
               PROVE  Lists(nodes[m].Colliders, StoredIn(m)) /\ StoredIn(m) \subseteq Entries
    OBVIOUS
  <2> DEFINE q == nodes[m].Colliders
  <2>1. q \in Seq(Entries) /\ NoRepeats(q)
    BY <1>2
  <2> HIDE DEF q
  <2>2. Lists(q, ToSet(q))
    BY <2>1, ListsItself
  <2>3. ToSet(q) \subseteq Entries
    BY <2>1 DEF ToSet
  <2> QED
    BY <2>2, <2>3 DEF q, StoredIn
<1>4. OwnColliders \in [DOMAIN nodes -> Seq(Entries)]
  BY <1>2 DEF OwnColliders
<1>5. \A m \in InTree : OwnColliders[m] = nodes[m].Colliders /\ StoredParts[m] = StoredIn(m)
  BY <1>1 DEF OwnColliders, StoredParts
<1>6. StoredParts \in [InTree -> SUBSET Entries]
  BY <1>1, <1>3 DEF StoredParts
<1>7. \A l, m \in InTree : l # m => StoredParts[l] \intersect StoredParts[m] = {}
  BY <1>1, <1>5 DEF Once
<1> QED
  BY <1>1, <1>3, <1>4, <1>5, <1>6, <1>7 DEF Apart

\* The colliders of the nodes below a node.
Under(way, n) == AllUnder(way, StoredParts, n)

\* BelowChildren lists the colliders of the nodes below a node, each once.
LEMMA BelowChildrenList ==
  ASSUME Pool, Once, NEW dep, NEW pos, Placed(dep, pos), NEW way, Ways(way), NEW n \in InTree
  PROVE  Lists(BelowChildren(n), Under(way, n)) /\ Under(way, n) \subseteq Entries
<1>1. Apart(OwnColliders, StoredParts, Entries)
  BY StoredApart
<1>2. Below \in [DOMAIN nodes -> Seq(Entries)] /\ Gathers(Below, OwnColliders)
  BY BelowGathers
<1>3. \A m \in InTree : Lists(Below[m], AllBelow(way, StoredParts, m))
  BY <1>1, <1>2, GatherLists
<1>4. Lists(FlattenSeq(OfChildren(Below, n)), AllUnder(way, StoredParts, n))
  BY <1>1, <1>2, <1>3, GatherChildren
<1>5. BelowChildren(n) = FlattenSeq(OfChildren(Below, n))
  BY DEF BelowChildren, OfChildren
<1>6. Under(way, n) \subseteq Entries
  BY <1>1 DEF Under, AllUnder, NodesBelow, Apart
<1> QED
  BY <1>4, <1>5, <1>6 DEF Under

-----------------------------------------------------------------------------
(* The pairs.                                                              *)

\* The elements of a sequence after a place.
LaterThan(q, i) == {q[j] : j \in i + 1 .. Len(q)}

\* The rest of a list after a place lists the elements that are later.
LEMMA LaterLists ==
  ASSUME NEW P, NEW q, Lists(q, P), NEW i \in 1 .. Len(q)
  PROVE  Lists(SubSeq(q, i + 1, Len(q)), LaterThan(q, i)) /\ LaterThan(q, i) \subseteq P \ {q[i]}
<1> DEFINE s == SubSeq(q, i + 1, Len(q))
<1>1. q \in Seq(P) /\ Len(q) \in Nat /\ \A j \in 1 .. Len(q) : q[j] \in P
  BY DEF Lists
<1>2. /\ Len(s) = Len(q) - i /\ Len(s) \in Nat /\ DOMAIN s = 1 .. Len(s)
      /\ s = [j \in 1 .. Len(s) |-> s[j]]
      /\ \A j \in 1 .. Len(q) - i : s[j] = q[j + i]
  BY <1>1
<1> HIDE DEF s
<1>3. \A j \in 1 .. Len(s) : j + i \in i + 1 .. Len(q) /\ s[j] = q[j + i]
  BY <1>1, <1>2
<1>4. \A j \in 1 .. Len(s) : s[j] \in LaterThan(q, i)
  BY <1>3 DEF LaterThan
<1>5. s \in Seq(LaterThan(q, i))
  BY <1>2, <1>4
<1>6. ASSUME NEW x \in LaterThan(q, i) PROVE \E j \in 1 .. Len(s) : s[j] = x
  <2>1. PICK j \in i + 1 .. Len(q) : x = q[j]
    BY DEF LaterThan
  <2>2. j - i \in 1 .. Len(s) /\ j - i + i = j
    BY <1>1, <1>2
  <2>3. s[j - i] = q[j - i + i]
    BY <1>3, <2>2
  <2> QED
    BY <2>1, <2>2, <2>3
<1>7. ASSUME NEW j \in 1 .. Len(s), NEW k \in 1 .. Len(s), s[j] = s[k] PROVE j = k
  <2>1. j + i \in 1 .. Len(q) /\ k + i \in 1 .. Len(q) /\ q[j + i] = q[k + i]
    BY <1>1, <1>2, <1>3, <1>7
  <2>2. j + i = k + i
    BY <2>1 DEF Lists
  <2> QED
    BY <1>2, <2>2
<1>8. LaterThan(q, i) \subseteq P \ {q[i]}
  <2> SUFFICES ASSUME NEW j \in i + 1 .. Len(q) PROVE q[j] \in P /\ q[j] # q[i]
    BY DEF LaterThan
  <2>1. j \in 1 .. Len(q) /\ j # i
    BY <1>1
  <2> QED
    BY <1>1, <2>1 DEF Lists
<1> QED
  BY <1>5, <1>6, <1>7, <1>8 DEF Lists, s

\* The pairs of an entry with those of a set that it meets.
MeetingIn(e, P) == {<<e, x>> : x \in {y \in P : MeetEntries(e, y)}}

\* PairsWith lists the pairs of a collider with those of a list that it intersects.
LEMMA PairsWithList ==
  ASSUME NEW e, NEW P, NEW q, Lists(q, P)
  PROVE  Lists(PairsWith(e, q), MeetingIn(e, P))
<1> DEFINE to == [x \in P |-> <<e, x>>]
           S == {<<e, x>> : x \in P}
           C == {y \in P : MeetEntries(e, y)}
           seqs == Chosen(q, C, to)
<1>1. q \in Seq(P) /\ Len(q) \in Nat /\ DOMAIN q = 1 .. Len(q)
  BY LenProperties DEF Lists
<1>2. \A i \in DOMAIN q : q[i] \in P
  BY <1>1
<1>3. PairsWith(e, q) = FlattenSeq(seqs)
  <2>1. seqs = [i \in DOMAIN q |->
                  IF Intersect(e.Rectangle, q[i].Rectangle) THEN <<<<e, q[i]>>>> ELSE <<>>]
    BY <1>2 DEF Chosen, MeetEntries
  <2> QED
    BY <2>1 DEF PairsWith
<1>4. to \in [P -> S] /\ C \subseteq P
  OBVIOUS
<1>5. \A x, y \in P : to[x] = to[y] => x = y
  OBVIOUS
<1>6. {to[x] : x \in C} = MeetingIn(e, P)
  BY DEF MeetingIn
<1> HIDE DEF to, C, S
<1>7. Choice(q, P, C, to, S)
  BY <1>4, <1>5 DEF Choice
<1>8. Lists(FlattenSeq(seqs), {to[x] : x \in C})
  BY <1>7, ChosenLists
<1> QED
  BY <1>3, <1>6, <1>8

\* The pairs CalculatePossiblePairs finds for the i-th collider of a node, and for
\* all of its colliders.
FoundAt(way, n, i) ==
  MeetingIn(nodes[n].Colliders[i], LaterThan(nodes[n].Colliders, i) \union Under(way, n))
FoundIn(way, n) == UNION {FoundAt(way, n, i) : i \in DOMAIN nodes[n].Colliders}

\* The pairs of one collider of the node, in the order they are found in.
PairsAt(n, i) ==
  PairsWith(nodes[n].Colliders[i],
            SubSeq(nodes[n].Colliders, i + 1, Len(nodes[n].Colliders)))
    \o PairsWith(nodes[n].Colliders[i], BelowChildren(n))

\* For each collider of a node the pairs found are listed once.
LEMMA PairsAtList ==
  ASSUME Pool, Once, NEW dep, NEW pos, Placed(dep, pos), NEW way, Ways(way),
         NEW n \in InTree, NEW i \in DOMAIN nodes[n].Colliders
  PROVE  /\ Lists(PairsAt(n, i), FoundAt(way, n, i))
         /\ FoundAt(way, n, i) \subseteq {nodes[n].Colliders[i]} \X Entries
<1> DEFINE cols == nodes[n].Colliders
           e == cols[i]
           later == LaterThan(cols, i)
           under == Under(way, n)
<1>1. n \in DOMAIN nodes /\ cols \in Seq(Entries) /\ NoRepeats(cols) /\ ToSet(cols) = StoredIn(n)
  BY TreeInPool DEF Pool, NodeRecords, Once, StoredIn
<1>2. Lists(cols, StoredIn(n)) /\ StoredIn(n) \subseteq Entries /\ i \in 1 .. Len(cols)
  <2> HIDE DEF cols
  <2>1. Lists(cols, ToSet(cols))
    BY <1>1, ListsItself
  <2>2. i \in 1 .. Len(cols)
    BY <1>1, LenProperties DEF cols
  <2>3. ToSet(cols) \subseteq Entries
    BY <1>1 DEF ToSet
  <2> QED
    BY <1>1, <2>1, <2>2, <2>3
<1>3. Lists(BelowChildren(n), under) /\ under \subseteq Entries
  BY BelowChildrenList
<1>4. StoredIn(n) \intersect under = {}
  <2> SUFFICES ASSUME NEW x \in StoredIn(n), x \in under PROVE FALSE
    OBVIOUS
  <2>1. PICK m \in NodesBelow(way, n) \ {n} : x \in StoredParts[m]
    BY DEF Under, AllUnder
  <2>2. m \in InTree /\ m \in DOMAIN nodes /\ x \in StoredIn(m) /\ m # n
    BY <2>1, TreeInPool DEF NodesBelow, StoredParts
  <2> QED
    BY <1>1, <2>2 DEF Once
<1> HIDE DEF cols, under
<1>5. Lists(SubSeq(cols, i + 1, Len(cols)), later) /\ later \subseteq StoredIn(n) \ {e}
  BY <1>2, LaterLists
<1> HIDE DEF later, e
<1>6. /\ Lists(PairsWith(e, SubSeq(cols, i + 1, Len(cols))), MeetingIn(e, later))
      /\ Lists(PairsWith(e, BelowChildren(n)), MeetingIn(e, under))
  BY <1>3, <1>5, PairsWithList
<1>7. MeetingIn(e, later) \intersect MeetingIn(e, under) = {}
  BY <1>4, <1>5 DEF MeetingIn
<1>8. MeetingIn(e, later) \union MeetingIn(e, under) = MeetingIn(e, later \union under)
  BY DEF MeetingIn
<1>9. Lists(PairsWith(e, SubSeq(cols, i + 1, Len(cols))) \o PairsWith(e, BelowChildren(n)),
            MeetingIn(e, later) \union MeetingIn(e, under))
  BY <1>6, <1>7, ListsConcat
<1>10. MeetingIn(e, later \union under) \subseteq {e} \X Entries
  BY <1>2, <1>3, <1>5 DEF MeetingIn
<1> QED
  BY <1>8, <1>9, <1>10 DEF PairsAt, FoundAt, cols, e, later, under

\* And so they are for all colliders of the node.
LEMMA NodePairsList ==
  ASSUME Pool, Once, NEW dep, NEW pos, Placed(dep, pos), NEW way, Ways(way),
         NEW n \in InTree
  PROVE  /\ Lists(NodePossiblePairs(n), FoundIn(way, n))
         /\ FoundIn(way, n) \subseteq StoredIn(n) \X Entries
<1> DEFINE cols == nodes[n].Colliders
           S == Entries \X Entries
           seqs == [i \in DOMAIN cols |-> PairsAt(n, i)]
           parts == [i \in 1 .. Len(cols) |-> FoundAt(way, n, i)]
<1>1. n \in DOMAIN nodes /\ cols \in Seq(Entries) /\ NoRepeats(cols)
  BY TreeInPool DEF Pool, NodeRecords, Once
<1>2. Len(cols) \in Nat /\ DOMAIN cols = 1 .. Len(cols) /\ \A i \in DOMAIN cols : cols[i] \in Entries
  <2> HIDE DEF cols
  <2> QED
    BY <1>1, LenProperties
<1>3. \A i \in DOMAIN cols : /\ Lists(PairsAt(n, i), FoundAt(way, n, i))
                             /\ FoundAt(way, n, i) \subseteq {cols[i]} \X Entries
  BY PairsAtList
<1>4. \A i \in DOMAIN cols : FoundAt(way, n, i) \subseteq S
  BY <1>2, <1>3
<1>5. \A i \in DOMAIN cols : PairsAt(n, i) \in Seq(S)
  <2> SUFFICES ASSUME NEW i \in DOMAIN cols PROVE PairsAt(n, i) \in Seq(S)
    OBVIOUS
  <2>1. PairsAt(n, i) \in Seq(FoundAt(way, n, i)) /\ FoundAt(way, n, i) \subseteq S
    BY <1>3, <1>4 DEF Lists
  <2> HIDE DEF S
  <2> QED
    BY <2>1
<1> HIDE DEF S
<1>6. seqs \in [1 .. Len(cols) -> Seq(S)]
  BY <1>2, <1>5
<1>7. seqs \in Seq(Seq(S)) /\ Len(seqs) = Len(cols)
  <2> HIDE DEF seqs
  <2> QED
    BY <1>2, <1>6, MappingIsSeq
<1>8. parts \in [1 .. Len(seqs) -> SUBSET S]
  BY <1>2, <1>4, <1>7
<1>9. \A i \in 1 .. Len(seqs) : Lists(seqs[i], parts[i])
  BY <1>2, <1>3, <1>7
<1>10. \A i, j \in 1 .. Len(seqs) : i # j => parts[i] \intersect parts[j] = {}
  <2> SUFFICES ASSUME NEW i \in DOMAIN cols, NEW j \in DOMAIN cols, i # j,
                      NEW p \in FoundAt(way, n, i), p \in FoundAt(way, n, j)
               PROVE  FALSE
    BY <1>2, <1>7
  <2>1. p[1] = cols[i] /\ p[1] = cols[j]
    BY <1>3
  <2> QED
    BY <1>1, <2>1 DEF NoRepeats
<1>11. ListParts(seqs, parts, S)
  <2> HIDE DEF seqs, parts
  <2> QED
    BY <1>7, <1>8, <1>9, <1>10 DEF ListParts
<1>12. Lists(FlattenSeq(seqs), AllOf(parts))
  BY <1>11, FlattenLists
<1>13. AllOf(parts) = FoundIn(way, n)
  BY <1>2 DEF AllOf, FoundIn
<1>14. NodePossiblePairs(n) = FlattenSeq(seqs)
  BY DEF NodePossiblePairs, PairsAt
<1>15. FoundIn(way, n) \subseteq StoredIn(n) \X Entries
  BY <1>3 DEF FoundIn, StoredIn, ToSet
<1> QED
  BY <1>12, <1>13, <1>14, <1>15

OwnPairs == [n \in DOMAIN nodes |-> NodePossiblePairs(n)]
FoundParts(way) == [m \in InTree |-> FoundIn(way, m)]

\* All the pairs CalculatePossiblePairs finds.
Found(way) == UNION {FoundIn(way, m) : m \in InTree}

\* No pair is found at two nodes.
LEMMA FoundApart ==
  ASSUME Pool, Once, NEW dep, NEW pos, Placed(dep, pos), NEW way, Ways(way)
  PROVE  Apart(OwnPairs, FoundParts(way), Entries \X Entries)
<1> DEFINE S == Entries \X Entries
<1>1. InTree \subseteq DOMAIN nodes
  BY TreeInPool
<1>2. ASSUME NEW m \in InTree
      PROVE  /\ Lists(NodePossiblePairs(m), FoundIn(way, m))
             /\ FoundIn(way, m) \subseteq StoredIn(m) \X Entries
             /\ FoundIn(way, m) \subseteq S
  <2>1. StoredIn(m) \subseteq Entries
    <3>1. nodes[m].Colliders \in Seq(Entries)
      BY <1>1 DEF Pool, NodeRecords
    <3> QED
      BY <3>1 DEF StoredIn, ToSet
  <2> QED
    BY <2>1, NodePairsList
<1>3. ASSUME NEW m \in DOMAIN nodes PROVE NodePossiblePairs(m) \in Seq(S)
  <2>1. CASE m \in InTree
    <3>1. NodePossiblePairs(m) \in Seq(FoundIn(way, m)) /\ FoundIn(way, m) \subseteq S
      BY <1>2, <2>1 DEF Lists
    <3> HIDE DEF S
    <3> QED
      BY <3>1
  <2>2. CASE m \notin InTree
    <3>1. nodes[m].Colliders = <<>>
      BY <2>2 DEF Pool
    <3> DEFINE pairsAt(i) == PairsWith(nodes[m].Colliders[i],
                               SubSeq(nodes[m].Colliders, i + 1, Len(nodes[m].Colliders)))
                               \o PairsWith(nodes[m].Colliders[i], BelowChildren(m))
    <3>2. NodePossiblePairs(m) = FlattenSeq([i \in DOMAIN nodes[m].Colliders |-> pairsAt(i)])
      BY DEF NodePossiblePairs
    <3> HIDE DEF pairsAt
    <3>3. [i \in DOMAIN nodes[m].Colliders |-> pairsAt(i)] = <<>>
      BY <3>1
    <3>4. NodePossiblePairs(m) = <<>>
      BY <3>2, <3>3 DEF FlattenSeq
    <3> QED
      BY <3>4
  <2> QED
    BY <2>1, <2>2
<1>4. OwnPairs \in [DOMAIN nodes -> Seq(S)]
  BY <1>3 DEF OwnPairs
<1>5. FoundParts(way) \in [InTree -> SUBSET S]
  BY <1>2 DEF FoundParts
<1>6. \A m \in InTree : Lists(OwnPairs[m], FoundParts(way)[m])
  BY <1>1, <1>2 DEF OwnPairs, FoundParts
<1>7. \A l, m \in InTree : l # m => FoundParts(way)[l] \intersect FoundParts(way)[m] = {}
  <2> SUFFICES ASSUME NEW l \in InTree, NEW m \in InTree, l # m,
                      NEW p \in FoundIn(way, l), p \in FoundIn(way, m)
               PROVE  FALSE
    BY DEF FoundParts
  <2>1. p[1] \in StoredIn(l) /\ p[1] \in StoredIn(m)
    BY <1>2
  <2> QED
    BY <1>1, <2>1 DEF Once
<1> QED
  BY <1>4, <1>5, <1>6, <1>7 DEF Apart

\* CalculatePossiblePairs lists exactly those, none of them twice.
LEMMA TreePairsList ==
  ASSUME Pool, Once, NEW dep, NEW pos, Placed(dep, pos), NEW way, Ways(way)
  PROVE  Lists(TreePossiblePairs, Found(way)) /\ Found(way) \subseteq Entries \X Entries
<1> DEFINE S == Entries \X Entries
           Is(g) ==
             g = [n \in DOMAIN nodes |->
                    NodePossiblePairs(n)
                      \o FlattenSeq([k \in DOMAIN nodes[n].Children |-> g[nodes[n].Children[k]]])]
           pairs == CHOOSE g : Is(g)
<1>1. Apart(OwnPairs, FoundParts(way), S)
  BY FoundApart
<1>2. OwnPairs \in [DOMAIN nodes -> Seq(S)]
  BY <1>1 DEF Apart
<1>3. PICK f \in [DOMAIN nodes -> Seq(S)] : Gathers(f, OwnPairs)
  <2> HIDE DEF S
  <2> QED
    BY <1>2, GatherExists
<1>4. ASSUME NEW g PROVE Is(g) <=> Gathers(g, OwnPairs)
  BY DEF Gathers, OwnPairs
<1>5. TreePossiblePairs = pairs[Root]
  BY DEF TreePossiblePairs
<1> HIDE DEF Is
<1>6. Is(pairs)
  BY <1>3, <1>4
<1> HIDE DEF pairs
<1>7. pairs = f
  BY <1>3, <1>4, <1>6, GatherUnique
<1>8. Root \in InTree
  <2>1. QuadCount[MaxDepth] \in Nat
    BY QuadCountFacts, SizesAssumption
  <2> QED
    BY <2>1 DEF Pool, InTree, Root
<1>9. Lists(f[Root], AllBelow(way, FoundParts(way), Root))
  <2> HIDE DEF S
  <2> QED
    BY <1>1, <1>3, <1>8, GatherLists
<1>10. AllBelow(way, FoundParts(way), Root) = Found(way)
  <2>1. NodesBelow(way, Root) = InTree
    BY DEF NodesBelow, Ways
  <2> QED
    BY <2>1 DEF AllBelow, FoundParts, Found
<1>11. Found(way) \subseteq S
  <2>1. \A m \in InTree : FoundParts(way)[m] \subseteq S
    BY <1>1 DEF Apart
  <2> QED
    BY <2>1 DEF Found, FoundParts
<1> QED
  BY <1>5, <1>7, <1>9, <1>10, <1>11

-----------------------------------------------------------------------------
(* The pairs found are the intersecting ones, each in one order.           *)

\* CalculatePossiblePairs compares e with f: e is before f in a node, or in a node
\* above that of f.
BeforeIn(e, f) ==
  \E m \in InTree : \E i, j \in DOMAIN nodes[m].Colliders :
    i < j /\ e = nodes[m].Colliders[i] /\ f = nodes[m].Colliders[j]

AboveOf(way, e, f) ==
  \E m, l \in InTree : l # m /\ m \in way[l] /\ e \in StoredIn(m) /\ f \in StoredIn(l)

Ahead(way, e, f) == BeforeIn(e, f) \/ AboveOf(way, e, f)

\* Every collider in the tree is in exactly one node, and once in that.
LEMMA StoredInOne ==
  ASSUME Pool, Once
  PROVE  /\ \A x \in StoredEntries : \E m \in InTree : x \in StoredIn(m)
         /\ \A m \in InTree : StoredIn(m) \subseteq StoredEntries
         /\ \A l, m \in InTree : \A x \in StoredIn(l) : x \in StoredIn(m) => l = m
         /\ \A m \in InTree : /\ NoRepeats(nodes[m].Colliders)
                              /\ DOMAIN nodes[m].Colliders = 1 .. Len(nodes[m].Colliders)
                              /\ Len(nodes[m].Colliders) \in Nat
<1>1. InTree \subseteq DOMAIN nodes
  BY TreeInPool
<1>2. ASSUME NEW x \in StoredEntries PROVE \E m \in InTree : x \in StoredIn(m)
  <2>1. PICK m \in DOMAIN nodes : x \in StoredIn(m)
    BY DEF StoredEntries
  <2>2. ASSUME nodes[m].Colliders = <<>> PROVE FALSE
    BY <2>1, <2>2 DEF StoredIn, ToSet
  <2> QED
    BY <2>1, <2>2 DEF Pool
<1>3. \A m \in InTree : nodes[m].Colliders \in Seq(Entries)
  BY <1>1 DEF Pool, NodeRecords
<1>4. \A m \in InTree : /\ DOMAIN nodes[m].Colliders = 1 .. Len(nodes[m].Colliders)
                        /\ Len(nodes[m].Colliders) \in Nat
  BY <1>3, LenProperties
<1>5. \A m \in InTree : StoredIn(m) \subseteq StoredEntries /\ NoRepeats(nodes[m].Colliders)
  BY <1>1 DEF StoredEntries, Once
<1>6. \A l, m \in InTree : \A x \in StoredIn(l) : x \in StoredIn(m) => l = m
  BY <1>1 DEF Once
<1> QED
  BY <1>2, <1>4, <1>5, <1>6

\* The pairs found are those of intersecting colliders that are compared.
LEMMA FoundAre ==
  ASSUME Pool, Once, NEW way, NEW p
  PROVE  p \in Found(way) <=>
           /\ p = <<p[1], p[2]>>
           /\ Ahead(way, p[1], p[2]) /\ MeetEntries(p[1], p[2])
<1>1. ASSUME NEW m \in InTree, NEW i \in DOMAIN nodes[m].Colliders, p \in FoundAt(way, m, i)
      PROVE  /\ p = <<p[1], p[2]>>
             /\ Ahead(way, p[1], p[2]) /\ MeetEntries(p[1], p[2])
  <2> DEFINE cols == nodes[m].Colliders
  <2>1. PICK f \in LaterThan(cols, i) \union Under(way, m) :
          MeetEntries(cols[i], f) /\ p = <<cols[i], f>>
    BY <1>1 DEF FoundAt, MeetingIn
  <2>2. ASSUME f \in LaterThan(cols, i) PROVE BeforeIn(cols[i], f)
    <3>1. PICK j \in i + 1 .. Len(cols) : f = cols[j]
      BY <2>2 DEF LaterThan
    <3>2. DOMAIN cols = 1 .. Len(cols) /\ Len(cols) \in Nat
      BY StoredInOne
    <3>3. j \in DOMAIN cols /\ i < j
      BY <3>2
    <3> QED
      BY <3>1, <3>3 DEF BeforeIn
  <2>3. ASSUME f \in Under(way, m) PROVE AboveOf(way, cols[i], f)
    <3>1. PICK l \in NodesBelow(way, m) \ {m} : f \in StoredParts[l]
      BY <2>3 DEF Under, AllUnder
    <3>2. l \in InTree /\ m \in way[l] /\ l # m /\ f \in StoredIn(l)
      BY <3>1 DEF NodesBelow, StoredParts
    <3>3. cols[i] \in StoredIn(m)
      BY DEF StoredIn, ToSet
    <3> QED
      BY <3>2, <3>3 DEF AboveOf
  <2> QED
    BY <2>1, <2>2, <2>3 DEF Ahead
<1>2. ASSUME NEW e, NEW f, p = <<e, f>>, Ahead(way, e, f), MeetEntries(e, f)
      PROVE  p \in Found(way)
  <2>1. CASE BeforeIn(e, f)
    <3>1. PICK m \in InTree : \E i, j \in DOMAIN nodes[m].Colliders :
            i < j /\ e = nodes[m].Colliders[i] /\ f = nodes[m].Colliders[j]
      BY <2>1 DEF BeforeIn
    <3> DEFINE cols == nodes[m].Colliders
    <3>2. PICK i \in DOMAIN cols, j \in DOMAIN cols : i < j /\ e = cols[i] /\ f = cols[j]
      BY <3>1
    <3>3. DOMAIN cols = 1 .. Len(cols) /\ Len(cols) \in Nat
      BY StoredInOne
    <3>4. j \in i + 1 .. Len(cols)
      BY <3>2, <3>3
    <3>5. f \in LaterThan(cols, i)
      BY <3>2, <3>4 DEF LaterThan
    <3>6. p \in FoundAt(way, m, i)
      BY <1>2, <3>2, <3>5 DEF FoundAt, MeetingIn
    <3> QED
      BY <3>2, <3>6 DEF Found, FoundIn
  <2>2. CASE AboveOf(way, e, f)
    <3>1. PICK m \in InTree, l \in InTree :
            l # m /\ m \in way[l] /\ e \in StoredIn(m) /\ f \in StoredIn(l)
      BY <2>2 DEF AboveOf
    <3>2. PICK i \in DOMAIN nodes[m].Colliders : e = nodes[m].Colliders[i]
      BY <3>1 DEF StoredIn, ToSet
    <3>3. f \in Under(way, m)
      BY <3>1 DEF Under, AllUnder, NodesBelow, StoredParts
    <3>4. p \in FoundAt(way, m, i)
      BY <1>2, <3>2, <3>3 DEF FoundAt, MeetingIn
    <3> QED
      BY <3>2, <3>4 DEF Found, FoundIn
  <2> QED
    BY <1>2, <2>1, <2>2 DEF Ahead
<1>3. p \in Found(way) => \E m \in InTree : \E i \in DOMAIN nodes[m].Colliders : p \in FoundAt(way, m, i)
  BY DEF Found, FoundIn
<1> QED
  BY <1>1, <1>2, <1>3

\* No pair is found in both orders, and no collider is paired with itself.
LEMMA AheadAsymmetric ==
  ASSUME Pool, Once, NEW way, Ways(way), NEW e, NEW f, Ahead(way, e, f)
  PROVE  /\ e \in StoredEntries /\ f \in StoredEntries
         /\ e # f /\ ~Ahead(way, f, e)
<1>1. ASSUME NEW x, NEW y, BeforeIn(x, y)
      PROVE  \E m \in InTree :
               x \in StoredIn(m) /\ y \in StoredIn(m)
  <2>1. PICK m \in InTree : \E i, j \in DOMAIN nodes[m].Colliders :
          i < j /\ x = nodes[m].Colliders[i] /\ y = nodes[m].Colliders[j]
    BY <1>1 DEF BeforeIn
  <2> QED
    BY <2>1 DEF StoredIn, ToSet
<1>2. ASSUME NEW x, NEW y, AboveOf(way, x, y)
      PROVE  \E m, l \in InTree : m < l /\ x \in StoredIn(m) /\ y \in StoredIn(l)
  <2>1. PICK m \in InTree, l \in InTree :
          l # m /\ m \in way[l] /\ x \in StoredIn(m) /\ y \in StoredIn(l)
    BY <1>2 DEF AboveOf
  <2>2. m \in 0 .. l
    BY <2>1 DEF Ways
  <2>3. m < l
    BY <2>1, <2>2 DEF InTree
  <2> QED
    BY <2>1, <2>3
<1>3. ASSUME NEW x, NEW y, BeforeIn(x, y), BeforeIn(y, x) PROVE FALSE
  <2>1. PICK m \in InTree : \E i, j \in DOMAIN nodes[m].Colliders :
          i < j /\ x = nodes[m].Colliders[i] /\ y = nodes[m].Colliders[j]
    BY <1>3 DEF BeforeIn
  <2>2. PICK l \in InTree : \E i, j \in DOMAIN nodes[l].Colliders :
          i < j /\ y = nodes[l].Colliders[i] /\ x = nodes[l].Colliders[j]
    BY <1>3 DEF BeforeIn
  <2>3. x \in StoredIn(m) /\ x \in StoredIn(l)
    BY <2>1, <2>2 DEF StoredIn, ToSet
  <2>4. m = l
    BY <2>3, StoredInOne
  <2> DEFINE cols == nodes[m].Colliders
  <2>5. PICK i \in DOMAIN cols, j \in DOMAIN cols : i < j /\ x = cols[i] /\ y = cols[j]
    BY <2>1
  <2>6. PICK i2 \in DOMAIN cols, j2 \in DOMAIN cols : i2 < j2 /\ y = cols[i2] /\ x = cols[j2]
    BY <2>2, <2>4
  <2>7. NoRepeats(cols) /\ DOMAIN cols = 1 .. Len(cols) /\ Len(cols) \in Nat
    BY StoredInOne
  <2> HIDE DEF cols
  <2>8. i = j2 /\ j = i2
    BY <2>5, <2>6, <2>7 DEF NoRepeats
  <2> QED
    BY <2>5, <2>6, <2>7, <2>8
<1>4. ASSUME NEW x, NEW y, BeforeIn(x, y), AboveOf(way, x, y) \/ AboveOf(way, y, x) PROVE FALSE
  <2>1. PICK m \in InTree : x \in StoredIn(m) /\ y \in StoredIn(m)
    BY <1>1, <1>4
  <2>2. PICK k \in InTree, l \in InTree :
          /\ k < l
          /\ \/ x \in StoredIn(k) /\ y \in StoredIn(l)
             \/ y \in StoredIn(k) /\ x \in StoredIn(l)
    BY <1>2, <1>4
  <2>3. k = m /\ l = m
    BY <2>1, <2>2, StoredInOne
  <2> QED
    BY <2>2, <2>3 DEF InTree
<1>5. ASSUME NEW x, NEW y, AboveOf(way, x, y), AboveOf(way, y, x) PROVE FALSE
  <2>1. PICK m \in InTree, l \in InTree : m < l /\ x \in StoredIn(m) /\ y \in StoredIn(l)
    BY <1>2, <1>5
  <2>2. PICK k \in InTree, j \in InTree : k < j /\ y \in StoredIn(k) /\ x \in StoredIn(j)
    BY <1>2, <1>5
  <2>3. j = m /\ k = l
    BY <2>1, <2>2, StoredInOne
  <2> QED
    BY <2>1, <2>2, <2>3 DEF InTree
<1>6. ~Ahead(way, f, e)
  BY <1>3, <1>4, <1>5 DEF Ahead
<1>7. e # f
  BY <1>6
<1>8. e \in StoredEntries /\ f \in StoredEntries
  BY <1>1, <1>2, StoredInOne DEF Ahead
<1> QED
  BY <1>6, <1>7, <1>8

\* Two colliders that intersect are compared: where the ways to their nodes part,
\* each would have gone into the only quadrant it intersects, and these are the
\* same quadrant.
LEMMA MeetingAhead ==
  ASSUME Pool, Once, NEW dep, NEW pos, NEW way, TreeInv(dep, pos, way),
         NEW e \in StoredEntries, NEW f \in StoredEntries, e # f, MeetEntries(e, f)
  PROVE  Ahead(way, e, f) \/ Ahead(way, f, e)
<1>1. PICK m \in InTree : e \in StoredIn(m)
  BY StoredInOne
<1>2. PICK l \in InTree : f \in StoredIn(l)
  BY StoredInOne
<1>3. CASE m = l
  <2> DEFINE cols == nodes[m].Colliders
  <2>1. PICK i \in DOMAIN cols, j \in DOMAIN cols : e = cols[i] /\ f = cols[j]
    BY <1>1, <1>2, <1>3 DEF StoredIn, ToSet
  <2>2. DOMAIN cols = 1 .. Len(cols) /\ Len(cols) \in Nat
    BY StoredInOne
  <2>3. i # j
    BY <2>1
  <2>4. i < j \/ j < i
    BY <2>2, <2>3
  <2> QED
    BY <2>1, <2>4 DEF Ahead, BeforeIn
<1>4. CASE m # l /\ (m \in way[l] \/ l \in way[m])
  BY <1>1, <1>2, <1>4 DEF Ahead, AboveOf
<1>5. CASE m # l /\ m \notin way[l] /\ l \notin way[m]
  <2> DEFINE shared == way[m] \intersect way[l]
  <2>1. /\ Ways(way) /\ Quartered /\ Routed(way, m, e) /\ Routed(way, l, f)
        /\ Root \in shared
    BY <1>1, <1>2 DEF TreeInv, Routes, Ways
  <2>2. nodeIndex - 1 \in Nat /\ shared \subseteq 0 .. nodeIndex - 1
    <3>1. QuadCount[MaxDepth] \in Nat
      BY QuadCountFacts, SizesAssumption
    <3>2. nodeIndex - 1 \in Nat
      BY <3>1 DEF Pool
    <3> QED
      BY <2>1, <3>2 DEF Ways, InTree
  <2>3. PICK n \in shared : \A c \in shared : c <= n
    <3> HIDE DEF shared
    <3> QED
      BY <2>1, <2>2, GreatestNatural
  <2>4. n \in InTree /\ n \in way[m] /\ n \in way[l] /\ n # m /\ n # l
    BY <1>5, <2>1, <2>2, <2>3 DEF InTree
  <2>5. Inner(n)
    BY <2>1, <2>4 DEF Ways
  <2>6. PICK j \in 1 .. 4 : Child(n, j) \in way[m]
    BY <2>1, <2>4 DEF Ways
  <2>7. PICK k \in 1 .. 4 : Child(n, k) \in way[l]
    BY <2>1, <2>4 DEF Ways
  <2> DEFINE q == Quarters(n)
  <2>8. Meeting(q, e.Rectangle) = {j} /\ Meeting(q, f.Rectangle) = {k}
    BY <2>1, <2>4, <2>5, <2>6, <2>7 DEF Routed
  <2>9. Proper(e.Rectangle) /\ Proper(f.Rectangle)
    <3>1. StoredEntries \subseteq Entries
      BY DEF Pool, NodeRecords, StoredEntries, StoredIn, ToSet
    <3> QED
      BY <3>1, ProperAssumption DEF Entries
  <2>10. j = k
    <3> DEFINE b == nodes[n].Boundary
               c == Center(b)
               h == HalfSize(b)
    <3>1. Proper(b)
      BY <2>1, <2>4 DEF Quartered
    <3> HIDE DEF b
    <3>2. c \in Points /\ h \in [X : Nat, Y : Nat]
      <4>1. /\ b.Min.X \in Int /\ b.Max.X \in Int /\ b.Max.X - b.Min.X \in Nat
            /\ b.Min.Y \in Int /\ b.Max.Y \in Int /\ b.Max.Y - b.Min.Y \in Nat
        BY <3>1 DEF Proper, Rectangles
      <4> QED
        BY <4>1 DEF Center, HalfSize, Points, Point
    <3>3. q = QuadrantsAround(c, h)
      BY DEF Quarters, QuadrantsOf, b
    <3>4. Intersect(e.Rectangle, f.Rectangle)
      BY DEF MeetEntries
    <3> HIDE DEF c, h, q
    <3>5. Meeting(q, e.Rectangle) \intersect Meeting(q, f.Rectangle) # {}
      BY <2>8, <2>9, <3>2, <3>3, <3>4, CommonQuadrant
    <3> QED
      BY <2>8, <3>5
  <2>11. Child(n, j) > n /\ Child(n, j) \in shared
    BY <2>4, <2>5, <2>6, <2>7, <2>10 DEF TreeInv, Placed
  <2> QED
    BY <2>2, <2>3, <2>11
<1> QED
  BY <1>3, <1>4, <1>5

\* The intersecting pairs of the colliders in the tree.
MeetingStored ==
  {{ef[1], ef[2]} :
     ef \in {p \in StoredEntries \X StoredEntries : p[1] # p[2] /\ MeetEntries(p[1], p[2])}}

\* Every intersecting pair is found in exactly one order.
LEMMA FoundMeeting ==
  ASSUME Pool, Once, NEW dep, NEW pos, NEW way, TreeInv(dep, pos, way)
  PROVE  /\ {{p[1], p[2]} : p \in Found(way)} = MeetingStored
         /\ \A p, q \in Found(way) : {p[1], p[2]} = {q[1], q[2]} => p = q
<1>1. Ways(way)
  BY DEF TreeInv
<1>2. ASSUME NEW p \in Found(way) PROVE {p[1], p[2]} \in MeetingStored
  <2>1. Ahead(way, p[1], p[2]) /\ MeetEntries(p[1], p[2])
    BY FoundAre
  <2>2. p[1] \in StoredEntries /\ p[2] \in StoredEntries /\ p[1] # p[2]
    BY <1>1, <2>1, AheadAsymmetric
  <2>3. <<p[1], p[2]>> \in StoredEntries \X StoredEntries
    BY <2>2
  <2> QED
    BY <2>1, <2>2, <2>3 DEF MeetingStored
<1>3. ASSUME NEW s \in MeetingStored PROVE \E p \in Found(way) : s = {p[1], p[2]}
  <2>1. PICK x \in StoredEntries, y \in StoredEntries :
          x # y /\ MeetEntries(x, y) /\ s = {x, y}
    BY DEF MeetingStored
  <2>2. CASE Ahead(way, x, y)
    <3>1. <<x, y>> \in Found(way)
      BY <2>1, <2>2, FoundAre
    <3> QED
      BY <2>1, <3>1
  <2>3. CASE Ahead(way, y, x)
    <3>1. MeetEntries(y, x)
      <4>1. x.Rectangle \in Rectangles /\ y.Rectangle \in Rectangles
        <5>1. StoredEntries \subseteq Entries
          BY DEF Pool, NodeRecords, StoredEntries, StoredIn, ToSet
        <5> QED
          BY <5>1, ProperAssumption DEF Entries, Proper
      <4> QED
        BY <2>1, <4>1 DEF MeetEntries, Intersect, Rectangles
    <3>2. <<y, x>> \in Found(way)
      BY <2>3, <3>1, FoundAre
    <3> QED
      BY <2>1, <3>2
  <2> QED
    BY <2>1, <2>2, <2>3, MeetingAhead
<1>4. ASSUME NEW p \in Found(way), NEW q \in Found(way), {p[1], p[2]} = {q[1], q[2]}
      PROVE  p = q
  <2>1. /\ p = <<p[1], p[2]>> /\ Ahead(way, p[1], p[2])
        /\ q = <<q[1], q[2]>> /\ Ahead(way, q[1], q[2])
    BY FoundAre
  <2>2. ~Ahead(way, p[2], p[1])
    BY <1>1, <2>1, AheadAsymmetric
  <2>3. p[1] # p[2]
    BY <1>1, <2>1, AheadAsymmetric
  <2>4. \/ p[1] = q[1] /\ p[2] = q[2]
        \/ p[1] = q[2] /\ p[2] = q[1]
    BY <1>4, <2>3
  <2> QED
    BY <2>1, <2>2, <2>4
<1> QED
  BY <1>2, <1>3, <1>4

\* A sequence that lists pairs lists each as a set once, if no two of them are the
\* same set.
LEMMA PairsCounted ==
  ASSUME NEW P, NEW q, Lists(q, P),
         \A x, y \in P : {x[1], x[2]} = {y[1], y[2]} => x = y
  PROVE  LET sets == {{x[1], x[2]} : x \in P}
         IN /\ {{q[i][1], q[i][2]} : i \in DOMAIN q} = sets
            /\ Len(q) = Cardinality(sets)
<1> DEFINE sets == {{x[1], x[2]} : x \in P}
           to == [x \in P |-> {x[1], x[2]}]
<1>1. q \in Seq(P) /\ DOMAIN q = 1 .. Len(q)
  BY LenProperties DEF Lists
<1>2. \A i \in DOMAIN q : q[i] \in P
  BY <1>1
<1>3. \A x \in P : \E i \in DOMAIN q : q[i] = x
  BY <1>1 DEF Lists
<1>4. {{q[i][1], q[i][2]} : i \in DOMAIN q} = sets
  BY <1>2, <1>3
<1>5. IsFiniteSet(P) /\ Cardinality(P) = Len(q)
  BY ListsSize
<1>6. to \in Bijection(P, sets)
  <2>1. to \in Surjection(P, sets)
    BY DEF Surjection
  <2>2. to \in Injection(P, sets)
    BY DEF Injection, IsInjective
  <2> QED
    BY <2>1, <2>2 DEF Bijection
<1> HIDE DEF to, sets
<1>7. Cardinality(sets) = Cardinality(P)
  BY <1>5, <1>6, FS_Bijection, FS_CardinalityType DEF ExistsBijection
<1> QED
  BY <1>4, <1>5, <1>7 DEF sets

-----------------------------------------------------------------------------
(* Every step keeps the invariant.                                         *)

\* No activation of insertInNode loses or adds a collider.
LEMMA InsertInNodeHolds ==
  ASSUME IInv, InsertInNode PROVE IInv' /\ AllEntries' = AllEntries
<1> DEFINE n == Head(calls).node
           e == Head(calls).entry
           depth == Head(calls).depth
           down == GoesDown(ChildBoundaries(n), e.Rectangle)
<1>1. RunningInv /\ status = "running" /\ calls # <<>> /\ UNCHANGED <<possiblePairs, stage>>
  BY DEF IInv, InsertInNode
<1>2. \/ IsLeaf(n) /\ ~IsToDivide(n, depth) /\ Store(n)
      \/ IsLeaf(n) /\ IsToDivide(n, depth) /\ Subdivide(n, depth)
      \/ ~IsLeaf(n) /\ ~down /\ Store(n)
      \/ ~IsLeaf(n) /\ down /\ PassDown(n, e, depth)
  BY DEF InsertInNode
<1>3. RunningInv' /\ AllEntries' = AllEntries /\ UNCHANGED status
  <2>1. CASE IsLeaf(n) /\ ~IsToDivide(n, depth) /\ Store(n)
    <3>1. UNCHANGED status
      BY <2>1 DEF Store
    <3> QED
      BY <1>1, <2>1, <3>1, StoreHolds
  <2>2. CASE IsLeaf(n) /\ IsToDivide(n, depth) /\ Subdivide(n, depth)
    BY <1>1, <2>2, SubdivideHolds
  <2>3. CASE ~IsLeaf(n) /\ ~down /\ Store(n)
    <3>1. UNCHANGED status
      BY <2>3 DEF Store
    <3> QED
      BY <1>1, <2>3, <3>1, StoreHolds
  <2>4. CASE ~IsLeaf(n) /\ down /\ PassDown(n, e, depth)
    <3>1. UNCHANGED status
      BY <2>4 DEF PassDown
    <3> QED
      BY <1>1, <2>4, <3>1, PassDownHolds
  <2> QED
    BY <1>2, <2>1, <2>2, <2>3, <2>4
<1> QED
  BY <1>1, <1>3 DEF IInv

\* CalculatePossiblePairs lists every intersecting pair once, and nothing else.
LEMMA CalculateHolds ==
  ASSUME IInv, CalculatePossiblePairs
  PROVE  /\ IInv' /\ AllEntries' = AllEntries
         /\ possiblePairs = <<>> /\ AllEntries = StoredEntries
         /\ {{possiblePairs'[i][1], possiblePairs'[i][2]} : i \in DOMAIN possiblePairs'}
              = MeetingStored
         /\ Len(possiblePairs') = Cardinality(MeetingStored)
<1>1. /\ RunningInv /\ status = "running" /\ stage = "inserting" /\ calls = <<>>
      /\ possiblePairs' = possiblePairs \o TreePossiblePairs /\ stage' = "paired"
      /\ UNCHANGED <<nodes, nodeIndex, calls, status>>
  BY DEF IInv, CalculatePossiblePairs
<1>2. Pool /\ Once /\ Numbered /\ Frame
  BY <1>1 DEF RunningInv
<1>3. PICK dep, pos, way : TreeInv(dep, pos, way)
  BY <1>1 DEF RunningInv
<1>4. Placed(dep, pos) /\ Ways(way)
  BY <1>3 DEF TreeInv
<1>5. Lists(TreePossiblePairs, Found(way)) /\ Found(way) \subseteq Entries \X Entries
  BY <1>2, <1>4, TreePairsList
<1>6. TreePossiblePairs \in Seq(Entries \X Entries)
  <2> DEFINE S == Entries \X Entries
  <2>1. TreePossiblePairs \in Seq(Found(way)) /\ Found(way) \subseteq S
    BY <1>5 DEF Lists
  <2> HIDE DEF S
  <2>2. TreePossiblePairs \in Seq(S)
    BY <2>1
  <2> QED
    BY <2>2 DEF S
<1>7. possiblePairs = <<>> /\ possiblePairs' = TreePossiblePairs
  BY <1>1, <1>2, <1>6 DEF Frame
<1>8. /\ {{p[1], p[2]} : p \in Found(way)} = MeetingStored
      /\ \A p, q \in Found(way) : {p[1], p[2]} = {q[1], q[2]} => p = q
  BY <1>2, <1>3, FoundMeeting
<1>9. /\ {{TreePossiblePairs[i][1], TreePossiblePairs[i][2]} : i \in DOMAIN TreePossiblePairs}
           = MeetingStored
      /\ Len(TreePossiblePairs) = Cardinality(MeetingStored)
  BY <1>5, <1>8, PairsCounted
<1>10. /\ StoredEntries' = StoredEntries /\ PendingEntries' = PendingEntries
       /\ PendingEntries = {} /\ InTree' = InTree
  BY <1>1 DEF StoredEntries, StoredIn, PendingEntries, InTree
<1>11. AllEntries' = AllEntries /\ AllEntries = StoredEntries
  BY <1>10 DEF AllEntries
<1>12. Pool'
  BY <1>1, <1>2, <1>10 DEF Pool, NodeRecords, CallRecords
<1>13. Once' /\ Numbered'
  BY <1>1, <1>2, <1>10, <1>11 DEF Once, Numbered, StoredIn
<1>14. Frame'
  BY <1>1, <1>6, <1>7 DEF Frame
<1>15. TreeInv(dep, pos, way)'
  <2>1. /\ \A n \in InTree : Inner(n)' <=> Inner(n)
        /\ Placed(dep, pos)' /\ Ways(way)' /\ Quartered'
        /\ \A m, x : Routed(way, m, x)' <=> Routed(way, m, x)
    <3>1. InTree \subseteq DOMAIN nodes
      BY <1>2, TreeInPool
    <3> QED
      BY <1>1, <1>3, <3>1, SameTree
  <2>2. Routes(way)' /\ Fits(dep)'
    BY <1>1, <1>3, <1>10, <2>1 DEF TreeInv, Routes, Fits, StoredIn
  <2> QED
    BY <2>1, <2>2 DEF TreeInv
<1>16. RunningInv'
  BY <1>12, <1>13, <1>14, <1>15 DEF RunningInv
<1>17. IInv'
  BY <1>1, <1>16 DEF IInv
<1> QED
  BY <1>7, <1>9, <1>11, <1>17

\* A step that changes nothing keeps the invariant.
LEMMA StutterHolds ==
  ASSUME IInv, UNCHANGED vars PROVE IInv'
<1>1. /\ nodes' = nodes /\ nodeIndex' = nodeIndex /\ calls' = calls
      /\ possiblePairs' = possiblePairs /\ stage' = stage /\ status' = status
  BY DEF vars
<1>2. CASE status = "constructed"
  BY <1>1, <1>2 DEF IInv, NotStarted
<1>3. CASE status = "running"
  <2>1. /\ Pool /\ Once /\ Numbered /\ Frame /\ RunningInv
    BY <1>3 DEF IInv, RunningInv
  <2>2. PICK dep, pos, way : TreeInv(dep, pos, way)
    BY <2>1 DEF RunningInv
  <2>3. /\ InTree' = InTree /\ StoredEntries' = StoredEntries /\ PendingEntries' = PendingEntries
        /\ AllEntries' = AllEntries
    BY <1>1 DEF InTree, StoredEntries, StoredIn, PendingEntries, AllEntries
  <2>4. Pool'
    BY <1>1, <2>1, <2>3 DEF Pool, NodeRecords, CallRecords
  <2>5. Once' /\ Numbered' /\ Frame'
    BY <1>1, <2>1, <2>3 DEF Once, Numbered, Frame, StoredIn
  <2>6. TreeInv(dep, pos, way)'
    <3>1. /\ \A n \in InTree : Inner(n)' <=> Inner(n)
          /\ Placed(dep, pos)' /\ Ways(way)' /\ Quartered'
          /\ \A m, x : Routed(way, m, x)' <=> Routed(way, m, x)
      <4>1. InTree \subseteq DOMAIN nodes
        BY <2>1, TreeInPool
      <4> QED
        BY <1>1, <2>2, <4>1, SameTree
    <3>2. Routes(way)' /\ Fits(dep)'
      BY <1>1, <2>2, <2>3, <3>1 DEF TreeInv, Routes, Fits, StoredIn
    <3> QED
      BY <3>1, <3>2 DEF TreeInv
  <2>7. RunningInv'
    BY <2>4, <2>5, <2>6 DEF RunningInv
  <2> QED
    BY <1>1, <1>3, <2>7 DEF IInv
<1> QED
  BY <1>2, <1>3 DEF IInv

\* Every step does.
LEMMA StepHolds ==
  ASSUME IInv, [Next]_vars PROVE IInv'
<1>1. CASE InitTree
  BY <1>1, InitTreeHolds
<1>2. CASE DeinitTree
  BY <1>2, DeinitTreeHolds
<1>3. ASSUME NEW b \in Boundaries, BeginFrame(b) PROVE IInv'
  BY <1>3, BeginFrameHolds
<1>4. ASSUME NEW r \in Shapes, Insert(r) PROVE IInv'
  BY <1>4, InsertHolds
<1>5. CASE InsertInNode
  BY <1>5, InsertInNodeHolds
<1>6. CASE CalculatePossiblePairs
  BY <1>6, CalculateHolds
<1>7. CASE UNCHANGED vars
  BY <1>7, StutterHolds
<1> QED
  BY <1>1, <1>2, <1>3, <1>4, <1>5, <1>6, <1>7 DEF Next

\* The invariant holds in every state.
THEOREM InvariantHolds == Spec => []IInv
<1>1. Init => IInv
  BY InitHolds
<1>2. IInv /\ [Next]_vars => IInv'
  BY StepHolds
<1> QED
  BY <1>1, <1>2, PTL DEF Spec

\* The pool of nodes that QuadTree::Init allocates is never exhausted: no
\* subdivision indexes it out of bounds, whatever the colliders of any frame.
THEOREM PoolAlwaysSuffices == Spec => []PoolSuffices
<1>1. IInv => PoolSuffices
  BY DEF IInv, PoolSuffices
<1> QED
  BY <1>1, InvariantHolds, PTL

\* The nodes, their colliders, the activations to come and the pairs found are of
\* the types the code gives them.
THEOREM TypeCorrect == Spec => []TypeOK
<1>1. ASSUME IInv PROVE TypeOK
  <2>1. CASE status = "constructed"
    BY <1>1, <2>1 DEF IInv, NotStarted, TypeOK
  <2>2. CASE status = "running"
    <3>1. /\ Pool /\ possiblePairs \in Seq(Entries \X Entries)
          /\ stage \in {"inserting", "paired"}
      BY <1>1, <2>2 DEF IInv, RunningInv, Frame
    <3>2. QuadCount[MaxDepth] \in Nat
      BY QuadCountFacts, SizesAssumption
    <3>3. nodeIndex \in Nat
      BY <3>1, <3>2 DEF Pool
    <3>4. \A n \in DOMAIN nodes :
            /\ nodes[n].Boundary \in Rectangles
            /\ nodes[n].Children \in {<<>>} \union [1 .. 4 -> DOMAIN nodes]
            /\ nodes[n].Colliders \in Seq(Entries)
      BY <3>1 DEF Pool, NodeRecords
    <3>5. \A n \in DOMAIN nodes : StoredIn(n) \subseteq Entries
      BY <3>4 DEF StoredIn, ToSet
    <3>6. \A i \in DOMAIN calls : calls[i] \in CallRecords
      <4>1. calls \in Seq(CallRecords)
        BY <3>1 DEF Pool
      <4> QED
        BY <4>1
    <3>7. InTree \subseteq DOMAIN nodes
      BY <3>1, TreeInPool
    <3>8. \A i \in DOMAIN calls :
            /\ calls[i].node \in DOMAIN nodes
            /\ calls[i].entry \in Entries /\ calls[i].depth \in 0 .. MaxDepth
      BY <3>6, <3>7 DEF CallRecords
    <3>9. \A i \in DOMAIN possiblePairs : possiblePairs[i] \in Entries \X Entries
      <4> DEFINE S == Entries \X Entries
      <4>1. possiblePairs \in Seq(S)
        BY <3>1
      <4> HIDE DEF S
      <4>2. \A i \in DOMAIN possiblePairs : possiblePairs[i] \in S
        BY <4>1
      <4> QED
        BY <4>2 DEF S
    <3> QED
      BY <2>2, <3>1, <3>3, <3>4, <3>5, <3>8, <3>9 DEF TypeOK
  <2> QED
    BY <1>1, <2>1, <2>2 DEF IInv
<1> QED
  BY <1>1, InvariantHolds, PTL

\* The depth the property counts from the root is the one the invariant gives.
LEMMA DepthsAre ==
  ASSUME Pool, NEW dep, NEW pos, Placed(dep, pos) PROVE Depths = dep
<1> DEFINE parent(n) == CHOOSE m \in InTree : n \in ToSet(nodes[m].Children)
           Is(g) == g = [n \in InTree |-> IF n = Root THEN 0 ELSE 1 + g[parent(n)]]
<1>1. ASSUME NEW n \in InTree \ {Root}
      PROVE  parent(n) \in InTree /\ parent(n) < n /\ dep[n] = 1 + dep[parent(n)]
  <2>1. \A m \in InTree : m \in DOMAIN nodes
    BY TreeInPool
  <2>2. PICK m \in InTree, k \in 1 .. 4 : Inner(m) /\ n = Child(m, k)
    BY DEF Placed
  <2>3. \A l \in InTree : Inner(l) => nodes[l].Children \in [1 .. 4 -> DOMAIN nodes]
    BY <2>1 DEF Pool, NodeRecords, Inner
  <2>4. n \in ToSet(nodes[m].Children)
    BY <2>2, <2>3 DEF ToSet, Child
  <2>5. parent(n) \in InTree /\ n \in ToSet(nodes[parent(n)].Children)
    BY <2>4
  <2> DEFINE l == parent(n)
  <2> HIDE DEF l
  <2>6. l \in InTree /\ n \in ToSet(nodes[l].Children)
    BY <2>5 DEF l
  <2>7. Inner(l)
    BY <2>6 DEF Inner, ToSet
  <2>8. PICK j \in 1 .. 4 : n = Child(l, j)
    BY <2>3, <2>6, <2>7 DEF ToSet, Child
  <2>9. n > l /\ dep[n] = dep[l] + 1 /\ dep[l] \in 0 .. MaxDepth
    BY <2>6, <2>7, <2>8 DEF Placed
  <2>10. l < n /\ dep[n] = 1 + dep[l]
    <3>1. n \in Int /\ l \in Int /\ dep[l] \in Int
      BY <2>6, <2>9 DEF InTree
    <3> QED
      BY <2>9, <3>1
  <2> QED
    BY <2>6, <2>10 DEF l
<1>2. Depths = CHOOSE g : Is(g)
  BY DEF Depths, InTree
<1> HIDE DEF parent
<1>3. Is(dep)
  <2>1. dep \in [InTree -> 0 .. MaxDepth] /\ dep[Root] = 0
    BY DEF Placed
  <2>2. \A n \in InTree : dep[n] = IF n = Root THEN 0 ELSE 1 + dep[parent(n)]
    BY <1>1, <2>1
  <2> QED
    BY <2>1, <2>2
<1>4. ASSUME NEW g, Is(g) PROVE g = dep
  <2> DEFINE T == {n \in InTree : g[n] # dep[n]}
  <2>1. /\ DOMAIN g = InTree /\ g = [n \in InTree |-> g[n]]
        /\ DOMAIN dep = InTree /\ dep = [n \in InTree |-> dep[n]]
        /\ \A n \in InTree : /\ g[n] = IF n = Root THEN 0 ELSE 1 + g[parent(n)]
                             /\ dep[n] = IF n = Root THEN 0 ELSE 1 + dep[parent(n)]
    BY <1>3, <1>4
  <2>2. ASSUME T # {} PROVE FALSE
    <3>1. PICK n \in T : \A m \in T : n <= m
      <4>1. T \subseteq Nat
        BY DEF InTree
      <4> HIDE DEF T
      <4> QED
        BY <2>2, <4>1, LeastNatural
    <3>2. n \in InTree /\ g[n] # dep[n]
      OBVIOUS
    <3>3. n # Root
      BY <2>1, <3>2
    <3>4. parent(n) \in InTree /\ parent(n) < n
      BY <1>1, <3>2, <3>3
    <3>5. parent(n) \notin T
      BY <3>1, <3>2, <3>4 DEF InTree
    <3> QED
      BY <2>1, <3>2, <3>3, <3>4, <3>5
  <2> QED
    BY <2>1, <2>2
<1> HIDE DEF Is
<1> QED
  BY <1>2, <1>3, <1>4

\* A subdivision copies every collider of the node it divides: no node without
\* children holds more than MaxColliderNbr before one is added, but at the greatest
\* depth.
THEOREM LeavesAlwaysFit == Spec => []LeavesFit
<1>1. ASSUME IInv PROVE LeavesFit
  <2>1. CASE status = "constructed"
    <3>1. DOMAIN nodes = {}
      BY <1>1, <2>1 DEF IInv, NotStarted
    <3> QED
      BY <3>1 DEF LeavesFit
  <2>2. CASE status = "running"
    <3>1. Pool
      BY <1>1, <2>2 DEF IInv, RunningInv
    <3>2. PICK dep, pos, way : TreeInv(dep, pos, way)
      BY <1>1, <2>2 DEF IInv, RunningInv
    <3>3. Placed(dep, pos) /\ Fits(dep)
      BY <3>2 DEF TreeInv
    <3>4. Depths = dep
      BY <3>1, <3>3, DepthsAre
    <3> SUFFICES ASSUME NEW n \in DOMAIN nodes, n < nodeIndex, IsLeaf(n),
                        Len(nodes[n].Colliders) > MaxColliderNbr
                 PROVE  dep[n] = MaxDepth
      BY <3>4 DEF LeavesFit
    <3>5. n \in InTree
      <4>1. QuadCount[MaxDepth] \in Nat
        BY QuadCountFacts, SizesAssumption
      <4> QED
        BY <3>1, <4>1 DEF Pool, InTree
    <3>6. nodes[n].Colliders \in Seq(Entries)
      BY <3>1 DEF Pool, NodeRecords
    <3>7. Len(nodes[n].Colliders) \in Nat
      BY <3>6
    <3>8. ~(dep[n] < MaxDepth)
      <4>1. MaxColliderNbr \in Nat
        BY SizesAssumption
      <4> QED
        BY <3>3, <3>5, <3>7, <4>1 DEF Fits, IsLeaf, Inner
    <3>9. dep[n] \in 0 .. MaxDepth /\ MaxDepth \in Nat
      BY <3>3, <3>5, SizesAssumption DEF Placed
    <3> QED
      BY <3>8, <3>9
  <2> QED
    BY <1>1, <2>1, <2>2 DEF IInv
<1> QED
  BY <1>1, InvariantHolds, PTL

-----------------------------------------------------------------------------
(* The tree implements the broad phase the narrow phase needs.             *)

\* The abstract specification counts as this module does.
LEMMA AbstractCounts ==
  ASSUME NEW S PROVE Abstract!Cardinality(S) = Cardinality(S)
BY DEF Abstract!Cardinality, Cardinality

\* The abstract specification, in terms of the tree.
LEMMA AbstractIs ==
  /\ Abstract!MeetingPairs =
       {{ef[1], ef[2]} :
          ef \in {p \in AllEntries \X AllEntries : p[1] # p[2] /\ MeetEntries(p[1], p[2])}}
  /\ Abstract!vars = <<AllEntries, possiblePairs>>
BY DEF Abstract!MeetingPairs, Abstract!vars, AllEntries

\* Deinit, and the beginning of a frame, clear the abstract broad phase.
LEMMA ClearImplements ==
  ASSUME IInv, DeinitTree \/ \E b \in Boundaries : BeginFrame(b) PROVE Abstract!Clear
<1>1. /\ RunningInv /\ calls = <<>> /\ calls' = <<>> /\ possiblePairs' = <<>>
  BY DEF IInv, RunningInv, Frame, DeinitTree, BeginFrame
<1>2. StoredEntries' = {}
  <2>1. CASE DeinitTree
    BY <2>1 DEF DeinitTree, StoredEntries
  <2>2. ASSUME NEW b \in Boundaries, BeginFrame(b) PROVE StoredEntries' = {}
    <3>1. \A n \in DOMAIN nodes' : nodes'[n].Colliders = <<>>
      BY <2>2 DEF BeginFrame, Cleared, Node
    <3> QED
      BY <3>1 DEF StoredEntries, StoredIn, ToSet
  <2> QED
    BY <2>1, <2>2
<1>3. PendingEntries' = {}
  BY <1>1 DEF PendingEntries
<1> QED
  BY <1>1, <1>2, <1>3 DEF Abstract!Clear

\* The tree finds each pair of intersecting rectangles of a frame once and no
\* other: dividing, redistributing, passing on and clearing loses no collider and
\* duplicates none.
THEOREM FindsEveryPair == Spec => FindsMeetingPairs
<1>1. Init => Abstract!Init
  <2> SUFFICES ASSUME Init PROVE Abstract!Init
    OBVIOUS
  <2>1. StoredEntries = {} /\ PendingEntries = {} /\ possiblePairs = <<>>
    BY DEF Init, StoredEntries, PendingEntries
  <2> QED
    BY <2>1 DEF Abstract!Init
<1>2. ASSUME IInv, [Next]_vars PROVE [Abstract!Next]_Abstract!vars
  <2>1. CASE InitTree
    <3>1. calls = <<>> /\ nodes = <<>> /\ calls' = <<>> /\ possiblePairs' = possiblePairs
      BY <1>2, <2>1 DEF IInv, NotStarted, InitTree
    <3>2. \A n \in DOMAIN nodes' : nodes'[n].Colliders = <<>>
      BY <2>1 DEF InitTree, Node
    <3>3. StoredEntries' = {} /\ StoredEntries = {}
      BY <3>1, <3>2 DEF StoredEntries, StoredIn, ToSet
    <3>4. PendingEntries' = {} /\ PendingEntries = {}
      BY <3>1 DEF PendingEntries
    <3>5. UNCHANGED Abstract!vars
      BY <3>1, <3>3, <3>4 DEF Abstract!vars
    <3> QED
      BY <3>5
  <2>2. CASE DeinitTree \/ \E b \in Boundaries : BeginFrame(b)
    BY <1>2, <2>2, ClearImplements DEF Abstract!Next
  <2>3. ASSUME NEW r \in Shapes, Insert(r) PROVE [Abstract!Next]_Abstract!vars
    <3>1. PICK e \in Entries : e \notin AllEntries /\ AllEntries' = AllEntries \union {e}
      BY <1>2, <2>3, InsertHolds
    <3>2. UNCHANGED possiblePairs
      BY <2>3 DEF Insert
    <3>3. Abstract!Insert(e)
      BY <3>1, <3>2 DEF Abstract!Insert, AllEntries
    <3> QED
      BY <3>3 DEF Abstract!Next
  <2>4. CASE InsertInNode
    <3>1. AllEntries' = AllEntries
      BY <1>2, <2>4, InsertInNodeHolds
    <3>2. UNCHANGED possiblePairs
      BY <2>4 DEF InsertInNode
    <3>3. UNCHANGED Abstract!vars
      BY <3>1, <3>2 DEF Abstract!vars, AllEntries
    <3> QED
      BY <3>3
  <2>5. CASE CalculatePossiblePairs
    <3>1. /\ AllEntries' = AllEntries /\ possiblePairs = <<>> /\ AllEntries = StoredEntries
          /\ {{possiblePairs'[i][1], possiblePairs'[i][2]} : i \in DOMAIN possiblePairs'}
               = MeetingStored
          /\ Len(possiblePairs') = Cardinality(MeetingStored)
      BY <1>2, <2>5, CalculateHolds
    <3>2. Abstract!MeetingPairs = MeetingStored
      BY <3>1, AbstractIs DEF MeetingStored
    <3>3. Abstract!Calculate
      BY <3>1, <3>2, AbstractCounts DEF Abstract!Calculate, AllEntries
    <3> QED
      BY <3>3 DEF Abstract!Next
  <2>6. CASE UNCHANGED vars
    <3>1. UNCHANGED Abstract!vars
      BY <2>6 DEF vars, Abstract!vars, StoredEntries, StoredIn, PendingEntries
    <3> QED
      BY <3>1
  <2> QED
    BY <1>2, <2>1, <2>2, <2>3, <2>4, <2>5, <2>6 DEF Next
<1> QED
  BY <1>1, <1>2, InvariantHolds, PTL DEF Spec, FindsMeetingPairs, Abstract!Spec

-----------------------------------------------------------------------------
(* The narrow phase and the order of a pair.                               *)

\* The inductive invariant of Detection.
Typed ==
  /\ shape \in ColliderShapes \X ColliderShapes
  /\ position \in Vectors \X Vectors

\* The distance of two centres has no direction.
LEMMA DistanceEitherWay ==
  ASSUME NEW p \in Vectors, NEW q \in Vectors
  PROVE  SquareLength(Minus(p, q)) = SquareLength(Minus(q, p))
<1> DEFINE x == p.X - q.X
           y == p.Y - q.Y
<1>1. x \in Int /\ y \in Int /\ q.X - p.X = -x /\ q.Y - p.Y = -y
  BY DEF Vectors
<1>2. SquareLength(Minus(p, q)) = x * x + y * y
  BY DEF SquareLength, Dot, Minus, Point
<1>3. SquareLength(Minus(q, p)) = (-x) * (-x) + (-y) * (-y)
  BY <1>1 DEF SquareLength, Dot, Minus, Point
<1> HIDE DEF x, y
<1>4. (-x) * (-x) = x * x /\ (-y) * (-y) = y * y
  BY <1>1
<1> QED
  BY <1>2, <1>3, <1>4

\* A shape that is moved remains one.
LEMMA MovedShape ==
  ASSUME NEW s \in ColliderShapes, NEW v \in Vectors
  PROVE  /\ Moved(s, v).Kind = s.Kind
         /\ s.Kind \in {"Circle", "Rectangle", "Polygon"}
         /\ s.Kind = "Circle" =>
              Moved(s, v).Center \in Vectors /\ Moved(s, v).Radius \in Nat
<1>1. CASE s \in [Kind : {"Circle"}, Center : Vectors, Radius : Nat]
  <2>1. s.Kind = "Circle" /\ s.Center \in Vectors /\ s.Radius \in Nat
    BY <1>1
  <2>2. Moved(s, v) = [s EXCEPT !.Center = Plus(s.Center, v)]
    BY <2>1 DEF Moved
  <2>3. Plus(s.Center, v) \in Vectors
    BY <2>1 DEF Plus, Point, Vectors
  <2> QED
    BY <1>1, <2>1, <2>2, <2>3
<1>2. CASE s \in [Kind : {"Rectangle"}, Min : Vectors, Max : Vectors]
  <2>1. s.Kind = "Rectangle"
    BY <1>2
  <2>2. Moved(s, v) = [s EXCEPT !.Min = Plus(s.Min, v), !.Max = Plus(s.Max, v)]
    BY <2>1 DEF Moved
  <2> QED
    BY <1>2, <2>1, <2>2
<1>3. CASE s \in [Kind : {"Polygon"}, Vertices : Seq(Vectors)]
  <2>1. s.Kind = "Polygon"
    BY <1>3
  <2>2. Moved(s, v) =
          [s EXCEPT !.Vertices = [i \in DOMAIN s.Vertices |-> Plus(s.Vertices[i], v)]]
    BY <2>1 DEF Moved
  <2> QED
    BY <1>3, <2>1, <2>2
<1> QED
  BY <1>1, <1>2, <1>3 DEF ColliderShapes

\* The overlap tests do not depend on the order of the two shapes.
LEMMA ShapesEitherWay ==
  ASSUME NEW s, NEW t,
         s.Kind \in {"Circle", "Rectangle", "Polygon"},
         t.Kind \in {"Circle", "Rectangle", "Polygon"},
         s.Kind = "Circle" => s.Center \in Vectors /\ s.Radius \in Nat,
         t.Kind = "Circle" => t.Center \in Vectors /\ t.Radius \in Nat
  PROVE  ShapesIntersect(s, t) = ShapesIntersect(t, s)
<1>1. CASE s.Kind = "Circle" /\ t.Kind = "Circle"
  <2>1. /\ ShapesIntersect(s, t) = CirclesIntersect(s, t)
        /\ ShapesIntersect(t, s) = CirclesIntersect(t, s)
    BY <1>1 DEF ShapesIntersect
  <2>2. s.Radius + t.Radius = t.Radius + s.Radius
    BY <1>1
  <2>3. SquareLength(Minus(s.Center, t.Center)) = SquareLength(Minus(t.Center, s.Center))
    BY <1>1, DistanceEitherWay
  <2> QED
    BY <2>1, <2>2, <2>3 DEF CirclesIntersect
<1>2. CASE s.Kind = "Circle" /\ t.Kind = "Rectangle"
  BY <1>2 DEF ShapesIntersect
<1>3. CASE s.Kind = "Circle" /\ t.Kind = "Polygon"
  BY <1>3 DEF ShapesIntersect
<1>4. CASE s.Kind = "Rectangle" /\ t.Kind = "Circle"
  BY <1>4 DEF ShapesIntersect
<1>5. CASE s.Kind = "Rectangle" /\ t.Kind = "Rectangle"
  BY <1>5 DEF ShapesIntersect, Intersect
<1>6. CASE s.Kind = "Rectangle" /\ t.Kind = "Polygon"
  BY <1>6 DEF ShapesIntersect
<1>7. CASE s.Kind = "Polygon" /\ t.Kind = "Circle"
  BY <1>7 DEF ShapesIntersect
<1>8. CASE s.Kind = "Polygon" /\ t.Kind = "Rectangle"
  BY <1>8 DEF ShapesIntersect
<1>9. CASE s.Kind = "Polygon" /\ t.Kind = "Polygon"
  <2>1. /\ ShapesIntersect(s, t) = PolygonsIntersect(s, t)
        /\ ShapesIntersect(t, s) = PolygonsIntersect(t, s)
    BY <1>9 DEF ShapesIntersect
  <2>2. PolygonsIntersect(s, t) = PolygonsIntersect(t, s)
    BY DEF PolygonsIntersect, Separates
  <2> QED
    BY <2>1, <2>2
<1> QED
  BY <1>1, <1>2, <1>3, <1>4, <1>5, <1>6, <1>7, <1>8, <1>9

\* The invariant makes the order irrelevant.
LEMMA TypedIsEnough == Typed => OrderIrrelevant
<1> SUFFICES ASSUME Typed PROVE OrderIrrelevant
  OBVIOUS
<1> DEFINE s == Moved(shape[1], position[1])
           t == Moved(shape[2], position[2])
<1>1. /\ shape[1] \in ColliderShapes /\ shape[2] \in ColliderShapes
      /\ position[1] \in Vectors /\ position[2] \in Vectors
  BY DEF Typed
<1>2. /\ s.Kind \in {"Circle", "Rectangle", "Polygon"}
      /\ s.Kind = "Circle" => s.Center \in Vectors /\ s.Radius \in Nat
  BY <1>1, MovedShape
<1>3. /\ t.Kind \in {"Circle", "Rectangle", "Polygon"}
      /\ t.Kind = "Circle" => t.Center \in Vectors /\ t.Radius \in Nat
  BY <1>1, MovedShape
<1> HIDE DEF s, t
<1>4. ShapesIntersect(s, t) = ShapesIntersect(t, s)
  BY <1>2, <1>3, ShapesEitherWay
<1> QED
  BY <1>4 DEF OrderIrrelevant, DetectOverlap, s, t

LEMMA TypedHolds == DetectionSpec => []Typed
<1>0. /\ Positions \union Starts \union Velocities \subseteq Vectors
      /\ ShapePairs \subseteq ColliderShapes \X ColliderShapes
  BY PositionsAssumption
<1>1. DetectionInit => Typed
  BY <1>0 DEF DetectionInit, Typed
<1>2. Typed /\ [DetectionNext]_detectionVars => Typed'
  <2> SUFFICES ASSUME Typed, [DetectionNext]_detectionVars PROVE Typed'
    OBVIOUS
  <2>1. ASSUME NEW b \in 1 .. 2, NEW velocity \in Velocities, Update(b, velocity)
        PROVE  Typed'
    <3>1. /\ shape' = shape /\ Plus(position[b], velocity) \in Vectors
          /\ position' = [position EXCEPT ![b] = Plus(position[b], velocity)]
      BY <1>0, <2>1 DEF Update
    <3>2. position' \in Vectors \X Vectors
      BY <3>1 DEF Typed
    <3> QED
      BY <3>1, <3>2 DEF Typed
  <2>2. CASE UNCHANGED detectionVars
    BY <2>2 DEF detectionVars, Typed
  <2> QED
    BY <2>1, <2>2 DEF DetectionNext
<1> QED
  BY <1>1, <1>2, PTL DEF DetectionSpec

\* The tree names a pair in an order that may change from frame to frame; for all
\* kinds of shapes, of any size and wherever they are, detectOverlap answers the same
\* in both, so a contact does not begin and end because of it.
THEOREM EitherOrder == DetectionSpec => []OrderIrrelevant
  BY TypedHolds, TypedIsEnough, PTL

-----------------------------------------------------------------------------
(* The contacts of circles and rectangles: the tests, case by case, and    *)
(* the points the shapes share.                                            *)

\* Products, and the signs of them.
LEMMA SignOfProduct ==
  ASSUME NEW k \in Int, NEW m \in Int, k > 0
  PROVE  /\ k * m >= 0 <=> m >= 0
         /\ k * m <= 0 <=> m <= 0
<1>1. m > 0 => k * m > 0
  OBVIOUS
<1>2. m < 0 => k * m < 0
  OBVIOUS
<1>3. m = 0 => k * m = 0
  OBVIOUS
<1>4. k * m \in Int
  OBVIOUS
<1> QED
  BY <1>1, <1>2, <1>3, <1>4

LEMMA SquareGrows ==
  ASSUME NEW m \in Nat, NEW n \in Nat
  PROVE  m * m <= n * n <=> m <= n
<1>1. ASSUME m <= n PROVE m * m <= n * n
  <2>1. m * m <= m * n
    BY <1>1
  <2>2. m * n <= n * n
    BY <1>1
  <2> QED
    BY <2>1, <2>2
<1>2. ASSUME m > n PROVE m * m > n * n
  <2>1. m * m >= m * n
    BY <1>2
  <2>2. m * n >= n * n
    BY <1>2
  <2>3. m * m # n * n
    <3>1. m = n + (m - n) /\ m - n > 0
      BY <1>2
    <3> DEFINE d == m - n
    <3>2. d \in Int /\ d > 0 /\ m = n + d
      BY <3>1
    <3> HIDE DEF d
    <3>3. (n + d) * (n + d) = n * n + (2 * (n * d) + d * d)
      BY <3>2
    <3>4. n * d >= 0 /\ d * d > 0
      BY <3>2
    <3> QED
      BY <3>2, <3>3, <3>4
  <2> QED
    BY <2>1, <2>2, <2>3
<1> QED
  BY <1>1, <1>2

LEMMA SquareWithin ==
  ASSUME NEW z \in Int, NEW r \in Nat
  PROVE  z * z <= r * r <=> -r <= z /\ z <= r
<1>1. CASE z >= 0
  BY <1>1, SquareGrows
<1>2. CASE z < 0
  <2> DEFINE m == -z
  <2>1. m \in Nat /\ z = -m
    BY <1>2
  <2> HIDE DEF m
  <2>2. z * z = m * m
    BY <2>1
  <2>3. m * m <= r * r <=> m <= r
    BY <2>1, SquareGrows
  <2> QED
    BY <2>1, <2>2, <2>3
<1> QED
  BY <1>1, <1>2

LEMMA ScaledSquare ==
  ASSUME NEW k \in Int, k # 0, NEW z \in Int, NEW r \in Nat
  PROVE  (k * z) * (k * z) <= r * r * (k * k) <=> -r <= z /\ z <= r
<1> DEFINE kk == k * k
           zz == z * z
           rr == r * r
<1>1. kk \in Int /\ kk > 0
  OBVIOUS
<1>2. zz \in Int /\ rr \in Int
  OBVIOUS
<1>3. (k * z) * (k * z) = kk * zz
  OBVIOUS
<1>4. r * r * (k * k) = kk * rr
  BY <1>1, <1>2
<1>5. zz <= rr <=> -r <= z /\ z <= r
  BY SquareWithin
<1> HIDE DEF kk, zz, rr
<1>6. kk * zz <= kk * rr <=> zz <= rr
  <2>1. kk * (rr - zz) >= 0 <=> rr - zz >= 0
    BY <1>1, <1>2, SignOfProduct
  <2>2. kk * (rr - zz) = kk * rr - kk * zz
    BY <1>1, <1>2
  <2>3. kk * rr \in Int /\ kk * zz \in Int
    BY <1>1, <1>2
  <2> QED
    BY <1>2, <2>1, <2>2, <2>3
<1> QED
  BY <1>3, <1>4, <1>5, <1>6

LEMMA WithinStretch ==
  ASSUME NEW k \in Int, k # 0, NEW m \in Int
  PROVE  k * m \in 0 .. k * k <=> (0 <= m /\ m <= k) \/ (k <= m /\ m <= 0)
<1>1. k * m \in Int /\ k * k \in Int
  OBVIOUS
<1>2. CASE k > 0
  <2>1. k * m >= 0 <=> m >= 0
    BY <1>2, SignOfProduct
  <2>2. k * (k - m) >= 0 <=> k - m >= 0
    BY <1>2, SignOfProduct
  <2>3. k * (k - m) = k * k - k * m
    OBVIOUS
  <2> QED
    BY <1>1, <1>2, <2>1, <2>2, <2>3
<1>3. CASE k < 0
  <2> DEFINE h == -k
  <2>1. h \in Int /\ h > 0 /\ k = -h
    BY <1>3
  <2> HIDE DEF h
  <2>2. h * m <= 0 <=> m <= 0
    BY <2>1, SignOfProduct
  <2>3. h * (h + m) >= 0 <=> h + m >= 0
    BY <2>1, SignOfProduct
  <2>4. h * (h + m) = h * h + h * m /\ k * k = h * h /\ k * m = - (h * m)
    BY <2>1
  <2>5. h * h \in Int /\ h * m \in Int
    BY <2>1
  <2> QED
    BY <1>1, <2>1, <2>2, <2>3, <2>4, <2>5
<1> QED
  BY <1>2, <1>3

LEMMA OppositeSigns ==
  ASSUME NEW k \in Int, k # 0, NEW m \in Int, NEW n \in Int
  PROVE  (k * m) * (k * n) < 0 <=> (m < 0 /\ n > 0) \/ (m > 0 /\ n < 0)
<1> DEFINE kk == k * k
           mn == m * n
<1>1. kk \in Int /\ kk > 0 /\ mn \in Int
  OBVIOUS
<1>2. (k * m) * (k * n) = kk * mn
  OBVIOUS
<1>3. mn < 0 <=> (m < 0 /\ n > 0) \/ (m > 0 /\ n < 0)
  <2>1. m = 0 \/ n = 0 => mn = 0
    OBVIOUS
  <2>2. (m > 0 /\ n > 0) \/ (m < 0 /\ n < 0) => mn > 0
    OBVIOUS
  <2>3. (m < 0 /\ n > 0) \/ (m > 0 /\ n < 0) => mn < 0
    OBVIOUS
  <2> QED
    BY <1>1, <2>1, <2>2, <2>3
<1> HIDE DEF kk, mn
<1>4. kk * mn >= 0 <=> mn >= 0
  BY <1>1, SignOfProduct
<1>5. kk * mn \in Int
  BY <1>1
<1> QED
  BY <1>1, <1>2, <1>3, <1>4, <1>5

\* The part of the way that a circle of radius r reaches, if the way is too long.
LEMMA PartWithin ==
  ASSUME NEW k \in Nat, NEW r \in Nat, NEW D \in Int, NEW N \in Int, N > 0, D > N,
         k * k * D <= r * r * N
  PROVE  k <= r /\ (k = r => r = 0)
<1> DEFINE kk == k * k
           rr == r * r
<1>1. kk \in Int /\ kk >= 0 /\ rr \in Int /\ rr >= 0
  OBVIOUS
<1>2. kk <= rr <=> k <= r
  BY SquareGrows
<1>3. kk * D <= rr * N
  OBVIOUS
<1>4. k = r => kk = rr
  OBVIOUS
<1>5. rr = 0 => r = 0
  OBVIOUS
<1> HIDE DEF kk, rr
<1>6. kk * (D - N) >= 0
  BY <1>1
<1>7. kk * (D - N) = kk * D - kk * N /\ kk * D \in Int /\ kk * N \in Int /\ rr * N \in Int
  BY <1>1
<1>8. N * (rr - kk) = rr * N - kk * N
  BY <1>1
<1>9. N * (rr - kk) >= 0 <=> rr - kk >= 0
  BY <1>1, SignOfProduct
<1>10. kk <= rr
  BY <1>1, <1>3, <1>6, <1>7, <1>8, <1>9
<1>11. ASSUME kk = rr PROVE rr = 0
  <2>1. (D - N) * rr >= 0 /\ (D - N) * rr <= 0
    BY <1>1, <1>3, <1>6, <1>7, <1>11
  <2>2. (D - N) * rr <= 0 <=> rr <= 0
    BY <1>1, SignOfProduct
  <2> QED
    BY <1>1, <2>1, <2>2
<1> QED
  BY <1>2, <1>4, <1>5, <1>10, <1>11

\* Some point divides the way between the centres iff the radii reach over it.
LEMMA WayIsReached ==
  ASSUME NEW r \in Nat, NEW s \in Nat, r + s > 0, NEW D \in Nat
  PROVE  (\E k \in 0 .. r + s : /\ k * k * D <= r * r * (r + s) * (r + s)
                                /\ (r + s - k) * (r + s - k) * D <= s * s * (r + s) * (r + s))
           <=> D <= (r + s) * (r + s)
<1> DEFINE n == r + s
           N == n * n
<1>1. n \in Int /\ n > 0 /\ N \in Int /\ N > 0
  OBVIOUS
<1>2. r * r * n * n = r * r * N /\ s * s * n * n = s * s * N
  <2>1. r * r \in Int /\ s * s \in Int
    OBVIOUS
  <2> QED
    BY <1>1, <2>1
<1>3. ASSUME D <= N
      PROVE  r * r * D <= r * r * N /\ (n - r) * (n - r) * D <= s * s * N
  <2>1. n - r = s
    OBVIOUS
  <2>2. r * r \in Nat /\ s * s \in Nat
    OBVIOUS
  <2> HIDE DEF N, n
  <2>3. \A q \in Nat : q * D <= q * N
    BY <1>1, <1>3
  <2> QED
    BY <2>1, <2>2, <2>3
<1>4. ASSUME NEW k \in 0 .. n, k * k * D <= r * r * N, (n - k) * (n - k) * D <= s * s * N
      PROVE  D <= N
  <2> SUFFICES ASSUME D > N PROVE FALSE
    BY <1>1
  <2>1. k \in Nat /\ n - k \in Nat
    BY <1>1
  <2> HIDE DEF N
  <2>2. k <= r /\ (k = r => r = 0)
    BY <1>1, <1>4, <2>1, PartWithin
  <2>3. n - k <= s /\ (n - k = s => s = 0)
    BY <1>1, <1>4, <2>1, PartWithin
  <2> QED
    BY <2>1, <2>2, <2>3
<1>5. r \in 0 .. n
  OBVIOUS
<1> HIDE DEF n, N
<1>6. (\E k \in 0 .. n : k * k * D <= r * r * n * n /\ (n - k) * (n - k) * D <= s * s * n * n)
        <=> D <= N
  BY <1>2, <1>3, <1>4, <1>5
<1> QED
  BY <1>6 DEF n, N

LEMMA SquareLengthIs ==
  ASSUME NEW p \in Vectors, NEW q \in Vectors
  PROVE  SquareLength(Minus(p, q)) = (p.X - q.X) * (p.X - q.X) + (p.Y - q.Y) * (p.Y - q.Y)
  BY DEF SquareLength, Dot, Minus, Point

\* The reference definition and the test of two circles.
LEMMA CirclesExact ==
  ASSUME NEW c, NEW d, c.Center \in Vectors, d.Center \in Vectors,
         c.Radius \in Nat, d.Radius \in Nat, c.Radius + d.Radius > 0
  PROVE  CirclesShare(c, d) <=> CirclesIntersect(c, d)
<1> DEFINE D == SquareLength(Minus(d.Center, c.Center))
<1>1. \A x \in Int : x * x \in Nat
  OBVIOUS
<1>2. D \in Nat /\ D = SquareLength(Minus(c.Center, d.Center))
  <2> DEFINE x == d.Center.X - c.Center.X
             y == d.Center.Y - c.Center.Y
  <2>1. x \in Int /\ y \in Int /\ c.Center.X - d.Center.X = -x /\ c.Center.Y - d.Center.Y = -y
    BY DEF Vectors
  <2>2. D = x * x + y * y
    BY SquareLengthIs
  <2>3. SquareLength(Minus(c.Center, d.Center)) = (-x) * (-x) + (-y) * (-y)
    BY <2>1, SquareLengthIs
  <2> HIDE DEF D, x, y
  <2>4. (-x) * (-x) = x * x /\ (-y) * (-y) = y * y
    BY <2>1
  <2> QED
    BY <1>1, <2>1, <2>2, <2>3, <2>4
<1>3. CirclesIntersect(c, d) <=> D <= (c.Radius + d.Radius) * (c.Radius + d.Radius)
  BY <1>2 DEF CirclesIntersect
<1>4. CirclesShare(c, d) <=>
        \E k \in 0 .. c.Radius + d.Radius :
          /\ k * k * D <= c.Radius * c.Radius * (c.Radius + d.Radius) * (c.Radius + d.Radius)
          /\ (c.Radius + d.Radius - k) * (c.Radius + d.Radius - k) * D
               <= d.Radius * d.Radius * (c.Radius + d.Radius) * (c.Radius + d.Radius)
  BY DEF CirclesShare
<1> HIDE DEF D
<1> QED
  BY <1>2, <1>3, <1>4, WayIsReached

\* A rectangle with an area, and its sides: two of them flat, two upright.
IsBox(r) ==
  /\ r.Min \in Vectors /\ r.Max \in Vectors
  /\ r.Kind = "Rectangle" /\ r.Min.X < r.Max.X /\ r.Min.Y < r.Max.Y

Flat(p, q, y) == <<Point(p, y), Point(q, y)>>

Upright(x, p, q) == <<Point(x, p), Point(x, q)>>

BoxSides(r) ==
  {Flat(r.Min.X, r.Max.X, r.Min.Y), Upright(r.Max.X, r.Min.Y, r.Max.Y),
   Flat(r.Max.X, r.Min.X, r.Max.Y), Upright(r.Min.X, r.Max.Y, r.Min.Y)}

LEMMA VectorIs ==
  ASSUME NEW p \in Vectors
  PROVE  p.X \in Int /\ p.Y \in Int /\ p = Point(p.X, p.Y)
  BY DEF Vectors, Point

LEMMA SidesAre ==
  ASSUME NEW r, IsBox(r)
  PROVE  /\ Sides(Hull(r)) = BoxSides(r)
         /\ DOMAIN Hull(r) = 1 .. 4
         /\ {Hull(r)[i] : i \in DOMAIN Hull(r)} = Corners(r)
<1> DEFINE a == Point(r.Min.X, r.Min.Y)
           b == Point(r.Max.X, r.Min.Y)
           c == Point(r.Max.X, r.Max.Y)
           d == Point(r.Min.X, r.Max.Y)
<1>1. r.Min = a /\ r.Max = c
  BY VectorIs DEF IsBox
<1>2. Hull(r) = <<a, b, c, d>>
  BY <1>1 DEF Hull, IsBox
<1>3. /\ Flat(r.Min.X, r.Max.X, r.Min.Y) = <<a, b>>
      /\ Upright(r.Max.X, r.Min.Y, r.Max.Y) = <<b, c>>
      /\ Flat(r.Max.X, r.Min.X, r.Max.Y) = <<c, d>>
      /\ Upright(r.Min.X, r.Max.Y, r.Min.Y) = <<d, a>>
  BY DEF Flat, Upright
<1>4. Corners(r) = {a, b, c, d}
  BY <1>1 DEF Corners
<1> HIDE DEF a, b, c, d
<1> DEFINE h == <<a, b, c, d>>
<1>5. DOMAIN h = 1 .. 4 /\ Len(h) = 4 /\ h[1] = a /\ h[2] = b /\ h[3] = c /\ h[4] = d
  OBVIOUS
<1> HIDE DEF h
<1>6. 1 .. 4 = {1, 2, 3, 4}
  OBVIOUS
<1>7. (1 % 4) + 1 = 2 /\ (2 % 4) + 1 = 3 /\ (3 % 4) + 1 = 4 /\ (4 % 4) + 1 = 1
  OBVIOUS
<1>8. {<<h[i], h[(i % Len(h)) + 1]>> : i \in DOMAIN h}
        = {<<a, b>>, <<b, c>>, <<c, d>>, <<d, a>>}
  BY <1>5, <1>6, <1>7
<1>9. {h[i] : i \in DOMAIN h} = {a, b, c, d}
  BY <1>5, <1>6
<1>10. Hull(r) = h
  BY <1>2 DEF h
<1>11. Sides(Hull(r)) = {<<a, b>>, <<b, c>>, <<c, d>>, <<d, a>>}
  BY <1>8, <1>10 DEF Sides
<1>12. BoxSides(r) = {<<a, b>>, <<b, c>>, <<c, d>>, <<d, a>>}
  BY <1>3 DEF BoxSides
<1>13. {Hull(r)[i] : i \in DOMAIN Hull(r)} = Corners(r)
  BY <1>4, <1>9, <1>10
<1> QED
  BY <1>5, <1>10, <1>11, <1>12, <1>13

\* On which side of a flat or an upright side a point lies.
LEMMA SideOfFlat ==
  ASSUME NEW p \in Int, NEW q \in Int, NEW y \in Int, NEW v \in Vectors
  PROVE  Side(Flat(p, q, y), v) = (q - p) * (v.Y - y)
<1>1. Side(Flat(p, q, y), v) = (q - p) * (v.Y - y) - (y - y) * (v.X - p)
  BY DEF Side, Cross, Minus, Flat, Point
<1>2. v.X \in Int /\ v.Y \in Int
  BY VectorIs
<1> QED
  BY <1>1, <1>2

LEMMA SideOfUpright ==
  ASSUME NEW x \in Int, NEW p \in Int, NEW q \in Int, NEW v \in Vectors
  PROVE  Side(Upright(x, p, q), v) = (q - p) * (x - v.X)
<1>1. Side(Upright(x, p, q), v) = (x - x) * (v.Y - p) - (q - p) * (v.X - x)
  BY DEF Side, Cross, Minus, Upright, Point
<1>2. v.X \in Int /\ v.Y \in Int
  BY VectorIs
<1>3. (q - p) * (x - v.X) = - ((q - p) * (v.X - x)) /\ (q - p) * (v.X - x) \in Int
  BY <1>2
<1> QED
  BY <1>1, <1>2, <1>3

\* A point is inside the sides of a box iff the box contains it.
LEMMA InsideBox ==
  ASSUME NEW r, IsBox(r), NEW v \in Vectors
  PROVE  Inside(v, Hull(r)) <=> RectangleContains(r, v)
<1> DEFINE w == r.Max.X - r.Min.X
           h == r.Max.Y - r.Min.Y
<1>1. /\ r.Min.X \in Int /\ r.Min.Y \in Int /\ r.Max.X \in Int /\ r.Max.Y \in Int
      /\ v.X \in Int /\ v.Y \in Int
  BY VectorIs DEF IsBox
<1>2. w \in Int /\ w > 0 /\ h \in Int /\ h > 0
  BY <1>1 DEF IsBox
<1>3. Side(Flat(r.Min.X, r.Max.X, r.Min.Y), v) = w * (v.Y - r.Min.Y)
  BY <1>1, SideOfFlat
<1>4. Side(Upright(r.Max.X, r.Min.Y, r.Max.Y), v) = h * (r.Max.X - v.X)
  BY <1>1, SideOfUpright
<1>5. Side(Flat(r.Max.X, r.Min.X, r.Max.Y), v) = w * (r.Max.Y - v.Y)
  <2>1. Side(Flat(r.Max.X, r.Min.X, r.Max.Y), v)
          = (r.Min.X - r.Max.X) * (v.Y - r.Max.Y)
    BY <1>1, SideOfFlat
  <2>2. \A i, j \in Int : (-i) * (-j) = i * j
    OBVIOUS
  <2>3. r.Min.X - r.Max.X = -w /\ v.Y - r.Max.Y = -(r.Max.Y - v.Y)
    BY <1>1
  <2> HIDE DEF w
  <2> QED
    BY <1>1, <1>2, <2>1, <2>2, <2>3
<1>6. Side(Upright(r.Min.X, r.Max.Y, r.Min.Y), v) = h * (v.X - r.Min.X)
  <2>1. Side(Upright(r.Min.X, r.Max.Y, r.Min.Y), v)
          = (r.Min.Y - r.Max.Y) * (r.Min.X - v.X)
    BY <1>1, SideOfUpright
  <2>2. \A i, j \in Int : (-i) * (-j) = i * j
    OBVIOUS
  <2>3. r.Min.Y - r.Max.Y = -h /\ r.Min.X - v.X = -(v.X - r.Min.X)
    BY <1>1
  <2> HIDE DEF h
  <2> QED
    BY <1>1, <1>2, <2>1, <2>2, <2>3
<1> HIDE DEF w, h
<1> DEFINE m1 == v.Y - r.Min.Y
           m2 == r.Max.X - v.X
           m3 == r.Max.Y - v.Y
           m4 == v.X - r.Min.X
<1>7. m1 \in Int /\ m2 \in Int /\ m3 \in Int /\ m4 \in Int
  BY <1>1
<1>8. /\ w * m1 >= 0 <=> m1 >= 0
      /\ h * m2 >= 0 <=> m2 >= 0
      /\ w * m3 >= 0 <=> m3 >= 0
      /\ h * m4 >= 0 <=> m4 >= 0
  <2> HIDE DEF m1, m2, m3, m4
  <2> QED
    BY <1>2, <1>7, SignOfProduct
<1>9. w * m1 <= 0 <=> m1 <= 0
  <2> HIDE DEF m1
  <2> QED
    BY <1>2, <1>7, SignOfProduct
<1>10. w * m3 <= 0 <=> m3 <= 0
  <2> HIDE DEF m3
  <2> QED
    BY <1>2, <1>7, SignOfProduct
<1>11. (\A e \in BoxSides(r) : Side(e, v) >= 0) <=> m1 >= 0 /\ m2 >= 0 /\ m3 >= 0 /\ m4 >= 0
  BY <1>3, <1>4, <1>5, <1>6, <1>8 DEF BoxSides
<1>12. (\A e \in BoxSides(r) : Side(e, v) <= 0) => m1 <= 0 /\ m3 <= 0
  BY <1>3, <1>5, <1>9, <1>10 DEF BoxSides
<1>13. ~(m1 <= 0 /\ m3 <= 0)
  BY <1>1 DEF IsBox
<1>14. Inside(v, Hull(r)) <=> m1 >= 0 /\ m2 >= 0 /\ m3 >= 0 /\ m4 >= 0
  BY <1>11, <1>12, <1>13, SidesAre DEF Inside
<1> QED
  BY <1>1, <1>14 DEF RectangleContains

LEMMA FlatsDoNotCross ==
  ASSUME NEW p \in Int, NEW q \in Int, p # q, NEW y \in Int,
         NEW g \in Int, NEW h \in Int, NEW z \in Int
  PROVE  ~SidesCross(Flat(p, q, y), Flat(g, h, z))
<1>1. Flat(g, h, z)[1] = Point(g, z) /\ Flat(g, h, z)[2] = Point(h, z)
  BY DEF Flat
<1>2. /\ Point(g, z) \in Vectors /\ Point(h, z) \in Vectors
      /\ Point(g, z).Y = z /\ Point(h, z).Y = z
  BY DEF Point, Vectors
<1>3. /\ Side(Flat(p, q, y), Point(g, z)) = (q - p) * (z - y)
      /\ Side(Flat(p, q, y), Point(h, z)) = (q - p) * (z - y)
  BY <1>2, SideOfFlat
<1> DEFINE k == q - p
           m == z - y
<1>4. k \in Int /\ k # 0 /\ m \in Int
  OBVIOUS
<1> HIDE DEF k, m
<1>5. ~((k * m) * (k * m) < 0)
  BY <1>4, OppositeSigns
<1> QED
  BY <1>1, <1>3, <1>5 DEF SidesCross, k, m

LEMMA UprightsDoNotCross ==
  ASSUME NEW p \in Int, NEW q \in Int, p # q, NEW x \in Int,
         NEW g \in Int, NEW h \in Int, NEW z \in Int
  PROVE  ~SidesCross(Upright(x, p, q), Upright(z, g, h))
<1>1. Upright(z, g, h)[1] = Point(z, g) /\ Upright(z, g, h)[2] = Point(z, h)
  BY DEF Upright
<1>2. /\ Point(z, g) \in Vectors /\ Point(z, h) \in Vectors
      /\ Point(z, g).X = z /\ Point(z, h).X = z
  BY DEF Point, Vectors
<1>3. /\ Side(Upright(x, p, q), Point(z, g)) = (q - p) * (x - z)
      /\ Side(Upright(x, p, q), Point(z, h)) = (q - p) * (x - z)
  BY <1>2, SideOfUpright
<1> DEFINE k == q - p
           m == x - z
<1>4. k \in Int /\ k # 0 /\ m \in Int
  OBVIOUS
<1> HIDE DEF k, m
<1>5. ~((k * m) * (k * m) < 0)
  BY <1>4, OppositeSigns
<1> QED
  BY <1>1, <1>3, <1>5 DEF SidesCross, k, m

\* Strictly between, in either order.
Between(n, p, q) == (p < n /\ n < q) \/ (q < n /\ n < p)

LEMMA FlatCrossesUpright ==
  ASSUME NEW p \in Int, NEW q \in Int, p # q, NEW y \in Int,
         NEW x \in Int, NEW g \in Int, NEW h \in Int, g # h
  PROVE  /\ SidesCross(Flat(p, q, y), Upright(x, g, h)) <=> Between(x, p, q) /\ Between(y, g, h)
         /\ SidesCross(Upright(x, g, h), Flat(p, q, y)) <=> Between(x, p, q) /\ Between(y, g, h)
<1> DEFINE e == Flat(p, q, y)
           f == Upright(x, g, h)
<1>1. /\ e[1] = Point(p, y) /\ e[2] = Point(q, y)
      /\ f[1] = Point(x, g) /\ f[2] = Point(x, h)
  BY DEF Flat, Upright
<1>2. /\ Point(p, y) \in Vectors /\ Point(q, y) \in Vectors
      /\ Point(x, g) \in Vectors /\ Point(x, h) \in Vectors
      /\ Point(p, y).X = p /\ Point(q, y).X = q /\ Point(x, g).Y = g /\ Point(x, h).Y = h
  BY DEF Point, Vectors
<1>3. /\ Side(e, Point(x, g)) = (q - p) * (g - y)
      /\ Side(e, Point(x, h)) = (q - p) * (h - y)
  <2>1. Side(e, Point(x, g)) = (q - p) * (Point(x, g).Y - y)
    BY <1>2, SideOfFlat
  <2>2. Side(e, Point(x, h)) = (q - p) * (Point(x, h).Y - y)
    BY <1>2, SideOfFlat
  <2> QED
    BY <1>2, <2>1, <2>2
<1>4. /\ Side(f, Point(p, y)) = (h - g) * (x - p)
      /\ Side(f, Point(q, y)) = (h - g) * (x - q)
  BY <1>2, SideOfUpright
<1> HIDE DEF e, f
<1> DEFINE k == q - p
           l == h - g
           m == g - y
           n == h - y
           u == x - p
           v == x - q
<1>5. /\ k \in Int /\ k # 0 /\ l \in Int /\ l # 0
      /\ m \in Int /\ n \in Int /\ u \in Int /\ v \in Int
  OBVIOUS
<1>6. /\ (m < 0 /\ n > 0) \/ (m > 0 /\ n < 0) <=> Between(y, g, h)
      /\ (u < 0 /\ v > 0) \/ (u > 0 /\ v < 0) <=> Between(x, p, q)
  BY DEF Between
<1>7. /\ Side(e, f[1]) * Side(e, f[2]) = (k * m) * (k * n)
      /\ Side(f, e[1]) * Side(f, e[2]) = (l * u) * (l * v)
  BY <1>1, <1>3, <1>4
<1> HIDE DEF k, l, m, n, u, v
<1>8. /\ (k * m) * (k * n) < 0 <=> (m < 0 /\ n > 0) \/ (m > 0 /\ n < 0)
      /\ (l * u) * (l * v) < 0 <=> (u < 0 /\ v > 0) \/ (u > 0 /\ v < 0)
  BY <1>5, OppositeSigns
<1>9. /\ SidesCross(e, f) <=> Between(x, p, q) /\ Between(y, g, h)
      /\ SidesCross(f, e) <=> Between(x, p, q) /\ Between(y, g, h)
  BY <1>6, <1>7, <1>8 DEF SidesCross
<1> QED
  BY <1>9 DEF e, f

\* A flat side of the one box crosses an upright side of the other.
Crossed(r, s) ==
  \E y \in {r.Min.Y, r.Max.Y}, x \in {s.Min.X, s.Max.X} :
    r.Min.X < x /\ x < r.Max.X /\ s.Min.Y < y /\ y < s.Max.Y

\* What the sides of a box are, one by one.
FlatOf(r, e, p, q, y) ==
  /\ e = Flat(p, q, y) /\ p # q /\ y \in {r.Min.Y, r.Max.Y} /\ {p, q} = {r.Min.X, r.Max.X}

UprightOf(r, e, x, p, q) ==
  /\ e = Upright(x, p, q) /\ p # q /\ x \in {r.Min.X, r.Max.X} /\ {p, q} = {r.Min.Y, r.Max.Y}

IsFlat(r, e) == \E p, q, y \in Int : FlatOf(r, e, p, q, y)
IsUpright(r, e) == \E x, p, q \in Int : UprightOf(r, e, x, p, q)

LEMMA SideIsOneOf ==
  ASSUME NEW r, IsBox(r), NEW e \in Sides(Hull(r))
  PROVE  IsFlat(r, e) \/ IsUpright(r, e)
<1>1. /\ r.Min.X \in Int /\ r.Min.Y \in Int /\ r.Max.X \in Int /\ r.Max.Y \in Int
      /\ r.Min.X # r.Max.X /\ r.Min.Y # r.Max.Y
  BY VectorIs DEF IsBox
<1>2. e \in BoxSides(r)
  BY SidesAre
<1>3. CASE e = Flat(r.Min.X, r.Max.X, r.Min.Y)
  BY <1>1, <1>3 DEF IsFlat, FlatOf
<1>4. CASE e = Flat(r.Max.X, r.Min.X, r.Max.Y)
  BY <1>1, <1>4 DEF IsFlat, FlatOf
<1>5. CASE e = Upright(r.Max.X, r.Min.Y, r.Max.Y)
  BY <1>1, <1>5 DEF IsUpright, UprightOf
<1>6. CASE e = Upright(r.Min.X, r.Max.Y, r.Min.Y)
  BY <1>1, <1>6 DEF IsUpright, UprightOf
<1> QED
  BY <1>2, <1>3, <1>4, <1>5, <1>6 DEF BoxSides

LEMMA SidesThatCross ==
  ASSUME NEW r, NEW s, IsBox(r), IsBox(s),
         NEW e \in Sides(Hull(r)), NEW f \in Sides(Hull(s)), SidesCross(e, f)
  PROVE  Crossed(r, s) \/ Crossed(s, r)
<1>1. /\ r.Min.X \in Int /\ r.Min.Y \in Int /\ r.Max.X \in Int /\ r.Max.Y \in Int
      /\ s.Min.X \in Int /\ s.Min.Y \in Int /\ s.Max.X \in Int /\ s.Max.Y \in Int
      /\ r.Min.X < r.Max.X /\ r.Min.Y < r.Max.Y /\ s.Min.X < s.Max.X /\ s.Min.Y < s.Max.Y
  BY VectorIs DEF IsBox
<1>2. \A n, p, q, lo, hi \in Int :
        lo < hi /\ {p, q} = {lo, hi} /\ Between(n, p, q) => lo < n /\ n < hi
  BY DEF Between
<1>3. ASSUME IsFlat(r, e) PROVE Crossed(r, s)
  <2>1. PICK p, q, y \in Int : FlatOf(r, e, p, q, y)
    BY <1>3 DEF IsFlat
  <2>2. ~IsFlat(s, f)
    <3>1. SidesCross(Flat(p, q, y), f) /\ p # q
      BY <2>1 DEF FlatOf
    <3>2. ASSUME NEW g \in Int, NEW h \in Int, NEW z \in Int, FlatOf(s, f, g, h, z)
          PROVE  FALSE
      <4>1. f = Flat(g, h, z)
        BY <3>2 DEF FlatOf
      <4> QED
        BY <3>1, <4>1, FlatsDoNotCross
    <3> QED
      BY <3>2 DEF IsFlat
  <2>3. PICK x, g, h \in Int : UprightOf(s, f, x, g, h)
    BY <2>2, SideIsOneOf DEF IsUpright
  <2>4. Between(x, p, q) /\ Between(y, g, h)
    <3>1. SidesCross(Flat(p, q, y), Upright(x, g, h)) /\ p # q /\ g # h
      BY <2>1, <2>3 DEF FlatOf, UprightOf
    <3> QED
      BY <3>1, FlatCrossesUpright
  <2>5. r.Min.X < x /\ x < r.Max.X /\ s.Min.Y < y /\ y < s.Max.Y
    BY <1>1, <1>2, <2>1, <2>3, <2>4 DEF FlatOf, UprightOf
  <2> QED
    BY <2>1, <2>3, <2>5 DEF Crossed, FlatOf, UprightOf
<1>4. ASSUME IsUpright(r, e) PROVE Crossed(s, r)
  <2>1. PICK x, p, q \in Int : UprightOf(r, e, x, p, q)
    BY <1>4 DEF IsUpright
  <2>2. ~IsUpright(s, f)
    <3>1. SidesCross(Upright(x, p, q), f) /\ p # q
      BY <2>1 DEF UprightOf
    <3>2. ASSUME NEW z \in Int, NEW g \in Int, NEW h \in Int, UprightOf(s, f, z, g, h)
          PROVE  FALSE
      <4>1. f = Upright(z, g, h)
        BY <3>2 DEF UprightOf
      <4> QED
        BY <3>1, <4>1, UprightsDoNotCross
    <3> QED
      BY <3>2 DEF IsUpright
  <2>3. PICK g, h, y \in Int : FlatOf(s, f, g, h, y)
    BY <2>2, SideIsOneOf DEF IsFlat
  <2>4. Between(x, g, h) /\ Between(y, p, q)
    <3>1. SidesCross(Upright(x, p, q), Flat(g, h, y)) /\ p # q /\ g # h
      BY <2>1, <2>3 DEF FlatOf, UprightOf
    <3> QED
      BY <3>1, FlatCrossesUpright
  <2>5. s.Min.X < x /\ x < s.Max.X /\ r.Min.Y < y /\ y < r.Max.Y
    BY <1>1, <1>2, <2>1, <2>3, <2>4 DEF FlatOf, UprightOf
  <2> QED
    BY <2>1, <2>3, <2>5 DEF Crossed, FlatOf, UprightOf
<1> QED
  BY <1>3, <1>4, SideIsOneOf

\* If boxes cross, sides of theirs do.
LEMMA CrossedHaveSides ==
  ASSUME NEW r, NEW s, IsBox(r), IsBox(s), Crossed(r, s)
  PROVE  \E e \in Sides(Hull(r)), f \in Sides(Hull(s)) : SidesCross(e, f) /\ SidesCross(f, e)
<1>1. /\ r.Min.X \in Int /\ r.Min.Y \in Int /\ r.Max.X \in Int /\ r.Max.Y \in Int
      /\ s.Min.X \in Int /\ s.Min.Y \in Int /\ s.Max.X \in Int /\ s.Max.Y \in Int
      /\ r.Min.X < r.Max.X /\ r.Min.Y < r.Max.Y /\ s.Min.X < s.Max.X /\ s.Min.Y < s.Max.Y
  BY VectorIs DEF IsBox
<1>2. PICK y \in {r.Min.Y, r.Max.Y}, x \in {s.Min.X, s.Max.X} :
        r.Min.X < x /\ x < r.Max.X /\ s.Min.Y < y /\ y < s.Max.Y
  BY DEF Crossed
<1>3. x \in Int /\ y \in Int
  BY <1>1, <1>2
<1>4. PICK p, q \in {r.Min.X, r.Max.X} : Flat(p, q, y) \in Sides(Hull(r)) /\ p # q
  BY <1>1, <1>2, SidesAre DEF BoxSides
<1>5. PICK g, h \in {s.Min.Y, s.Max.Y} : Upright(x, g, h) \in Sides(Hull(s)) /\ g # h
  BY <1>1, <1>2, SidesAre DEF BoxSides
<1>6. Between(x, p, q) /\ Between(y, g, h)
  BY <1>1, <1>2, <1>3, <1>4, <1>5 DEF Between
<1>7. /\ SidesCross(Flat(p, q, y), Upright(x, g, h))
      /\ SidesCross(Upright(x, g, h), Flat(p, q, y))
  <2>1. p \in Int /\ q \in Int /\ g \in Int /\ h \in Int
    BY <1>1
  <2> QED
    BY <1>3, <1>4, <1>5, <1>6, <2>1, FlatCrossesUpright
<1> QED
  BY <1>4, <1>5, <1>7

\* The reference definition and the test of two boxes.
LEMMA BoxesExact ==
  ASSUME NEW r, NEW s, IsBox(r), IsBox(s)
  PROVE  HullsShare(Hull(r), Hull(s)) <=> Intersect(r, s)
<1>1. /\ r.Min.X \in Int /\ r.Min.Y \in Int /\ r.Max.X \in Int /\ r.Max.Y \in Int
      /\ s.Min.X \in Int /\ s.Min.Y \in Int /\ s.Max.X \in Int /\ s.Max.Y \in Int
      /\ r.Min.X < r.Max.X /\ r.Min.Y < r.Max.Y /\ s.Min.X < s.Max.X /\ s.Min.Y < s.Max.Y
  BY VectorIs DEF IsBox
<1>2. \A t : IsBox(t) => Corners(t) \subseteq Vectors
  BY VectorIs DEF IsBox, Corners, Point, Vectors
<1>3. ASSUME NEW t, NEW u, IsBox(t), IsBox(u)
      PROVE  (\E i \in DOMAIN Hull(t) : Inside(Hull(t)[i], Hull(u)))
               <=> \E v \in Corners(t) : RectangleContains(u, v)
  <2>1. {Hull(t)[i] : i \in DOMAIN Hull(t)} = Corners(t)
    BY <1>3, SidesAre
  <2>2. \A v \in Corners(t) : Inside(v, Hull(u)) <=> RectangleContains(u, v)
    BY <1>2, <1>3, InsideBox
  <2>3. (\E i \in DOMAIN Hull(t) : Inside(Hull(t)[i], Hull(u)))
          <=> \E v \in {Hull(t)[i] : i \in DOMAIN Hull(t)} : Inside(v, Hull(u))
    OBVIOUS
  <2> QED
    BY <2>1, <2>2, <2>3
<1>4. (\E e \in Sides(Hull(r)), f \in Sides(Hull(s)) : SidesCross(e, f))
        <=> Crossed(r, s) \/ Crossed(s, r)
  BY SidesThatCross, CrossedHaveSides
<1>5. HullsShare(Hull(r), Hull(s))
        <=> \/ \E v \in Corners(r) : RectangleContains(s, v)
            \/ \E v \in Corners(s) : RectangleContains(r, v)
            \/ Crossed(r, s) \/ Crossed(s, r)
  BY <1>3, <1>4 DEF HullsShare
<1>6. (\E v \in Corners(r) : RectangleContains(s, v)) => Intersect(r, s)
  BY <1>1 DEF Corners, RectangleContains, Intersect, Point
<1>7. (\E v \in Corners(s) : RectangleContains(r, v)) => Intersect(r, s)
  BY <1>1 DEF Corners, RectangleContains, Intersect, Point
<1>8. Crossed(r, s) \/ Crossed(s, r) => Intersect(r, s)
  BY <1>1 DEF Crossed, Intersect
<1>9. ASSUME NEW t, NEW u, IsBox(t), IsBox(u), Intersect(t, u), t.Min.X <= u.Min.X
      PROVE  \/ \E v \in Corners(t) : RectangleContains(u, v)
             \/ \E v \in Corners(u) : RectangleContains(t, v)
             \/ Crossed(t, u)
  <2>1. /\ t.Min.X \in Int /\ t.Min.Y \in Int /\ t.Max.X \in Int /\ t.Max.Y \in Int
        /\ u.Min.X \in Int /\ u.Min.Y \in Int /\ u.Max.X \in Int /\ u.Max.Y \in Int
        /\ t.Min.X < t.Max.X /\ t.Min.Y < t.Max.Y /\ u.Min.X < u.Max.X /\ u.Min.Y < u.Max.Y
    BY <1>9, VectorIs DEF IsBox
  <2>2. /\ u.Min.X <= t.Max.X
        /\ t.Max.Y >= u.Min.Y /\ t.Min.Y <= u.Max.Y
    BY <1>9 DEF Intersect
  <2> DEFINE low == Point(u.Min.X, u.Min.Y)
             high == Point(u.Min.X, u.Max.Y)
             end == Point(t.Max.X, t.Min.Y)
             start == Point(t.Min.X, t.Min.Y)
  <2>3. low \in Corners(u) /\ high \in Corners(u) /\ end \in Corners(t) /\ start \in Corners(t)
    BY <1>9, VectorIs DEF Corners, IsBox
  <2>4. CASE t.Min.Y <= u.Min.Y
    <3>1. RectangleContains(t, low)
      BY <1>9, <2>1, <2>2, <2>4 DEF RectangleContains, Point
    <3> QED
      BY <2>3, <3>1
  <2>5. CASE t.Min.Y > u.Min.Y /\ t.Min.Y = u.Max.Y
    <3>1. RectangleContains(t, high)
      BY <1>9, <2>1, <2>2, <2>5 DEF RectangleContains, Point
    <3> QED
      BY <2>3, <3>1
  <2>6. CASE t.Min.Y > u.Min.Y /\ t.Min.Y < u.Max.Y
    <3>1. CASE u.Min.X = t.Max.X
      <4>1. RectangleContains(u, end)
        BY <2>1, <2>6, <3>1 DEF RectangleContains, Point
      <4> QED
        BY <2>3, <4>1
    <3>2. CASE u.Min.X = t.Min.X
      <4>1. RectangleContains(u, start)
        BY <2>1, <2>6, <3>2 DEF RectangleContains, Point
      <4> QED
        BY <2>3, <4>1
    <3>3. CASE t.Min.X < u.Min.X /\ u.Min.X < t.Max.X
      BY <2>6, <3>3 DEF Crossed
    <3> QED
      BY <1>9, <2>1, <2>2, <3>1, <3>2, <3>3
  <2> QED
    BY <2>1, <2>2, <2>4, <2>5, <2>6
<1>10. Intersect(s, r) <=> Intersect(r, s)
  BY <1>1 DEF Intersect
<1> QED
  BY <1>1, <1>5, <1>6, <1>7, <1>8, <1>9, <1>10

\* At most r apart.
Near(m, n, r) == n - r <= m /\ m <= n + r

\* In a closed interval, given by its ends in either order.
Amid(n, p, q) == (p <= n /\ n <= q) \/ (q <= n /\ n <= p)

LEMMA ReachesFlat ==
  ASSUME NEW c, c.Center \in Vectors, c.Radius \in Nat,
         NEW p \in Int, NEW q \in Int, p # q, NEW y \in Int
  PROVE  Reaches(c, Flat(p, q, y))
           <=> \/ CircleContains(c, Point(p, y)) \/ CircleContains(c, Point(q, y))
               \/ Amid(c.Center.X, p, q) /\ Near(c.Center.Y, y, c.Radius)
<1> DEFINE e == Flat(p, q, y)
           a == Point(p, y)
           b == Point(q, y)
           u == Minus(e[2], e[1])
           w == Minus(c.Center, e[1])
           k == q - p
           m == c.Center.X - p
           z == c.Center.Y - y
           r == c.Radius
<1>1. e[1] = a /\ e[2] = b
  BY DEF Flat
<1>2. a \in Vectors /\ b \in Vectors
  BY DEF Point, Vectors
<1>3. c.Center.X \in Int /\ c.Center.Y \in Int
  BY VectorIs
<1>4. u.X = k /\ u.Y = 0 /\ w.X = m /\ w.Y = z
  BY <1>1 DEF Minus, Point
<1>5. k \in Int /\ k # 0 /\ m \in Int /\ z \in Int /\ r \in Nat
  BY <1>3
<1>6. \A v \in {a, b} : SquareLength(Minus(v, c.Center)) <= r * r <=> CircleContains(c, v)
  <2>1. ASSUME NEW v \in {a, b}
        PROVE  SquareLength(Minus(v, c.Center)) = SquareLength(Minus(c.Center, v))
    BY <1>2, <2>1, DistanceEitherWay
  <2> QED
    BY <2>1 DEF CircleContains
<1>7. (\E v \in {e[1], e[2]} : SquareLength(Minus(v, c.Center)) <= r * r)
        <=> CircleContains(c, a) \/ CircleContains(c, b)
  BY <1>1, <1>6
<1>8. Amid(c.Center.X, p, q) <=> (0 <= m /\ m <= k) \/ (k <= m /\ m <= 0)
  BY <1>3 DEF Amid
<1>9. Near(c.Center.Y, y, r) <=> -r <= z /\ z <= r
  BY <1>3 DEF Near
<1>10. Reaches(c, e)
         <=> \/ CircleContains(c, a) \/ CircleContains(c, b)
             \/ /\ Dot(u, w) \in 0 .. SquareLength(u)
                /\ Cross(u, w) * Cross(u, w) <= r * r * SquareLength(u)
  BY <1>7 DEF Reaches
<1> HIDE DEF e, a, b, u, w, k, m, z, r
<1>11. Dot(u, w) = k * m /\ SquareLength(u) = k * k /\ Cross(u, w) = k * z
  <2>1. Dot(u, w) = k * m + 0 * z /\ SquareLength(u) = k * k + 0 * 0
        /\ Cross(u, w) = k * z - 0 * m
    BY <1>4 DEF Dot, SquareLength, Cross
  <2>2. k * m \in Int /\ k * k \in Int /\ k * z \in Int
    BY <1>5
  <2> QED
    BY <1>5, <2>1, <2>2
<1>12. k * m \in 0 .. k * k <=> (0 <= m /\ m <= k) \/ (k <= m /\ m <= 0)
  BY <1>5, WithinStretch
<1>13. (k * z) * (k * z) <= r * r * (k * k) <=> -r <= z /\ z <= r
  BY <1>5, ScaledSquare
<1>14. Reaches(c, e)
         <=> \/ CircleContains(c, a) \/ CircleContains(c, b)
             \/ Amid(c.Center.X, p, q) /\ Near(c.Center.Y, y, r)
  BY <1>8, <1>9, <1>10, <1>11, <1>12, <1>13
<1> QED
  BY <1>14 DEF e, a, b, r

LEMMA ReachesUpright ==
  ASSUME NEW c, c.Center \in Vectors, c.Radius \in Nat,
         NEW x \in Int, NEW p \in Int, NEW q \in Int, p # q
  PROVE  Reaches(c, Upright(x, p, q))
           <=> \/ CircleContains(c, Point(x, p)) \/ CircleContains(c, Point(x, q))
               \/ Amid(c.Center.Y, p, q) /\ Near(c.Center.X, x, c.Radius)
<1> DEFINE e == Upright(x, p, q)
           a == Point(x, p)
           b == Point(x, q)
           u == Minus(e[2], e[1])
           w == Minus(c.Center, e[1])
           k == q - p
           m == c.Center.Y - p
           z == x - c.Center.X
           r == c.Radius
<1>1. e[1] = a /\ e[2] = b
  BY DEF Upright
<1>2. a \in Vectors /\ b \in Vectors
  BY DEF Point, Vectors
<1>3. c.Center.X \in Int /\ c.Center.Y \in Int
  BY VectorIs
<1>4. u.X = 0 /\ u.Y = k /\ w.X = -z /\ w.Y = m
  BY <1>1, <1>3 DEF Minus, Point
<1>5. k \in Int /\ k # 0 /\ m \in Int /\ z \in Int /\ r \in Nat
  BY <1>3
<1>6. \A v \in {a, b} : SquareLength(Minus(v, c.Center)) <= r * r <=> CircleContains(c, v)
  <2>1. ASSUME NEW v \in {a, b}
        PROVE  SquareLength(Minus(v, c.Center)) = SquareLength(Minus(c.Center, v))
    BY <1>2, <2>1, DistanceEitherWay
  <2> QED
    BY <2>1 DEF CircleContains
<1>7. (\E v \in {e[1], e[2]} : SquareLength(Minus(v, c.Center)) <= r * r)
        <=> CircleContains(c, a) \/ CircleContains(c, b)
  BY <1>1, <1>6
<1>8. Amid(c.Center.Y, p, q) <=> (0 <= m /\ m <= k) \/ (k <= m /\ m <= 0)
  BY <1>3 DEF Amid
<1>9. Near(c.Center.X, x, r) <=> -r <= z /\ z <= r
  BY <1>3 DEF Near
<1>10. Reaches(c, e)
         <=> \/ CircleContains(c, a) \/ CircleContains(c, b)
             \/ /\ Dot(u, w) \in 0 .. SquareLength(u)
                /\ Cross(u, w) * Cross(u, w) <= r * r * SquareLength(u)
  BY <1>7 DEF Reaches
<1> HIDE DEF e, a, b, u, w, k, m, z, r
<1>11. Dot(u, w) = k * m /\ SquareLength(u) = k * k /\ Cross(u, w) = k * z
  <2>1. Dot(u, w) = 0 * (-z) + k * m /\ SquareLength(u) = 0 * 0 + k * k
        /\ Cross(u, w) = 0 * m - k * (-z)
    BY <1>4 DEF Dot, SquareLength, Cross
  <2>2. k * m \in Int /\ k * k \in Int /\ k * z \in Int
    BY <1>5
  <2>3. k * (-z) = - (k * z) /\ 0 * (-z) = 0
    BY <1>5
  <2> QED
    BY <1>5, <2>1, <2>2, <2>3
<1>12. k * m \in 0 .. k * k <=> (0 <= m /\ m <= k) \/ (k <= m /\ m <= 0)
  BY <1>5, WithinStretch
<1>13. (k * z) * (k * z) <= r * r * (k * k) <=> -r <= z /\ z <= r
  BY <1>5, ScaledSquare
<1>14. Reaches(c, e)
         <=> \/ CircleContains(c, a) \/ CircleContains(c, b)
             \/ Amid(c.Center.Y, p, q) /\ Near(c.Center.X, x, r)
  BY <1>8, <1>9, <1>10, <1>11, <1>12, <1>13
<1> QED
  BY <1>14 DEF e, a, b, r

\* The reference definition and the test of a circle and a box.
LEMMA CircleAndBoxExact ==
  ASSUME NEW c, c.Center \in Vectors, c.Radius \in Nat, NEW r, IsBox(r)
  PROVE  CircleShares(c, Hull(r)) <=> RectangleCircleIntersect(r, c)
<1> DEFINE x == c.Center.X
           y == c.Center.Y
           R == c.Radius
<1>1. /\ r.Min.X \in Int /\ r.Min.Y \in Int /\ r.Max.X \in Int /\ r.Max.Y \in Int
      /\ r.Min.X < r.Max.X /\ r.Min.Y < r.Max.Y /\ x \in Int /\ y \in Int /\ R \in Nat
  BY VectorIs DEF IsBox
<1>2. Corners(r) = {Point(r.Min.X, r.Min.Y), Point(r.Max.X, r.Min.Y),
                    Point(r.Max.X, r.Max.Y), Point(r.Min.X, r.Max.Y)}
  BY VectorIs DEF Corners, IsBox
<1>3. (\E e \in Sides(Hull(r)) : Reaches(c, e))
        <=> \/ Reaches(c, Flat(r.Min.X, r.Max.X, r.Min.Y))
            \/ Reaches(c, Upright(r.Max.X, r.Min.Y, r.Max.Y))
            \/ Reaches(c, Flat(r.Max.X, r.Min.X, r.Max.Y))
            \/ Reaches(c, Upright(r.Min.X, r.Max.Y, r.Min.Y))
  BY SidesAre DEF BoxSides
<1>4. Reaches(c, Flat(r.Min.X, r.Max.X, r.Min.Y))
        <=> \/ CircleContains(c, Point(r.Min.X, r.Min.Y))
            \/ CircleContains(c, Point(r.Max.X, r.Min.Y))
            \/ Amid(x, r.Min.X, r.Max.X) /\ Near(y, r.Min.Y, R)
  BY <1>1, ReachesFlat
<1>5. Reaches(c, Flat(r.Max.X, r.Min.X, r.Max.Y))
        <=> \/ CircleContains(c, Point(r.Max.X, r.Max.Y))
            \/ CircleContains(c, Point(r.Min.X, r.Max.Y))
            \/ Amid(x, r.Max.X, r.Min.X) /\ Near(y, r.Max.Y, R)
  BY <1>1, ReachesFlat
<1>6. Reaches(c, Upright(r.Max.X, r.Min.Y, r.Max.Y))
        <=> \/ CircleContains(c, Point(r.Max.X, r.Min.Y))
            \/ CircleContains(c, Point(r.Max.X, r.Max.Y))
            \/ Amid(y, r.Min.Y, r.Max.Y) /\ Near(x, r.Max.X, R)
  BY <1>1, ReachesUpright
<1>7. Reaches(c, Upright(r.Min.X, r.Max.Y, r.Min.Y))
        <=> \/ CircleContains(c, Point(r.Min.X, r.Max.Y))
            \/ CircleContains(c, Point(r.Min.X, r.Min.Y))
            \/ Amid(y, r.Max.Y, r.Min.Y) /\ Near(x, r.Min.X, R)
  BY <1>1, ReachesUpright
<1>8. Inside(c.Center, Hull(r)) <=> RectangleContains(r, c.Center)
  BY InsideBox
<1> DEFINE Beside == \/ Amid(x, r.Min.X, r.Max.X) /\ Near(y, r.Min.Y, R)
                     \/ Amid(x, r.Max.X, r.Min.X) /\ Near(y, r.Max.Y, R)
                     \/ Amid(y, r.Min.Y, r.Max.Y) /\ Near(x, r.Max.X, R)
                     \/ Amid(y, r.Max.Y, r.Min.Y) /\ Near(x, r.Min.X, R)
<1>9. CircleShares(c, Hull(r))
        <=> \/ RectangleContains(r, c.Center)
            \/ \E v \in Corners(r) : CircleContains(c, v)
            \/ Beside
  <2> HIDE DEF x, y, R
  <2>1. (\E v \in Corners(r) : CircleContains(c, v))
          <=> \/ CircleContains(c, Point(r.Min.X, r.Min.Y))
              \/ CircleContains(c, Point(r.Max.X, r.Min.Y))
              \/ CircleContains(c, Point(r.Max.X, r.Max.Y))
              \/ CircleContains(c, Point(r.Min.X, r.Max.Y))
    BY <1>2
  <2> QED
    BY <1>3, <1>4, <1>5, <1>6, <1>7, <1>8, <2>1 DEF CircleShares
<1> DEFINE Across == RectangleContains(Box(Minus(r.Min, Point(R, 0)), Plus(r.Max, Point(R, 0))), c.Center)
           Along == RectangleContains(Box(Minus(r.Min, Point(0, R)), Plus(r.Max, Point(0, R))), c.Center)
<1>10. /\ Across <=> /\ r.Max.X + R >= x /\ r.Min.X - R <= x
                     /\ r.Max.Y >= y /\ r.Min.Y <= y
       /\ Along <=> /\ r.Max.X >= x /\ r.Min.X <= x
                    /\ r.Max.Y + R >= y /\ r.Min.Y - R <= y
  BY <1>1 DEF RectangleContains, Box, Minus, Plus, Point
<1>11. RectangleContains(r, c.Center) <=> /\ r.Max.X >= x /\ r.Min.X <= x
                                          /\ r.Max.Y >= y /\ r.Min.Y <= y
  BY DEF RectangleContains
<1>12. RectangleCircleIntersect(r, c)
         <=> \/ RectangleContains(r, c.Center) \/ Across \/ Along
             \/ \E v \in Corners(r) : CircleContains(c, v)
  BY DEF RectangleCircleIntersect
<1> HIDE DEF Across, Along, x, y, R
<1>13. RectangleContains(r, c.Center) \/ Across \/ Along
         <=> RectangleContains(r, c.Center) \/ Beside
  BY <1>1, <1>10, <1>11 DEF Amid, Near
<1> QED
  BY <1>9, <1>12, <1>13

\* A circle or a box, where it is.
IsDisk(s) == s.Kind = "Circle" /\ s.Center \in Vectors /\ s.Radius \in Nat /\ s.Radius > 0

BoxAround(s) ==
  IF s.Kind = "Circle"
  THEN Rectangle(Point(s.Center.X - s.Radius, s.Center.Y - s.Radius),
                 Point(s.Center.X + s.Radius, s.Center.Y + s.Radius))
  ELSE Rectangle(s.Min, s.Max)

LEMMA TestsAreExact ==
  ASSUME NEW s, NEW t, IsDisk(s) \/ IsBox(s), IsDisk(t) \/ IsBox(t)
  PROVE  Share(s, t) <=> ShapesIntersect(s, t)
<1>1. CASE IsDisk(s) /\ IsDisk(t)
  <2>1. Share(s, t) <=> CirclesShare(s, t)
    BY <1>1 DEF Share, IsDisk
  <2>2. ShapesIntersect(s, t) <=> CirclesIntersect(s, t)
    BY <1>1 DEF ShapesIntersect, IsDisk
  <2>3. CirclesShare(s, t) <=> CirclesIntersect(s, t)
    BY <1>1, CirclesExact DEF IsDisk
  <2> QED
    BY <2>1, <2>2, <2>3
<1>2. CASE IsDisk(s) /\ IsBox(t)
  <2>1. Share(s, t) <=> CircleShares(s, Hull(t))
    BY <1>2 DEF Share, IsDisk, IsBox
  <2>2. ShapesIntersect(s, t) <=> RectangleCircleIntersect(t, s)
    BY <1>2 DEF ShapesIntersect, IsDisk, IsBox
  <2>3. CircleShares(s, Hull(t)) <=> RectangleCircleIntersect(t, s)
    BY <1>2, CircleAndBoxExact DEF IsDisk
  <2> QED
    BY <2>1, <2>2, <2>3
<1>3. CASE IsBox(s) /\ IsDisk(t)
  <2>1. Share(s, t) <=> CircleShares(t, Hull(s))
    BY <1>3 DEF Share, IsDisk, IsBox
  <2>2. ShapesIntersect(s, t) <=> RectangleCircleIntersect(s, t)
    BY <1>3 DEF ShapesIntersect, IsDisk, IsBox
  <2>3. CircleShares(t, Hull(s)) <=> RectangleCircleIntersect(s, t)
    BY <1>3, CircleAndBoxExact DEF IsDisk
  <2> QED
    BY <2>1, <2>2, <2>3
<1>4. CASE IsBox(s) /\ IsBox(t)
  <2>1. Share(s, t) <=> HullsShare(Hull(s), Hull(t))
    BY <1>4 DEF Share, IsBox
  <2>2. ShapesIntersect(s, t) <=> Intersect(s, t)
    BY <1>4 DEF ShapesIntersect, IsBox
  <2>3. HullsShare(Hull(s), Hull(t)) <=> Intersect(s, t)
    BY <1>4, BoxesExact
  <2> QED
    BY <2>1, <2>2, <2>3
<1> QED
  BY <1>1, <1>2, <1>3, <1>4

\* A distance bounds each of its coordinates.
LEMMA CoordinatesWithin ==
  ASSUME NEW p \in Vectors, NEW q \in Vectors, NEW r \in Nat,
         SquareLength(Minus(p, q)) <= r * r
  PROVE  Near(p.X, q.X, r) /\ Near(p.Y, q.Y, r)
<1> DEFINE x == p.X - q.X
           y == p.Y - q.Y
<1>1. p.X \in Int /\ p.Y \in Int /\ q.X \in Int /\ q.Y \in Int
  BY VectorIs
<1>2. x * x + y * y <= r * r
  BY SquareLengthIs
<1>3. x \in Int /\ y \in Int
  BY <1>1
<1>4. /\ -r <= x /\ x <= r => Near(p.X, q.X, r)
      /\ -r <= y /\ y <= r => Near(p.Y, q.Y, r)
  BY <1>1 DEF Near
<1> HIDE DEF x, y
<1>5. x * x >= 0 /\ y * y >= 0 /\ x * x \in Int /\ y * y \in Int /\ r * r \in Int
  BY <1>3
<1>6. x * x <= r * r /\ y * y <= r * r
  BY <1>2, <1>5
<1> QED
  BY <1>3, <1>4, <1>6, SquareWithin

LEMMA CircleInBoxes ==
  ASSUME NEW c, NEW r, IsDisk(c), IsBox(r), RectangleCircleIntersect(r, c)
  PROVE  Intersect(BoxAround(c), BoxAround(r)) /\ Intersect(BoxAround(r), BoxAround(c))
<1> DEFINE x == c.Center.X
           y == c.Center.Y
           R == c.Radius
<1>1. /\ r.Min.X \in Int /\ r.Min.Y \in Int /\ r.Max.X \in Int /\ r.Max.Y \in Int
      /\ r.Min.X < r.Max.X /\ r.Min.Y < r.Max.Y /\ x \in Int /\ y \in Int /\ R \in Nat
  BY VectorIs DEF IsBox, IsDisk
<1> DEFINE Overlap == /\ r.Max.X + R >= x /\ r.Min.X - R <= x
                      /\ r.Max.Y + R >= y /\ r.Min.Y - R <= y
<1>2. Overlap => Intersect(BoxAround(c), BoxAround(r)) /\ Intersect(BoxAround(r), BoxAround(c))
  <2>1. BoxAround(r) = Rectangle(r.Min, r.Max)
    BY DEF BoxAround, IsBox
  <2>2. BoxAround(c) = Rectangle(Point(x - R, y - R), Point(x + R, y + R))
    BY DEF BoxAround, IsDisk
  <2> QED
    BY <1>1, <2>1, <2>2 DEF Intersect, Rectangle, Point
<1>3. RectangleContains(r, c.Center) => Overlap
  BY <1>1 DEF RectangleContains
<1>4. \A v \in {Point(R, 0), Point(0, R)} :
        RectangleContains(Box(Minus(r.Min, v), Plus(r.Max, v)), c.Center) => Overlap
  BY <1>1 DEF RectangleContains, Box, Minus, Plus, Point
<1>5. ASSUME NEW v \in Corners(r), CircleContains(c, v) PROVE Overlap
  <2>1. v \in Vectors /\ v.X \in {r.Min.X, r.Max.X} /\ v.Y \in {r.Min.Y, r.Max.Y}
    BY <1>1 DEF Corners, Point, Vectors, IsBox
  <2>2. Near(x, v.X, R) /\ Near(y, v.Y, R)
    BY <1>5, <2>1, CoordinatesWithin DEF CircleContains, IsDisk
  <2> QED
    BY <1>1, <2>1, <2>2 DEF Near
<1> QED
  BY <1>2, <1>3, <1>4, <1>5 DEF RectangleCircleIntersect

\* What intersects is in boxes that do.
LEMMA BoxesIntersect ==
  ASSUME NEW s, NEW t, IsDisk(s) \/ IsBox(s), IsDisk(t) \/ IsBox(t), ShapesIntersect(s, t)
  PROVE  Intersect(BoxAround(s), BoxAround(t))
<1>1. CASE IsDisk(s) /\ IsDisk(t)
  <2>1. CirclesIntersect(s, t)
    BY <1>1 DEF ShapesIntersect, IsDisk
  <2>2. /\ Near(s.Center.X, t.Center.X, s.Radius + t.Radius)
        /\ Near(s.Center.Y, t.Center.Y, s.Radius + t.Radius)
    BY <1>1, <2>1, CoordinatesWithin DEF CirclesIntersect, IsDisk
  <2>3. /\ s.Center.X \in Int /\ s.Center.Y \in Int /\ t.Center.X \in Int /\ t.Center.Y \in Int
        /\ s.Radius \in Int /\ t.Radius \in Int
    BY <1>1, VectorIs DEF IsDisk
  <2>4. /\ BoxAround(s) = Rectangle(Point(s.Center.X - s.Radius, s.Center.Y - s.Radius),
                                    Point(s.Center.X + s.Radius, s.Center.Y + s.Radius))
        /\ BoxAround(t) = Rectangle(Point(t.Center.X - t.Radius, t.Center.Y - t.Radius),
                                    Point(t.Center.X + t.Radius, t.Center.Y + t.Radius))
    BY <1>1 DEF BoxAround, IsDisk
  <2> QED
    BY <2>2, <2>3, <2>4 DEF Near, Intersect, Rectangle, Point
<1>2. CASE IsDisk(s) /\ IsBox(t)
  <2>1. RectangleCircleIntersect(t, s)
    BY <1>2 DEF ShapesIntersect, IsDisk, IsBox
  <2> QED
    BY <1>2, <2>1, CircleInBoxes
<1>3. CASE IsBox(s) /\ IsDisk(t)
  <2>1. RectangleCircleIntersect(s, t)
    BY <1>3 DEF ShapesIntersect, IsDisk, IsBox
  <2> QED
    BY <1>3, <2>1, CircleInBoxes
<1>4. CASE IsBox(s) /\ IsBox(t)
  BY <1>4 DEF ShapesIntersect, IsBox, Intersect, BoxAround, Rectangle
<1> QED
  BY <1>1, <1>2, <1>3, <1>4

\* A circle with a radius, or a rectangle with an area.
HasExtent(s) ==
  \/ s.Kind = "Circle" /\ s.Radius > 0
  \/ s.Kind = "Rectangle" /\ s.Min.X < s.Max.X /\ s.Min.Y < s.Max.Y

LEMMA MovedHasExtent ==
  ASSUME NEW s \in ColliderShapes, NEW p \in Vectors, HasExtent(s)
  PROVE  /\ IsDisk(Moved(s, p)) \/ IsBox(Moved(s, p))
         /\ ~OffCentre(s) => Simplified(s, p) = BoxAround(Moved(s, p))
<1>1. CASE s.Kind = "Circle"
  <2>1. s \in [Kind : {"Circle"}, Center : Vectors, Radius : Nat]
    BY <1>1 DEF ColliderShapes
  <2>2. Moved(s, p) = [s EXCEPT !.Center = Plus(s.Center, p)]
    BY <1>1 DEF Moved
  <2>3. /\ Moved(s, p).Kind = "Circle" /\ Moved(s, p).Center = Plus(s.Center, p)
        /\ Moved(s, p).Radius = s.Radius
    BY <2>1, <2>2
  <2>4. Plus(s.Center, p) \in Vectors
    BY <2>1 DEF Plus, Point, Vectors
  <2>5. s.Radius \in Nat /\ s.Radius > 0
    BY <1>1, <2>1 DEF HasExtent
  <2>6. IsDisk(Moved(s, p))
    BY <2>3, <2>4, <2>5 DEF IsDisk
  <2>7. ASSUME ~OffCentre(s) PROVE Simplified(s, p) = BoxAround(Moved(s, p))
    <3>1. s.Center = Point(0, 0)
      BY <1>1, <2>7 DEF OffCentre
    <3>2. p.X \in Int /\ p.Y \in Int /\ Plus(s.Center, p).X = p.X /\ Plus(s.Center, p).Y = p.Y
      BY <3>1, VectorIs DEF Plus, Point
    <3>3. Simplified(s, p) = Rectangle(Minus(p, Point(s.Radius, s.Radius)),
                                       Plus(p, Point(s.Radius, s.Radius)))
      BY <1>1 DEF Simplified
    <3>4. BoxAround(Moved(s, p)) = Rectangle(Point(p.X - s.Radius, p.Y - s.Radius),
                                             Point(p.X + s.Radius, p.Y + s.Radius))
      BY <2>3, <3>2 DEF BoxAround
    <3> QED
      BY <3>3, <3>4 DEF Plus, Minus, Point
  <2> QED
    BY <2>6, <2>7
<1>2. CASE s.Kind = "Rectangle"
  <2>1. s \in [Kind : {"Rectangle"}, Min : Vectors, Max : Vectors]
    BY <1>2 DEF ColliderShapes
  <2>2. Moved(s, p) = [s EXCEPT !.Min = Plus(s.Min, p), !.Max = Plus(s.Max, p)]
    BY <1>2 DEF Moved
  <2>3. /\ Moved(s, p).Kind = "Rectangle" /\ Moved(s, p).Min = Plus(s.Min, p)
        /\ Moved(s, p).Max = Plus(s.Max, p)
    BY <2>1, <2>2
  <2>4. /\ Plus(s.Min, p) \in Vectors /\ Plus(s.Max, p) \in Vectors
        /\ Plus(s.Min, p).X < Plus(s.Max, p).X /\ Plus(s.Min, p).Y < Plus(s.Max, p).Y
    <3>1. s.Min.X < s.Max.X /\ s.Min.Y < s.Max.Y
      BY <1>2 DEF HasExtent
    <3>2. s.Min \in Vectors /\ s.Max \in Vectors
      BY <2>1
    <3> QED
      BY <3>1, <3>2 DEF Plus, Point, Vectors
  <2>5. IsBox(Moved(s, p))
    BY <2>3, <2>4 DEF IsBox
  <2>6. Simplified(s, p) = BoxAround(Moved(s, p))
    BY <1>2, <2>3 DEF Simplified, BoxAround
  <2> QED
    BY <2>5, <2>6
<1> QED
  BY <1>1, <1>2 DEF HasExtent

\* What World found in the last Update is what there is to be found.
Told == updated => (contact <=> Possible(position) /\ DetectOverlap(1, 2, position))

LEMMA ToldIsExact ==
  ASSUME Typed, Told, HasExtent(shape[1]), HasExtent(shape[2])
  PROVE  NoFalseContact /\ NoMissedContact
<1> DEFINE s == Moved(shape[1], position[1])
           t == Moved(shape[2], position[2])
<1>1. /\ shape[1] \in ColliderShapes /\ shape[2] \in ColliderShapes
      /\ position[1] \in Vectors /\ position[2] \in Vectors
  BY DEF Typed
<1>2. /\ IsDisk(s) \/ IsBox(s)
      /\ ~OffCentre(shape[1]) => Simplified(shape[1], position[1]) = BoxAround(s)
  BY <1>1, MovedHasExtent
<1>3. /\ IsDisk(t) \/ IsBox(t)
      /\ ~OffCentre(shape[2]) => Simplified(shape[2], position[2]) = BoxAround(t)
  BY <1>1, MovedHasExtent
<1>4. PlacedShape(1) = s /\ PlacedShape(2) = t
  BY DEF PlacedShape
<1>5. DetectOverlap(1, 2, position) <=> ShapesIntersect(s, t)
  BY DEF DetectOverlap
<1> HIDE DEF s, t
<1>6. Share(s, t) <=> ShapesIntersect(s, t)
  BY <1>2, <1>3, TestsAreExact
<1>7. ASSUME ShapesIntersect(s, t), ~Overlooked PROVE Possible(position)
  <2>1. ~OffCentre(shape[1]) /\ ~OffCentre(shape[2])
    BY <1>7 DEF Overlooked
  <2>2. Intersect(BoxAround(s), BoxAround(t))
    BY <1>2, <1>3, <1>7, BoxesIntersect
  <2> QED
    BY <1>2, <1>3, <2>1, <2>2 DEF Possible
<1> QED
  BY <1>4, <1>5, <1>6, <1>7 DEF Told, NoFalseContact, NoMissedContact

\* World::resolveBroadPhase and detectOverlap, for two circles, two rectangles or one
\* of each, of any size and wherever they are: a contact is reported exactly if the
\* shapes share a point.  A circle off its body's centre may still be missed.
THEOREM ContactsAreExact ==
  DetectionSpec =>
    []( HasExtent(shape[1]) /\ HasExtent(shape[2]) => NoFalseContact /\ NoMissedContact )
<1>1. DetectionInit => Told
  BY DEF DetectionInit, Told
<1>2. Told /\ Typed /\ Typed' /\ [DetectionNext]_detectionVars => Told'
  <2> SUFFICES ASSUME Told, Typed, Typed', [DetectionNext]_detectionVars PROVE Told'
    OBVIOUS
  <2>1. ASSUME NEW b \in 1 .. 2, NEW velocity \in Velocities, Update(b, velocity)
        PROVE  Told'
    <3>1. /\ shape' = shape
          /\ \/ contact' = (Possible(position') /\ DetectOverlap(1, 2, position'))
             \/ contact' = (Possible(position') /\ DetectOverlap(2, 1, position'))
      BY <2>1 DEF Update
    <3>2. OrderIrrelevant'
      BY TypedIsEnough, PTL
    <3>3. DetectOverlap(1, 2, position)' = DetectOverlap(2, 1, position)'
      BY <3>2 DEF OrderIrrelevant
    <3>4. /\ DetectOverlap(1, 2, position') = DetectOverlap(1, 2, position)'
          /\ DetectOverlap(2, 1, position') = DetectOverlap(2, 1, position)'
          /\ Possible(position') = Possible(position)'
      BY <3>1 DEF DetectOverlap, Possible
    <3> QED
      BY <3>1, <3>3, <3>4 DEF Told
  <2>2. CASE UNCHANGED detectionVars
    BY <2>2 DEF detectionVars, Told, Possible, DetectOverlap
  <2> QED
    BY <2>1, <2>2 DEF DetectionNext
<1>3. Typed /\ Told
        => (HasExtent(shape[1]) /\ HasExtent(shape[2]) => NoFalseContact /\ NoMissedContact)
  BY ToldIsExact
<1> QED
  BY <1>1, <1>2, <1>3, TypedHolds, PTL DEF DetectionSpec
=============================================================================
