--------------------------- MODULE DynamicsProofs ---------------------------
(***************************************************************************)
(* The theorems about Dynamics: for any number of bodies that are circles  *)
(* and rectangles, with any masses, restitutions and types, in any         *)
(* gravity.  The lemmas go from the numbers to the bodies: sums over the   *)
(* actors; the contact of two shapes; the parts in which the solver shares *)
(* an amount between two bodies, which the bound of the model makes whole; *)
(* Result, which says in one formula what the resolution of a contact does *)
(* and is all that the theorems use of it; the inductive invariant; and a  *)
(* part for each of the properties.                                        *)
(***************************************************************************)
EXTENDS Dynamics, FiniteSetTheorems, TLAPS

-----------------------------------------------------------------------------
(* Sums.  An addition is given as a function of pairs.                     *)

Before == {ss \in Nat \X Nat : ss[1] < ss[2]}

\* Of sets that are finite, one has the fewest elements.
LEMMA SmallestSet ==
  ASSUME NEW T, T # {}, \A t \in T : IsFiniteSet(t)
  PROVE  \E t \in T : \A u \in T : Cardinality(t) <= Cardinality(u)
<1> DEFINE N == {Cardinality(t) : t \in T}
<1>1. N \subseteq Nat /\ N # {}
  BY FS_CardinalityType
<1>2. IsWellFoundedOn(Before, Nat)
  BY NatLessThanWellFounded DEF OpToRel, Before
<1>3. PICK n \in N : \A m \in N : <<m, n>> \notin Before
  BY <1>1, <1>2, WFMin
<1>4. ASSUME NEW m \in N PROVE n <= m
  <2>1. m \in Nat /\ n \in Nat
    BY <1>1, <1>3
  <2>2. ~(m < n)
    BY <1>3, <2>1 DEF Before
  <2> QED
    BY <2>1, <2>2
<1> QED
  BY <1>3, <1>4

IsAddition(V, plus, zero) ==
  /\ zero \in V /\ plus \in [V \X V -> V]
  /\ \A x, y, z \in V : plus[<<x, plus[<<y, z>>]>>] = plus[<<y, plus[<<x, z>>]>>]

\* g gives the sum of the values of f over each subset of S.
Sums(g, f, S, V, plus, zero) ==
  /\ g \in [SUBSET S -> V] /\ g[{}] = zero
  /\ \A s \in SUBSET S : \A x \in s : g[s] = plus[<<f[x], g[s \ {x}]>>]

\* Whatever element a sum begins with, it is the same.
LEMMA SumsExist ==
  ASSUME NEW V, NEW plus, NEW zero, IsAddition(V, plus, zero),
         NEW S, IsFiniteSet(S), NEW f, \A a \in S : f[a] \in V
  PROVE  \E g : Sums(g, f, S, V, plus, zero)
<1> DEFINE HasSum(s) == \E g : Sums(g, f, s, V, plus, zero)
           T == {s \in SUBSET S : ~HasSum(s)}
<1> SUFFICES ASSUME T # {} PROVE FALSE
  OBVIOUS
<1>1. PICK s \in T : \A u \in T : Cardinality(s) <= Cardinality(u)
  <2>1. \A t \in T : IsFiniteSet(t)
    BY FS_Subset
  <2> HIDE DEF T
  <2> QED
    BY <2>1, SmallestSet
<1>2. s \subseteq S /\ ~HasSum(s) /\ IsFiniteSet(s)
  BY FS_Subset
<1>3. s # {}
  <2>1. Sums([t \in SUBSET {} |-> zero], f, {}, V, plus, zero)
    BY DEF Sums, IsAddition
  <2> QED
    BY <1>2, <2>1
<1>4. PICK y \in s : TRUE
  BY <1>3
<1>5. HasSum(s \ {y})
  <2>1. Cardinality(s \ {y}) = Cardinality(s) - 1 /\ Cardinality(s) \in Nat
    BY <1>2, <1>4, FS_RemoveElement, FS_CardinalityType
  <2>2. ~(Cardinality(s) <= Cardinality(s \ {y}))
    BY <2>1
  <2>3. s \ {y} \in SUBSET S
    BY <1>2
  <2> QED
    BY <1>1, <2>2, <2>3
<1>6. PICK g : Sums(g, f, s \ {y}, V, plus, zero)
  BY <1>5
<1> DEFINE h == [t \in SUBSET s |-> IF y \in t THEN plus[<<f[y], g[t \ {y}]>>] ELSE g[t]]
<1>7. \A t \in SUBSET (s \ {y}) : g[t] \in V
  BY <1>6 DEF Sums
<1>8. \A t \in SUBSET s : t \ {y} \in SUBSET (s \ {y}) /\ (y \notin t => t \in SUBSET (s \ {y}))
  OBVIOUS
<1>9. h \in [SUBSET s -> V]
  <2> SUFFICES ASSUME NEW t \in SUBSET s PROVE h[t] \in V
    OBVIOUS
  <2>1. f[y] \in V
    BY <1>2, <1>4
  <2> QED
    BY <1>7, <1>8, <2>1 DEF IsAddition
<1>10. h[{}] = zero
  BY <1>6 DEF Sums
<1>11. ASSUME NEW t \in SUBSET s, NEW x \in t PROVE h[t] = plus[<<f[x], h[t \ {x}]>>]
  <2>1. CASE y \notin t
    <3>1. t \in SUBSET (s \ {y}) /\ h[t] = g[t] /\ h[t \ {x}] = g[t \ {x}]
      BY <2>1
    <3> QED
      BY <1>6, <3>1 DEF Sums
  <2>2. CASE x = y
    BY <2>2
  <2>3. CASE y \in t /\ x # y
    <3> DEFINE u == (t \ {y}) \ {x}
    <3>1. u = (t \ {x}) \ {y} /\ u \in SUBSET (s \ {y}) /\ t \ {y} \in SUBSET (s \ {y})
      OBVIOUS
    <3>2. g[t \ {y}] = plus[<<f[x], g[u]>>]
      BY <1>6, <2>3, <3>1 DEF Sums
    <3>3. h[t] = plus[<<f[y], plus[<<f[x], g[u]>>]>>]
      BY <2>3, <3>2
    <3>4. h[t \ {x}] = plus[<<f[y], g[u]>>]
      BY <2>3, <3>1
    <3>5. f[x] \in V /\ f[y] \in V /\ g[u] \in V
      BY <1>2, <1>4, <1>7, <3>1
    <3>6. plus[<<f[y], plus[<<f[x], g[u]>>]>>] = plus[<<f[x], plus[<<f[y], g[u]>>]>>]
      BY <3>5 DEF IsAddition
    <3> HIDE DEF h, u
    <3> QED
      BY <3>3, <3>4, <3>6
  <2> QED
    BY <2>1, <2>2, <2>3
<1>12. Sums(h, f, s, V, plus, zero)
  BY <1>9, <1>10, <1>11 DEF Sums
<1> QED
  BY <1>2, <1>12

\* Two that add one element after the other give the same sum.
AddsUp(h, f, S, V, plus, zero) ==
  \A s \in SUBSET S :
    \/ s = {} /\ h[s] = zero
    \/ \E x \in s : h[s \ {x}] \in V => h[s] = plus[<<f[x], h[s \ {x}]>>]

Same(f, e, S) == \A a \in S : f[a] = e[a]

LEMMA SumIsOne ==
  ASSUME NEW V, NEW plus, NEW zero,
         NEW S, IsFiniteSet(S), NEW f, NEW e, Same(f, e, S),
         NEW g, Sums(g, f, S, V, plus, zero),
         NEW h, AddsUp(h, e, S, V, plus, zero)
  PROVE  h[S] = g[S]
<1> DEFINE T == {s \in SUBSET S : h[s] # g[s]}
<1> SUFFICES ASSUME T # {} PROVE FALSE
  OBVIOUS
<1>1. PICK s \in T : \A u \in T : Cardinality(s) <= Cardinality(u)
  <2>1. \A t \in T : IsFiniteSet(t)
    BY FS_Subset
  <2> HIDE DEF T
  <2> QED
    BY <2>1, SmallestSet
<1>2. s \in SUBSET S /\ h[s] # g[s] /\ IsFiniteSet(s)
  BY FS_Subset
<1>3. s # {}
  BY <1>2 DEF Sums, AddsUp
<1>4. PICK x \in s : h[s \ {x}] \in V => h[s] = plus[<<e[x], h[s \ {x}]>>]
  BY <1>2, <1>3 DEF AddsUp
<1>5. s \ {x} \notin T
  <2>1. Cardinality(s \ {x}) = Cardinality(s) - 1 /\ Cardinality(s) \in Nat
    BY <1>2, <1>4, FS_RemoveElement, FS_CardinalityType
  <2> QED
    BY <1>1, <2>1
<1>6. h[s \ {x}] = g[s \ {x}]
  BY <1>2, <1>5
<1>7. g[s] = plus[<<f[x], g[s \ {x}]>>] /\ f[x] = e[x] /\ g[s \ {x}] \in V
  BY <1>2, <1>4 DEF Sums, Same
<1> QED
  BY <1>2, <1>4, <1>6, <1>7

\* Two sums are made of the values at one place, or at two, and of the same rest.
SplitAt(g, h, f, e, S, a, V, plus) ==
  \E r \in V : g[S] = plus[<<f[a], r>>] /\ h[S] = plus[<<e[a], r>>]

SplitAtPair(g, h, f, e, S, a, b, V, plus) ==
  \E r \in V : /\ g[S] = plus[<<f[a], plus[<<f[b], r>>]>>]
              /\ h[S] = plus[<<e[a], plus[<<e[b], r>>]>>]

LEMMA SumAtPoint ==
  ASSUME NEW V, NEW plus, NEW zero, IsAddition(V, plus, zero),
         NEW S, IsFiniteSet(S), NEW a \in S,
         NEW f, NEW e, Same(f, e, S \ {a}),
         NEW g, Sums(g, f, S, V, plus, zero),
         NEW h, Sums(h, e, S, V, plus, zero)
  PROVE  SplitAt(g, h, f, e, S, a, V, plus)
<1> DEFINE R == S \ {a}
<1>1. g[S] = plus[<<f[a], g[R]>>] /\ h[S] = plus[<<e[a], h[R]>>] /\ g[R] \in V
  BY DEF Sums
<1>2. g[R] = h[R]
  <2> DEFINE k == [s \in SUBSET R |-> g[s]]
  <2>1. Sums(k, f, R, V, plus, zero)
    <3>1. \A s \in SUBSET R : s \in SUBSET S /\ \A x \in s : s \ {x} \in SUBSET R
      OBVIOUS
    <3> QED
      BY <3>1 DEF Sums
  <2>2. AddsUp(h, e, R, V, plus, zero)
    <3>1. \A s \in SUBSET R : s \in SUBSET S
      OBVIOUS
    <3> QED
      BY <3>1 DEF Sums, AddsUp
  <2>3. IsFiniteSet(R)
    BY FS_RemoveElement
  <2>4. Same(f, e, R)
    OBVIOUS
  <2>5. h[R] = k[R]
    <3> HIDE DEF k, R
    <3> QED
      BY <2>1, <2>2, <2>3, <2>4, SumIsOne
  <2> QED
    BY <2>5
<1> QED
  BY <1>1, <1>2 DEF SplitAt

LEMMA SumAtPair ==
  ASSUME NEW V, NEW plus, NEW zero, IsAddition(V, plus, zero),
         NEW S, IsFiniteSet(S), NEW a \in S, NEW b \in S, a # b,
         NEW f, NEW e, Same(f, e, S \ {a, b}),
         NEW g, Sums(g, f, S, V, plus, zero),
         NEW h, Sums(h, e, S, V, plus, zero)
  PROVE  SplitAtPair(g, h, f, e, S, a, b, V, plus)
<1> DEFINE R == S \ {a}
           gR == [s \in SUBSET R |-> g[s]]
           hR == [s \in SUBSET R |-> h[s]]
<1>1. g[S] = plus[<<f[a], g[R]>>] /\ h[S] = plus[<<e[a], h[R]>>]
  BY DEF Sums
<1>2. \A s \in SUBSET R : s \in SUBSET S /\ \A x \in s : s \ {x} \in SUBSET R
  OBVIOUS
<1>3. Sums(gR, f, R, V, plus, zero) /\ Sums(hR, e, R, V, plus, zero)
  BY <1>2 DEF Sums
<1>4. IsFiniteSet(R) /\ b \in R /\ Same(f, e, R \ {b})
  BY FS_RemoveElement DEF Same
<1>5. PICK r \in V : gR[R] = plus[<<f[b], r>>] /\ hR[R] = plus[<<e[b], r>>]
  <2> HIDE DEF R, gR, hR
  <2> QED
    BY <1>3, <1>4, SumAtPoint DEF SplitAt
<1> QED
  BY <1>1, <1>5 DEF SplitAtPair

-----------------------------------------------------------------------------
(* The two sums of the model.                                              *)

AddVectors == [pq \in Vectors \X Vectors |-> Plus(pq[1], pq[2])]
AddNumbers == [mn \in Int \X Int |-> mn[1] + mn[2]]

LEMMA VectorsAdd == IsAddition(Vectors, AddVectors, Zero)
<1>1. Zero \in Vectors /\ \A x, y \in Vectors : Plus(x, y) \in Vectors
  BY DEF Zero, Point, Plus, Vectors
<1>2. AddVectors \in [Vectors \X Vectors -> Vectors]
      /\ \A x, y \in Vectors : AddVectors[<<x, y>>] = Plus(x, y)
  BY <1>1 DEF AddVectors
<1>3. \A x, y, z \in Vectors : Plus(x, Plus(y, z)) = Plus(y, Plus(x, z))
  BY DEF Plus, Point, Vectors
<1>4. ASSUME NEW x \in Vectors, NEW y \in Vectors, NEW z \in Vectors
      PROVE  AddVectors[<<x, AddVectors[<<y, z>>]>>] = AddVectors[<<y, AddVectors[<<x, z>>]>>]
  <2>1. Plus(y, z) \in Vectors /\ Plus(x, z) \in Vectors
    BY <1>1
  <2> QED
    BY <1>2, <1>3, <2>1
<1> QED
  BY <1>1, <1>2, <1>4 DEF IsAddition

LEMMA NumbersAdd == IsAddition(Int, AddNumbers, 0)
  BY DEF IsAddition, AddNumbers

LEMMA TotalIsSum ==
  ASSUME NEW S, IsFiniteSet(S), NEW f \in [S -> Vectors],
         NEW g, Sums(g, f, S, Vectors, AddVectors, Zero)
  PROVE  Total(f) = g[S]
<1> DEFINE First(s) == CHOOSE x \in s : TRUE
           Iter(h) == h = [s \in SUBSET S |->
                             IF s = {} THEN Zero
                             ELSE Plus(f[First(s)], h[s \ {First(s)}])]
           h0 == CHOOSE h : Iter(h)
<1>1. Total(f) = h0[S]
  BY DEF Total, FoldFunction, FoldFunctionOnSet, MapThenFoldSet
<1>2. \A s \in SUBSET S : s # {} =>
        /\ First(s) \in s /\ s \ {First(s)} \in SUBSET S
        /\ f[First(s)] \in Vectors /\ g[s \ {First(s)}] \in Vectors
        /\ g[s] = AddVectors[<<f[First(s)], g[s \ {First(s)}]>>]
  <2> SUFFICES ASSUME NEW s \in SUBSET S, s # {}
               PROVE  /\ First(s) \in s /\ s \ {First(s)} \in SUBSET S
                      /\ f[First(s)] \in Vectors /\ g[s \ {First(s)}] \in Vectors
                      /\ g[s] = AddVectors[<<f[First(s)], g[s \ {First(s)}]>>]
    OBVIOUS
  <2>1. First(s) \in s
    OBVIOUS
  <2> HIDE DEF First
  <2> QED
    BY <2>1 DEF Sums
<1> HIDE DEF First
<1>3. Iter(g)
  <2>1. \A s \in SUBSET S :
          g[s] = IF s = {} THEN Zero ELSE Plus(f[First(s)], g[s \ {First(s)}])
    BY <1>2 DEF Sums, AddVectors
  <2>2. g = [s \in SUBSET S |-> g[s]]
    BY DEF Sums
  <2> QED
    BY <2>1, <2>2
<1>4. Iter(h0)
  <2> HIDE DEF Iter
  <2> QED
    BY <1>3
<1> HIDE DEF h0
<1>5. \A s \in SUBSET S :
        h0[s] = IF s = {} THEN Zero ELSE Plus(f[First(s)], h0[s \ {First(s)}])
  BY <1>4
<1>6. AddsUp(h0, f, S, Vectors, AddVectors, Zero)
  <2>1. ASSUME NEW s \in SUBSET S, s # {}, h0[s \ {First(s)}] \in Vectors
        PROVE  h0[s] = AddVectors[<<f[First(s)], h0[s \ {First(s)}]>>]
    BY <1>2, <1>5, <2>1 DEF AddVectors
  <2> QED
    BY <1>2, <1>5, <2>1 DEF AddsUp
<1>7. h0[S] = g[S]
  <2>1. Same(f, f, S)
    BY DEF Same
  <2> QED
    BY <1>6, <2>1, SumIsOne
<1> QED
  BY <1>1, <1>7

LEMMA SummedIsSum ==
  ASSUME NEW S, IsFiniteSet(S), NEW f \in [S -> Int],
         NEW g, Sums(g, f, S, Int, AddNumbers, 0)
  PROVE  Summed(f) = g[S]
<1> DEFINE First(s) == CHOOSE x \in s : TRUE
           Iter(h) == h = [s \in SUBSET S |->
                             IF s = {} THEN 0 ELSE f[First(s)] + h[s \ {First(s)}]]
           h0 == CHOOSE h : Iter(h)
<1>1. Summed(f) = h0[S]
  BY DEF Summed, FoldFunction, FoldFunctionOnSet, MapThenFoldSet
<1>2. \A s \in SUBSET S : s # {} =>
        /\ First(s) \in s /\ s \ {First(s)} \in SUBSET S
        /\ f[First(s)] \in Int /\ g[s \ {First(s)}] \in Int
        /\ g[s] = AddNumbers[<<f[First(s)], g[s \ {First(s)}]>>]
  <2> SUFFICES ASSUME NEW s \in SUBSET S, s # {}
               PROVE  /\ First(s) \in s /\ s \ {First(s)} \in SUBSET S
                      /\ f[First(s)] \in Int /\ g[s \ {First(s)}] \in Int
                      /\ g[s] = AddNumbers[<<f[First(s)], g[s \ {First(s)}]>>]
    OBVIOUS
  <2>1. First(s) \in s
    OBVIOUS
  <2> HIDE DEF First
  <2> QED
    BY <2>1 DEF Sums
<1> HIDE DEF First
<1>3. Iter(g)
  <2>1. \A s \in SUBSET S :
          g[s] = IF s = {} THEN 0 ELSE f[First(s)] + g[s \ {First(s)}]
    BY <1>2 DEF Sums, AddNumbers
  <2>2. g = [s \in SUBSET S |-> g[s]]
    BY DEF Sums
  <2> QED
    BY <2>1, <2>2
<1>4. Iter(h0)
  <2> HIDE DEF Iter
  <2> QED
    BY <1>3
<1> HIDE DEF h0
<1>5. \A s \in SUBSET S :
        h0[s] = IF s = {} THEN 0 ELSE f[First(s)] + h0[s \ {First(s)}]
  BY <1>4
<1>6. AddsUp(h0, f, S, Int, AddNumbers, 0)
  <2>1. ASSUME NEW s \in SUBSET S, s # {}, h0[s \ {First(s)}] \in Int
        PROVE  h0[s] = AddNumbers[<<f[First(s)], h0[s \ {First(s)}]>>]
    BY <1>2, <1>5, <2>1 DEF AddNumbers
  <2> QED
    BY <1>2, <1>5, <2>1 DEF AddsUp
<1>7. h0[S] = g[S]
  <2>1. Same(f, f, S)
    BY DEF Same
  <2> QED
    BY <1>6, <2>1, SumIsOne
<1> QED
  BY <1>1, <1>7

LEMMA TotalAtPoint ==
  ASSUME NEW S, IsFiniteSet(S), NEW a \in S,
         NEW f \in [S -> Vectors], NEW e \in [S -> Vectors], Same(f, e, S \ {a})
  PROVE  \E r \in Vectors : Total(f) = Plus(f[a], r) /\ Total(e) = Plus(e[a], r)
<1>1. PICK g : Sums(g, f, S, Vectors, AddVectors, Zero)
  BY VectorsAdd, SumsExist
<1>2. PICK h : Sums(h, e, S, Vectors, AddVectors, Zero)
  BY VectorsAdd, SumsExist
<1>3. SplitAt(g, h, f, e, S, a, Vectors, AddVectors)
  BY <1>1, <1>2, VectorsAdd, SumAtPoint
<1>4. PICK r \in Vectors : g[S] = AddVectors[<<f[a], r>>] /\ h[S] = AddVectors[<<e[a], r>>]
  BY <1>3 DEF SplitAt
<1>5. Total(f) = g[S] /\ Total(e) = h[S]
  BY <1>1, <1>2, TotalIsSum
<1> QED
  BY <1>4, <1>5 DEF AddVectors

LEMMA TotalAtPair ==
  ASSUME NEW S, IsFiniteSet(S), NEW a \in S, NEW b \in S, a # b,
         NEW f \in [S -> Vectors], NEW e \in [S -> Vectors], Same(f, e, S \ {a, b}),
         Plus(f[a], f[b]) = Plus(e[a], e[b])
  PROVE  Total(f) = Total(e)
<1>1. PICK g : Sums(g, f, S, Vectors, AddVectors, Zero)
  BY VectorsAdd, SumsExist
<1>2. PICK h : Sums(h, e, S, Vectors, AddVectors, Zero)
  BY VectorsAdd, SumsExist
<1>3. SplitAtPair(g, h, f, e, S, a, b, Vectors, AddVectors)
  BY <1>1, <1>2, VectorsAdd, SumAtPair
<1>4. PICK r \in Vectors : /\ g[S] = AddVectors[<<f[a], AddVectors[<<f[b], r>>]>>]
                          /\ h[S] = AddVectors[<<e[a], AddVectors[<<e[b], r>>]>>]
  BY <1>3 DEF SplitAtPair
<1>5. Total(f) = g[S] /\ Total(e) = h[S]
  BY <1>1, <1>2, TotalIsSum
<1>6. \A x, y \in Vectors : Plus(x, y) \in Vectors /\ AddVectors[<<x, y>>] = Plus(x, y)
  BY DEF AddVectors, Plus, Point, Vectors
<1>7. \A x, y, z \in Vectors : Plus(x, Plus(y, z)) = Plus(Plus(x, y), z)
  BY DEF Plus, Point, Vectors
<1>8. f[a] \in Vectors /\ f[b] \in Vectors /\ e[a] \in Vectors /\ e[b] \in Vectors
  OBVIOUS
<1>9. g[S] = Plus(f[a], Plus(f[b], r)) /\ h[S] = Plus(e[a], Plus(e[b], r))
  BY <1>4, <1>6, <1>8
<1> QED
  BY <1>5, <1>7, <1>8, <1>9

\* If the same is added everywhere, the total gains it as often.
LEMMA TotalShifted ==
  ASSUME NEW S, IsFiniteSet(S), NEW v \in Vectors,
         NEW f \in [S -> Vectors], NEW e \in [S -> Vectors], \A a \in S : e[a] = Plus(f[a], v)
  PROVE  Total(e) = Plus(Total(f), Times(v, Cardinality(S)))
<1>1. PICK g : Sums(g, f, S, Vectors, AddVectors, Zero)
  BY VectorsAdd, SumsExist
<1>2. PICK h : Sums(h, e, S, Vectors, AddVectors, Zero)
  BY VectorsAdd, SumsExist
<1> DEFINE Shifted(s) == h[s] = Plus(g[s], Times(v, Cardinality(s)))
           T == {s \in SUBSET S : ~Shifted(s)}
<1>3. ASSUME T # {} PROVE FALSE
  <2>1. PICK s \in T : \A u \in T : Cardinality(s) <= Cardinality(u)
    <3>1. \A t \in T : IsFiniteSet(t)
      BY FS_Subset
    <3> HIDE DEF T
    <3> QED
      BY <1>3, <3>1, SmallestSet
  <2>2. s \in SUBSET S /\ ~Shifted(s) /\ IsFiniteSet(s)
    BY FS_Subset
  <2>3. s # {}
    <3>1. Cardinality({}) = 0
      BY FS_EmptySet
    <3>2. Shifted({})
      BY <1>1, <1>2, <3>1 DEF Sums, Plus, Times, Point, Zero, Vectors
    <3> QED
      BY <2>2, <3>2
  <2>4. PICK x \in s : TRUE
    BY <2>3
  <2> DEFINE u == s \ {x}
             n == Cardinality(u)
  <2>5. Cardinality(s) = n + 1 /\ n \in Nat
    <3>1. n = Cardinality(s) - 1 /\ IsFiniteSet(u)
      BY <2>2, <2>4, FS_RemoveElement
    <3>2. Cardinality(s) \in Nat /\ n \in Nat
      BY <2>2, <3>1, FS_CardinalityType
    <3> QED
      BY <3>1, <3>2
  <2>6. u \in SUBSET S /\ ~(Cardinality(s) <= n)
    BY <2>2, <2>5
  <2>7. h[u] = Plus(g[u], Times(v, n))
    BY <2>1, <2>6
  <2>8. /\ g[s] = AddVectors[<<f[x], g[u]>>] /\ h[s] = AddVectors[<<e[x], h[u]>>]
        /\ g[u] \in Vectors /\ h[u] \in Vectors /\ f[x] \in Vectors /\ e[x] \in Vectors
        /\ e[x] = Plus(f[x], v)
    <3> HIDE DEF Shifted
    <3>1. x \in S
      BY <2>2, <2>4
    <3> QED
      BY <1>1, <1>2, <2>2, <2>4, <2>6, <3>1 DEF Sums
  <2>9. g[s] = Plus(f[x], g[u]) /\ h[s] = Plus(Plus(f[x], v), Plus(g[u], Times(v, n)))
    BY <2>7, <2>8 DEF AddVectors
  <2>10. \A p, q \in Vectors : \A m \in Nat :
           Plus(Plus(p, v), Plus(q, Times(v, m))) = Plus(Plus(p, q), Times(v, m + 1))
    BY DEF Plus, Times, Point, Vectors
  <2>11. h[s] = Plus(Plus(f[x], g[u]), Times(v, n + 1))
    <3> HIDE DEF u, n
    <3> QED
      BY <2>5, <2>8, <2>9, <2>10
  <2> QED
    BY <2>2, <2>5, <2>9, <2>11
<1>4. Total(f) = g[S] /\ Total(e) = h[S]
  BY <1>1, <1>2, TotalIsSum
<1>5. Shifted(S)
  BY <1>3
<1> QED
  BY <1>4, <1>5

LEMMA SummedAtPair ==
  ASSUME NEW S, IsFiniteSet(S), NEW a \in S, NEW b \in S, a # b,
         NEW f \in [S -> Int], NEW e \in [S -> Int], Same(f, e, S \ {a, b})
  PROVE  \E r \in Int : /\ Summed(f) = f[a] + f[b] + r
                       /\ Summed(e) = e[a] + e[b] + r
<1>1. IsAddition(Int, AddNumbers, 0)
  BY NumbersAdd
<1>2. PICK g : Sums(g, f, S, Int, AddNumbers, 0)
  BY <1>1, SumsExist
<1>3. PICK h : Sums(h, e, S, Int, AddNumbers, 0)
  BY <1>1, SumsExist
<1>4. SplitAtPair(g, h, f, e, S, a, b, Int, AddNumbers)
  BY <1>1, <1>2, <1>3, SumAtPair
<1>5. PICK r \in Int : /\ g[S] = AddNumbers[<<f[a], AddNumbers[<<f[b], r>>]>>]
                      /\ h[S] = AddNumbers[<<e[a], AddNumbers[<<e[b], r>>]>>]
  BY <1>4 DEF SplitAtPair
<1>6. Summed(f) = g[S] /\ Summed(e) = h[S]
  BY <1>2, <1>3, SummedIsSum
<1>7. g[S] = f[a] + f[b] + r /\ h[S] = e[a] + e[b] + r
  BY <1>5 DEF AddNumbers
<1> QED
  BY <1>6, <1>7

-----------------------------------------------------------------------------
(* Contacts.  The lemmas are about any bodies b and colliders k of actors A. *)

AreBodies(b, A) ==
  /\ b \in [A -> Bodies]
  /\ \A a \in A : b[a].Type = "Dynamic" => b[a].Mass * b[a].InverseMass = Scale

AreColliders(k, A) ==
  /\ DOMAIN k = A
  /\ \A a \in A : k[a].Restitution \in 0 .. Unit /\ IsShape(k[a].Shape)

UnitVectors ==
  {v \in Vectors : (v.X = 0 /\ v.Y \in {-1, 1}) \/ (v.Y = 0 /\ v.X \in {-1, 1})}

Straight(v) == v.X = 0 \/ v.Y = 0

\* The contact c is one between x and y, whichever is its body A.
Joins(c, x, y) ==
  /\ (c.BodyA = x /\ c.BodyB = y) \/ (c.BodyA = y /\ c.BodyB = x)
  /\ (c.ColliderA = x /\ c.ColliderB = y) \/ (c.ColliderA = y /\ c.ColliderB = x)
  /\ c.Normal \in Vectors /\ c.Penetration \in Int
  /\ Straight(c.Normal) => c.Normal \in UnitVectors

LEMMA VectorFacts ==
  /\ \A x, y \in Int : Point(x, y) \in Vectors /\ Point(x, y).X = x /\ Point(x, y).Y = y
  /\ \A p, q \in Vectors :
       /\ p.X \in Int /\ p.Y \in Int /\ p = Point(p.X, p.Y)
       /\ Plus(p, q) \in Vectors /\ Plus(p, q).X = p.X + q.X /\ Plus(p, q).Y = p.Y + q.Y
       /\ Minus(p, q) \in Vectors /\ Minus(p, q).X = p.X - q.X /\ Minus(p, q).Y = p.Y - q.Y
       /\ Dot(p, q) = p.X * q.X + p.Y * q.Y /\ Dot(p, q) \in Int
       /\ \A n \in Int : /\ Times(p, n) \in Vectors
                         /\ Times(p, n).X = p.X * n /\ Times(p, n).Y = p.Y * n
  BY DEF Point, Vectors, Plus, Minus, Dot, Times

LEMMA VectorOf ==
  ASSUME NEW x \in Int, NEW y \in Int
  PROVE  Point(x, y) \in Vectors /\ Point(x, y).X = x /\ Point(x, y).Y = y
  BY DEF Point, Vectors

LEMMA PlusFacts ==
  ASSUME NEW p \in Vectors, NEW q \in Vectors
  PROVE  /\ p.X \in Int /\ p.Y \in Int /\ q.X \in Int /\ q.Y \in Int
         /\ Plus(p, q) \in Vectors /\ Plus(p, q).X = p.X + q.X /\ Plus(p, q).Y = p.Y + q.Y
  BY DEF Point, Vectors, Plus

LEMMA MinusFacts ==
  ASSUME NEW p \in Vectors, NEW q \in Vectors
  PROVE  /\ p.X \in Int /\ p.Y \in Int /\ q.X \in Int /\ q.Y \in Int
         /\ Minus(p, q) \in Vectors /\ Minus(p, q).X = p.X - q.X /\ Minus(p, q).Y = p.Y - q.Y
  BY DEF Point, Vectors, Minus

LEMMA TimesFacts ==
  ASSUME NEW p \in Vectors, NEW n \in Int
  PROVE  /\ p.X \in Int /\ p.Y \in Int
         /\ Times(p, n) \in Vectors /\ Times(p, n).X = p.X * n /\ Times(p, n).Y = p.Y * n
  BY DEF Point, Vectors, Times

LEMMA NormalizedFacts ==
  ASSUME NEW d \in Vectors
  PROVE  /\ Normalized(d) \in Vectors
         /\ Normalized(d).X = Sign(d.X) /\ Normalized(d).Y = Sign(d.Y)
         /\ d # Zero /\ Straight(Normalized(d)) => Normalized(d) \in UnitVectors
         /\ Length(d) = Abs(d.X) + Abs(d.Y) /\ Length(d) \in Nat
<1>1. d = [X |-> d.X, Y |-> d.Y] /\ d.X \in Int /\ d.Y \in Int
  BY DEF Vectors
<1>2. d # Zero => d.X # 0 \/ d.Y # 0
  BY <1>1 DEF Zero, Point
<1>3. /\ Normalized(d) \in Vectors
      /\ Normalized(d).X = Sign(d.X) /\ Normalized(d).Y = Sign(d.Y)
  BY <1>1 DEF Normalized, Point, Sign, Vectors
<1>4. Length(d) = Abs(d.X) + Abs(d.Y) /\ Length(d) \in Nat
  BY <1>1 DEF Length, Abs
<1>5. ASSUME d # Zero, Straight(Normalized(d)) PROVE Normalized(d) \in UnitVectors
  <2>1. (Sign(d.X) = 0 \/ Sign(d.Y) = 0) /\ (d.X # 0 \/ d.Y # 0)
    BY <1>2, <1>3, <1>5 DEF Straight
  <2> QED
    BY <1>1, <1>3, <2>1 DEF UnitVectors, Sign
<1> QED
  BY <1>3, <1>4, <1>5

IsCircle(s) == s \in [Kind : {"Circle"}, Center : Vectors, Radius : Nat]

IsBox(s) ==
  /\ s \in [Kind : {"Rectangle"}, Min : Vectors, Max : Vectors]
  /\ s.Min.X <= s.Max.X /\ s.Min.Y <= s.Max.Y

LEMMA ShapeKinds ==
  ASSUME NEW s, IsShape(s)
  PROVE  (IsCircle(s) /\ s.Kind = "Circle") \/ (IsBox(s) /\ s.Kind = "Rectangle")
  BY DEF IsShape, IsCircle, IsBox

\* The four corners of a shape move with it.
LEMMA MovedCircle ==
  ASSUME NEW s, IsCircle(s), NEW v \in Vectors
  PROVE  /\ IsCircle(Moved(s, v)) /\ Moved(s, v).Kind = "Circle"
         /\ Moved(s, v).Center = Plus(s.Center, v) /\ Moved(s, v).Radius = s.Radius
<1>1. s.Center \in Vectors /\ Plus(s.Center, v) \in Vectors
  BY VectorFacts DEF IsCircle
<1>2. Moved(s, v) = [s EXCEPT !.Center = Plus(@, v)]
  BY DEF Moved, IsCircle
<1> QED
  BY <1>1, <1>2 DEF IsCircle

LEMMA MovedBox ==
  ASSUME NEW s, IsBox(s), NEW v \in Vectors
  PROVE  /\ IsBox(Moved(s, v)) /\ Moved(s, v).Kind = "Rectangle"
         /\ Moved(s, v).Min = Plus(s.Min, v) /\ Moved(s, v).Max = Plus(s.Max, v)
<1>1. /\ s.Min \in Vectors /\ s.Max \in Vectors
      /\ Plus(s.Min, v) \in Vectors /\ Plus(s.Max, v) \in Vectors
  BY VectorFacts DEF IsBox
<1>2. Moved(s, v) = [s EXCEPT !.Min = Plus(@, v), !.Max = Plus(@, v)]
  BY DEF Moved, IsBox
<1>3. /\ Moved(s, v) \in [Kind : {"Rectangle"}, Min : Vectors, Max : Vectors]
      /\ Moved(s, v).Min = Plus(s.Min, v) /\ Moved(s, v).Max = Plus(s.Max, v)
  BY <1>1, <1>2 DEF IsBox
<1>4. Plus(s.Min, v).X <= Plus(s.Max, v).X /\ Plus(s.Min, v).Y <= Plus(s.Max, v).Y
  <2>1. s.Min.X <= s.Max.X /\ s.Min.Y <= s.Max.Y
    BY DEF IsBox
  <2> QED
    BY <1>1, <2>1 DEF Plus, Point, Vectors
<1> QED
  BY <1>3, <1>4 DEF IsBox

\* The middle of a rectangle and half its size, rounded down.
LEMMA BoxFacts ==
  ASSUME NEW s, IsBox(s)
  PROVE  /\ Center(s) \in Vectors /\ HalfSize(s) \in Vectors
         /\ HalfSize(s).X >= 0 /\ HalfSize(s).Y >= 0
         /\ s.Min.X = Center(s).X - HalfSize(s).X
         /\ s.Max.X \in {Center(s).X + HalfSize(s).X, Center(s).X + HalfSize(s).X + 1}
         /\ s.Min.Y = Center(s).Y - HalfSize(s).Y
         /\ s.Max.Y \in {Center(s).Y + HalfSize(s).Y, Center(s).Y + HalfSize(s).Y + 1}
<1>1. \A m, n \in Int : m <= n =>
        /\ (m + n) \div 2 \in Int /\ (n - m) \div 2 \in Int /\ (n - m) \div 2 >= 0
        /\ m = (m + n) \div 2 - (n - m) \div 2
        /\ n \in {(m + n) \div 2 + (n - m) \div 2, (m + n) \div 2 + (n - m) \div 2 + 1}
  OBVIOUS
<1>2. s.Min \in Vectors /\ s.Max \in Vectors /\ s.Min.X <= s.Max.X /\ s.Min.Y <= s.Max.Y
  BY DEF IsBox
<1>3. s.Min.X \in Int /\ s.Min.Y \in Int /\ s.Max.X \in Int /\ s.Max.Y \in Int
  BY <1>2, VectorFacts
<1>4. Center(s) = Point((s.Min.X + s.Max.X) \div 2, (s.Min.Y + s.Max.Y) \div 2)
      /\ HalfSize(s) = Point((s.Max.X - s.Min.X) \div 2, (s.Max.Y - s.Min.Y) \div 2)
  BY DEF Center, HalfSize
<1>5. /\ Center(s) \in Vectors /\ HalfSize(s) \in Vectors
      /\ Center(s).X = (s.Min.X + s.Max.X) \div 2 /\ Center(s).Y = (s.Min.Y + s.Max.Y) \div 2
      /\ HalfSize(s).X = (s.Max.X - s.Min.X) \div 2
      /\ HalfSize(s).Y = (s.Max.Y - s.Min.Y) \div 2
  BY <1>1, <1>2, <1>3, <1>4, VectorFacts
<1>6. /\ HalfSize(s).X >= 0 /\ s.Min.X = Center(s).X - HalfSize(s).X
      /\ s.Max.X \in {Center(s).X + HalfSize(s).X, Center(s).X + HalfSize(s).X + 1}
  <2> DEFINE m == s.Min.X
             n == s.Max.X
  <2>1. m \in Int /\ n \in Int /\ m <= n
    BY <1>2, <1>3
  <2>2. Center(s).X = (m + n) \div 2 /\ HalfSize(s).X = (n - m) \div 2
    BY <1>5
  <2> HIDE DEF m, n
  <2>3. /\ HalfSize(s).X >= 0 /\ m = Center(s).X - HalfSize(s).X
        /\ n \in {Center(s).X + HalfSize(s).X, Center(s).X + HalfSize(s).X + 1}
    BY <1>1, <2>1, <2>2
  <2> QED
    BY <2>3 DEF m, n
<1>7. /\ HalfSize(s).Y >= 0 /\ s.Min.Y = Center(s).Y - HalfSize(s).Y
      /\ s.Max.Y \in {Center(s).Y + HalfSize(s).Y, Center(s).Y + HalfSize(s).Y + 1}
  <2> DEFINE m == s.Min.Y
             n == s.Max.Y
  <2>1. m \in Int /\ n \in Int /\ m <= n
    BY <1>2, <1>3
  <2>2. Center(s).Y = (m + n) \div 2 /\ HalfSize(s).Y = (n - m) \div 2
    BY <1>5
  <2> HIDE DEF m, n
  <2>3. /\ HalfSize(s).Y >= 0 /\ m = Center(s).Y - HalfSize(s).Y
        /\ n \in {Center(s).Y + HalfSize(s).Y, Center(s).Y + HalfSize(s).Y + 1}
    BY <1>1, <2>1, <2>2
  <2> QED
    BY <2>3 DEF m, n
<1> QED
  BY <1>5, <1>6, <1>7

\* What is known of two colliders and their bodies: A is the set of actors.
Pair(b, k, A, x, y) ==
  AreBodies(b, A) /\ AreColliders(k, A) /\ x \in A /\ y \in A /\ x # y

LEMMA PlacedShape ==
  ASSUME NEW A, NEW b, AreBodies(b, A), NEW k, AreColliders(k, A), NEW a \in A
  PROVE  \/ IsCircle(Placed(b, k, a)) /\ Placed(b, k, a).Kind = "Circle"
         \/ IsBox(Placed(b, k, a)) /\ Placed(b, k, a).Kind = "Rectangle"
<1>1. b[a].Position \in Vectors /\ IsShape(k[a].Shape)
  BY DEF AreBodies, AreColliders, Bodies
<1>2. IsCircle(k[a].Shape) \/ IsBox(k[a].Shape)
  BY <1>1, ShapeKinds
<1>3. Placed(b, k, a) = Moved(k[a].Shape, b[a].Position)
  BY DEF Placed
<1>4. CASE IsCircle(k[a].Shape)
  BY <1>1, <1>3, <1>4, MovedCircle
<1>5. CASE IsBox(k[a].Shape)
  BY <1>1, <1>3, <1>5, MovedBox
<1> QED
  BY <1>2, <1>4, <1>5

LEMMA ContactFields ==
  ASSUME NEW a, NEW b, NEW n, NEW d
  PROVE  LET c == ContactBetween(a, b, n, d)
         IN  /\ c.BodyA = a /\ c.BodyB = b /\ c.ColliderA = a /\ c.ColliderB = b
             /\ c.Normal = n /\ c.Penetration = d
  BY DEF ContactBetween

LEMMA CircleCircleJoins ==
  ASSUME NEW a, NEW b, NEW s, NEW t, IsCircle(s), IsCircle(t), Delta(s, t) # Zero
  PROVE  Joins(CircleCircleContact(a, b, s, t), a, b)
<1> DEFINE c == CircleCircleContact(a, b, s, t)
           d == Delta(s, t)
<1>1. s.Center \in Vectors /\ t.Center \in Vectors /\ s.Radius \in Nat /\ t.Radius \in Nat
  BY DEF IsCircle
<1>2. d \in Vectors
  BY <1>1, MinusFacts DEF Delta
<1>3. /\ c.BodyA = a /\ c.BodyB = b /\ c.ColliderA = a /\ c.ColliderB = b
      /\ c.Normal = Normalized(d) /\ c.Penetration = s.Radius + t.Radius - Length(d)
  BY ContactFields DEF CircleCircleContact
<1> HIDE DEF c, d
<1>4. c.Normal \in Vectors /\ c.Penetration \in Int
  BY <1>1, <1>2, <1>3, NormalizedFacts
<1>5. Straight(c.Normal) => c.Normal \in UnitVectors
  BY <1>2, <1>3, NormalizedFacts DEF d
<1> QED
  BY <1>3, <1>4, <1>5 DEF Joins, c

LEMMA ToCircleFacts ==
  ASSUME NEW s, NEW t, IsCircle(s), IsBox(t)
  PROVE  LET delta == Minus(s.Center, Center(t))
         IN  /\ ToCircle(s, t) \in Vectors
             /\ ToCircle(s, t).X = delta.X - Clamp(delta.X, HalfSize(t).X)
             /\ ToCircle(s, t).Y = delta.Y - Clamp(delta.Y, HalfSize(t).Y)
<1> DEFINE delta == Minus(s.Center, Center(t))
           near == Point(Clamp(delta.X, HalfSize(t).X), Clamp(delta.Y, HalfSize(t).Y))
<1>1. delta \in Vectors /\ HalfSize(t) \in Vectors
  <2>1. s.Center \in Vectors
    BY DEF IsCircle
  <2> QED
    BY <2>1, BoxFacts, MinusFacts
<1>2. /\ delta.X \in Int /\ delta.Y \in Int /\ HalfSize(t).X \in Int /\ HalfSize(t).Y \in Int
  BY <1>1 DEF Vectors
<1>3. ToCircle(s, t) = Minus(delta, near)
  BY DEF ToCircle
<1> HIDE DEF delta
<1>4. /\ near \in Vectors /\ near.X = Clamp(delta.X, HalfSize(t).X)
      /\ near.Y = Clamp(delta.Y, HalfSize(t).Y)
  BY <1>2, VectorOf DEF Clamp
<1> HIDE DEF near
<1>5. /\ ToCircle(s, t) \in Vectors
      /\ ToCircle(s, t).X = delta.X - Clamp(delta.X, HalfSize(t).X)
      /\ ToCircle(s, t).Y = delta.Y - Clamp(delta.Y, HalfSize(t).Y)
  BY <1>1, <1>3, <1>4, MinusFacts
<1> QED
  BY <1>5 DEF delta

LEMMA CircleRectangleJoins ==
  ASSUME NEW a, NEW b, NEW s, NEW t, IsCircle(s), IsBox(t)
  PROVE  Joins(CircleRectangleContact(a, b, s, t), a, b)
<1> DEFINE c == CircleRectangleContact(a, b, s, t)
           d == ToCircle(s, t)
<1>1. s.Radius \in Nat /\ d \in Vectors
  BY ToCircleFacts DEF IsCircle
<1>2. /\ c.BodyA = a /\ c.BodyB = b /\ c.ColliderA = a /\ c.ColliderB = b
      /\ c.Normal = IF d = Zero THEN Point(0, 1) ELSE Normalized(d)
      /\ c.Penetration = s.Radius - Length(d)
  BY ContactFields DEF CircleRectangleContact
<1> HIDE DEF c, d
<1>3. Point(0, 1) \in UnitVectors /\ Point(0, 1) \in Vectors
  BY DEF Point, UnitVectors, Vectors
<1>4. c.Normal \in Vectors /\ c.Penetration \in Int
  BY <1>1, <1>2, <1>3, NormalizedFacts
<1>5. Straight(c.Normal) => c.Normal \in UnitVectors
  BY <1>1, <1>2, <1>3, NormalizedFacts
<1> QED
  BY <1>2, <1>4, <1>5 DEF Joins, c

\* How deep two rectangles are in each other.
DepthX(s, t) == HalfSize(s).X + HalfSize(t).X - Abs(Center(s).X - Center(t).X)
DepthY(s, t) == HalfSize(s).Y + HalfSize(t).Y - Abs(Center(s).Y - Center(t).Y)

LEMMA RectanglesContact ==
  ASSUME NEW a, NEW b, NEW s, NEW t, IsBox(s), IsBox(t)
  PROVE  LET c == RectangleRectangleContact(a, b, s, t)
         IN  /\ c.BodyA = a /\ c.BodyB = b /\ c.ColliderA = a /\ c.ColliderB = b
             /\ DepthX(s, t) \in Int /\ DepthY(s, t) \in Int
             /\ DepthX(s, t) < DepthY(s, t) =>
                  /\ c.Normal = Point(IF Center(s).X - Center(t).X > 0 THEN 1 ELSE -1, 0)
                  /\ c.Penetration = DepthX(s, t)
             /\ ~(DepthX(s, t) < DepthY(s, t)) =>
                  /\ c.Normal = Point(0, IF Center(s).Y - Center(t).Y > 0 THEN 1 ELSE -1)
                  /\ c.Penetration = DepthY(s, t)
<1> DEFINE delta == Minus(Center(s), Center(t))
           depth == Point(HalfSize(s).X + HalfSize(t).X - Abs(delta.X),
                          HalfSize(s).Y + HalfSize(t).Y - Abs(delta.Y))
           c == RectangleRectangleContact(a, b, s, t)
<1>1. /\ Center(s) \in Vectors /\ HalfSize(s) \in Vectors
      /\ Center(t) \in Vectors /\ HalfSize(t) \in Vectors
  BY BoxFacts
<1>2. /\ delta.X = Center(s).X - Center(t).X /\ delta.Y = Center(s).Y - Center(t).Y
  BY <1>1, MinusFacts
<1>3. depth.X = DepthX(s, t) /\ depth.Y = DepthY(s, t)
  BY <1>2 DEF DepthX, DepthY, Point
<1>4. DepthX(s, t) \in Int /\ DepthY(s, t) \in Int
  BY <1>1 DEF Vectors, DepthX, DepthY, Abs
<1>5. c = IF depth.X < depth.Y
          THEN ContactBetween(a, b, Point(IF delta.X > 0 THEN 1 ELSE -1, 0), depth.X)
          ELSE ContactBetween(a, b, Point(0, IF delta.Y > 0 THEN 1 ELSE -1), depth.Y)
  BY DEF RectangleRectangleContact
<1> HIDE DEF c, depth, delta
<1>6. CASE DepthX(s, t) < DepthY(s, t)
  <2>1. c = ContactBetween(a, b, Point(IF delta.X > 0 THEN 1 ELSE -1, 0), depth.X)
    BY <1>3, <1>5, <1>6
  <2> QED
    BY <1>2, <1>3, <1>4, <1>6, <2>1, ContactFields DEF c
<1>7. CASE ~(DepthX(s, t) < DepthY(s, t))
  <2>1. c = ContactBetween(a, b, Point(0, IF delta.Y > 0 THEN 1 ELSE -1), depth.Y)
    BY <1>3, <1>5, <1>7
  <2> QED
    BY <1>2, <1>3, <1>4, <1>7, <2>1, ContactFields DEF c
<1> QED
  BY <1>6, <1>7

LEMMA RectanglesJoin ==
  ASSUME NEW a, NEW b, NEW s, NEW t, IsBox(s), IsBox(t)
  PROVE  Joins(RectangleRectangleContact(a, b, s, t), a, b)
<1> DEFINE c == RectangleRectangleContact(a, b, s, t)
<1>1. /\ c.BodyA = a /\ c.BodyB = b /\ c.ColliderA = a /\ c.ColliderB = b
      /\ c.Penetration \in Int
      /\ c.Normal \in {Point(1, 0), Point(-1, 0), Point(0, 1), Point(0, -1)}
  BY RectanglesContact
<1>2. {Point(1, 0), Point(-1, 0), Point(0, 1), Point(0, -1)} \subseteq UnitVectors
  BY DEF Point, UnitVectors, Vectors
<1>3. UnitVectors \subseteq Vectors
  BY DEF UnitVectors
<1> QED
  BY <1>1, <1>2, <1>3 DEF Joins

\* The contact of two colliders, as it is computed for x and y.
TheContact(b, k, x, y) ==
  LET s == Placed(b, k, x)
      t == Placed(b, k, y)
  IN  IF s.Kind = "Circle"
      THEN IF t.Kind = "Circle" THEN CircleCircleContact(x, y, s, t)
                                ELSE CircleRectangleContact(x, y, s, t)
      ELSE IF t.Kind = "Circle" THEN CircleRectangleContact(y, x, t, s)
                                ELSE RectangleRectangleContact(x, y, s, t)

\* The bodies of a contact are those its colliders are on.
OwnColliders(c) == c.ColliderA = c.BodyA /\ c.ColliderB = c.BodyB

Fresh(c) == c = ContactBetween(c.BodyA, c.BodyB, c.Normal, c.Penetration)

LEMMA FreshContact ==
  ASSUME NEW a, NEW b, NEW n, NEW d
  PROVE  Fresh(ContactBetween(a, b, n, d)) /\ OwnColliders(ContactBetween(a, b, n, d))
  BY DEF Fresh, OwnColliders, ContactBetween

LEMMA ContactIsThe ==
  ASSUME NEW A, NEW b, NEW k, NEW x, NEW y, Pair(b, k, A, x, y)
  PROVE  ContactProperties(b, k, x, y) = {TheContact(b, k, x, y)}
<1> DEFINE s == Placed(b, k, x)
           t == Placed(b, k, y)
<1>1. s.Kind \in {"Circle", "Rectangle"} /\ t.Kind \in {"Circle", "Rectangle"}
  BY PlacedShape DEF Pair
<1>2. ContactProperties(b, k, x, y) =
        CASE s.Kind = "Circle" /\ t.Kind = "Circle" -> {CircleCircleContact(x, y, s, t)}
          [] s.Kind = "Circle" /\ t.Kind = "Rectangle" -> {CircleRectangleContact(x, y, s, t)}
          [] s.Kind = "Rectangle" /\ t.Kind = "Circle" -> {CircleRectangleContact(y, x, t, s)}
          [] s.Kind = "Rectangle" /\ t.Kind = "Rectangle" ->
               {RectangleRectangleContact(x, y, s, t)}
          [] OTHER -> {ContactBetween(x, y, Zero, p) : p \in Garbage}
  BY DEF ContactProperties
<1>3. TheContact(b, k, x, y) =
        IF s.Kind = "Circle"
        THEN IF t.Kind = "Circle" THEN CircleCircleContact(x, y, s, t)
                                  ELSE CircleRectangleContact(x, y, s, t)
        ELSE IF t.Kind = "Circle" THEN CircleRectangleContact(y, x, t, s)
                                  ELSE RectangleRectangleContact(x, y, s, t)
  BY DEF TheContact
<1> HIDE DEF s, t
<1> QED
  BY <1>1, <1>2, <1>3

LEMMA TheContactJoins ==
  ASSUME NEW A, NEW b, NEW k, NEW x, NEW y, Pair(b, k, A, x, y), ~Throws(b, k, x, y)
  PROVE  /\ Joins(TheContact(b, k, x, y), x, y)
         /\ Fresh(TheContact(b, k, x, y)) /\ OwnColliders(TheContact(b, k, x, y))
<1> DEFINE s == Placed(b, k, x)
           t == Placed(b, k, y)
           c == TheContact(b, k, x, y)
<1>1. /\ (IsCircle(s) /\ s.Kind = "Circle") \/ (IsBox(s) /\ s.Kind = "Rectangle")
      /\ (IsCircle(t) /\ t.Kind = "Circle") \/ (IsBox(t) /\ t.Kind = "Rectangle")
  BY PlacedShape DEF Pair
<1>2. CASE s.Kind = "Circle" /\ t.Kind = "Circle"
  <2>1. c = CircleCircleContact(x, y, s, t)
    BY <1>2 DEF TheContact
  <2>2. Delta(s, t) # Zero
    BY <1>2 DEF Throws
  <2>3. Fresh(c) /\ OwnColliders(c)
    BY <2>1, FreshContact DEF CircleCircleContact
  <2> QED
    BY <1>1, <1>2, <2>1, <2>2, <2>3, CircleCircleJoins
<1>3. CASE s.Kind = "Circle" /\ t.Kind # "Circle"
  <2>1. c = CircleRectangleContact(x, y, s, t)
    BY <1>3 DEF TheContact
  <2>2. Fresh(c) /\ OwnColliders(c)
    BY <2>1, FreshContact DEF CircleRectangleContact
  <2> QED
    BY <1>1, <1>3, <2>1, <2>2, CircleRectangleJoins
<1>4. CASE s.Kind # "Circle" /\ t.Kind = "Circle"
  <2>1. c = CircleRectangleContact(y, x, t, s)
    BY <1>4 DEF TheContact
  <2>2. Fresh(c) /\ OwnColliders(c)
    BY <2>1, FreshContact DEF CircleRectangleContact
  <2>3. Joins(c, y, x)
    BY <1>1, <1>4, <2>1, CircleRectangleJoins
  <2> QED
    BY <2>2, <2>3 DEF Joins
<1>5. CASE s.Kind # "Circle" /\ t.Kind # "Circle"
  <2>1. c = RectangleRectangleContact(x, y, s, t)
    BY <1>5 DEF TheContact
  <2>2. Fresh(c) /\ OwnColliders(c)
    BY <2>1, FreshContact DEF RectangleRectangleContact
  <2> QED
    BY <1>1, <1>5, <2>1, <2>2, RectanglesJoin
<1> QED
  BY <1>2, <1>3, <1>4, <1>5

\* The direction of a contact that leads to x.
Toward(c, x) == IF c.BodyA = x THEN c.Normal ELSE Times(c.Normal, -1)

LEMMA NegatedFacts ==
  ASSUME NEW v \in Vectors
  PROVE  /\ Times(v, -1) \in Vectors /\ Times(Times(v, -1), -1) = v
         /\ v \in UnitVectors => Times(v, -1) \in UnitVectors
         /\ Straight(v) <=> Straight(Times(v, -1))
  BY DEF Times, Vectors, Point, UnitVectors, Straight

\* Exchanging the bodies changes neither the contact's direction nor its depth.
LEMMA StaticLastJoins ==
  ASSUME NEW b, NEW x, NEW y, x # y, NEW q, Joins(q, x, y), Fresh(q), OwnColliders(q)
  PROVE  LET c == StaticLast(q, b)
         IN  /\ Joins(c, x, y) /\ c.Penetration = q.Penetration
             /\ Toward(c, x) = Toward(q, x) /\ (Straight(c.Normal) <=> Straight(q.Normal))
             /\ b[x].Type # "Static" /\ b[y].Type # "Static" => OwnColliders(c)
<1> DEFINE c == StaticLast(q, b)
           d == [q EXCEPT !.BodyA = q.BodyB, !.BodyB = q.BodyA, !.Normal = Times(@, -1)]
<1>1. q.Normal \in Vectors
  BY DEF Joins
<1>2. CASE b[q.BodyA].Type = "Static"
  <2>1. c = d
    BY <1>2 DEF StaticLast
  <2>2. /\ d.BodyA = q.BodyB /\ d.BodyB = q.BodyA /\ d.Normal = Times(q.Normal, -1)
        /\ d.ColliderA = q.ColliderA /\ d.ColliderB = q.ColliderB
        /\ d.Penetration = q.Penetration
    BY DEF Fresh, ContactBetween
  <2>3. Straight(d.Normal) <=> Straight(q.Normal)
    BY <1>1, <2>2, NegatedFacts
  <2>4. Joins(d, x, y)
    BY <1>1, <2>2, <2>3, NegatedFacts DEF Joins
  <2>5. Toward(d, x) = Toward(q, x)
    BY <1>1, <2>2, NegatedFacts DEF Toward, Joins
  <2>6. b[x].Type = "Static" \/ b[y].Type = "Static"
    BY <1>2 DEF Joins
  <2> QED
    BY <2>1, <2>2, <2>3, <2>4, <2>5, <2>6
<1>3. CASE b[q.BodyA].Type # "Static"
  BY <1>3 DEF StaticLast
<1> QED
  BY <1>2, <1>3

-----------------------------------------------------------------------------
(* What the resolution of a contact changes.                               *)

Kicked(r, v) == [r EXCEPT !.Velocity = Plus(@, v)]
Shoved(r, v) == [r EXCEPT !.Position = Plus(@, v)]

SameButVelocity(r, q) ==
  /\ r.Position = q.Position /\ r.Forces = q.Forces /\ r.Mass = q.Mass
  /\ r.InverseMass = q.InverseMass /\ r.Type = q.Type

SameButPosition(r, q) ==
  /\ r.Velocity = q.Velocity /\ r.Forces = q.Forces /\ r.Mass = q.Mass
  /\ r.InverseMass = q.InverseMass /\ r.Type = q.Type

LEMMA KickedFacts ==
  ASSUME NEW r \in Bodies, NEW v \in Vectors
  PROVE  /\ Kicked(r, v) \in Bodies /\ Kicked(r, v).Velocity = Plus(r.Velocity, v)
         /\ SameButVelocity(Kicked(r, v), r)
<1>1. r.Velocity \in Vectors
  BY DEF Bodies
<1>2. Plus(r.Velocity, v) \in Vectors
  BY <1>1, PlusFacts
<1> QED
  BY <1>2 DEF Kicked, SameButVelocity, Bodies

LEMMA ShovedFacts ==
  ASSUME NEW r \in Bodies, NEW v \in Vectors
  PROVE  /\ Shoved(r, v) \in Bodies /\ Shoved(r, v).Position = Plus(r.Position, v)
         /\ SameButPosition(Shoved(r, v), r)
<1>1. r.Position \in Vectors
  BY DEF Bodies
<1>2. Plus(r.Position, v) \in Vectors
  BY <1>1, PlusFacts
<1> QED
  BY <1>2 DEF Shoved, SameButPosition, Bodies

LEMMA NoChange ==
  ASSUME NEW r \in Bodies, NEW v \in Vectors
  PROVE  Kicked(r, Times(v, 0)) = r /\ Shoved(r, Times(v, 0)) = r
<1>1. r.Velocity \in Vectors /\ r.Position \in Vectors
  BY DEF Bodies
<1>2. \A p \in Vectors : Plus(p, Times(v, 0)) = p
  BY DEF Plus, Times, Vectors, Point
<1>3. Plus(r.Velocity, Times(v, 0)) = r.Velocity /\ Plus(r.Position, Times(v, 0)) = r.Position
  BY <1>1, <1>2
<1>4. r = [r EXCEPT !.Velocity = r.Velocity] /\ r = [r EXCEPT !.Position = r.Position]
  BY DEF Bodies
<1> QED
  BY <1>3, <1>4 DEF Kicked, Shoved

\* The part of an amount that a falls to.
Part(c, b, a, amount) == (amount * b[a].InverseMass) \div TotalInverse(c, b)

VelocityPart(c, b, k, a) ==
  IF SeparatingVelocity(c, b) > 0 \/ b[a].Type # "Dynamic" THEN 0
  ELSE Part(c, b, a, Change(c, b, k))

PositionPart(c, b, a) ==
  IF c.Penetration <= 0 \/ b[a].Type # "Dynamic" THEN 0 ELSE Part(c, b, a, c.Penetration)

LEMMA InverseFacts ==
  ASSUME NEW A, NEW b, AreBodies(b, A), NEW x \in A, NEW y \in A, NEW c, Joins(c, x, y)
  PROVE  /\ TotalInverse(c, b) = b[x].InverseMass + b[y].InverseMass
         /\ TotalInverse(c, b) \in Nat
         /\ \A a \in {x, y} : b[a].Type = "Dynamic" =>
              b[a].InverseMass > 0 /\ TotalInverse(c, b) > 0
<1>1. \A a \in A : b[a].InverseMass \in Nat /\ b[a].Mass \in Nat \ {0}
  BY DEF AreBodies, Bodies
<1>2. TotalInverse(c, b) = b[x].InverseMass + b[y].InverseMass
  BY <1>1 DEF TotalInverse, Joins
<1>3. \A m, n \in Nat : m * n = Scale => n > 0
  <2>1. \A m \in Nat : m * 0 = 0
    OBVIOUS
  <2> QED
    BY <2>1, ScaleAssumption
<1>4. ASSUME NEW a \in {x, y}, b[a].Type = "Dynamic" PROVE b[a].InverseMass > 0
  <2>1. a \in A /\ b[a].Mass * b[a].InverseMass = Scale
    BY <1>4 DEF AreBodies
  <2> QED
    BY <1>1, <1>3, <2>1
<1> QED
  BY <1>1, <1>2, <1>4

LEMMA ScalarsAreInts ==
  ASSUME NEW A, NEW b, NEW k, NEW x, NEW y, Pair(b, k, A, x, y), NEW c, Joins(c, x, y)
  PROVE  /\ SeparatingVelocity(c, b) \in Int
         /\ CombinedRestitution(c, b, k) \in Int /\ Change(c, b, k) \in Int
<1>1. c.BodyA \in A /\ c.BodyB \in A /\ c.ColliderA \in A /\ c.ColliderB \in A
      /\ c.Normal \in Vectors
  BY DEF Joins, Pair
<1>2. /\ b[c.BodyA].Velocity \in Vectors /\ b[c.BodyB].Velocity \in Vectors
      /\ b[c.BodyA].Mass \in Nat \ {0} /\ b[c.BodyB].Mass \in Nat \ {0}
      /\ k[c.ColliderA].Restitution \in Int /\ k[c.ColliderB].Restitution \in Int
  BY <1>1 DEF Pair, AreBodies, AreColliders, Bodies, Unit
<1>3. SeparatingVelocity(c, b) \in Int
  <2>1. Minus(b[c.BodyA].Velocity, b[c.BodyB].Velocity) \in Vectors
    BY <1>2, MinusFacts
  <2> QED
    BY <1>1, <2>1 DEF SeparatingVelocity, Dot, Vectors
<1>4. \A m, n \in Nat \ {0} : \A d, e \in Int : (m * d + n * e) \div (m + n) \in Int
  OBVIOUS
<1>5. CombinedRestitution(c, b, k) \in Int
  BY <1>2, <1>4 DEF CombinedRestitution
<1>6. \A d, e \in Int : - (d * e) \div Unit - d \in Int
  BY DEF Unit
<1> QED
  BY <1>3, <1>5, <1>6 DEF Change

\* Share and the parts.
LEMMA ShareIsPart ==
  ASSUME NEW A, NEW b, AreBodies(b, A), NEW x \in A, NEW y \in A, x # y,
         NEW c, Joins(c, x, y), NEW amount \in Int, TotalInverse(c, b) > 0
  PROVE  /\ Part(c, b, x, amount) \in Int /\ Part(c, b, y, amount) \in Int
         /\ Toward(c, x) \in Vectors
         /\ Share(c, b, x, amount) = Times(Toward(c, x), Part(c, b, x, amount))
         /\ Share(c, b, y, amount) = Times(Toward(c, x), - Part(c, b, y, amount))
<1>1. b[x].InverseMass \in Nat /\ b[y].InverseMass \in Nat
  BY DEF AreBodies, Bodies
<1>2. TotalInverse(c, b) \in Nat \ {0}
  BY InverseFacts
<1>3. \A m, n \in Int : \A d \in Nat \ {0} : (m * n) \div d \in Int
  OBVIOUS
<1>4. Part(c, b, x, amount) \in Int /\ Part(c, b, y, amount) \in Int
  BY <1>1, <1>2, <1>3 DEF Part
<1>5. /\ Share(c, b, x, amount) =
           Times(c.Normal, IF x = c.BodyA THEN Part(c, b, x, amount) ELSE - Part(c, b, x, amount))
      /\ Share(c, b, y, amount) =
           Times(c.Normal, IF y = c.BodyA THEN Part(c, b, y, amount) ELSE - Part(c, b, y, amount))
  BY DEF Share, Part
<1>6. c.Normal \in Vectors /\ Toward(c, x) \in Vectors
  BY NegatedFacts DEF Joins, Toward
<1>7. \A m \in Int : - m \in Int /\ - (- m) = m
  OBVIOUS
<1>8. \A v \in Vectors : \A m \in Int : Times(v, - m) = Times(Times(v, -1), m)
  BY DEF Times, Vectors, Point
<1>9. CASE c.BodyA = x
  BY <1>4, <1>5, <1>6, <1>9 DEF Toward
<1>10. CASE c.BodyA = y
  BY <1>4, <1>5, <1>6, <1>7, <1>8, <1>10 DEF Toward
<1> QED
  BY <1>4, <1>6, <1>9, <1>10 DEF Joins

\* x and y are changed by f and g, the other actors are not.
Only(b2, b, A, x, y, r, q) ==
  /\ b2 = [a \in A |-> b2[a]] /\ b2[x] = r /\ b2[y] = q
  /\ \A a \in A \ {x, y} : b2[a] = b[a]

LEMMA PostVelocityIs ==
  ASSUME NEW A, NEW b, NEW k, NEW x, NEW y, Pair(b, k, A, x, y), NEW c, Joins(c, x, y)
  PROVE  /\ VelocityPart(c, b, k, x) \in Int /\ VelocityPart(c, b, k, y) \in Int
         /\ Toward(c, x) \in Vectors
         /\ Only(PostVelocity(c, b, k), b, A, x, y,
                 Kicked(b[x], Times(Toward(c, x), VelocityPart(c, b, k, x))),
                 Kicked(b[y], Times(Toward(c, x), - VelocityPart(c, b, k, y))))
<1> DEFINE n == Toward(c, x)
           ch == Change(c, b, k)
           p == PostVelocity(c, b, k)
<1>1. AreBodies(b, A) /\ x \in A /\ y \in A /\ x # y /\ b[x] \in Bodies /\ b[y] \in Bodies
      /\ DOMAIN b = A /\ b = [a \in A |-> b[a]]
  BY DEF Pair, AreBodies
<1>2. n \in Vectors
  BY NegatedFacts DEF Joins, Toward
<1>3. /\ Kicked(b[x], Times(n, 0)) = b[x] /\ Kicked(b[y], Times(n, 0)) = b[y]
      /\ \A m \in Int : m <= 0 /\ m >= 0 => - m = 0
  <2> HIDE DEF n
  <2>1. Kicked(b[x], Times(n, 0)) = b[x]
    BY <1>1, <1>2, NoChange
  <2>2. Kicked(b[y], Times(n, 0)) = b[y]
    BY <1>1, <1>2, NoChange
  <2>3. \A m \in Int : m <= 0 /\ m >= 0 => - m = 0
    OBVIOUS
  <2> QED
    BY <2>1, <2>2, <2>3
<1>4. ch \in Int
  BY ScalarsAreInts
<1>5. \A a \in A : Moves(c, b, a) <=> a \in {x, y} /\ b[a].Type = "Dynamic"
  BY DEF Moves, Joins
<1> HIDE DEF n, ch, p
<1>6. CASE SeparatingVelocity(c, b) > 0
  <2>1. p = b
    BY <1>6 DEF PostVelocity, p
  <2>2. VelocityPart(c, b, k, x) = 0 /\ VelocityPart(c, b, k, y) = 0
    BY <1>6 DEF VelocityPart
  <2> QED
    BY <1>1, <1>2, <1>3, <2>1, <2>2 DEF Only, n, p
<1>7. CASE ~(SeparatingVelocity(c, b) > 0)
  <2>1. p = [a \in DOMAIN b |->
               IF ~Moves(c, b, a) THEN b[a]
               ELSE IF TotalInverse(c, b) = 0 THEN [b[a] EXCEPT !.Velocity = NaN]
               ELSE Kicked(b[a], Share(c, b, a, ch))]
    BY <1>7 DEF PostVelocity, p, ch, Kicked
  <2>2. VelocityPart(c, b, k, x) \in Int /\ p[x] = Kicked(b[x], Times(n, VelocityPart(c, b, k, x)))
    <3>1. CASE b[x].Type # "Dynamic"
      <4>1. p[x] = b[x] /\ VelocityPart(c, b, k, x) = 0
        BY <1>1, <1>5, <2>1, <3>1 DEF VelocityPart
      <4> QED
        BY <1>3, <4>1
    <3>2. CASE b[x].Type = "Dynamic"
      <4>1. TotalInverse(c, b) > 0 /\ TotalInverse(c, b) # 0
        BY <1>1, <3>2, InverseFacts
      <4>2. p[x] = Kicked(b[x], Share(c, b, x, ch))
        BY <1>1, <1>5, <2>1, <3>2, <4>1
      <4>3. VelocityPart(c, b, k, x) = Part(c, b, x, ch)
        BY <1>7, <3>2 DEF VelocityPart, ch
      <4> QED
        BY <1>1, <1>4, <4>1, <4>2, <4>3, ShareIsPart DEF n
    <3> QED
      BY <3>1, <3>2
  <2>3. VelocityPart(c, b, k, y) \in Int /\ p[y] = Kicked(b[y], Times(n, - VelocityPart(c, b, k, y)))
    <3>1. CASE b[y].Type # "Dynamic"
      <4>1. p[y] = b[y] /\ VelocityPart(c, b, k, y) = 0
        BY <1>1, <1>5, <2>1, <3>1 DEF VelocityPart
      <4> QED
        BY <1>3, <4>1
    <3>2. CASE b[y].Type = "Dynamic"
      <4>1. TotalInverse(c, b) > 0 /\ TotalInverse(c, b) # 0
        BY <1>1, <3>2, InverseFacts
      <4>2. p[y] = Kicked(b[y], Share(c, b, y, ch))
        BY <1>1, <1>5, <2>1, <3>2, <4>1
      <4>3. VelocityPart(c, b, k, y) = Part(c, b, y, ch)
        BY <1>7, <3>2 DEF VelocityPart, ch
      <4> QED
        BY <1>1, <1>4, <4>1, <4>2, <4>3, ShareIsPart DEF n
    <3> QED
      BY <3>1, <3>2
  <2>4. p = [a \in A |-> p[a]] /\ \A a \in A \ {x, y} : p[a] = b[a]
    BY <1>1, <1>5, <2>1
  <2> QED
    BY <1>2, <2>2, <2>3, <2>4 DEF Only, n, p
<1> QED
  BY <1>6, <1>7

LEMMA PostPositionIs ==
  ASSUME NEW A, NEW b, AreBodies(b, A), NEW x \in A, NEW y \in A, x # y,
         NEW c, Joins(c, x, y)
  PROVE  /\ PositionPart(c, b, x) \in Int /\ PositionPart(c, b, y) \in Int
         /\ Only(PostPosition(c, b), b, A, x, y,
                 Shoved(b[x], Times(Toward(c, x), PositionPart(c, b, x))),
                 Shoved(b[y], Times(Toward(c, x), - PositionPart(c, b, y))))
<1> DEFINE n == Toward(c, x)
           d == c.Penetration
           p == PostPosition(c, b)
<1>1. /\ b[x] \in Bodies /\ b[y] \in Bodies
      /\ DOMAIN b = A /\ b = [a \in A |-> b[a]]
  BY DEF AreBodies
<1>2. n \in Vectors
  BY NegatedFacts DEF Joins, Toward
<1>3. /\ Shoved(b[x], Times(n, 0)) = b[x] /\ Shoved(b[y], Times(n, 0)) = b[y]
      /\ \A m \in Int : m <= 0 /\ m >= 0 => - m = 0
  <2> HIDE DEF n
  <2>1. Shoved(b[x], Times(n, 0)) = b[x]
    BY <1>1, <1>2, NoChange
  <2>2. Shoved(b[y], Times(n, 0)) = b[y]
    BY <1>1, <1>2, NoChange
  <2>3. \A m \in Int : m <= 0 /\ m >= 0 => - m = 0
    OBVIOUS
  <2> QED
    BY <2>1, <2>2, <2>3
<1>4. d \in Int /\ d # NaN
  BY NaNAssumption DEF Joins
<1>5. \A a \in A : Moves(c, b, a) <=> a \in {x, y} /\ b[a].Type = "Dynamic"
  BY DEF Moves, Joins
<1>6. TotalInverse(c, b) \in Nat
  BY InverseFacts
<1> HIDE DEF n, d, p
<1>7. CASE TotalInverse(c, b) <= 0 \/ d <= 0
  <2>1. p = b
    BY <1>4, <1>7 DEF PostPosition, p, d
  <2>2. PositionPart(c, b, x) = 0 /\ PositionPart(c, b, y) = 0
    <3>1. TotalInverse(c, b) <= 0 => b[x].Type # "Dynamic" /\ b[y].Type # "Dynamic"
      BY InverseFacts
    <3> QED
      BY <1>7, <3>1 DEF PositionPart, d
  <2> QED
    BY <1>1, <1>3, <2>1, <2>2 DEF Only, n, p
<1>8. CASE ~(TotalInverse(c, b) <= 0 \/ d <= 0)
  <2>1. TotalInverse(c, b) > 0 /\ ~(d <= 0)
    BY <1>6, <1>8
  <2>2. p = [a \in DOMAIN b |->
               IF ~Moves(c, b, a) THEN b[a]
               ELSE IF d = NaN THEN [b[a] EXCEPT !.Position = NaN]
               ELSE Shoved(b[a], Share(c, b, a, d))]
    BY <1>8 DEF PostPosition, p, d, Shoved
  <2>3. PositionPart(c, b, x) \in Int /\ p[x] = Shoved(b[x], Times(n, PositionPart(c, b, x)))
    <3>1. CASE b[x].Type # "Dynamic"
      <4>1. p[x] = b[x] /\ PositionPart(c, b, x) = 0
        BY <1>1, <1>5, <2>2, <3>1 DEF PositionPart
      <4> QED
        BY <1>3, <4>1
    <3>2. CASE b[x].Type = "Dynamic"
      <4>1. p[x] = Shoved(b[x], Share(c, b, x, d))
        BY <1>1, <1>4, <1>5, <2>2, <3>2
      <4>2. PositionPart(c, b, x) = Part(c, b, x, d)
        BY <2>1, <3>2 DEF PositionPart, d
      <4> QED
        BY <1>4, <2>1, <4>1, <4>2, ShareIsPart DEF n
    <3> QED
      BY <3>1, <3>2
  <2>4. PositionPart(c, b, y) \in Int /\ p[y] = Shoved(b[y], Times(n, - PositionPart(c, b, y)))
    <3>1. CASE b[y].Type # "Dynamic"
      <4>1. p[y] = b[y] /\ PositionPart(c, b, y) = 0
        BY <1>1, <1>5, <2>2, <3>1 DEF PositionPart
      <4> QED
        BY <1>3, <4>1
    <3>2. CASE b[y].Type = "Dynamic"
      <4>1. p[y] = Shoved(b[y], Share(c, b, y, d))
        BY <1>1, <1>4, <1>5, <2>2, <3>2
      <4>2. PositionPart(c, b, y) = Part(c, b, y, d)
        BY <2>1, <3>2 DEF PositionPart, d
      <4> QED
        BY <1>4, <2>1, <4>1, <4>2, ShareIsPart DEF n
    <3> QED
      BY <3>1, <3>2
  <2>5. p = [a \in A |-> p[a]] /\ \A a \in A \ {x, y} : p[a] = b[a]
    BY <1>1, <1>5, <2>2
  <2> QED
    BY <2>3, <2>4, <2>5 DEF Only, n, p
<1> QED
  BY <1>7, <1>8

\* The contact the solver works with, and the direction in which it pushes x.
Solved(b, k, x, y) == StaticLast(TheContact(b, k, x, y), b)

Away(b, k, x, y) == Toward(Solved(b, k, x, y), x)

SameSetting(r, q) ==
  r.Forces = q.Forces /\ r.Mass = q.Mass /\ r.InverseMass = q.InverseMass /\ r.Type = q.Type

\* x and y get faster by v and w and are moved by d and e, in opposite directions.
Outcome(b2, b, A, x, y, n, v, w, d, e) ==
  /\ AreBodies(b2, A)
  /\ n \in Vectors /\ v \in Int /\ w \in Int /\ d \in Int /\ e \in Int
  /\ b2[x].Velocity = Plus(b[x].Velocity, Times(n, v))
  /\ b2[y].Velocity = Plus(b[y].Velocity, Times(n, - w))
  /\ b2[x].Position = Plus(b[x].Position, Times(n, d))
  /\ b2[y].Position = Plus(b[y].Position, Times(n, - e))
  /\ \A a \in A \ {x, y} : b2[a] = b[a]
  /\ \A a \in A : SameSetting(b2[a], b[a]) /\ (b[a].Type # "Dynamic" => b2[a] = b[a])

LEMMA SolvedJoins ==
  ASSUME NEW A, NEW b, NEW k, NEW x, NEW y, Pair(b, k, A, x, y), ~Throws(b, k, x, y)
  PROVE  LET c == Solved(b, k, x, y)
             q == TheContact(b, k, x, y)
         IN  /\ Joins(c, x, y) /\ c.Penetration = q.Penetration
             /\ Toward(c, x) = Toward(q, x) /\ (Straight(c.Normal) <=> Straight(q.Normal))
             /\ b[x].Type # "Static" /\ b[y].Type # "Static" => OwnColliders(c)
<1>1. /\ Joins(TheContact(b, k, x, y), x, y)
      /\ Fresh(TheContact(b, k, x, y)) /\ OwnColliders(TheContact(b, k, x, y)) /\ x # y
  BY TheContactJoins DEF Pair
<1> QED
  BY <1>1, StaticLastJoins DEF Solved

LEMMA ResolvedIs ==
  ASSUME NEW A, NEW b, NEW k, NEW x, NEW y, Pair(b, k, A, x, y), ~Throws(b, k, x, y),
         NEW b2 \in Resolved(b, k, x, y)
  PROVE  LET c == Solved(b, k, x, y)
         IN  Outcome(b2, b, A, x, y, Away(b, k, x, y),
                     VelocityPart(c, b, k, x), VelocityPart(c, b, k, y),
                     PositionPart(c, b, x), PositionPart(c, b, y))
<1> DEFINE c == Solved(b, k, x, y)
           n == Toward(c, x)
           b1 == PostVelocity(c, b, k)
           v == VelocityPart(c, b, k, x)
           w == VelocityPart(c, b, k, y)
           d == PositionPart(c, b, x)
           e == PositionPart(c, b, y)
<1>1. b2 = PostPosition(c, b1)
  <2>1. ContactProperties(b, k, x, y) = {TheContact(b, k, x, y)}
    BY ContactIsThe
  <2> QED
    BY <2>1 DEF Resolved, Solved
<1>2. Joins(c, x, y)
  BY SolvedJoins
<1>3. /\ AreBodies(b, A) /\ x \in A /\ y \in A /\ x # y /\ DOMAIN b = A
      /\ \A a \in A : b[a] \in Bodies
  BY DEF Pair, AreBodies
<1> HIDE DEF c
<1>4. /\ v \in Int /\ w \in Int /\ n \in Vectors
      /\ Only(b1, b, A, x, y, Kicked(b[x], Times(n, v)), Kicked(b[y], Times(n, - w)))
  BY <1>2, PostVelocityIs
<1> HIDE DEF b1, n, v, w
<1>5. \A m \in Int : Times(n, m) \in Vectors /\ Times(n, - m) \in Vectors
  BY <1>4 DEF Times, Vectors, Point
<1>6. /\ b1[x] \in Bodies /\ b1[x].Velocity = Plus(b[x].Velocity, Times(n, v))
      /\ SameButVelocity(b1[x], b[x])
  BY <1>3, <1>4, <1>5, KickedFacts DEF Only
<1>7. /\ b1[y] \in Bodies /\ b1[y].Velocity = Plus(b[y].Velocity, Times(n, - w))
      /\ SameButVelocity(b1[y], b[y])
  BY <1>3, <1>4, <1>5, KickedFacts DEF Only
<1>8. \A a \in A \ {x, y} : b1[a] = b[a]
  BY <1>4 DEF Only
<1>9. AreBodies(b1, A)
  <2>1. \A a \in A : b1[a] \in Bodies
    BY <1>3, <1>6, <1>7, <1>8
  <2>2. b1 = [a \in A |-> b1[a]]
    BY <1>4 DEF Only
  <2>3. b1 \in [A -> Bodies]
    BY <2>1, <2>2
  <2>4. ASSUME NEW a \in A, b1[a].Type = "Dynamic"
        PROVE  b1[a].Mass * b1[a].InverseMass = Scale
    <3>1. b1[a].Type = b[a].Type /\ b1[a].Mass = b[a].Mass /\ b1[a].InverseMass = b[a].InverseMass
      BY <1>6, <1>7, <1>8 DEF SameButVelocity
    <3> QED
      BY <1>3, <2>4, <3>1 DEF AreBodies
  <2> QED
    BY <2>3, <2>4 DEF AreBodies
<1>10. PositionPart(c, b1, x) = d /\ PositionPart(c, b1, y) = e
  <2>1. /\ b1[x].InverseMass = b[x].InverseMass /\ b1[x].Type = b[x].Type
        /\ b1[y].InverseMass = b[y].InverseMass /\ b1[y].Type = b[y].Type
    BY <1>6, <1>7 DEF SameButVelocity
  <2>2. TotalInverse(c, b1) = TotalInverse(c, b)
    BY <1>2, <2>1 DEF TotalInverse, Joins
  <2> QED
    BY <2>1, <2>2 DEF PositionPart, Part
<1>11. /\ d \in Int /\ e \in Int
       /\ Only(b2, b1, A, x, y, Shoved(b1[x], Times(n, d)), Shoved(b1[y], Times(n, - e)))
  BY <1>1, <1>2, <1>3, <1>9, <1>10, PostPositionIs DEF n
<1> HIDE DEF d, e
<1>12. /\ b2[x] \in Bodies /\ b2[x].Position = Plus(b1[x].Position, Times(n, d))
       /\ SameButPosition(b2[x], b1[x])
  BY <1>5, <1>6, <1>11, ShovedFacts DEF Only
<1>13. /\ b2[y] \in Bodies /\ b2[y].Position = Plus(b1[y].Position, Times(n, - e))
       /\ SameButPosition(b2[y], b1[y])
  BY <1>5, <1>7, <1>11, ShovedFacts DEF Only
<1>14. \A a \in A \ {x, y} : b2[a] = b[a]
  BY <1>8, <1>11 DEF Only
<1>15. \A a \in A : b2[a] \in Bodies /\ SameSetting(b2[a], b[a])
  BY <1>3, <1>6, <1>7, <1>12, <1>13, <1>14 DEF SameSetting, SameButPosition, SameButVelocity
<1>16. AreBodies(b2, A)
  <2>1. b2 = [a \in A |-> b2[a]]
    BY <1>11 DEF Only
  <2>2. b2 \in [A -> Bodies]
    BY <1>15, <2>1
  <2> QED
    BY <1>3, <1>15, <2>2 DEF AreBodies, SameSetting
<1>17. ASSUME NEW a \in A, b[a].Type # "Dynamic" PROVE b2[a] = b[a]
  <2>1. CASE a = x
    <3>1. v = 0 /\ d = 0
      BY <1>17, <2>1 DEF VelocityPart, PositionPart, v, d
    <3>2. b1[x] = b[x]
      BY <1>3, <1>4, <3>1, NoChange DEF Only
    <3>3. b2[x] = Shoved(b[x], Times(n, 0))
      BY <1>11, <3>1, <3>2 DEF Only
    <3> QED
      BY <1>3, <1>4, <2>1, <3>3, NoChange
  <2>2. CASE a = y
    <3>1. w = 0 /\ e = 0
      BY <1>17, <2>2 DEF VelocityPart, PositionPart, w, e
    <3>2. \A m \in Int : m <= 0 /\ m >= 0 => - m = 0
      OBVIOUS
    <3>3. w <= 0 /\ w >= 0 /\ e <= 0 /\ e >= 0
      BY <3>1
    <3>4. - w = 0 /\ - e = 0
      BY <1>4, <1>11, <3>2, <3>3
    <3>5. b1[y] = b[y]
      BY <1>3, <1>4, <3>4, NoChange DEF Only
    <3>6. b2[y] = Shoved(b[y], Times(n, 0))
      BY <1>11, <3>4, <3>5 DEF Only
    <3> QED
      BY <1>3, <1>4, <2>2, <3>6, NoChange
  <2> QED
    BY <1>14, <2>1, <2>2
<1>18. /\ b2[x].Velocity = Plus(b[x].Velocity, Times(n, v))
       /\ b2[y].Velocity = Plus(b[y].Velocity, Times(n, - w))
       /\ b2[x].Position = Plus(b[x].Position, Times(n, d))
       /\ b2[y].Position = Plus(b[y].Position, Times(n, - e))
  BY <1>6, <1>7, <1>12, <1>13 DEF SameButVelocity, SameButPosition
<1>19. Outcome(b2, b, A, x, y, n, v, w, d, e)
  BY <1>4, <1>11, <1>14, <1>15, <1>16, <1>17, <1>18 DEF Outcome
<1> QED
  BY <1>19 DEF n, v, w, d, e, c, Away

-----------------------------------------------------------------------------
(* Quotients.                                                              *)

LEMMA WholeQuotient ==
  ASSUME NEW n \in Int, NEW d \in Nat \ {0}, (n % d) = 0
  PROVE  n \div d \in Int /\ (n \div d) * d = n
<1>1. n \div d \in Int /\ n = d * (n \div d) + (n % d)
  OBVIOUS
<1>2. \A q \in Int : d * q = q * d
  OBVIOUS
<1> QED
  BY <1>1, <1>2

LEMMA Cancelled ==
  ASSUME NEW m \in Int, NEW n \in Int, NEW t \in Int, t > 0, m * t = n * t
  PROVE  m = n
  OBVIOUS

LEMMA PartsAdd ==
  ASSUME NEW i \in Int, NEW j \in Int, NEW amount \in Int, NEW p \in Int, NEW q \in Int,
         i + j > 0, p * (i + j) = amount * i, q * (i + j) = amount * j
  PROVE  p + q = amount
<1>1. (p + q) * (i + j) = p * (i + j) + q * (i + j)
  OBVIOUS
<1>2. amount * (i + j) = amount * i + amount * j
  OBVIOUS
<1>3. (p + q) * (i + j) = amount * (i + j) /\ p + q \in Int /\ i + j \in Int
  BY <1>1, <1>2
<1> QED
  BY <1>3, Cancelled

\* Two parts p and q of an amount, in the ratio of the inverse masses i and j.
Parts(m, n, i, j, amount, p, q, t) ==
  /\ m \in Int /\ n \in Int /\ i \in Int /\ j \in Int /\ amount \in Int
  /\ p \in Int /\ q \in Int /\ t \in Int /\ t > 0
  /\ p * t = amount * i /\ q * t = amount * j /\ m * i = n * j

LEMMA PartsBalance ==
  ASSUME NEW m, NEW n, NEW i, NEW j, NEW amount, NEW p, NEW q, NEW t,
         Parts(m, n, i, j, amount, p, q, t)
  PROVE  m * p = n * q
<1> USE DEF Parts
<1>1. (m * p) * t = m * (p * t) /\ (n * q) * t = n * (q * t)
  OBVIOUS
<1>2. m * (amount * i) = amount * (m * i) /\ n * (amount * j) = amount * (n * j)
  OBVIOUS
<1>3. (m * p) * t = (n * q) * t /\ m * p \in Int /\ n * q \in Int
  BY <1>1, <1>2
<1> QED
  BY <1>3, Cancelled

\* A mean with weights is between its values.
LEMMA MeanBetween ==
  ASSUME NEW m \in Nat \ {0}, NEW n \in Nat \ {0}, NEW d \in 0 .. 8, NEW e \in 0 .. 8,
         NEW r \in Int,
         r * (m + n) = m * d + n * e
  PROVE  r \in 0 .. 8
<1>1. m * d >= 0 /\ n * e >= 0 /\ m * d <= m * 8 /\ n * e <= n * 8
  OBVIOUS
<1>2. r * (m + n) >= 0 /\ r * (m + n) <= 8 * (m + n) /\ m + n > 0
  BY <1>1
<1>3. r >= 0
  BY <1>2
<1>4. r <= 8
  BY <1>2
<1> QED
  BY <1>3, <1>4

\* What is known of the contact of x and y when it is to be resolved.
Solvable(b, k, A, x, y) ==
  Pair(b, k, A, x, y) /\ ~Throws(b, k, x, y) /\ WholeContact(b, k, x, y)

LEMMA SolvedIsWhole ==
  ASSUME NEW A, NEW b, NEW k, NEW x, NEW y, Solvable(b, k, A, x, y)
  PROVE  LET c == Solved(b, k, x, y)
         IN  /\ Joins(c, x, y) /\ Straight(c.Normal)
             /\ c.Normal \in UnitVectors /\ Away(b, k, x, y) \in UnitVectors
             /\ SeparatingVelocity(c, b) <= 0 => WholeBounce(c, b, k)
             /\ c.Penetration > 0 => WholeShares(c, b, c.Penetration)
<1> DEFINE c == Solved(b, k, x, y)
<1>1. Joins(c, x, y)
  BY SolvedJoins DEF Solvable
<1>2. /\ c.Normal.X = 0 \/ c.Normal.Y = 0
      /\ SeparatingVelocity(c, b) <= 0 => WholeBounce(c, b, k)
      /\ c.Penetration > 0 => WholeShares(c, b, c.Penetration)
  <2>1. ContactProperties(b, k, x, y) = {TheContact(b, k, x, y)}
    BY ContactIsThe DEF Solvable
  <2> QED
    BY <2>1 DEF Solvable, WholeContact, Solved
<1> HIDE DEF c
<1>3. Straight(c.Normal) /\ c.Normal \in UnitVectors /\ c.Normal \in Vectors
  BY <1>1, <1>2 DEF Straight, Joins
<1>4. Toward(c, x) \in UnitVectors
  BY <1>3, NegatedFacts DEF Toward
<1> QED
  BY <1>1, <1>2, <1>3, <1>4 DEF c, Away

\* The speed at which x leaves y in the direction n.
Leaving(b, x, y, n) == Dot(Minus(b[x].Velocity, b[y].Velocity), n)

LEMMA LeavingIsSeparating ==
  ASSUME NEW A, NEW b, AreBodies(b, A), NEW x \in A, NEW y \in A, NEW c, Joins(c, x, y)
  PROVE  SeparatingVelocity(c, b) = Leaving(b, x, y, Toward(c, x))
<1>1. b[x].Velocity \in Vectors /\ b[y].Velocity \in Vectors /\ c.Normal \in Vectors
  BY DEF AreBodies, Bodies, Joins
<1>2. \A p, q, n \in Vectors : Dot(Minus(q, p), n) = Dot(Minus(p, q), Times(n, -1))
  BY DEF Dot, Minus, Times, Vectors, Point
<1>3. CASE c.BodyA = x /\ c.BodyB = y
  BY <1>3 DEF SeparatingVelocity, Leaving, Toward
<1>4. CASE c.BodyA # x /\ c.BodyA = y /\ c.BodyB = x
  BY <1>1, <1>2, <1>4 DEF SeparatingVelocity, Leaving, Toward
<1>5. CASE c.BodyA = x /\ c.BodyA = y /\ c.BodyB = x
  BY <1>5 DEF SeparatingVelocity, Leaving, Toward
<1> QED
  BY <1>3, <1>4, <1>5 DEF Joins

\* The restitution of a contact is a mean of the two, in 0 .. Unit; if no body
\* was exchanged, each weighs with its own mass.
LEMMA RestitutionFacts ==
  ASSUME NEW A, NEW b, NEW k, NEW x, NEW y, Pair(b, k, A, x, y), NEW c, Joins(c, x, y),
         WholeBounce(c, b, k)
  PROVE  LET r == CombinedRestitution(c, b, k)
         IN  /\ r \in 0 .. Unit
             /\ OwnColliders(c) =>
                  r * (b[x].Mass + b[y].Mass)
                    = b[x].Mass * k[x].Restitution + b[y].Mass * k[y].Restitution
             /\ k[x].Restitution = Unit /\ k[y].Restitution = Unit => r = Unit
<1> DEFINE r == CombinedRestitution(c, b, k)
           m == b[c.BodyA].Mass
           n == b[c.BodyB].Mass
           d == k[c.ColliderA].Restitution
           e == k[c.ColliderB].Restitution
<1>1. /\ c.BodyA \in A /\ c.BodyB \in A /\ c.ColliderA \in A /\ c.ColliderB \in A
  BY DEF Pair, Joins
<1>2. m \in Nat \ {0} /\ n \in Nat \ {0} /\ d \in 0 .. 8 /\ e \in 0 .. 8
  BY <1>1 DEF Pair, AreBodies, AreColliders, Bodies, Unit
<1>3. r = (m * d + n * e) \div (m + n) /\ ((m * d + n * e) % (m + n)) = 0
  BY DEF CombinedRestitution, WholeBounce, Divides
<1> HIDE DEF r, m, n, d, e
<1>4. m * d + n * e \in Int /\ m + n \in Nat \ {0}
  BY <1>2
<1>5. r \in Int /\ r * (m + n) = m * d + n * e
  BY <1>3, <1>4, WholeQuotient
<1>6. r \in 0 .. 8
  BY <1>2, <1>5, MeanBetween
<1>7. ASSUME OwnColliders(c)
      PROVE  r * (b[x].Mass + b[y].Mass)
               = b[x].Mass * k[x].Restitution + b[y].Mass * k[y].Restitution
  <2>1. CASE c.BodyA = x /\ c.BodyB = y
    BY <1>5, <1>7, <2>1 DEF OwnColliders, m, n, d, e
  <2>2. CASE c.BodyA = y /\ c.BodyB = x
    <3>1. m = b[y].Mass /\ n = b[x].Mass /\ d = k[y].Restitution /\ e = k[x].Restitution
      BY <1>7, <2>2 DEF OwnColliders, m, n, d, e
    <3>2. m + n = n + m /\ m * d + n * e = n * e + m * d
      BY <1>2
    <3> QED
      BY <1>5, <3>1, <3>2
  <2> QED
    BY <2>1, <2>2 DEF Joins
<1>8. ASSUME k[x].Restitution = Unit, k[y].Restitution = Unit PROVE r = Unit
  <2>1. d = 8 /\ e = 8
    BY <1>8 DEF d, e, Joins, Unit
  <2>2. r * (m + n) = 8 * (m + n)
    BY <1>2, <1>5, <2>1
  <2>3. m + n \in Int /\ m + n > 0 /\ 8 \in Int /\ r \in Int
    BY <1>4, <1>5
  <2>4. r = 8
    BY <2>2, <2>3, Cancelled
  <2> QED
    BY <2>4 DEF Unit
<1> QED
  BY <1>6, <1>7, <1>8 DEF r, Unit

-----------------------------------------------------------------------------
(* How the amounts are shared.                                             *)

Portion(c, b, a, amount) == IF b[a].Type # "Dynamic" THEN 0 ELSE Part(c, b, a, amount)

\* x or y can move, and one that cannot has no inverse mass.
Driven(b, x, y) ==
  /\ b[x].Type = "Dynamic" \/ b[y].Type = "Dynamic"
  /\ \A a \in {x, y} : b[a].Type # "Dynamic" => b[a].InverseMass = 0

Balanced(b, x, y, v, w) ==
  b[x].Type = "Dynamic" /\ b[y].Type = "Dynamic" => b[x].Mass * v = b[y].Mass * w

LEMMA PortionIs ==
  ASSUME NEW A, NEW b, AreBodies(b, A), NEW x \in A, NEW y \in A,
         NEW c, Joins(c, x, y), NEW amount \in Int, WholeShares(c, b, amount),
         NEW a \in {x, y}
  PROVE  /\ Portion(c, b, a, amount) \in Int
         /\ b[a].Type = "Dynamic" =>
              Portion(c, b, a, amount) * TotalInverse(c, b) = amount * b[a].InverseMass
<1>1. CASE b[a].Type # "Dynamic"
  BY <1>1 DEF Portion
<1>2. CASE b[a].Type = "Dynamic"
  <2>1. TotalInverse(c, b) \in Nat \ {0} /\ b[a].InverseMass \in Nat
    BY <1>2, InverseFacts DEF AreBodies, Bodies
  <2>2. Moves(c, b, a)
    BY <1>2 DEF Moves, Joins
  <2>3. ((amount * b[a].InverseMass) % TotalInverse(c, b)) = 0
    BY <2>1, <2>2 DEF WholeShares, Moves, Divides
  <2>4. amount * b[a].InverseMass \in Int
    BY <2>1
  <2>5. Portion(c, b, a, amount) = (amount * b[a].InverseMass) \div TotalInverse(c, b)
    BY <1>2 DEF Portion, Part
  <2> QED
    BY <2>1, <2>3, <2>4, <2>5, WholeQuotient
<1> QED
  BY <1>1, <1>2

LEMMA OnlyPart ==
  ASSUME NEW i \in Int, NEW j \in Int, i > 0, j = 0, NEW amount \in Int, NEW p \in Int,
         p * (i + j) = amount * i
  PROVE  p = amount
<1>1. i + j = i
  OBVIOUS
<1>2. p * i = amount * i
  BY <1>1
<1> QED
  BY <1>2, Cancelled

LEMMA PortionsAdd ==
  ASSUME NEW A, NEW b, AreBodies(b, A), NEW x \in A, NEW y \in A,
         NEW c, Joins(c, x, y), NEW amount \in Int, WholeShares(c, b, amount)
  PROVE  /\ Portion(c, b, x, amount) \in Int /\ Portion(c, b, y, amount) \in Int
         /\ Driven(b, x, y) => Portion(c, b, x, amount) + Portion(c, b, y, amount) = amount
         /\ Balanced(b, x, y, Portion(c, b, x, amount), Portion(c, b, y, amount))
<1> DEFINE i == b[x].InverseMass
           j == b[y].InverseMass
           p == Portion(c, b, x, amount)
           q == Portion(c, b, y, amount)
           t == TotalInverse(c, b)
<1>1. /\ p \in Int /\ (b[x].Type = "Dynamic" => p * t = amount * i)
      /\ (b[x].Type # "Dynamic" => p = 0)
  <2>1. x \in {x, y}
    OBVIOUS
  <2> QED
    BY <2>1, PortionIs DEF Portion
<1>2. /\ q \in Int /\ (b[y].Type = "Dynamic" => q * t = amount * j)
      /\ (b[y].Type # "Dynamic" => q = 0)
  <2>1. y \in {x, y}
    OBVIOUS
  <2> QED
    BY <2>1, PortionIs DEF Portion
<1>3. i \in Int /\ j \in Int /\ b[x].Mass \in Int /\ b[y].Mass \in Int
  BY DEF AreBodies, Bodies
<1>4. /\ t = i + j
      /\ b[x].Type = "Dynamic" => i > 0 /\ t > 0
      /\ b[y].Type = "Dynamic" => j > 0 /\ t > 0
  BY InverseFacts
<1>5. b[x].Type = "Dynamic" /\ b[y].Type = "Dynamic" => b[x].Mass * i = b[y].Mass * j
  BY DEF AreBodies
<1>6. /\ b[x].Type # "Dynamic" => (Driven(b, x, y) => i = 0)
      /\ b[y].Type # "Dynamic" => (Driven(b, x, y) => j = 0)
  BY DEF Driven
<1>7. Driven(b, x, y) => b[x].Type = "Dynamic" \/ b[y].Type = "Dynamic"
  BY DEF Driven
<1> HIDE DEF i, j, p, q, t
<1>8. CASE b[x].Type = "Dynamic" /\ b[y].Type = "Dynamic"
  <2>1. p * (i + j) = amount * i /\ q * (i + j) = amount * j /\ i + j > 0
    BY <1>1, <1>2, <1>4, <1>8
  <2>2. p + q = amount
    BY <1>1, <1>2, <1>3, <2>1, PartsAdd
  <2>3. t \in Int /\ t > 0 /\ p * t = amount * i /\ q * t = amount * j
    BY <1>1, <1>2, <1>3, <1>4, <1>8
  <2> DEFINE m == b[x].Mass
             n == b[y].Mass
  <2>4. m * i = n * j
    BY <1>5, <1>8
  <2>5. /\ p \in Int /\ q \in Int /\ i \in Int /\ j \in Int /\ m \in Int /\ n \in Int
    BY <1>1, <1>2, <1>3
  <2> HIDE DEF m, n
  <2>6. Parts(m, n, i, j, amount, p, q, t)
    BY <2>3, <2>4, <2>5 DEF Parts
  <2>7. m * p = n * q
    BY <2>6, PartsBalance
  <2>8. b[x].Mass * p = b[y].Mass * q
    BY <2>7 DEF m, n
  <2> QED
    BY <1>1, <1>2, <2>2, <2>8 DEF p, q, Balanced
<1>9. CASE b[x].Type = "Dynamic" /\ b[y].Type # "Dynamic"
  <2>1. ASSUME Driven(b, x, y) PROVE p + q = amount
    <3>1. p * (i + j) = amount * i /\ i > 0 /\ j = 0
      BY <1>1, <1>4, <1>6, <1>9, <2>1
    <3>2. p = amount
      BY <1>1, <1>3, <3>1, OnlyPart
    <3> QED
      BY <1>2, <1>9, <3>2
  <2> QED
    BY <1>1, <1>2, <1>9, <2>1 DEF p, q, Balanced
<1>10. CASE b[x].Type # "Dynamic" /\ b[y].Type = "Dynamic"
  <2>1. ASSUME Driven(b, x, y) PROVE p + q = amount
    <3>1. q * (j + i) = amount * j /\ j > 0 /\ i = 0
      BY <1>2, <1>3, <1>4, <1>6, <1>10, <2>1
    <3>2. q = amount
      BY <1>2, <1>3, <3>1, OnlyPart
    <3> QED
      BY <1>1, <1>10, <3>2
  <2> QED
    BY <1>1, <1>2, <1>10, <2>1 DEF p, q, Balanced
<1>11. CASE b[x].Type # "Dynamic" /\ b[y].Type # "Dynamic"
  BY <1>1, <1>2, <1>7, <1>11 DEF p, q, Balanced
<1> QED
  BY <1>8, <1>9, <1>10, <1>11

-----------------------------------------------------------------------------
(* The numbers of a bounce: s is the separating velocity, r the combined   *)
(* restitution, q their product in whole numbers, j the change.            *)

LEMMA ChangeIs ==
  ASSUME NEW s \in Int, NEW r \in 0 .. 8, NEW q \in Int, NEW j \in Int,
         s <= 0, q * 8 = s * r, j = - q - s
  PROVE  /\ j >= 0 /\ s + j >= 0 /\ 8 * (s + j) = - (s * r)
         /\ 2 * s + j <= 0 /\ (r = 8 => 2 * s + j = 0)
<1>1. s * r <= 0 /\ s * r >= s * 8
  OBVIOUS
<1>2. s + j = - q
  OBVIOUS
<1>3. q <= 0 /\ q >= s
  BY <1>1
<1>4. r = 8 => q = s
  OBVIOUS
<1> QED
  BY <1>2, <1>3, <1>4

\* What a bounce does to the speed s at which x leaves y, if Driven: it becomes s + j.
Bounce(s, r, j) ==
  /\ s \in Int /\ j \in Int
  /\ s > 0 => j = 0
  /\ s <= 0 => /\ r \in 0 .. Unit
               /\ j >= 0 /\ s + j >= 0 /\ Unit * (s + j) = - (s * r)
               /\ 2 * s + j <= 0 /\ (r = Unit => 2 * s + j = 0)

LEMMA BounceIs ==
  ASSUME NEW A, NEW b, NEW k, NEW x, NEW y, Pair(b, k, A, x, y), NEW c, Joins(c, x, y),
         SeparatingVelocity(c, b) <= 0, WholeBounce(c, b, k)
  PROVE  Bounce(SeparatingVelocity(c, b), CombinedRestitution(c, b, k), Change(c, b, k))
<1> DEFINE s == SeparatingVelocity(c, b)
           r == CombinedRestitution(c, b, k)
           j == Change(c, b, k)
           q == (s * r) \div 8
<1>1. s \in Int /\ j \in Int /\ s <= 0
  BY ScalarsAreInts
<1>2. r \in 0 .. 8
  BY RestitutionFacts DEF Unit
<1>3. ((s * r) % 8) = 0
  BY DEF WholeBounce, Divides, Unit
<1>4. j = - q - s
  <2>1. \A m, n \in Int : - (m * n) \div 8 - m = - ((m * n) \div 8) - m
    OBVIOUS
  <2>2. j = - (s * r) \div 8 - s
    BY DEF Change, Unit
  <2> HIDE DEF s, r, j
  <2> QED
    BY <1>1, <1>2, <2>1, <2>2
<1> HIDE DEF s, r, j
<1>5. s * r \in Int /\ 8 \in Nat \ {0}
  BY <1>1, <1>2
<1>6. q \in Int /\ q * 8 = s * r
  BY <1>3, <1>5, WholeQuotient
<1> HIDE DEF q
<1>7. /\ j >= 0 /\ s + j >= 0 /\ 8 * (s + j) = - (s * r)
      /\ 2 * s + j <= 0 /\ (r = 8 => 2 * s + j = 0)
  BY <1>1, <1>2, <1>4, <1>6, ChangeIs
<1>8. Bounce(s, r, j)
  <2>1. ~(s > 0)
    BY <1>1
  <2> QED
    BY <1>1, <1>2, <1>7, <2>1 DEF Bounce, Unit
<1> QED
  BY <1>8 DEF s, r, j

-----------------------------------------------------------------------------
(* What the resolution of a contact does, in one formula: n is the         *)
(* direction from y to x, s the speed at which x leaves y.                 *)

BounceOf(b, k, x, y, s, r, j, v, w) ==
  /\ Bounce(s, r, j)
  /\ s > 0 => v = 0 /\ w = 0
  /\ s <= 0 =>
       /\ b[x].Type # "Static" /\ b[y].Type # "Static" =>
            r * (b[x].Mass + b[y].Mass)
              = b[x].Mass * k[x].Restitution + b[y].Mass * k[y].Restitution
       /\ k[x].Restitution = Unit /\ k[y].Restitution = Unit => r = Unit
  /\ Driven(b, x, y) => v + w = j
  /\ Balanced(b, x, y, v, w)

PushOf(b, x, y, depth, d, e) ==
  /\ depth <= 0 => d = 0 /\ e = 0
  /\ depth > 0 /\ Driven(b, x, y) => d + e = depth

Result(b2, b, k, A, x, y, n, r, j, v, w, d, e) ==
  /\ n \in UnitVectors /\ Outcome(b2, b, A, x, y, n, v, w, d, e)
  /\ BounceOf(b, k, x, y, Leaving(b, x, y, n), r, j, v, w)
  /\ PushOf(b, x, y, TheContact(b, k, x, y).Penetration, d, e)

LEMMA VelocityParts ==
  ASSUME NEW A, NEW b, NEW k, NEW x, NEW y, Solvable(b, k, A, x, y)
  PROVE  LET c == Solved(b, k, x, y)
         IN  \E j \in Int :
               BounceOf(b, k, x, y, SeparatingVelocity(c, b), CombinedRestitution(c, b, k), j,
                        VelocityPart(c, b, k, x), VelocityPart(c, b, k, y))
<1> DEFINE c == Solved(b, k, x, y)
           s == SeparatingVelocity(c, b)
           r == CombinedRestitution(c, b, k)
           v == VelocityPart(c, b, k, x)
           w == VelocityPart(c, b, k, y)
           ch == Change(c, b, k)
<1>1. Pair(b, k, A, x, y) /\ AreBodies(b, A) /\ x \in A /\ y \in A /\ x # y
  BY DEF Solvable, Pair
<1>2. Joins(c, x, y) /\ (s <= 0 => WholeBounce(c, b, k))
  BY SolvedIsWhole
<1>3. b[x].Type # "Static" /\ b[y].Type # "Static" => OwnColliders(c)
  BY <1>1, SolvedJoins DEF Solvable
<1> HIDE DEF c
<1>4. s \in Int /\ ch \in Int
  BY <1>1, <1>2, ScalarsAreInts
<1>5. CASE s > 0
  <2>1. v = 0 /\ w = 0
    BY <1>5 DEF VelocityPart
  <2>2. Bounce(s, r, 0) /\ ~(s <= 0)
    BY <1>4, <1>5 DEF Bounce
  <2>3. Balanced(b, x, y, v, w)
    <3>1. b[x].Mass \in Int /\ b[y].Mass \in Int
      BY <1>1 DEF AreBodies, Bodies
    <3>2. b[x].Mass * 0 = b[y].Mass * 0
      BY <3>1
    <3> QED
      BY <2>1, <3>2 DEF Balanced
  <2>4. v + w = 0
    BY <2>1
  <2>5. BounceOf(b, k, x, y, s, r, 0, v, w)
    BY <2>1, <2>2, <2>3, <2>4 DEF BounceOf
  <2> QED
    BY <2>5 DEF c
<1>6. CASE s <= 0
  <2>1. WholeBounce(c, b, k) /\ WholeShares(c, b, ch) /\ ~(s > 0)
    BY <1>2, <1>4, <1>6 DEF WholeBounce
  <2>2. Bounce(s, r, ch)
    BY <1>1, <1>2, <1>6, <2>1, BounceIs
  <2>3. v = Portion(c, b, x, ch) /\ w = Portion(c, b, y, ch)
    BY <2>1 DEF VelocityPart, Portion
  <2>4. (Driven(b, x, y) => v + w = ch) /\ Balanced(b, x, y, v, w)
    <3> HIDE DEF ch, v, w
    <3> QED
      BY <1>1, <1>2, <1>4, <2>1, <2>3, PortionsAdd
  <2>5. /\ b[x].Type # "Static" /\ b[y].Type # "Static" =>
             r * (b[x].Mass + b[y].Mass)
               = b[x].Mass * k[x].Restitution + b[y].Mass * k[y].Restitution
        /\ k[x].Restitution = Unit /\ k[y].Restitution = Unit => r = Unit
    BY <1>1, <1>2, <1>3, <2>1, RestitutionFacts
  <2>6. BounceOf(b, k, x, y, s, r, ch, v, w)
    BY <2>1, <2>2, <2>4, <2>5 DEF BounceOf
  <2> QED
    BY <1>4, <2>6 DEF c
<1> QED
  BY <1>4, <1>5, <1>6

LEMMA PositionParts ==
  ASSUME NEW A, NEW b, NEW k, NEW x, NEW y, Solvable(b, k, A, x, y)
  PROVE  LET c == Solved(b, k, x, y)
         IN  PushOf(b, x, y, TheContact(b, k, x, y).Penetration,
                    PositionPart(c, b, x), PositionPart(c, b, y))
<1> DEFINE c == Solved(b, k, x, y)
           t == c.Penetration
           d == PositionPart(c, b, x)
           e == PositionPart(c, b, y)
<1>1. AreBodies(b, A) /\ x \in A /\ y \in A
  BY DEF Solvable, Pair
<1>2. Joins(c, x, y) /\ (t > 0 => WholeShares(c, b, t))
  BY SolvedIsWhole
<1>3. TheContact(b, k, x, y).Penetration = t
  BY SolvedJoins DEF Solvable
<1> HIDE DEF c
<1>4. t \in Int
  BY <1>2 DEF Joins
<1>5. CASE t <= 0
  BY <1>3, <1>4, <1>5 DEF PushOf, PositionPart, c
<1>6. CASE t > 0
  <2>1. ~(t <= 0) /\ WholeShares(c, b, t)
    BY <1>2, <1>4, <1>6
  <2>2. d = Portion(c, b, x, t) /\ e = Portion(c, b, y, t)
    BY <2>1 DEF PositionPart, Portion
  <2>3. Driven(b, x, y) => d + e = t
    <3> HIDE DEF t, d, e
    <3> QED
      BY <1>1, <1>2, <1>4, <2>1, <2>2, PortionsAdd
  <2> QED
    BY <1>3, <2>1, <2>3 DEF PushOf, c
<1> QED
  BY <1>4, <1>5, <1>6

LEMMA ResultIs ==
  ASSUME NEW A, NEW b, NEW k, NEW x, NEW y, Solvable(b, k, A, x, y),
         NEW b2 \in Resolved(b, k, x, y)
  PROVE  \E r, j, v, w, d, e :
           Result(b2, b, k, A, x, y, Toward(TheContact(b, k, x, y), x), r, j, v, w, d, e)
<1> DEFINE c == Solved(b, k, x, y)
           n == Away(b, k, x, y)
           v == VelocityPart(c, b, k, x)
           w == VelocityPart(c, b, k, y)
           d == PositionPart(c, b, x)
           e == PositionPart(c, b, y)
<1>1. Pair(b, k, A, x, y) /\ ~Throws(b, k, x, y)
  BY DEF Solvable
<1>2. Outcome(b2, b, A, x, y, n, v, w, d, e)
  BY <1>1, ResolvedIs
<1>3. Joins(c, x, y) /\ n \in UnitVectors
  BY SolvedIsWhole
<1>4. PICK j \in Int : BounceOf(b, k, x, y, SeparatingVelocity(c, b),
                                CombinedRestitution(c, b, k), j, v, w)
  BY VelocityParts
<1>5. SeparatingVelocity(c, b) = Leaving(b, x, y, n)
  BY <1>1, <1>3, LeavingIsSeparating DEF Pair, Away
<1>6. PushOf(b, x, y, TheContact(b, k, x, y).Penetration, d, e)
  BY PositionParts
<1>7. n = Toward(TheContact(b, k, x, y), x)
  BY <1>1, SolvedJoins DEF Away
<1> HIDE DEF c, n, v, w, d, e
<1>8. Result(b2, b, k, A, x, y, n, CombinedRestitution(c, b, k), j, v, w, d, e)
  BY <1>2, <1>3, <1>4, <1>5, <1>6 DEF Result
<1> QED
  BY <1>7, <1>8

-----------------------------------------------------------------------------
(* Momentum.                                                               *)

\* What each body has and is about to get.
Carried(b, A) == [a \in A |-> Plus(Times(b[a].Velocity, b[a].Mass), b[a].Forces)]

LEMMA CarriedTyped ==
  ASSUME NEW A, NEW b, AreBodies(b, A)
  PROVE  Carried(b, A) \in [A -> Vectors]
<1>1. ASSUME NEW a \in A PROVE Plus(Times(b[a].Velocity, b[a].Mass), b[a].Forces) \in Vectors
  <2>1. b[a].Velocity \in Vectors /\ b[a].Forces \in Vectors /\ b[a].Mass \in Int
    BY DEF AreBodies, Bodies
  <2>2. Times(b[a].Velocity, b[a].Mass) \in Vectors
    BY <2>1, TimesFacts
  <2> QED
    BY <2>1, <2>2, PlusFacts
<1> QED
  BY <1>1 DEF Carried

Even(i, j, k, m, o, v, w) == (i + k * v) * m + (j + k * (- w)) * o = i * m + j * o

\* Two bodies that exchange the momentum m * v = o * w.
LEMMA ExchangeIsFair ==
  ASSUME NEW n \in Vectors, NEW p \in Vectors, NEW q \in Vectors, NEW f \in Vectors, NEW g \in Vectors,
         NEW m \in Int, NEW o \in Int, NEW v \in Int, NEW w \in Int, m * v = o * w
  PROVE  Plus(Plus(Times(p, m), f), Plus(Times(q, o), g))
           = Plus(Plus(Times(Plus(p, Times(n, v)), m), f), Plus(Times(Plus(q, Times(n, - w)), o), g))
<1>1. \A i, j, k \in Int : Even(i, j, k, m, o, v, w)
  <2> TAKE i, j, k \in Int
  <2>1. (i + k * v) * m = i * m + k * (m * v)
    OBVIOUS
  <2>2. (j + k * (- w)) * o = j * o - k * (o * w)
    OBVIOUS
  <2> QED
    BY <2>1, <2>2 DEF Even
<1>2. /\ n.X \in Int /\ n.Y \in Int /\ p.X \in Int /\ p.Y \in Int /\ q.X \in Int /\ q.Y \in Int
      /\ f.X \in Int /\ f.Y \in Int /\ g.X \in Int /\ g.Y \in Int
  BY DEF Vectors
<1>3. /\ (p.X + n.X * v) * m + (q.X + n.X * (- w)) * o = p.X * m + q.X * o
      /\ (p.Y + n.Y * v) * m + (q.Y + n.Y * (- w)) * o = p.Y * m + q.Y * o
  <2>1. Even(p.X, q.X, n.X, m, o, v, w) /\ Even(p.Y, q.Y, n.Y, m, o, v, w)
    BY <1>1, <1>2
  <2> QED
    BY <2>1 DEF Even
<1>4. /\ ((p.X + n.X * v) * m + f.X) + ((q.X + n.X * (- w)) * o + g.X) = (p.X * m + f.X) + (q.X * o + g.X)
      /\ ((p.Y + n.Y * v) * m + f.Y) + ((q.Y + n.Y * (- w)) * o + g.Y) = (p.Y * m + f.Y) + (q.Y * o + g.Y)
  <2> DEFINE x1 == (p.X + n.X * v) * m
             x2 == (q.X + n.X * (- w)) * o
             x3 == p.X * m
             x4 == q.X * o
             y1 == (p.Y + n.Y * v) * m
             y2 == (q.Y + n.Y * (- w)) * o
             y3 == p.Y * m
             y4 == q.Y * o
  <2>1. /\ x1 \in Int /\ x2 \in Int /\ x3 \in Int /\ x4 \in Int
        /\ y1 \in Int /\ y2 \in Int /\ y3 \in Int /\ y4 \in Int
        /\ x1 + x2 = x3 + x4 /\ y1 + y2 = y3 + y4
    BY <1>2, <1>3
  <2> HIDE DEF x1, x2, x3, x4, y1, y2, y3, y4
  <2>2. (x1 + f.X) + (x2 + g.X) = (x3 + f.X) + (x4 + g.X)
        /\ (y1 + f.Y) + (y2 + g.Y) = (y3 + f.Y) + (y4 + g.Y)
    BY <1>2, <2>1
  <2> QED
    BY <2>2 DEF x1, x2, x3, x4, y1, y2, y3, y4
<1> QED
  BY <1>4 DEF Plus, Times, Point

LEMMA CarriedKept ==
  ASSUME NEW A, IsFiniteSet(A), NEW b, AreBodies(b, A), NEW x \in A, NEW y \in A, x # y,
         NEW b2, NEW n, NEW v, NEW w, NEW d, NEW e, Outcome(b2, b, A, x, y, n, v, w, d, e),
         b[x].Mass * v = b[y].Mass * w
  PROVE  Total(Carried(b, A)) = Total(Carried(b2, A))
<1> DEFINE f == Carried(b, A)
           h == Carried(b2, A)
<1>1. AreBodies(b2, A) /\ n \in Vectors /\ v \in Int /\ w \in Int
  BY DEF Outcome
<1>2. f \in [A -> Vectors] /\ h \in [A -> Vectors]
  BY <1>1, CarriedTyped
<1>3. Same(f, h, A \ {x, y})
  BY DEF Outcome, Same, Carried
<1>4. Plus(f[x], f[y]) = Plus(h[x], h[y])
  <2> DEFINE p == b[x].Velocity
             q == b[y].Velocity
             m == b[x].Mass
             o == b[y].Mass
             i == b[x].Forces
             j == b[y].Forces
  <2>1. /\ f[x] = Plus(Times(p, m), i) /\ f[y] = Plus(Times(q, o), j)
        /\ h[x] = Plus(Times(b2[x].Velocity, b2[x].Mass), b2[x].Forces)
        /\ h[y] = Plus(Times(b2[y].Velocity, b2[y].Mass), b2[y].Forces)
    BY DEF Carried
  <2>2. /\ b2[x].Mass = m /\ b2[x].Forces = i /\ b2[x].Velocity = Plus(p, Times(n, v))
        /\ b2[y].Mass = o /\ b2[y].Forces = j /\ b2[y].Velocity = Plus(q, Times(n, - w))
    BY DEF Outcome, SameSetting
  <2>3. /\ p \in Vectors /\ i \in Vectors /\ m \in Int
        /\ q \in Vectors /\ j \in Vectors /\ o \in Int /\ m * v = o * w
    BY DEF AreBodies, Bodies
  <2> HIDE DEF f, h, p, q, m, o, i, j
  <2>4. Plus(Plus(Times(p, m), i), Plus(Times(q, o), j))
          = Plus(Plus(Times(Plus(p, Times(n, v)), m), i), Plus(Times(Plus(q, Times(n, - w)), o), j))
    BY <1>1, <2>3, ExchangeIsFair
  <2> QED
    BY <2>1, <2>2, <2>4
<1> HIDE DEF f, h
<1>5. Total(f) = Total(h)
  BY <1>2, <1>3, <1>4, TotalAtPair
<1> QED
  BY <1>5 DEF f, h

\* ApplyForce on the body of a.
Pushed(b2, b, a, f) == b2 = [b EXCEPT ![a] = ApplyForce(@, f)]

LEMMA PushedCarries ==
  ASSUME NEW A, IsFiniteSet(A), NEW b, AreBodies(b, A), NEW a \in A, NEW f \in Vectors,
         NEW b2, Pushed(b2, b, a, f)
  PROVE  /\ AreBodies(b2, A)
         /\ \A o \in A : b2[o].Type = b[o].Type
         /\ Total(Carried(b2, A)) = Plus(Total(Carried(b, A)), f)
<1> DEFINE g == Carried(b, A)
           h == Carried(b2, A)
<1>1. /\ b[a] \in Bodies /\ b[a].Velocity \in Vectors /\ b[a].Forces \in Vectors /\ b[a].Mass \in Int
      /\ DOMAIN b = A
  BY DEF AreBodies, Bodies
<1>2. b2[a] = [b[a] EXCEPT !.Forces = Plus(@, f)] /\ \A o \in A \ {a} : b2[o] = b[o]
  BY <1>1 DEF ApplyForce, Pushed
<1>3. Plus(b[a].Forces, f) \in Vectors
  BY <1>1, PlusFacts
<1>4. /\ b2[a] \in Bodies /\ b2[a].Forces = Plus(b[a].Forces, f)
      /\ b2[a].Velocity = b[a].Velocity /\ b2[a].Mass = b[a].Mass
      /\ b2[a].InverseMass = b[a].InverseMass /\ b2[a].Type = b[a].Type
  BY <1>1, <1>2, <1>3 DEF Bodies
<1>5. AreBodies(b2, A)
  <2>1. \A o \in A : b2[o] \in Bodies
    BY <1>2, <1>4 DEF AreBodies
  <2>2. b2 = [o \in A |-> b2[o]]
    BY <1>1 DEF Pushed
  <2>3. b2 \in [A -> Bodies]
    BY <2>1, <2>2
  <2> QED
    BY <1>2, <1>4, <2>3 DEF AreBodies
<1>6. g \in [A -> Vectors] /\ h \in [A -> Vectors]
  BY <1>5, CarriedTyped
<1>7. Same(g, h, A \ {a})
  BY <1>2 DEF Same, Carried
<1>8. h[a] = Plus(g[a], f)
  <2>1. /\ g[a] = Plus(Times(b[a].Velocity, b[a].Mass), b[a].Forces)
        /\ h[a] = Plus(Times(b[a].Velocity, b[a].Mass), Plus(b[a].Forces, f))
    BY <1>4 DEF Carried
  <2>2. \A p, q, r \in Vectors : Plus(p, Plus(q, r)) = Plus(Plus(p, q), r)
    BY DEF Plus, Point, Vectors
  <2>3. Times(b[a].Velocity, b[a].Mass) \in Vectors
    BY <1>1, TimesFacts
  <2> QED
    BY <1>1, <2>1, <2>2, <2>3
<1> HIDE DEF g, h
<1>9. PICK r \in Vectors : Total(g) = Plus(g[a], r) /\ Total(h) = Plus(h[a], r)
  BY <1>6, <1>7, TotalAtPoint
<1>10. \A p, q, r1 \in Vectors : Plus(Plus(p, q), r1) = Plus(Plus(p, r1), q)
  BY DEF Plus, Point, Vectors
<1>11. Total(h) = Plus(Total(g), f)
  BY <1>6, <1>8, <1>9, <1>10
<1> QED
  BY <1>2, <1>4, <1>5, <1>11 DEF g, h

-----------------------------------------------------------------------------
(* Integration.                                                            *)

\* Divided by the mass and multiplied by it again.
Acts(m, i, t, f) == (f * i) \div t \in Int /\ ((f * i) \div t) * m = f

LEMMA MassTimesShare ==
  ASSUME NEW m \in Int, NEW i \in Int, NEW t \in Nat \ {0}, m * i = t, NEW f \in Int,
         Divides(t, f * i)
  PROVE  Acts(m, i, t, f)
<1> DEFINE q == (f * i) \div t
<1>1. f * i \in Int
  OBVIOUS
<1>2. q \in Int /\ q * t = f * i
  BY <1>1, WholeQuotient DEF Divides
<1> HIDE DEF q
<1>3. (q * m) * t = m * (q * t) /\ m * (f * i) = f * (m * i)
  BY <1>2
<1>4. (q * m) * t = f * t /\ q * m \in Int /\ t \in Int /\ t > 0
  BY <1>2, <1>3
<1>5. q * m = f
  BY <1>4, Cancelled
<1> QED
  BY <1>2, <1>5 DEF q, Acts

LEMMA IntegratedFacts ==
  ASSUME NEW r \in Bodies, r.Type = "Dynamic" => r.Mass * r.InverseMass = Scale,
         NEW g \in Vectors, r.Type = "Dynamic" => WholeAcceleration(r, g)
  PROVE  LET q == Integrated(r, g)
         IN  /\ q \in Bodies /\ q.Mass = r.Mass /\ q.InverseMass = r.InverseMass /\ q.Type = r.Type
             /\ q.Forces \in {r.Forces, Zero}
             /\ r.Type = "Dynamic" =>
                  Plus(Times(q.Velocity, q.Mass), q.Forces)
                    = Plus(Plus(Times(r.Velocity, r.Mass), r.Forces), g)
             /\ g = Zero /\ r.Forces = Zero => q.Velocity = r.Velocity /\ q.Forces = Zero
<1>1. /\ r.Position \in Vectors /\ r.Velocity \in Vectors /\ r.Forces \in Vectors
      /\ r.Mass \in Int /\ r.InverseMass \in Int /\ r.Type \in BodyTypes
      /\ Scale \in Nat \ {0}
  BY ScaleAssumption DEF Bodies
<1> DEFINE f == Plus(r.Forces, g)
           u == Plus(r.Velocity, Accelerated(r, g))
<1>2. f \in Vectors /\ f.X \in Int /\ f.Y \in Int
  <2>1. f \in Vectors
    BY <1>1, PlusFacts
  <2> QED
    BY <2>1 DEF Vectors
<1>3. CASE r.Type = "Dynamic"
  <2>1. Integrated(r, g) = [r EXCEPT !.Velocity = u, !.Position = Plus(@, u), !.Forces = Zero]
    BY <1>3 DEF Integrated
  <2>2. Divides(Scale, f.X * r.InverseMass) /\ Divides(Scale, f.Y * r.InverseMass)
    BY <1>3 DEF WholeAcceleration
  <2> DEFINE ax == (f.X * r.InverseMass) \div Scale
             ay == (f.Y * r.InverseMass) \div Scale
  <2> HIDE DEF f
  <2>3. ax \in Int /\ ax * r.Mass = f.X
    <3>1. Acts(r.Mass, r.InverseMass, Scale, f.X)
      BY <1>1, <1>2, <1>3, <2>2, MassTimesShare
    <3> QED
      BY <3>1 DEF Acts
  <2>4. ay \in Int /\ ay * r.Mass = f.Y
    <3>1. Acts(r.Mass, r.InverseMass, Scale, f.Y)
      BY <1>1, <1>2, <1>3, <2>2, MassTimesShare
    <3> QED
      BY <3>1 DEF Acts
  <2>5. Accelerated(r, g) = Point(ax, ay)
    BY DEF Accelerated, f
  <2>6. g = Zero /\ r.Forces = Zero => ax = 0 /\ ay = 0
    <3>1. ASSUME g = Zero, r.Forces = Zero PROVE f.X = 0 /\ f.Y = 0
      BY <3>1 DEF f, Zero, Plus, Point
    <3>2. \A m \in Int : (0 * m) \div Scale = 0
      BY <1>1
    <3> QED
      BY <1>1, <3>1, <3>2
  <2> HIDE DEF ax, ay
  <2>7. /\ Accelerated(r, g) \in Vectors
        /\ Accelerated(r, g).X = ax /\ Accelerated(r, g).Y = ay
    BY <2>3, <2>4, <2>5, VectorOf
  <2>8. u \in Vectors /\ u.X = r.Velocity.X + ax /\ u.Y = r.Velocity.Y + ay
        /\ r.Velocity.X \in Int /\ r.Velocity.Y \in Int
    BY <1>1, <2>7, PlusFacts
  <2> HIDE DEF u
  <2>9. Plus(r.Position, u) \in Vectors /\ Zero \in Vectors
    <3>1. Zero \in Vectors
      BY DEF Zero, Point, Vectors
    <3> QED
      BY <1>1, <2>8, <3>1, PlusFacts
  <2>10. /\ Integrated(r, g) \in Bodies
         /\ Integrated(r, g).Velocity = u /\ Integrated(r, g).Forces = Zero
         /\ Integrated(r, g).Mass = r.Mass /\ Integrated(r, g).Type = r.Type
         /\ Integrated(r, g).InverseMass = r.InverseMass
    BY <2>1, <2>8, <2>9 DEF Bodies
  <2>11. Plus(Times(u, r.Mass), Zero) = Plus(Plus(Times(r.Velocity, r.Mass), r.Forces), g)
    <3>1. \A i, j \in Int : (i + j) * r.Mass = i * r.Mass + j * r.Mass
      BY <1>1
    <3>2. u.X * r.Mass = r.Velocity.X * r.Mass + f.X /\ u.Y * r.Mass = r.Velocity.Y * r.Mass + f.Y
      BY <2>3, <2>4, <2>8, <3>1
    <3>3. /\ f.X = r.Forces.X + g.X /\ f.Y = r.Forces.Y + g.Y
          /\ r.Forces.X \in Int /\ r.Forces.Y \in Int /\ g.X \in Int /\ g.Y \in Int
      BY <1>1, PlusFacts DEF f
    <3> DEFINE vx == r.Velocity.X * r.Mass
               vy == r.Velocity.Y * r.Mass
    <3>4. vx \in Int /\ vy \in Int
      BY <1>1, <2>8
    <3> HIDE DEF vx, vy
    <3>5. /\ u.X * r.Mass = vx + (r.Forces.X + g.X) /\ u.Y * r.Mass = vy + (r.Forces.Y + g.Y)
      BY <3>2, <3>3 DEF vx, vy
    <3>6. /\ u.X * r.Mass + 0 = (vx + r.Forces.X) + g.X
          /\ u.Y * r.Mass + 0 = (vy + r.Forces.Y) + g.Y
      BY <3>3, <3>4, <3>5
    <3> QED
      BY <3>6 DEF Plus, Times, Point, Zero, vx, vy
  <2>12. g = Zero /\ r.Forces = Zero => u = r.Velocity
    <3>1. ASSUME g = Zero, r.Forces = Zero PROVE u.X = r.Velocity.X /\ u.Y = r.Velocity.Y
      BY <2>6, <2>8, <3>1
    <3>2. \A p, q \in Vectors : p.X = q.X /\ p.Y = q.Y => p = q
      BY DEF Vectors
    <3> QED
      BY <1>1, <2>8, <3>1, <3>2
  <2> QED
    BY <1>3, <2>10, <2>11, <2>12
<1>4. CASE r.Type = "Kinematic"
  <2>1. Integrated(r, g) = [r EXCEPT !.Position = Plus(@, r.Velocity)]
    BY <1>4 DEF Integrated
  <2>2. Plus(r.Position, r.Velocity) \in Vectors
    BY <1>1, PlusFacts
  <2> QED
    BY <1>4, <2>1, <2>2 DEF Bodies
<1>5. CASE r.Type = "Static"
  BY <1>5 DEF Integrated
<1> QED
  BY <1>1, <1>3, <1>4, <1>5 DEF BodyTypes

-----------------------------------------------------------------------------
(* The invariant.                                                          *)

Pairing == {p \in Actors \X Actors : p[1] # p[2]}

Typed ==
  /\ gravity \in Vectors /\ forces \subseteq Vectors /\ given \in Vectors
  /\ IsFiniteSet(Actors) /\ AreBodies(body, Actors) /\ AreColliders(collider, Actors)

\* The pairs name two actors each, and between the Updates none is left.
Paired ==
  /\ colliderPairs \subseteq Pairing /\ newPairs \subseteq Pairing /\ todo \subseteq Pairing
  /\ phase = "idle" => todo = {}

\* Where the client applies no forces there are none.
Unforced == forces = {} => \A a \in Actors : body[a].Forces = Zero

IInv == Typed /\ Paired /\ Unforced /\ MomentumAccounted

LEMMA CarriedIs ==
  ASSUME TRUE
  PROVE  [a \in Actors |-> Plus(Momentum(a), body[a].Forces)] = Carried(body, Actors)
  BY DEF Momentum, Carried

LEMMA CarriedIsNext ==
  ASSUME TRUE
  PROVE  [a \in Actors |-> Plus(Momentum(a), body[a].Forces)]' = Carried(body', Actors')
  BY DEF Momentum, Carried

LEMMA ActorsStay ==
  ASSUME NEW A, NEW b, AreBodies(b, A)
  PROVE  DOMAIN b = A
  BY DEF AreBodies

LEMMA FunctionIs ==
  ASSUME NEW A, NEW V, NEW f \in [A -> V]
  PROVE  f = [a \in A |-> f[a]]
  OBVIOUS

\* The worlds are as the assumption says.
LEMMA InitHolds == Init => IInv
<1> SUFFICES ASSUME Init PROVE IInv
  OBVIOUS
<1>1. PICK w \in Worlds : /\ gravity = w.gravity /\ frames = w.frames /\ forces = w.forces
                          /\ body = w.body /\ collider = w.collider
  BY DEF Init
<1>2. IsWorld(w)
  BY WorldsAssumption
<1>3. /\ gravity \in Vectors /\ forces \subseteq Vectors
      /\ IsFiniteSet(Actors) /\ DOMAIN collider = Actors
      /\ \A a \in Actors :
           /\ body[a] \in Bodies /\ body[a].Forces = Zero
           /\ body[a].Type = "Dynamic" => body[a].Mass * body[a].InverseMass = Scale
           /\ collider[a].Restitution \in 0 .. Unit /\ IsShape(collider[a].Shape)
  BY <1>1, <1>2 DEF IsWorld, Actors
<1>4. AreColliders(collider, Actors)
  BY <1>3 DEF AreColliders
<1>5. AreBodies(body, Actors)
  <2>1. body = [a \in Actors |-> body[a]]
    BY <1>1, <1>2, FunctionIs DEF Actors, IsWorld
  <2>2. body \in [Actors -> Bodies]
    BY <1>3, <2>1
  <2> QED
    BY <1>3, <2>2 DEF AreBodies
<1>6. [a \in Actors |-> Momentum(a)] = Carried(body, Actors)
  <2>1. ASSUME NEW a \in Actors PROVE Plus(Momentum(a), body[a].Forces) = Momentum(a)
    <3>1. Momentum(a) \in Vectors
      BY <1>3, TimesFacts DEF Momentum, Bodies
    <3>2. \A p \in Vectors : Plus(p, Zero) = p
      BY DEF Plus, Zero, Point, Vectors
    <3> QED
      BY <1>3, <3>1, <3>2
  <2> QED
    BY <2>1 DEF Carried, Momentum
<1>7. given = Total(Carried(body, Actors))
  BY <1>6 DEF Init
<1>8. given \in Vectors
  <2>1. \A a \in Actors : Carried(body, Actors)[a] \in Vectors
    BY <1>5, CarriedTyped
  <2>2. Carried(body, Actors) \in [Actors -> Vectors]
    BY <1>5, CarriedTyped
  <2>3. PICK g : Sums(g, Carried(body, Actors), Actors, Vectors, AddVectors, Zero)
    BY <1>3, <2>1, VectorsAdd, SumsExist
  <2>4. Total(Carried(body, Actors)) = g[Actors]
    BY <1>3, <2>2, <2>3, TotalIsSum
  <2>5. g[Actors] \in Vectors
    <3>1. g \in [SUBSET Actors -> Vectors] /\ Actors \in SUBSET Actors
      BY <2>3 DEF Sums
    <3> QED
      BY <3>1
  <2> QED
    BY <1>7, <2>4, <2>5
<1>9. MomentumAccounted
  BY <1>7, CarriedIs DEF MomentumAccounted
<1> QED
  BY <1>3, <1>4, <1>5, <1>8, <1>9 DEF IInv, Typed, Paired, Unforced, Init

\* The steps that resolve a pair.
Resolution(p) ==
  /\ p \in todo /\ todo' = todo \ {p}
  /\ ~Throws(body, collider, p[1], p[2]) /\ WholeContact(body, collider, p[1], p[2])
  /\ body' \in Resolved(body, collider, p[1], p[2])
  /\ UNCHANGED <<setting, colliderPairs, phase, newPairs, frames, given>>

LEMMA ResolutionResult ==
  ASSUME IInv, NEW p, Resolution(p)
  PROVE  /\ p[1] \in Actors /\ p[2] \in Actors /\ p[1] # p[2]
         /\ Pair(body, collider, Actors, p[1], p[2])
         /\ \E r, j, v, w, d, e :
              Result(body', body, collider, Actors, p[1], p[2],
                     Toward(TheContact(body, collider, p[1], p[2]), p[1]), r, j, v, w, d, e)
<1>1. p[1] \in Actors /\ p[2] \in Actors /\ p[1] # p[2]
  BY DEF IInv, Paired, Pairing, Resolution
<1>2. Pair(body, collider, Actors, p[1], p[2])
  BY <1>1 DEF IInv, Typed, Pair
<1>3. Solvable(body, collider, Actors, p[1], p[2])
  BY <1>2 DEF Solvable, Resolution
<1>4. body' \in Resolved(body, collider, p[1], p[2])
  BY DEF Resolution
<1> QED
  BY <1>1, <1>2, <1>3, <1>4, ResultIs

LEMMA ResolutionHolds ==
  ASSUME IInv, NEW p, Resolution(p)
  PROVE  IInv'
<1>1. /\ p[1] \in Actors /\ p[2] \in Actors /\ p[1] # p[2]
  BY ResolutionResult
<1>2. PICK r, j, v, w, d, e :
        Result(body', body, collider, Actors, p[1], p[2],
               Toward(TheContact(body, collider, p[1], p[2]), p[1]), r, j, v, w, d, e)
  BY ResolutionResult
<1>3. Outcome(body', body, Actors, p[1], p[2],
              Toward(TheContact(body, collider, p[1], p[2]), p[1]), v, w, d, e)
  BY <1>2 DEF Result
<1>4. AreBodies(body', Actors)
  BY <1>3 DEF Outcome
<1>5. Actors' = Actors
  <2>1. DOMAIN body' = Actors
    BY <1>4 DEF AreBodies
  <2> QED
    BY <2>1 DEF Actors
<1>6. UNCHANGED <<gravity, collider, forces, given, colliderPairs, newPairs, phase>>
      /\ todo' \subseteq todo
  BY DEF Resolution, setting
<1>7. Typed'
  BY <1>4, <1>5, <1>6 DEF IInv, Typed
<1>8. Paired'
  BY <1>5, <1>6 DEF IInv, Paired, Pairing
<1>9. \A a \in Actors : SameSetting(body'[a], body[a])
  BY <1>3 DEF Outcome
<1>10. Unforced'
  BY <1>5, <1>6, <1>9 DEF IInv, Unforced, SameSetting
<1>11. MomentumAccounted'
  <2>1. SUFFICES ASSUME AllDynamic' PROVE Total(Carried(body', Actors')) = given'
    BY CarriedIsNext DEF MomentumAccounted
  <2>2. AllDynamic
    BY <1>5, <1>9, <2>1 DEF AllDynamic, IsDynamic, SameSetting
  <2>3. Total(Carried(body, Actors)) = given
    BY <2>2, CarriedIs DEF IInv, MomentumAccounted
  <2>4. body[p[1]].Mass * v = body[p[2]].Mass * w
    BY <1>1, <1>2, <2>2 DEF Result, BounceOf, Balanced, AllDynamic, IsDynamic
  <2>5. Total(Carried(body, Actors)) = Total(Carried(body', Actors))
    BY <1>1, <1>3, <2>4, CarriedKept DEF IInv, Typed
  <2> QED
    BY <1>5, <1>6, <2>3, <2>5
<1> QED
  BY <1>7, <1>8, <1>10, <1>11 DEF IInv

LEMMA ClientApplyForceHolds ==
  ASSUME IInv, NEW a \in Actors, NEW force \in forces, ClientApplyForce(a, force)
  PROVE  IInv'
<1>1. force \in Vectors /\ IsFiniteSet(Actors) /\ AreBodies(body, Actors)
  BY DEF IInv, Typed
<1>2. body' = [body EXCEPT ![a] = ApplyForce(@, force)] /\ given' = Plus(given, force)
  BY DEF ClientApplyForce
<1>3. /\ AreBodies(body', Actors) /\ (\A o \in Actors : body'[o].Type = body[o].Type)
      /\ Total(Carried(body', Actors)) = Plus(Total(Carried(body, Actors)), force)
  <2>1. Pushed(body', body, a, force)
    BY <1>2 DEF Pushed
  <2> QED
    BY <1>1, <2>1, PushedCarries
<1>4. Actors' = Actors
  BY <1>2 DEF Actors
<1>5. UNCHANGED <<gravity, collider, forces, colliderPairs, newPairs, phase, todo>>
  BY DEF ClientApplyForce, setting
<1>6. Typed'
  <2>1. given' \in Vectors
    BY <1>1, <1>2, PlusFacts DEF IInv, Typed
  <2> QED
    BY <1>3, <1>4, <1>5, <2>1 DEF IInv, Typed
<1>7. Paired'
  BY <1>4, <1>5 DEF IInv, Paired, Pairing
<1>8. Unforced'
  BY <1>5 DEF Unforced
<1>9. MomentumAccounted'
  <2>1. SUFFICES ASSUME AllDynamic' PROVE Total(Carried(body', Actors')) = given'
    BY CarriedIsNext DEF MomentumAccounted
  <2>2. AllDynamic
    BY <1>3, <1>4, <2>1 DEF AllDynamic, IsDynamic
  <2>3. Total(Carried(body, Actors)) = given
    BY <2>2, CarriedIs DEF IInv, MomentumAccounted
  <2> QED
    BY <1>2, <1>3, <1>4, <2>3
<1> QED
  BY <1>6, <1>7, <1>8, <1>9 DEF IInv

LEMMA BeginUpdateHolds ==
  ASSUME IInv, BeginUpdate
  PROVE  IInv'
<1>1. /\ IsFiniteSet(Actors) /\ AreBodies(body, Actors) /\ gravity \in Vectors
      /\ given \in Vectors
  BY DEF IInv, Typed
<1>2. body' = [a \in Actors |-> Integrated(body[a], gravity)]
  BY DEF BeginUpdate
<1>3. Actors' = Actors
  BY <1>2 DEF Actors
<1>4. ASSUME NEW a \in Actors
      PROVE  /\ body'[a] \in Bodies /\ body'[a].Mass = body[a].Mass
             /\ body'[a].InverseMass = body[a].InverseMass /\ body'[a].Type = body[a].Type
             /\ body'[a].Forces \in {body[a].Forces, Zero}
             /\ body[a].Type = "Dynamic" =>
                  Plus(Times(body'[a].Velocity, body'[a].Mass), body'[a].Forces)
                    = Plus(Plus(Times(body[a].Velocity, body[a].Mass), body[a].Forces), gravity)
  <2>1. body[a] \in Bodies /\ (body[a].Type = "Dynamic" => body[a].Mass * body[a].InverseMass = Scale)
    BY <1>1 DEF AreBodies
  <2>2. body[a].Type = "Dynamic" => WholeAcceleration(body[a], gravity)
    BY DEF BeginUpdate, IsDynamic
  <2>3. body'[a] = Integrated(body[a], gravity)
    BY <1>2
  <2> QED
    BY <1>1, <2>1, <2>2, <2>3, IntegratedFacts
<1>5. UNCHANGED <<gravity, collider, forces, colliderPairs>>
      /\ newPairs' \in Overlaps(body') /\ todo' = newPairs' /\ phase' = "enter"
  BY DEF BeginUpdate, setting
<1>6. given' = IF AllDynamic THEN Plus(given, Times(gravity, Cardinality(Actors))) ELSE given
  BY DEF BeginUpdate
<1>7. Typed'
  <2>1. AreBodies(body', Actors)
    <3>1. body' = [a \in Actors |-> body'[a]]
      BY <1>2
    <3>2. body' \in [Actors -> Bodies]
      BY <1>4, <3>1
    <3> QED
      BY <1>1, <1>4, <3>2 DEF AreBodies
  <2>2. given' \in Vectors
    <3>1. Cardinality(Actors) \in Int
      BY <1>1, FS_CardinalityType
    <3>2. Times(gravity, Cardinality(Actors)) \in Vectors
      BY <1>1, <3>1, TimesFacts
    <3> QED
      BY <1>1, <1>6, <3>2, PlusFacts
  <2> QED
    BY <1>3, <1>5, <2>1, <2>2 DEF IInv, Typed
<1>8. Paired'
  <2>1. newPairs' \subseteq Pairing
    BY <1>5 DEF Overlaps, Pairing
  <2> QED
    BY <1>3, <1>5, <2>1 DEF IInv, Paired, Pairing
<1>9. Unforced'
  <2>1. ASSUME forces = {}, NEW a \in Actors PROVE body'[a].Forces = Zero
    <3>1. body[a].Forces = Zero
      BY <2>1 DEF IInv, Unforced
    <3> QED
      BY <1>4, <3>1
  <2> QED
    BY <1>3, <1>5, <2>1 DEF Unforced
<1>10. MomentumAccounted'
  <2>1. SUFFICES ASSUME AllDynamic' PROVE Total(Carried(body', Actors')) = given'
    BY CarriedIsNext DEF MomentumAccounted
  <2>2. AllDynamic
    BY <1>3, <1>4, <2>1 DEF AllDynamic, IsDynamic
  <2>3. Total(Carried(body, Actors)) = given
    BY <2>2, CarriedIs DEF IInv, MomentumAccounted
  <2> DEFINE f == Carried(body, Actors)
             h == Carried(body', Actors)
  <2>4. \A a \in Actors : h[a] = Plus(f[a], gravity)
    BY <1>4, <2>2 DEF AllDynamic, IsDynamic, Carried
  <2>5. f \in [Actors -> Vectors] /\ h \in [Actors -> Vectors]
    <3>1. AreBodies(body', Actors)
      BY <1>3, <1>7 DEF Typed
    <3> QED
      BY <1>1, <3>1, CarriedTyped
  <2> HIDE DEF f, h
  <2>6. Total(h) = Plus(Total(f), Times(gravity, Cardinality(Actors)))
    BY <1>1, <2>4, <2>5, TotalShifted
  <2> QED
    BY <1>3, <1>6, <2>2, <2>3, <2>6 DEF f, h
<1> QED
  BY <1>7, <1>8, <1>9, <1>10 DEF IInv

LEMMA OthersHold ==
  ASSUME IInv, UNCHANGED <<gravity, collider, forces, body, given>>,
         colliderPairs' \subseteq Pairing, newPairs' \subseteq Pairing, todo' \subseteq Pairing,
         phase' = "idle" => todo' = {}
  PROVE  IInv'
<1>1. Actors' = Actors /\ Pairing' = Pairing
  BY DEF Actors, Pairing
<1>2. Typed' /\ Paired' /\ Unforced'
  BY <1>1 DEF IInv, Typed, Paired, Unforced
<1>3. MomentumAccounted'
  BY <1>1 DEF IInv, MomentumAccounted, AllDynamic, IsDynamic, Momentum
<1> QED
  BY <1>2, <1>3 DEF IInv

\* The steps of a loop: those that resolve the pair, and those that pass over it.
LEMMA LoopSteps ==
  ASSUME NEW p, EnterLoopStep(p) \/ ExitLoopStep(p)
  PROVE  \/ Resolution(p)
         \/ /\ phase = "exit" /\ Known(p, newPairs) /\ todo' = todo \ {p}
            /\ UNCHANGED <<setting, body, colliderPairs, phase, newPairs, frames, given>>
  BY DEF EnterLoopStep, ExitLoopStep, Resolution

LEMMA NextHolds == IInv /\ [Next]_vars => IInv'
<1> SUFFICES ASSUME IInv, [Next]_vars PROVE IInv'
  OBVIOUS
<1>1. CASE BeginUpdate
  BY <1>1, BeginUpdateHolds
<1>2. CASE \E p \in todo : EnterLoopStep(p) \/ ExitLoopStep(p)
  <2>1. PICK p \in todo : EnterLoopStep(p) \/ ExitLoopStep(p)
    BY <1>2
  <2>2. CASE Resolution(p)
    BY <2>2, ResolutionHolds
  <2>3. CASE /\ todo' = todo \ {p}
             /\ UNCHANGED <<setting, body, colliderPairs, phase, newPairs, frames, given>>
    BY <2>3, OthersHold DEF IInv, Paired, setting
  <2> QED
    BY <2>1, <2>2, <2>3, LoopSteps
<1>3. CASE BeginExitLoop
  BY <1>3, OthersHold DEF IInv, Paired, setting, BeginExitLoop
<1>4. CASE EndUpdate
  BY <1>4, OthersHold DEF IInv, Paired, setting, EndUpdate
<1>5. CASE \E a \in Actors, force \in forces : ClientApplyForce(a, force)
  BY <1>5, ClientApplyForceHolds
<1>6. CASE \E p \in todo : ResolveThrows(p)
  BY <1>6, OthersHold DEF IInv, Paired, setting, ResolveThrows
<1>7. CASE UNCHANGED vars
  BY <1>7, OthersHold DEF IInv, Paired, setting, vars
<1> QED
  BY <1>1, <1>2, <1>3, <1>4, <1>5, <1>6, <1>7 DEF Next, UpdateStep

\* The bodies, colliders and pairs are of their types, no Update is between two
\* frames, and the bodies that can all move have together the momentum that forces
\* and gravity gave them.
THEOREM InvariantHolds == Spec => []IInv
<1>1. Init => IInv
  BY InitHolds
<1>2. IInv /\ [Next]_vars => IInv'
  BY NextHolds
<1> QED
  BY <1>1, <1>2, PTL DEF Spec

\* World::Update and ContactSolver, for any bodies, shapes, masses and restitutions:
\* a force acts once, gravity once a frame, and contacts create no momentum.
THEOREM MomentumIsAccounted == Spec => []MomentumAccounted
<1>1. IInv => MomentumAccounted
  BY DEF IInv
<1> QED
  BY <1>1, InvariantHolds, PTL

-----------------------------------------------------------------------------
(* The velocities after a resolution.                                      *)

\* A step in which p is resolved is one of the loops' steps, for p.
LEMMA ResolvesIs ==
  ASSUME IInv, [Next]_vars, NEW p \in todo, Resolves(p)
  PROVE  Resolution(p)
<1>1. p \notin todo' /\ (phase = "enter" \/ ~Known(p, newPairs)) /\ todo # {}
  BY DEF Resolves
<1>2. CASE BeginUpdate
  BY <1>1, <1>2 DEF BeginUpdate, IInv, Paired
<1>3. CASE \E q \in todo : EnterLoopStep(q) \/ ExitLoopStep(q)
  <2>1. PICK q \in todo : EnterLoopStep(q) \/ ExitLoopStep(q)
    BY <1>3
  <2>2. todo' = todo \ {q}
    BY <2>1 DEF EnterLoopStep, ExitLoopStep
  <2>3. q = p
    BY <1>1, <2>2
  <2>4. EnterLoopStep(p) \/ ExitLoopStep(p)
    BY <2>1, <2>3
  <2>5. \/ Resolution(p)
        \/ phase = "exit" /\ Known(p, newPairs)
    BY <2>4, LoopSteps
  <2> QED
    BY <1>1, <2>5
<1>4. CASE BeginExitLoop
  BY <1>1, <1>4 DEF BeginExitLoop
<1>5. CASE EndUpdate
  BY <1>1, <1>5 DEF EndUpdate
<1>6. CASE \E a \in Actors, force \in forces : ClientApplyForce(a, force)
  BY <1>1, <1>6 DEF ClientApplyForce
<1>7. CASE \E q \in todo : ResolveThrows(q)
  BY <1>1, <1>7 DEF ResolveThrows
<1>8. CASE UNCHANGED vars
  BY <1>1, <1>8 DEF vars
<1> QED
  BY <1>2, <1>3, <1>4, <1>5, <1>6, <1>7, <1>8 DEF Next, UpdateStep

LEMMA ContactOfIs ==
  ASSUME NEW p, Pair(body, collider, Actors, p[1], p[2])
  PROVE  /\ ContactOf(p) = TheContact(body, collider, p[1], p[2])
         /\ Depth(p) = TheContact(body, collider, p[1], p[2]).Penetration
         /\ Apart(p) = Toward(TheContact(body, collider, p[1], p[2]), p[1])
<1>1. ContactProperties(body, collider, p[1], p[2]) = {TheContact(body, collider, p[1], p[2])}
  BY ContactIsThe
<1>2. ContactOf(p) = TheContact(body, collider, p[1], p[2])
  BY <1>1 DEF ContactOf
<1> QED
  BY <1>2 DEF Depth, Apart, Toward

LEMMA MovableIsDriven ==
  ASSUME NEW p, Movable(p)
  PROVE  Driven(body, p[1], p[2])
  BY DEF Movable, WellSet, IsDynamic, Driven

\* The speed of x from y after the kick.
LEMMA LeavingAfter ==
  ASSUME NEW A, NEW b, AreBodies(b, A), NEW x \in A, NEW y \in A,
         NEW b2, NEW n \in UnitVectors, NEW v, NEW w, NEW d, NEW e,
         Outcome(b2, b, A, x, y, n, v, w, d, e)
  PROVE  /\ Leaving(b, x, y, n) \in Int /\ v + w \in Int
         /\ Leaving(b2, x, y, n) = Leaving(b, x, y, n) + (v + w)
<1> DEFINE p == b[x].Velocity
           q == b[y].Velocity
<1>1. p \in Vectors /\ q \in Vectors /\ n \in Vectors /\ v \in Int /\ w \in Int
  BY DEF AreBodies, Bodies, Outcome
<1>2. b2[x].Velocity = Plus(p, Times(n, v)) /\ b2[y].Velocity = Plus(q, Times(n, - w))
  BY DEF Outcome
<1>3. Leaving(b, x, y, n) = Dot(Minus(p, q), n)
  BY DEF Leaving
<1>4. Leaving(b2, x, y, n) = Dot(Minus(Plus(p, Times(n, v)), Plus(q, Times(n, - w))), n)
  BY <1>2 DEF Leaving
<1> HIDE DEF p, q
<1>5. \/ (n.X = 0 /\ n.Y = 1) \/ (n.X = 0 /\ n.Y = -1)
      \/ (n.X = 1 /\ n.Y = 0) \/ (n.X = -1 /\ n.Y = 0)
  BY DEF UnitVectors
<1>6. p.X \in Int /\ p.Y \in Int /\ q.X \in Int /\ q.Y \in Int
  BY <1>1 DEF Vectors
<1>7. Leaving(b, x, y, n) = (p.X - q.X) * n.X + (p.Y - q.Y) * n.Y
  BY <1>3 DEF Dot, Minus, Point
<1>8. Leaving(b2, x, y, n) = ((p.X + n.X * v) - (q.X + n.X * (- w))) * n.X
                               + ((p.Y + n.Y * v) - (q.Y + n.Y * (- w))) * n.Y
  BY <1>4 DEF Dot, Minus, Plus, Times, Point
<1> QED
  BY <1>1, <1>5, <1>6, <1>7, <1>8

LEMMA SeparatingIsLeaving ==
  ASSUME NEW p, NEW b, p[1] \in Actors, p[2] \in Actors
  PROVE  Separating(p, Velocities(b)) = Leaving(b, p[1], p[2], Apart(p))
  BY DEF Separating, Velocities, Leaving

\* What a step that resolves p does to the bodies of p.
LEMMA ResolvedStep ==
  ASSUME IInv, [Next]_vars, NEW p \in todo, Resolves(p)
  PROVE  /\ p[1] \in Actors /\ p[2] \in Actors /\ p[1] # p[2]
         /\ Pair(body, collider, Actors, p[1], p[2])
         /\ \E r, j, v, w, d, e :
              /\ Result(body', body, collider, Actors, p[1], p[2], Apart(p), r, j, v, w, d, e)
              /\ Outcome(body', body, Actors, p[1], p[2], Apart(p), v, w, d, e)
              /\ Apart(p) \in UnitVectors
         /\ ~Throws(body, collider, p[1], p[2])
<1>1. Resolution(p)
  BY ResolvesIs
<1>2. /\ p[1] \in Actors /\ p[2] \in Actors /\ p[1] # p[2]
      /\ Pair(body, collider, Actors, p[1], p[2])
  BY <1>1, ResolutionResult
<1>3. PICK r, j, v, w, d, e :
        Result(body', body, collider, Actors, p[1], p[2],
               Toward(TheContact(body, collider, p[1], p[2]), p[1]), r, j, v, w, d, e)
  BY <1>1, ResolutionResult
<1>4. Apart(p) = Toward(TheContact(body, collider, p[1], p[2]), p[1])
  BY <1>2, ContactOfIs
<1>5. Result(body', body, collider, Actors, p[1], p[2], Apart(p), r, j, v, w, d, e)
  BY <1>3, <1>4
<1>6. /\ Outcome(body', body, Actors, p[1], p[2], Apart(p), v, w, d, e)
      /\ Apart(p) \in UnitVectors
  BY <1>5 DEF Result
<1>7. ~Throws(body, collider, p[1], p[2])
  BY <1>1 DEF Resolution
<1> QED
  BY <1>2, <1>5, <1>6, <1>7

\* The speeds before and after.
LEMMA SpeedsAre ==
  ASSUME IInv, [Next]_vars, NEW p \in todo, Resolves(p), Movable(p)
  PROVE  \E s, r, j, v, w : /\ s = Separating(p, Velocities(body))
                            /\ Separating(p, Velocities(body')) = s + j
                            /\ BounceOf(body, collider, p[1], p[2], s, r, j, v, w)
<1>1. /\ p[1] \in Actors /\ p[2] \in Actors /\ p[1] # p[2]
      /\ Pair(body, collider, Actors, p[1], p[2])
  BY ResolvedStep
<1>2. PICK r, j, v, w, d, e :
        /\ Result(body', body, collider, Actors, p[1], p[2], Apart(p), r, j, v, w, d, e)
        /\ Outcome(body', body, Actors, p[1], p[2], Apart(p), v, w, d, e)
        /\ Apart(p) \in UnitVectors
  BY ResolvedStep
<1> DEFINE s == Leaving(body, p[1], p[2], Apart(p))
<1>3. BounceOf(body, collider, p[1], p[2], s, r, j, v, w)
  BY <1>2 DEF Result
<1>4. Leaving(body', p[1], p[2], Apart(p)) = s + (v + w)
  BY <1>1, <1>2, LeavingAfter DEF Pair
<1>5. v + w = j
  BY <1>3, MovableIsDriven DEF BounceOf
<1>6. /\ Separating(p, Velocities(body)) = s
      /\ Separating(p, Velocities(body')) = Leaving(body', p[1], p[2], Apart(p))
  BY <1>1, SeparatingIsLeaving
<1> QED
  BY <1>3, <1>4, <1>5, <1>6

LEMMA WeightedBounce ==
  ASSUME NEW m \in Int, NEW r \in Int, NEW t \in Int, NEW s \in Int, NEW u \in Int,
         r * m = t, 8 * u = - (s * r)
  PROVE  m * 8 * u = - t * s
<1>1. m * 8 * u = m * (8 * u)
  OBVIOUS
<1>2. m * (- (s * r)) = - ((r * m) * s)
  OBVIOUS
<1> QED
  BY <1>1, <1>2

\* BounceIsOwn for one pair.
Bounces(p) ==
  LET m(i) == body[p[i]].Mass
      e(i) == collider[p[i]].Restitution
      before == Separating(p, Velocities(body))
      after == Separating(p, Velocities(body'))
  IN  before <= 0 =>
        (m(1) + m(2)) * Unit * after = - (m(1) * e(1) + m(2) * e(2)) * before

LEMMA BouncesIts ==
  ASSUME IInv, [Next]_vars, NEW p \in todo, Resolves(p), Movable(p),
         \A a \in {p[1], p[2]} : body[a].Type # "Static"
  PROVE  Bounces(p)
<1> DEFINE before == Separating(p, Velocities(body))
           after == Separating(p, Velocities(body'))
           m == body[p[1]].Mass + body[p[2]].Mass
           t == body[p[1]].Mass * collider[p[1]].Restitution
                  + body[p[2]].Mass * collider[p[2]].Restitution
<1>1. PICK s, r, j, v, w : /\ s = before /\ after = s + j
                           /\ BounceOf(body, collider, p[1], p[2], s, r, j, v, w)
  BY SpeedsAre
<1>2. SUFFICES ASSUME s <= 0 PROVE m * Unit * after = - t * before
  BY <1>1 DEF Bounces
<1>3. /\ s \in Int /\ j \in Int /\ r \in 0 .. 8 /\ 8 * (s + j) = - (s * r)
      /\ r * m = t
  <2>1. Bounce(s, r, j) /\ r * m = t
    BY <1>1, <1>2 DEF BounceOf
  <2> HIDE DEF m, t
  <2> QED
    BY <1>2, <2>1 DEF Bounce, Unit
<1>4. m \in Int /\ t \in Int
  <2>1. Pair(body, collider, Actors, p[1], p[2])
    BY ResolvedStep
  <2>2. /\ body[p[1]].Mass \in Int /\ body[p[2]].Mass \in Int
        /\ collider[p[1]].Restitution \in Int /\ collider[p[2]].Restitution \in Int
    BY <2>1 DEF Pair, AreBodies, AreColliders, Bodies, Unit
  <2> QED
    BY <2>2
<1> HIDE DEF m, t, before, after
<1>5. after \in Int /\ 8 * after = - (s * r) /\ r \in Int
  BY <1>1, <1>3
<1>6. m * 8 * after = - t * s
  BY <1>3, <1>4, <1>5, WeightedBounce
<1> QED
  BY <1>1, <1>6 DEF Unit

\* ContactSolver::CombinedRestitution, for two dynamic bodies: the bounce is the mean
\* of the two restitutions, each weighted with the mass of its own body.
THEOREM BounceIsItsOwn == Spec => BounceIsOwn
<1>1. IInv /\ [Next]_vars
        => [ \A p \in todo :
               Resolves(p) /\ Movable(p) /\ (\A a \in {p[1], p[2]} : IsDynamic(a))
                 => LET m(i) == body[p[i]].Mass
                        e(i) == collider[p[i]].Restitution
                        before == Separating(p, Velocities(body))
                        after == Separating(p, Velocities(body'))
                    IN  before <= 0 =>
                          (m(1) + m(2)) * Unit * after = - (m(1) * e(1) + m(2) * e(2)) * before ]_vars
  <2>1. ASSUME IInv, [Next]_vars, NEW p \in todo, Resolves(p), Movable(p),
               \A a \in {p[1], p[2]} : IsDynamic(a)
        PROVE  Bounces(p)
    BY <2>1, BouncesIts DEF IsDynamic
  <2> QED
    BY <2>1 DEF Bounces
<1> QED
  BY <1>1, InvariantHolds, PTL DEF Spec, BounceIsOwn

-----------------------------------------------------------------------------
(* The direction of a contact.                                             *)

MiddleOf(s) == IF s.Kind = "Circle" THEN s.Center ELSE Center(s)

\* The vector d points nowhere q does not.
Leads(d, q) ==
  /\ d.X > 0 => q.X >= 0
  /\ d.X < 0 => q.X <= 0
  /\ d.Y > 0 => q.Y >= 0
  /\ d.Y < 0 => q.Y <= 0

LEMMA LeadsFacts ==
  ASSUME NEW d \in Vectors, NEW q \in Vectors, Leads(d, q)
  PROVE  Dot(Normalized(d), q) >= 0
<1>1. d.X \in Int /\ d.Y \in Int /\ q.X \in Int /\ q.Y \in Int
  BY DEF Vectors
<1>2. Normalized(d).X = Sign(d.X) /\ Normalized(d).Y = Sign(d.Y)
  BY NormalizedFacts
<1>3. Sign(d.X) * q.X >= 0 /\ Sign(d.X) * q.X \in Int
  BY <1>1 DEF Sign, Leads
<1>4. Sign(d.Y) * q.Y >= 0 /\ Sign(d.Y) * q.Y \in Int
  BY <1>1 DEF Sign, Leads
<1>5. \A i, j \in Int : i >= 0 /\ j >= 0 => i + j >= 0
  OBVIOUS
<1> QED
  BY <1>2, <1>3, <1>4, <1>5 DEF Dot

LEMMA CirclesLead ==
  ASSUME NEW a, NEW b, NEW s, NEW t, IsCircle(s), IsCircle(t)
  PROVE  Dot(CircleCircleContact(a, b, s, t).Normal, Minus(s.Center, t.Center)) >= 0
<1>1. Delta(s, t) = Minus(s.Center, t.Center) /\ Delta(s, t) \in Vectors
  BY MinusFacts DEF Delta, IsCircle
<1>2. Leads(Delta(s, t), Delta(s, t))
  BY <1>1 DEF Leads, Vectors
<1>3. CircleCircleContact(a, b, s, t).Normal = Normalized(Delta(s, t))
  BY ContactFields DEF CircleCircleContact
<1> QED
  BY <1>1, <1>2, <1>3, LeadsFacts

\* What is left of n when it is clamped.
Rest(n, h, r) ==
  /\ r \in Int
  /\ r > 0 => n > 0 /\ r = n - h
  /\ r < 0 => n < 0 /\ r = n + h
  /\ r = 0 => n <= h /\ n >= - h

LEMMA Clamped ==
  ASSUME NEW n \in Int, NEW h \in Int, h >= 0
  PROVE  Rest(n, h, n - Clamp(n, h))
  BY DEF Clamp, Rest

\* A circle that has no closest point but its own centre is in the rectangle.
LEMMA CircleRectangleLeads ==
  ASSUME NEW a, NEW b, NEW s, NEW t, IsCircle(s), IsBox(t)
  PROVE  \/ RectangleContains(t, s.Center)
         \/ /\ ToCircle(s, t) # Zero
            /\ Dot(CircleRectangleContact(a, b, s, t).Normal, Minus(s.Center, Center(t))) >= 0
<1> DEFINE q == Minus(s.Center, Center(t))
           h == HalfSize(t)
           d == ToCircle(s, t)
<1>1. s.Center \in Vectors /\ Center(t) \in Vectors /\ h \in Vectors /\ h.X >= 0 /\ h.Y >= 0
  BY BoxFacts DEF IsCircle
<1>2. /\ q \in Vectors /\ q.X = s.Center.X - Center(t).X /\ q.Y = s.Center.Y - Center(t).Y
      /\ q.X \in Int /\ q.Y \in Int /\ h.X \in Int /\ h.Y \in Int
      /\ s.Center.X \in Int /\ s.Center.Y \in Int /\ Center(t).X \in Int /\ Center(t).Y \in Int
  BY <1>1, MinusFacts DEF Vectors
<1>3. d \in Vectors /\ d.X = q.X - Clamp(q.X, h.X) /\ d.Y = q.Y - Clamp(q.Y, h.Y)
  BY ToCircleFacts
<1>4. /\ t.Min.X = Center(t).X - h.X
      /\ t.Max.X \in {Center(t).X + h.X, Center(t).X + h.X + 1}
      /\ t.Min.Y = Center(t).Y - h.Y
      /\ t.Max.Y \in {Center(t).Y + h.Y, Center(t).Y + h.Y + 1}
  BY BoxFacts
<1> HIDE DEF q, h, d
<1>5. Rest(q.X, h.X, d.X) /\ Rest(q.Y, h.Y, d.Y)
  BY <1>1, <1>2, <1>3, Clamped
<1>6. CASE d = Zero
  <2>1. d.X = 0 /\ d.Y = 0
    BY <1>6 DEF Zero, Point
  <2>2. q.X <= h.X /\ q.X >= - h.X /\ q.Y <= h.Y /\ q.Y >= - h.Y
    BY <1>2, <1>5, <2>1 DEF Rest
  <2>3. t.Max.X >= s.Center.X /\ t.Min.X <= s.Center.X
    BY <1>2, <1>4, <2>2
  <2>4. t.Max.Y >= s.Center.Y /\ t.Min.Y <= s.Center.Y
    BY <1>2, <1>4, <2>2
  <2> QED
    BY <2>3, <2>4 DEF RectangleContains
<1>7. CASE d # Zero
  <2>1. Leads(d, q)
    <3>1. (d.X > 0 => q.X > 0) /\ (d.X < 0 => q.X < 0)
      BY <1>5 DEF Rest
    <3>2. (d.Y > 0 => q.Y > 0) /\ (d.Y < 0 => q.Y < 0)
      BY <1>5 DEF Rest
    <3> QED
      BY <1>2, <3>1, <3>2 DEF Leads
  <2>2. CircleRectangleContact(a, b, s, t).Normal = Normalized(d)
    BY <1>7, ContactFields DEF CircleRectangleContact, d
  <2>3. Dot(Normalized(d), q) >= 0
    BY <1>2, <1>3, <2>1, LeadsFacts
  <2> QED
    BY <1>7, <2>2, <2>3 DEF q, d
<1> QED
  BY <1>6, <1>7

LEMMA RectanglesLead ==
  ASSUME NEW a, NEW b, NEW s, NEW t, IsBox(s), IsBox(t)
  PROVE  Dot(RectangleRectangleContact(a, b, s, t).Normal, Minus(Center(s), Center(t))) >= 0
<1> DEFINE q == Minus(Center(s), Center(t))
           n == RectangleRectangleContact(a, b, s, t).Normal
<1>1. Center(s) \in Vectors /\ Center(t) \in Vectors
  BY BoxFacts
<1>2. /\ q.X = Center(s).X - Center(t).X /\ q.Y = Center(s).Y - Center(t).Y
      /\ q \in Vectors /\ q.X \in Int /\ q.Y \in Int
  BY <1>1, MinusFacts DEF Vectors
<1>3. \/ n = Point(IF q.X > 0 THEN 1 ELSE -1, 0)
      \/ n = Point(0, IF q.Y > 0 THEN 1 ELSE -1)
  BY <1>2, RectanglesContact
<1> HIDE DEF q, n
<1>4. CASE n = Point(IF q.X > 0 THEN 1 ELSE -1, 0)
  <2>1. n.X = (IF q.X > 0 THEN 1 ELSE -1) /\ n.Y = 0
    BY <1>4 DEF Point
  <2> QED
    BY <1>2, <2>1 DEF Dot, q, n
<1>5. CASE n = Point(0, IF q.Y > 0 THEN 1 ELSE -1)
  <2>1. n.Y = (IF q.Y > 0 THEN 1 ELSE -1) /\ n.X = 0
    BY <1>5 DEF Point
  <2> QED
    BY <1>2, <2>1 DEF Dot, q, n
<1> QED
  BY <1>3, <1>4, <1>5

\* A circle of the two has its centre in the other, a rectangle.
Sunk(b, k, x, y) ==
  \E a, o \in {x, y} :
    LET s == Placed(b, k, a) t == Placed(b, k, o)
    IN  s.Kind = "Circle" /\ t.Kind = "Rectangle" /\ RectangleContains(t, s.Center)

LEMMA DotTurned ==
  ASSUME NEW n \in Vectors, NEW p \in Vectors, NEW q \in Vectors
  PROVE  Dot(Times(n, -1), Minus(p, q)) = Dot(n, Minus(q, p))
  BY DEF Dot, Times, Minus, Point, Vectors

LEMMA ContactLeads ==
  ASSUME NEW A, NEW b, NEW k, NEW x, NEW y, Pair(b, k, A, x, y), ~Throws(b, k, x, y),
         ~Sunk(b, k, x, y)
  PROVE  Dot(Toward(TheContact(b, k, x, y), x),
             Minus(MiddleOf(Placed(b, k, x)), MiddleOf(Placed(b, k, y)))) >= 0
<1> DEFINE s == Placed(b, k, x)
           t == Placed(b, k, y)
           c == TheContact(b, k, x, y)
<1>1. /\ (IsCircle(s) /\ s.Kind = "Circle") \/ (IsBox(s) /\ s.Kind = "Rectangle")
      /\ (IsCircle(t) /\ t.Kind = "Circle") \/ (IsBox(t) /\ t.Kind = "Rectangle")
  BY PlacedShape DEF Pair
<1>2. x # y /\ c.Normal \in Vectors
  BY TheContactJoins DEF Joins, Pair
<1>3. CASE s.Kind = "Circle" /\ t.Kind = "Circle"
  <2>1. c = CircleCircleContact(x, y, s, t)
    BY <1>3 DEF TheContact
  <2>2. c.BodyA = x
    BY <2>1, ContactFields DEF CircleCircleContact
  <2>3. IsCircle(s) /\ IsCircle(t) /\ MiddleOf(s) = s.Center /\ MiddleOf(t) = t.Center
    BY <1>1, <1>3 DEF MiddleOf
  <2> QED
    BY <2>1, <2>2, <2>3, CirclesLead DEF Toward
<1>4. CASE s.Kind = "Circle" /\ t.Kind # "Circle"
  <2>1. c = CircleRectangleContact(x, y, s, t)
    BY <1>4 DEF TheContact
  <2>2. c.BodyA = x
    BY <2>1, ContactFields DEF CircleRectangleContact
  <2>3. /\ IsCircle(s) /\ IsBox(t) /\ t.Kind = "Rectangle"
        /\ MiddleOf(s) = s.Center /\ MiddleOf(t) = Center(t)
    BY <1>1, <1>4 DEF MiddleOf
  <2>4. ~RectangleContains(t, s.Center)
    BY <1>4, <2>3 DEF Sunk
  <2> QED
    BY <2>1, <2>2, <2>3, <2>4, CircleRectangleLeads DEF Toward
<1>5. CASE s.Kind # "Circle" /\ t.Kind = "Circle"
  <2>1. c = CircleRectangleContact(y, x, t, s)
    BY <1>5 DEF TheContact
  <2>2. c.BodyA = y
    BY <2>1, ContactFields DEF CircleRectangleContact
  <2>3. /\ IsCircle(t) /\ IsBox(s) /\ s.Kind = "Rectangle"
        /\ MiddleOf(t) = t.Center /\ MiddleOf(s) = Center(s)
    BY <1>1, <1>5 DEF MiddleOf
  <2>4. ~RectangleContains(s, t.Center)
    BY <1>5, <2>3 DEF Sunk
  <2>5. Dot(c.Normal, Minus(t.Center, Center(s))) >= 0
    BY <2>1, <2>3, <2>4, CircleRectangleLeads
  <2>6. t.Center \in Vectors /\ Center(s) \in Vectors
    BY <2>3, BoxFacts DEF IsCircle
  <2>7. Toward(c, x) = Times(c.Normal, -1)
    BY <1>2, <2>2 DEF Toward
  <2> QED
    BY <1>2, <2>3, <2>5, <2>6, <2>7, DotTurned
<1>6. CASE s.Kind # "Circle" /\ t.Kind # "Circle"
  <2>1. c = RectangleRectangleContact(x, y, s, t)
    BY <1>6 DEF TheContact
  <2>2. IsBox(s) /\ IsBox(t) /\ MiddleOf(s) = Center(s) /\ MiddleOf(t) = Center(t)
    BY <1>1, <1>6 DEF MiddleOf
  <2>3. c.BodyA = x
    BY <2>1, <2>2, RectanglesContact
  <2> QED
    BY <2>1, <2>2, <2>3, RectanglesLead DEF Toward
<1> QED
  BY <1>1, <1>3, <1>4, <1>5, <1>6

LEMMA StopsApproach ==
  ASSUME IInv, [Next]_vars, NEW p \in todo, Resolves(p), Movable(p)
  PROVE  Separating(p, Velocities(body')) >= 0
<1>1. PICK s, r, j, v, w : /\ s = Separating(p, Velocities(body))
                           /\ Separating(p, Velocities(body')) = s + j
                           /\ BounceOf(body, collider, p[1], p[2], s, r, j, v, w)
  BY SpeedsAre
<1>2. Bounce(s, r, j)
  BY <1>1 DEF BounceOf
<1>3. s + j >= 0
  BY <1>2 DEF Bounce
<1> QED
  BY <1>1, <1>3

LEMMA LeadsApart ==
  ASSUME IInv, [Next]_vars, NEW p \in todo, Resolves(p), ~Deep(p)
  PROVE  Dot(Apart(p), Minus(Middle(p[1]), Middle(p[2]))) >= 0
<1>1. Pair(body, collider, Actors, p[1], p[2]) /\ ~Throws(body, collider, p[1], p[2])
  BY ResolvedStep
<1>2. ~Sunk(body, collider, p[1], p[2])
  BY DEF Deep, Sunk
<1>3. Apart(p) = Toward(TheContact(body, collider, p[1], p[2]), p[1])
  BY <1>1, ContactOfIs
<1>4. /\ Middle(p[1]) = MiddleOf(Placed(body, collider, p[1]))
      /\ Middle(p[2]) = MiddleOf(Placed(body, collider, p[2]))
  BY DEF Middle, MiddleOf
<1> QED
  BY <1>1, <1>2, <1>3, <1>4, ContactLeads

\* ContactSolver::ResolveContact leaves no two bodies that are to collide approaching
\* each other, and the direction in which they do not leads from the one to the other.
THEOREM ApproachIsStopped == Spec => ApproachStopped
<1>1. IInv /\ [Next]_vars
        => [ \A p \in todo :
               Resolves(p) /\ Collides(p)
                 => /\ Separating(p, Velocities(body')) >= 0
                    /\ ~Deep(p) => Dot(Apart(p), Minus(Middle(p[1]), Middle(p[2]))) >= 0 ]_vars
  BY StopsApproach, LeadsApart DEF Collides
<1> QED
  BY <1>1, InvariantHolds, PTL DEF Spec, ApproachStopped

-----------------------------------------------------------------------------
(* Energy.                                                                 *)

\* The energy of motion of each body.
Motion(b, A) == [a \in A |-> b[a].Mass * SquareLength(b[a].Velocity)]

LEMMA MotionTyped ==
  ASSUME NEW A, NEW b, AreBodies(b, A)
  PROVE  Motion(b, A) \in [A -> Int]
<1>1. ASSUME NEW a \in A PROVE b[a].Mass * SquareLength(b[a].Velocity) \in Int
  <2>1. b[a].Mass \in Int /\ b[a].Velocity \in Vectors
    BY DEF AreBodies, Bodies
  <2>2. SquareLength(b[a].Velocity) \in Int
    BY <2>1 DEF SquareLength, Dot, Vectors
  <2> QED
    BY <2>1, <2>2
<1> QED
  BY <1>1 DEF Motion

\* The square of a velocity u after a kick k in the direction n.
Squared(u, n, k, o) == SquareLength(o) = SquareLength(u) + 2 * k * Dot(u, n) + k * k

LEMMA SquareKicked ==
  ASSUME NEW u \in Vectors, NEW n \in UnitVectors, NEW k \in Int
  PROVE  /\ Squared(u, n, k, Plus(u, Times(n, k)))
         /\ SquareLength(u) \in Int /\ Dot(u, n) \in Int
<1>1. /\ u.X \in Int /\ u.Y \in Int /\ n.X \in Int /\ n.Y \in Int
      /\ \/ (n.X = 0 /\ n.Y = 1) \/ (n.X = 0 /\ n.Y = -1)
         \/ (n.X = 1 /\ n.Y = 0) \/ (n.X = -1 /\ n.Y = 0)
  BY DEF UnitVectors, Vectors
<1>2. SquareLength(u) = u.X * u.X + u.Y * u.Y /\ Dot(u, n) = u.X * n.X + u.Y * n.Y
  BY DEF SquareLength, Dot
<1>3. SquareLength(Plus(u, Times(n, k)))
        = (u.X + n.X * k) * (u.X + n.X * k) + (u.Y + n.Y * k) * (u.Y + n.Y * k)
  BY DEF SquareLength, Dot, Plus, Times, Point
<1>4. CASE n.X = 0 /\ n.Y = 1
  BY <1>1, <1>2, <1>3, <1>4 DEF Squared
<1>5. CASE n.X = 0 /\ n.Y = -1
  BY <1>1, <1>2, <1>3, <1>5 DEF Squared
<1>6. CASE n.X = 1 /\ n.Y = 0
  BY <1>1, <1>2, <1>3, <1>6 DEF Squared
<1>7. CASE n.X = -1 /\ n.Y = 0
  BY <1>1, <1>2, <1>3, <1>7 DEF Squared
<1>8. SquareLength(u) \in Int /\ Dot(u, n) \in Int
  BY <1>1, <1>2
<1> QED
  BY <1>1, <1>4, <1>5, <1>6, <1>7, <1>8

\* Of two bodies: m and o are their masses, f and g the squares of their
\* velocities, p and q the velocities along the normal, v and w the kicks.
Gain(m, o, f, g, p, q, v, w) ==
  (m * (f + 2 * v * p + v * v) + o * (g + 2 * (- w) * q + (- w) * (- w))) - (m * f + o * g)

\* i is the momentum exchanged.
Gains(m, o, f, g, p, q, v, w, i) ==
  Gain(m, o, f, g, p, q, v, w) = i * (2 * (p - q) + (v + w))

LEMMA GainOfTwo ==
  ASSUME NEW m \in Int, NEW o \in Int, NEW f \in Int, NEW g \in Int, NEW p \in Int, NEW q \in Int,
         NEW v \in Int, NEW w \in Int, m * v = o * w
  PROVE  Gains(m, o, f, g, p, q, v, w, m * v)
<1>1. Gain(m, o, f, g, p, q, v, w)
        = (m * v) * (2 * p + v) - (o * w) * (2 * q) + (o * w) * w
  BY DEF Gain
<1> DEFINE i == m * v
<1>2. i \in Int /\ o * w = i
  OBVIOUS
<1> HIDE DEF i
<1>3. i * (2 * p + v) - i * (2 * q) + i * w = i * (2 * (p - q) + (v + w))
  BY <1>2
<1> QED
  BY <1>1, <1>2, <1>3 DEF i, Gains

LEMMA GainOfOne ==
  ASSUME NEW m \in Int, NEW o \in Int, NEW f \in Int, NEW g \in Int, NEW p \in Int, NEW q \in Int,
         NEW v \in Int, NEW w \in Int
  PROVE  /\ w = 0 /\ q = 0 => Gains(m, o, f, g, p, q, v, w, m * v)
         /\ v = 0 /\ p = 0 => Gains(m, o, f, g, p, q, v, w, o * w)
<1>1. ASSUME w = 0, q = 0
      PROVE  Gain(m, o, f, g, p, q, v, w) = (m * v) * (2 * (p - q) + (v + w))
  <2>1. Gain(m, o, f, g, p, 0, v, 0) = (m * v) * (2 * (p - 0) + (v + 0))
    BY DEF Gain
  <2> QED
    BY <1>1, <2>1
<1>2. ASSUME v = 0, p = 0
      PROVE  Gain(m, o, f, g, p, q, v, w) = (o * w) * (2 * (p - q) + (v + w))
  <2>1. Gain(m, o, f, g, 0, q, 0, w) = (o * w) * (2 * (0 - q) + (0 + w))
    BY DEF Gain
  <2> QED
    BY <1>2, <2>1
<1> QED
  BY <1>1, <1>2 DEF Gains

\* Kicks in the ratio of the masses have the sign of their sum.
LEMMA KicksAgree ==
  ASSUME NEW m \in Nat \ {0}, NEW o \in Nat \ {0}, NEW v \in Int, NEW w \in Int,
         m * v = o * w, v + w >= 0
  PROVE  m * v >= 0
<1>1. v < 0 => m * v < 0
  OBVIOUS
<1>2. w >= 0 => o * w >= 0
  OBVIOUS
<1>3. v >= 0 => m * v >= 0
  OBVIOUS
<1> QED
  BY <1>1, <1>2, <1>3

\* A body that is not dynamic is not kicked.
LEMMA NotKicked ==
  ASSUME NEW A, NEW b, AreBodies(b, A), NEW x \in A, NEW y \in A,
         NEW b2, NEW n \in UnitVectors, NEW v, NEW w, NEW d, NEW e,
         Outcome(b2, b, A, x, y, n, v, w, d, e)
  PROVE  /\ b[x].Type # "Dynamic" => v = 0
         /\ b[y].Type # "Dynamic" => w = 0
<1>1. \A u \in Vectors : \A k \in Int : Plus(u, Times(n, k)) = u => k = 0
  <2> TAKE u \in Vectors
  <2> TAKE k \in Int
  <2>1. u.X \in Int /\ u.Y \in Int /\ n.X \in Int /\ n.Y \in Int
        /\ (n.X \in {-1, 1} \/ n.Y \in {-1, 1})
    BY DEF UnitVectors, Vectors
  <2>2. ASSUME Plus(u, Times(n, k)) = u PROVE u.X + n.X * k = u.X /\ u.Y + n.Y * k = u.Y
    BY <2>2 DEF Plus, Times, Point
  <2> QED
    BY <2>1, <2>2
<1>2. b[x].Velocity \in Vectors /\ b[y].Velocity \in Vectors /\ v \in Int /\ w \in Int
  BY DEF AreBodies, Bodies, Outcome
<1>3. ASSUME b[x].Type # "Dynamic" PROVE v = 0
  <2>1. Plus(b[x].Velocity, Times(n, v)) = b[x].Velocity
    BY <1>3 DEF Outcome
  <2> QED
    BY <1>1, <1>2, <2>1
<1>4. ASSUME b[y].Type # "Dynamic" PROVE w = 0
  <2>1. Plus(b[y].Velocity, Times(n, - w)) = b[y].Velocity /\ - w \in Int
    BY <1>2, <1>4 DEF Outcome
  <2>2. - w = 0
    BY <1>1, <1>2, <2>1
  <2> QED
    BY <1>2, <2>2
<1> QED
  BY <1>3, <1>4

\* A product of a number that is not negative and one that is not positive.
LEMMA GainSign ==
  ASSUME NEW i \in Int, NEW s \in Int, NEW j \in Int, NEW u \in Int,
         i >= 0, u = i * (2 * s + j)
  PROVE  /\ 2 * s + j <= 0 => u <= 0
         /\ 2 * s + j = 0 => u = 0
<1>1. \A k \in Int : k <= 0 => i * k <= 0
  OBVIOUS
<1>2. i * 0 = 0
  OBVIOUS
<1>3. 2 * s + j \in Int
  OBVIOUS
<1> QED
  BY <1>1, <1>2, <1>3

\* i is the momentum exchanged, or gained by the only body that moves.
LEMMA GainIs ==
  ASSUME NEW A, NEW b, NEW k, NEW x, NEW y, Pair(b, k, A, x, y),
         NEW b2, NEW n, NEW r, NEW j, NEW v, NEW w, NEW d, NEW e,
         Result(b2, b, k, A, x, y, n, r, j, v, w, d, e), Driven(b, x, y),
         \A a \in {x, y} : b[a].Type = "Dynamic" \/ b[a].Velocity = Zero,
         NEW f \in Int, NEW g \in Int
  PROVE  LET u == Gain(b[x].Mass, b[y].Mass, f, g, Dot(b[x].Velocity, n), Dot(b[y].Velocity, n), v, w)
         IN  u \in Int /\ u <= 0 /\ (k[x].Restitution = Unit /\ k[y].Restitution = Unit => u = 0)
<1> DEFINE m == b[x].Mass
           o == b[y].Mass
           p == Dot(b[x].Velocity, n)
           q == Dot(b[y].Velocity, n)
           s == Leaving(b, x, y, n)
           u == Gain(m, o, f, g, p, q, v, w)
<1>1. /\ AreBodies(b, A) /\ x \in A /\ y \in A
      /\ n \in UnitVectors /\ n \in Vectors /\ Outcome(b2, b, A, x, y, n, v, w, d, e)
      /\ BounceOf(b, k, x, y, s, r, j, v, w) /\ Bounce(s, r, j)
      /\ v \in Int /\ w \in Int
  BY DEF Pair, Result, BounceOf, Outcome
<1>2. /\ b[x].Velocity \in Vectors /\ b[y].Velocity \in Vectors
      /\ m \in Nat \ {0} /\ o \in Nat \ {0}
  BY <1>1 DEF AreBodies, Bodies
<1>3. p \in Int /\ q \in Int
  BY <1>1, <1>2, SquareKicked
<1>4. s = p - q
  <2>1. \A i, l, h \in Vectors : Dot(Minus(i, l), h) = Dot(i, h) - Dot(l, h)
    BY DEF Dot, Minus, Point, Vectors
  <2> QED
    BY <1>1, <1>2, <2>1 DEF Leaving
<1>5. v + w = j /\ Balanced(b, x, y, v, w) /\ (s > 0 => v = 0 /\ w = 0)
  BY <1>1 DEF BounceOf
<1>6. s \in Int /\ j \in Int
  BY <1>1 DEF Bounce
<1>7. b[x].Velocity = Zero => p = 0
  BY <1>1 DEF Dot, Zero, Point, Vectors
<1>8. b[y].Velocity = Zero => q = 0
  BY <1>1 DEF Dot, Zero, Point, Vectors
<1>9. (b[x].Type # "Dynamic" => v = 0 /\ p = 0) /\ (b[y].Type # "Dynamic" => w = 0 /\ q = 0)
  BY <1>1, <1>7, <1>8, NotKicked
<1>10. b[x].Type = "Dynamic" \/ b[y].Type = "Dynamic"
  BY DEF Driven
<1>11. b[x].Type = "Dynamic" /\ b[y].Type = "Dynamic" => m * v = o * w
  BY <1>5 DEF Balanced
<1>12. /\ s <= 0 => j >= 0 /\ 2 * s + j <= 0
       /\ s <= 0 /\ k[x].Restitution = Unit /\ k[y].Restitution = Unit => 2 * s + j = 0
  BY <1>1 DEF BounceOf, Bounce
<1>13. m \in Int /\ o \in Int
  BY <1>2
<1> HIDE DEF m, o, p, q, s, u
<1>14. CASE s > 0
  <2>1. v = 0 /\ w = 0
    BY <1>5, <1>14
  <2>2. u = 0
    <3>1. \A i \in Int : i * 0 = 0
      OBVIOUS
    <3>2. m * v = 0 /\ o * w = 0
      BY <1>2, <2>1, <3>1
    <3>3. Gains(m, o, f, g, p, q, v, w, m * v)
      BY <1>1, <1>3, <1>13, <3>2, GainOfTwo
    <3>4. \A i \in Int : 0 * i = 0
      OBVIOUS
    <3> QED
      BY <1>1, <1>3, <3>2, <3>3, <3>4 DEF Gains, u
  <2> QED
    BY <2>2 DEF u, m, o, p, q
<1>15. CASE s <= 0
  <2>1. \E i \in Int : i >= 0 /\ u = i * (2 * s + j)
    <3>1. CASE b[x].Type = "Dynamic" /\ b[y].Type = "Dynamic"
      <4>1. m * v = o * w /\ v + w >= 0
        BY <1>5, <1>11, <1>12, <1>15, <3>1
      <4>2. u = (m * v) * (2 * s + j)
        <5>1. Gains(m, o, f, g, p, q, v, w, m * v)
          BY <1>1, <1>3, <1>13, <4>1, GainOfTwo
        <5> QED
          BY <1>4, <1>5, <5>1 DEF Gains, u
      <4>3. m * v >= 0 /\ m * v \in Int
        BY <1>1, <1>2, <4>1, KicksAgree
      <4> QED
        BY <4>2, <4>3
    <3>2. CASE b[y].Type # "Dynamic"
      <4>1. w = 0 /\ q = 0
        BY <1>9, <3>2
      <4>2. u = (m * v) * (2 * s + j)
        <5>1. Gains(m, o, f, g, p, q, v, w, m * v)
          BY <1>1, <1>3, <1>13, <4>1, GainOfOne
        <5> QED
          BY <1>4, <1>5, <5>1 DEF Gains, u
      <4>3. v >= 0
        BY <1>1, <1>5, <1>12, <1>15, <4>1
      <4>4. m * v >= 0 /\ m * v \in Int
        BY <1>1, <1>2, <4>3
      <4> QED
        BY <4>2, <4>4
    <3>3. CASE b[x].Type # "Dynamic"
      <4>1. v = 0 /\ p = 0
        BY <1>9, <3>3
      <4>2. u = (o * w) * (2 * s + j)
        <5>1. Gains(m, o, f, g, p, q, v, w, o * w)
          BY <1>1, <1>3, <1>13, <4>1, GainOfOne
        <5> QED
          BY <1>4, <1>5, <5>1 DEF Gains, u
      <4>3. w >= 0
        BY <1>1, <1>5, <1>12, <1>15, <4>1
      <4>4. o * w >= 0 /\ o * w \in Int
        BY <1>1, <1>2, <4>3
      <4> QED
        BY <4>2, <4>4
    <3> QED
      BY <3>1, <3>2, <3>3
  <2>2. PICK i \in Int : i >= 0 /\ u = i * (2 * s + j)
    BY <2>1
  <2>3. u \in Int
    BY <1>6, <2>2
  <2>4. (2 * s + j <= 0 => u <= 0) /\ (2 * s + j = 0 => u = 0)
    BY <1>6, <2>2, <2>3, GainSign
  <2>5. u <= 0 /\ (k[x].Restitution = Unit /\ k[y].Restitution = Unit => u = 0)
    BY <1>12, <1>15, <2>4
  <2> QED
    BY <2>3, <2>5 DEF u, m, o, p, q
<1> QED
  BY <1>6, <1>14, <1>15

EnergyOf(b, A) == Summed(Motion(b, A))

LEMMA EnergyAfter ==
  ASSUME NEW A, IsFiniteSet(A), NEW b, NEW k, NEW x, NEW y, Pair(b, k, A, x, y),
         NEW b2, NEW n, NEW r, NEW j, NEW v, NEW w, NEW d, NEW e,
         Result(b2, b, k, A, x, y, n, r, j, v, w, d, e), Driven(b, x, y),
         \A a \in {x, y} : b[a].Type = "Dynamic" \/ b[a].Velocity = Zero
  PROVE  /\ EnergyOf(b2, A) <= EnergyOf(b, A)
         /\ k[x].Restitution = Unit /\ k[y].Restitution = Unit => EnergyOf(b2, A) = EnergyOf(b, A)
<1> DEFINE f == Motion(b, A)
           h == Motion(b2, A)
           m == b[x].Mass
           o == b[y].Mass
           p == Dot(b[x].Velocity, n)
           q == Dot(b[y].Velocity, n)
           i == SquareLength(b[x].Velocity)
           l == SquareLength(b[y].Velocity)
           u == Gain(m, o, i, l, p, q, v, w)
<1>1. /\ AreBodies(b, A) /\ x \in A /\ y \in A /\ x # y
      /\ n \in UnitVectors /\ Outcome(b2, b, A, x, y, n, v, w, d, e)
      /\ AreBodies(b2, A) /\ v \in Int /\ w \in Int
  BY DEF Pair, Result, Outcome
<1>2. f \in [A -> Int] /\ h \in [A -> Int]
  BY <1>1, MotionTyped
<1>3. Same(f, h, A \ {x, y})
  BY <1>1 DEF Same, Motion, Outcome
<1>4. b[x].Velocity \in Vectors /\ b[y].Velocity \in Vectors /\ m \in Int /\ o \in Int
  BY <1>1 DEF AreBodies, Bodies
<1>5. - w \in Int
  BY <1>1
<1>6. i \in Int /\ p \in Int /\ Squared(b[x].Velocity, n, v, b2[x].Velocity)
  <2>1. b2[x].Velocity = Plus(b[x].Velocity, Times(n, v))
    BY <1>1 DEF Outcome
  <2> QED
    BY <1>1, <1>4, <2>1, SquareKicked
<1>7. l \in Int /\ q \in Int /\ Squared(b[y].Velocity, n, - w, b2[y].Velocity)
  <2>1. b2[y].Velocity = Plus(b[y].Velocity, Times(n, - w))
    BY <1>1 DEF Outcome
  <2> QED
    BY <1>1, <1>4, <1>5, <2>1, SquareKicked
<1>8. b2[x].Mass = m /\ b2[y].Mass = o
  BY <1>1 DEF Outcome, SameSetting
<1>9. /\ f[x] = m * i /\ f[y] = o * l
      /\ h[x] = m * (i + 2 * v * p + v * v)
      /\ h[y] = o * (l + 2 * (- w) * q + (- w) * (- w))
  BY <1>1, <1>6, <1>7, <1>8 DEF Motion, Squared
<1>10. u \in Int /\ u <= 0 /\ (k[x].Restitution = Unit /\ k[y].Restitution = Unit => u = 0)
  BY <1>6, <1>7, GainIs
<1>11. u = (h[x] + h[y]) - (f[x] + f[y])
  BY <1>9 DEF Gain
<1> HIDE DEF f, h, u
<1>12. PICK rest \in Int : /\ Summed(f) = f[x] + f[y] + rest
                           /\ Summed(h) = h[x] + h[y] + rest
  BY <1>1, <1>2, <1>3, SummedAtPair
<1>13. f[x] \in Int /\ f[y] \in Int /\ h[x] \in Int /\ h[y] \in Int
  BY <1>1, <1>2
<1>14. Summed(h) = Summed(f) + u /\ Summed(f) \in Int
  BY <1>11, <1>12, <1>13
<1> QED
  BY <1>10, <1>14 DEF EnergyOf, f, h

LEMMA EnergyIs == Energy = EnergyOf(body, Actors)
  BY DEF Energy, EnergyOf, Motion

LEMMA EnergyIsNext == Energy' = EnergyOf(body', Actors')
  BY DEF Energy, EnergyOf, Motion

LEMMA ResolutionEnergy ==
  ASSUME IInv, NEW p, Resolution(p), Driven(body, p[1], p[2]),
         \A a \in {p[1], p[2]} : IsDynamic(a) \/ body[a].Velocity = Zero
  PROVE  /\ Energy' <= Energy
         /\ collider[p[1]].Restitution = Unit /\ collider[p[2]].Restitution = Unit
              => Energy' = Energy
<1>1. /\ Pair(body, collider, Actors, p[1], p[2])
  BY ResolutionResult
<1>2. PICK n, r, j, v, w, d, e :
        Result(body', body, collider, Actors, p[1], p[2], n, r, j, v, w, d, e)
  BY ResolutionResult
<1>3. Actors' = Actors
  BY <1>2 DEF Result, Outcome, AreBodies, Actors
<1>4. IsFiniteSet(Actors) /\ \A a \in {p[1], p[2]} : body[a].Type = "Dynamic" \/ body[a].Velocity = Zero
  BY DEF IInv, Typed, IsDynamic
<1>5. /\ EnergyOf(body', Actors) <= EnergyOf(body, Actors)
      /\ collider[p[1]].Restitution = Unit /\ collider[p[2]].Restitution = Unit
           => EnergyOf(body', Actors) = EnergyOf(body, Actors)
  BY <1>1, <1>2, <1>4, EnergyAfter
<1> QED
  BY <1>3, <1>5, EnergyIs, EnergyIsNext

LEMMA ElasticStep ==
  ASSUME IInv, [Next]_vars, Elastic
  PROVE  Energy' = Energy
<1>1. /\ gravity = Zero /\ forces = {} /\ AreBodies(body, Actors) /\ gravity \in Vectors
      /\ \A a \in Actors : /\ body[a].Type = "Dynamic" /\ body[a].Forces = Zero
                           /\ collider[a].Restitution = Unit
  BY DEF Elastic, IInv, Typed, Unforced, AllDynamic, IsDynamic
<1>2. CASE BeginUpdate
  <2>1. body' = [a \in Actors |-> Integrated(body[a], gravity)]
    BY <1>2 DEF BeginUpdate
  <2>2. ASSUME NEW a \in Actors
        PROVE  body'[a].Mass = body[a].Mass /\ body'[a].Velocity = body[a].Velocity
    <3>1. body[a] \in Bodies /\ body[a].Mass * body[a].InverseMass = Scale
      BY <1>1 DEF AreBodies
    <3>2. WholeAcceleration(body[a], gravity)
      BY <1>1, <1>2 DEF BeginUpdate, IsDynamic
    <3>3. body'[a] = Integrated(body[a], gravity)
      BY <2>1
    <3> QED
      BY <1>1, <3>1, <3>2, <3>3, IntegratedFacts
  <2>3. Actors' = Actors
    BY <2>1 DEF Actors
  <2>4. Motion(body', Actors) = Motion(body, Actors)
    BY <2>2 DEF Motion
  <2> QED
    BY <2>3, <2>4, EnergyIs, EnergyIsNext DEF EnergyOf
<1>3. CASE \E p \in todo : EnterLoopStep(p) \/ ExitLoopStep(p)
  <2>1. PICK p \in todo : EnterLoopStep(p) \/ ExitLoopStep(p)
    BY <1>3
  <2>2. CASE Resolution(p)
    <3>1. p[1] \in Actors /\ p[2] \in Actors
      BY <2>2, ResolutionResult
    <3>2. Driven(body, p[1], p[2]) /\ \A a \in {p[1], p[2]} : IsDynamic(a)
      BY <1>1, <3>1 DEF Driven, IsDynamic
    <3>3. collider[p[1]].Restitution = Unit /\ collider[p[2]].Restitution = Unit
      BY <1>1, <3>1
    <3> QED
      BY <2>2, <3>2, <3>3, ResolutionEnergy
  <2>3. CASE UNCHANGED body
    BY <2>3 DEF Energy, Actors
  <2> QED
    BY <2>1, <2>2, <2>3, LoopSteps
<1>4. CASE BeginExitLoop
  BY <1>4 DEF BeginExitLoop, Energy, Actors
<1>5. CASE EndUpdate
  BY <1>5 DEF EndUpdate, Energy, Actors
<1>6. CASE \E a \in Actors, force \in forces : ClientApplyForce(a, force)
  BY <1>1, <1>6
<1>7. CASE \E p \in todo : ResolveThrows(p)
  BY <1>7 DEF ResolveThrows, Energy, Actors
<1>8. CASE UNCHANGED vars
  BY <1>8 DEF vars, Energy, Actors
<1> QED
  BY <1>2, <1>3, <1>4, <1>5, <1>6, <1>7, <1>8 DEF Next, UpdateStep

\* ContactSolver::ResolvePostCollisionVelocity adds no energy of motion, and takes
\* none in an elastic world of equal masses.
THEOREM EnergyIsAccounted == Spec => EnergyAccounted
<1>1. IInv /\ [Next]_vars
        => [ /\ \A p \in todo :
                  Resolves(p) /\ Movable(p)
                      /\ (\A a \in {p[1], p[2]} : IsDynamic(a) \/ body[a].Velocity = Zero)
                    => Energy' <= Energy
             /\ Elastic => Energy' = Energy ]_vars
  <2>1. ASSUME IInv, [Next]_vars, NEW p \in todo, Resolves(p), Movable(p),
               \A a \in {p[1], p[2]} : IsDynamic(a) \/ body[a].Velocity = Zero
        PROVE  Energy' <= Energy
    BY <2>1, ResolvesIs, MovableIsDriven, ResolutionEnergy
  <2> QED
    BY <2>1, ElasticStep
<1> QED
  BY <1>1, InvariantHolds, PTL DEF Spec, EnergyAccounted

-----------------------------------------------------------------------------
(* The shapes after a push.                                                *)

ShiftedCircle(s2, s, v) ==
  /\ IsCircle(s) /\ IsCircle(s2) /\ s2.Kind = "Circle" /\ v \in Vectors
  /\ s2.Radius = s.Radius
  /\ s2.Center.X = s.Center.X + v.X /\ s2.Center.Y = s.Center.Y + v.Y

ShiftedBox(s2, s, v) ==
  /\ IsBox(s) /\ IsBox(s2) /\ s2.Kind = "Rectangle" /\ v \in Vectors
  /\ s2.Min.X = s.Min.X + v.X /\ s2.Min.Y = s.Min.Y + v.Y
  /\ s2.Max.X = s.Max.X + v.X /\ s2.Max.Y = s.Max.Y + v.Y

LEMMA ShiftedMiddle ==
  ASSUME NEW s, NEW s2, NEW v, ShiftedBox(s2, s, v)
  PROVE  /\ HalfSize(s2) = HalfSize(s)
         /\ Center(s2).X = Center(s).X + v.X /\ Center(s2).Y = Center(s).Y + v.Y
<1>1. /\ s.Min.X \in Int /\ s.Min.Y \in Int /\ s.Max.X \in Int /\ s.Max.Y \in Int
      /\ v.X \in Int /\ v.Y \in Int
  BY DEF ShiftedBox, IsBox, Vectors
<1>2. \A m, n, i \in Int : /\ ((m + i) + (n + i)) \div 2 = (m + n) \div 2 + i
                           /\ ((n + i) - (m + i)) \div 2 = (n - m) \div 2
  OBVIOUS
<1>3. HalfSize(s2) = HalfSize(s)
  BY <1>1, <1>2 DEF HalfSize, ShiftedBox
<1>4. /\ Center(s2).X = (s2.Min.X + s2.Max.X) \div 2 /\ Center(s2).Y = (s2.Min.Y + s2.Max.Y) \div 2
      /\ Center(s).X = (s.Min.X + s.Max.X) \div 2 /\ Center(s).Y = (s.Min.Y + s.Max.Y) \div 2
  BY DEF Center, Point
<1>5. Center(s2).X = Center(s).X + v.X /\ Center(s2).Y = Center(s).Y + v.Y
  BY <1>1, <1>2, <1>4 DEF ShiftedBox
<1> QED
  BY <1>3, <1>5

\* A body that is moved by v moves its shape by v.
LEMMA PlacedShifted ==
  ASSUME NEW A, NEW b, AreBodies(b, A), NEW k, AreColliders(k, A), NEW a \in A,
         NEW b2, NEW v \in Vectors, b2[a].Position = Plus(b[a].Position, v)
  PROVE  \/ ShiftedCircle(Placed(b2, k, a), Placed(b, k, a), v) /\ Placed(b, k, a).Kind = "Circle"
         \/ ShiftedBox(Placed(b2, k, a), Placed(b, k, a), v) /\ Placed(b, k, a).Kind = "Rectangle"
<1> DEFINE s == k[a].Shape
           p == b[a].Position
<1>1. IsShape(s) /\ p \in Vectors
  BY DEF AreBodies, AreColliders, Bodies
<1>2. Plus(p, v) \in Vectors /\ Plus(p, v).X = p.X + v.X /\ Plus(p, v).Y = p.Y + v.Y
      /\ p.X \in Int /\ p.Y \in Int /\ v.X \in Int /\ v.Y \in Int
  BY <1>1, PlusFacts
<1>3. Placed(b, k, a) = Moved(s, p) /\ Placed(b2, k, a) = Moved(s, Plus(p, v))
  BY DEF Placed
<1> HIDE DEF s, p
<1>4. CASE IsCircle(s)
  <2>1. /\ IsCircle(Moved(s, p)) /\ Moved(s, p).Kind = "Circle" /\ Moved(s, p).Radius = s.Radius
        /\ Moved(s, p).Center = Plus(s.Center, p)
    BY <1>1, <1>4, MovedCircle
  <2>2. /\ IsCircle(Moved(s, Plus(p, v))) /\ Moved(s, Plus(p, v)).Kind = "Circle"
        /\ Moved(s, Plus(p, v)).Radius = s.Radius
        /\ Moved(s, Plus(p, v)).Center = Plus(s.Center, Plus(p, v))
    BY <1>2, <1>4, MovedCircle
  <2>3. /\ Plus(s.Center, Plus(p, v)).X = Plus(s.Center, p).X + v.X
        /\ Plus(s.Center, Plus(p, v)).Y = Plus(s.Center, p).Y + v.Y
    <3>1. s.Center \in Vectors
      BY <1>4 DEF IsCircle
    <3>2. \A o \in Vectors : /\ Plus(o, Plus(p, v)).X = Plus(o, p).X + v.X
                             /\ Plus(o, Plus(p, v)).Y = Plus(o, p).Y + v.Y
      BY <1>2 DEF Plus, Point, Vectors
    <3> QED
      BY <3>1, <3>2
  <2> QED
    BY <1>3, <2>1, <2>2, <2>3 DEF ShiftedCircle
<1>5. CASE IsBox(s)
  <2>1. /\ IsBox(Moved(s, p)) /\ Moved(s, p).Kind = "Rectangle"
        /\ Moved(s, p).Min = Plus(s.Min, p) /\ Moved(s, p).Max = Plus(s.Max, p)
    BY <1>1, <1>5, MovedBox
  <2>2. /\ IsBox(Moved(s, Plus(p, v))) /\ Moved(s, Plus(p, v)).Kind = "Rectangle"
        /\ Moved(s, Plus(p, v)).Min = Plus(s.Min, Plus(p, v))
        /\ Moved(s, Plus(p, v)).Max = Plus(s.Max, Plus(p, v))
    BY <1>2, <1>5, MovedBox
  <2>3. \A o \in Vectors : /\ Plus(o, Plus(p, v)).X = Plus(o, p).X + v.X
                           /\ Plus(o, Plus(p, v)).Y = Plus(o, p).Y + v.Y
    BY <1>2 DEF Plus, Point, Vectors
  <2>4. s.Min \in Vectors /\ s.Max \in Vectors
    BY <1>5 DEF IsBox
  <2> QED
    BY <1>3, <2>1, <2>2, <2>3, <2>4 DEF ShiftedBox
<1> QED
  BY <1>1, <1>4, <1>5, ShapeKinds

-----------------------------------------------------------------------------
(* u and z are the moves of two shapes, which get away from each other by  *)
(* the depth d in the direction n.                                         *)

Parted(u, z, n, d) ==
  /\ u \in Vectors /\ z \in Vectors /\ n \in UnitVectors /\ d \in Int /\ d > 0
  /\ u.X - z.X = n.X * d /\ u.Y - z.Y = n.Y * d

LEMMA PartedFacts ==
  ASSUME NEW u, NEW z, NEW n, NEW d, Parted(u, z, n, d)
  PROVE  /\ u.X \in Int /\ u.Y \in Int /\ z.X \in Int /\ z.Y \in Int
         /\ d \in Int /\ d > 0
         /\ \/ n.X = 1 /\ n.Y = 0 /\ u.X - z.X = d /\ u.Y - z.Y = 0
            \/ n.X = -1 /\ n.Y = 0 /\ u.X - z.X = - d /\ u.Y - z.Y = 0
            \/ n.X = 0 /\ n.Y = 1 /\ u.X - z.X = 0 /\ u.Y - z.Y = d
            \/ n.X = 0 /\ n.Y = -1 /\ u.X - z.X = 0 /\ u.Y - z.Y = - d
<1>1. /\ u.X \in Int /\ u.Y \in Int /\ z.X \in Int /\ z.Y \in Int
      /\ d \in Int /\ d > 0
  BY DEF Parted, Vectors
<1>2. \/ (n.X = 1 /\ n.Y = 0) \/ (n.X = -1 /\ n.Y = 0)
      \/ (n.X = 0 /\ n.Y = 1) \/ (n.X = 0 /\ n.Y = -1)
  BY DEF Parted, UnitVectors
<1>3. u.X - z.X = n.X * d /\ u.Y - z.Y = n.Y * d
  BY DEF Parted
<1> QED
  BY <1>1, <1>2, <1>3

LEMMA CircleCircleIs ==
  ASSUME NEW a, NEW b, NEW s, NEW t
  PROVE  LET c == CircleCircleContact(a, b, s, t)
         IN  /\ c.Normal = Normalized(Delta(s, t))
             /\ c.Penetration = s.Radius + t.Radius - Length(Delta(s, t))
  BY DEF CircleCircleContact, ContactBetween

\* The vector of k and l is as long as r, and along an axis.
Reaches(k, l, r) ==
  \/ (k = r /\ l = 0) \/ (k = - r /\ l = 0) \/ (k = 0 /\ l = r) \/ (k = 0 /\ l = - r)

LEMMA PushedAlong ==
  ASSUME NEW i \in Int, NEW j \in Int, NEW k \in Int, NEW l \in Int, NEW r \in Int,
         NEW d \in Int, NEW n, d = r - (Abs(i) + Abs(j)),
         n.X = Sign(i), n.Y = Sign(j),
         \/ n.X = 1 /\ n.Y = 0 /\ k - i = d /\ l - j = 0
         \/ n.X = -1 /\ n.Y = 0 /\ k - i = - d /\ l - j = 0
         \/ n.X = 0 /\ n.Y = 1 /\ k - i = 0 /\ l - j = d
         \/ n.X = 0 /\ n.Y = -1 /\ k - i = 0 /\ l - j = - d
  PROVE  Reaches(k, l, r)
<1>1. CASE n.X = 1 /\ n.Y = 0 /\ k - i = d /\ l - j = 0
  <2>1. i > 0 /\ j = 0
    BY <1>1 DEF Sign
  <2>2. d = r - i
    BY <2>1 DEF Abs
  <2> QED
    BY <1>1, <2>1, <2>2 DEF Reaches
<1>2. CASE n.X = -1 /\ n.Y = 0 /\ k - i = - d /\ l - j = 0
  <2>1. i < 0 /\ j = 0
    BY <1>2 DEF Sign
  <2>2. d = r + i
    BY <2>1 DEF Abs
  <2> QED
    BY <1>2, <2>1, <2>2 DEF Reaches
<1>3. CASE n.X = 0 /\ n.Y = 1 /\ k - i = 0 /\ l - j = d
  <2>1. j > 0 /\ i = 0
    BY <1>3 DEF Sign
  <2>2. d = r - j
    BY <2>1 DEF Abs
  <2> QED
    BY <1>3, <2>1, <2>2 DEF Reaches
<1>4. CASE n.X = 0 /\ n.Y = -1 /\ k - i = 0 /\ l - j = - d
  <2>1. j < 0 /\ i = 0
    BY <1>4 DEF Sign
  <2>2. d = r + j
    BY <2>1 DEF Abs
  <2> QED
    BY <1>4, <2>1, <2>2 DEF Reaches
<1> QED
  BY <1>1, <1>2, <1>3, <1>4

\* It is along an axis and no longer than r.
Near(k, l, r) == (k = 0 \/ l = 0) /\ Abs(k) + Abs(l) <= r

LEMMA ReachesFacts ==
  ASSUME NEW k \in Int, NEW l \in Int, NEW r \in Nat, Reaches(k, l, r)
  PROVE  Abs(k) + Abs(l) = r /\ k * k + l * l <= r * r /\ Near(k, l, r)
<1>1. Abs(k) + Abs(l) = r
  BY DEF Abs, Reaches
<1>2. k * k + l * l <= r * r
  BY DEF Reaches
<1>3. k = 0 \/ l = 0
  BY DEF Reaches
<1> QED
  BY <1>1, <1>2, <1>3 DEF Near

\* Circles pushed apart by their depth touch.
LEMMA CirclesPushed ==
  ASSUME NEW a, NEW b, NEW s, NEW t, NEW s2, NEW t2, NEW u, NEW z,
         ShiftedCircle(s2, s, u), ShiftedCircle(t2, t, z),
         LET c == CircleCircleContact(a, b, s, t) IN Parted(u, z, c.Normal, c.Penetration)
  PROVE  /\ CircleCircleContact(a, b, s2, t2).Penetration <= 0
         /\ CirclesIntersect(s2, t2)
<1> DEFINE c == CircleCircleContact(a, b, s, t)
           q == Delta(s, t)
           q2 == Delta(s2, t2)
           r == s.Radius + t.Radius
           n == c.Normal
           d == c.Penetration
<1>1. /\ n = Normalized(q) /\ d = r - Length(q)
      /\ CircleCircleContact(a, b, s2, t2).Penetration = s2.Radius + t2.Radius - Length(q2)
  <2>1. n = Normalized(q) /\ d = s.Radius + t.Radius - Length(q)
    BY CircleCircleIs
  <2>2. CircleCircleContact(a, b, s2, t2).Penetration = s2.Radius + t2.Radius - Length(q2)
    BY CircleCircleIs
  <2>3. s.Radius \in Nat /\ t.Radius \in Nat /\ q \in Vectors
    BY MinusFacts DEF ShiftedCircle, IsCircle, Delta
  <2>4. Length(q) \in Int
    BY <2>3, NormalizedFacts
  <2> HIDE DEF n, d, q, q2
  <2> QED
    BY <2>1, <2>2, <2>3, <2>4
<1>2. /\ s.Center \in Vectors /\ t.Center \in Vectors /\ s2.Center \in Vectors /\ t2.Center \in Vectors
      /\ r \in Nat /\ s2.Radius + t2.Radius = r
  BY DEF ShiftedCircle, IsCircle
<1>3. /\ q \in Vectors /\ q.X = s.Center.X - t.Center.X /\ q.Y = s.Center.Y - t.Center.Y
      /\ q2 \in Vectors /\ q2.X = s2.Center.X - t2.Center.X /\ q2.Y = s2.Center.Y - t2.Center.Y
  BY <1>2, MinusFacts DEF Delta
<1>4. /\ s.Center.X \in Int /\ s.Center.Y \in Int /\ t.Center.X \in Int /\ t.Center.Y \in Int
      /\ q.X \in Int /\ q.Y \in Int
  BY <1>2, <1>3 DEF Vectors
<1>5. /\ u.X \in Int /\ u.Y \in Int /\ z.X \in Int /\ z.Y \in Int /\ d \in Int /\ d > 0
      /\ \/ n.X = 1 /\ n.Y = 0 /\ u.X - z.X = d /\ u.Y - z.Y = 0
         \/ n.X = -1 /\ n.Y = 0 /\ u.X - z.X = - d /\ u.Y - z.Y = 0
         \/ n.X = 0 /\ n.Y = 1 /\ u.X - z.X = 0 /\ u.Y - z.Y = d
         \/ n.X = 0 /\ n.Y = -1 /\ u.X - z.X = 0 /\ u.Y - z.Y = - d
  BY PartedFacts
<1>6. q2.X = q.X + (u.X - z.X) /\ q2.Y = q.Y + (u.Y - z.Y)
  BY <1>3, <1>4, <1>5 DEF ShiftedCircle
<1>7. n.X = Sign(q.X) /\ n.Y = Sign(q.Y) /\ Length(q) = Abs(q.X) + Abs(q.Y)
      /\ Length(q2) = Abs(q2.X) + Abs(q2.Y)
  BY <1>1, <1>3, NormalizedFacts
<1>8. CirclesIntersect(s2, t2) <=> q2.X * q2.X + q2.Y * q2.Y <= r * r
  BY <1>2 DEF CirclesIntersect, SquareLength, Dot, Delta
<1> HIDE DEF c, q, q2, r, n, d
<1>9. d = r - (Abs(q.X) + Abs(q.Y)) /\ q2.X \in Int /\ q2.Y \in Int
  BY <1>1, <1>4, <1>5, <1>6, <1>7
<1>10. \/ n.X = 1 /\ n.Y = 0 /\ q2.X - q.X = d /\ q2.Y - q.Y = 0
       \/ n.X = -1 /\ n.Y = 0 /\ q2.X - q.X = - d /\ q2.Y - q.Y = 0
       \/ n.X = 0 /\ n.Y = 1 /\ q2.X - q.X = 0 /\ q2.Y - q.Y = d
       \/ n.X = 0 /\ n.Y = -1 /\ q2.X - q.X = 0 /\ q2.Y - q.Y = - d
  BY <1>4, <1>5, <1>6
<1>11. Reaches(q2.X, q2.Y, r)
  BY <1>2, <1>4, <1>5, <1>7, <1>9, <1>10, PushedAlong
<1>12. Length(q2) = r /\ q2.X * q2.X + q2.Y * q2.Y <= r * r
  BY <1>2, <1>7, <1>9, <1>11, ReachesFacts
<1>13. s2.Radius + t2.Radius - Length(q2) <= 0
  <2>1. s2.Radius + t2.Radius - Length(q2) = r - r
    <3>1. s2.Radius \in Nat /\ t2.Radius \in Nat
      BY DEF ShiftedCircle, IsCircle
    <3> QED
      BY <1>2, <1>12, <3>1
  <2>2. r - r <= 0
    BY <1>2
  <2> QED
    BY <2>1, <2>2
<1> QED
  BY <1>1, <1>8, <1>12, <1>13 DEF q2

\* What is left of i follows a push of i by d.
Follows(i, j, q, q2, d) ==
  /\ (q > 0 /\ j - i = d) => q2 - q = d
  /\ (q < 0 /\ j - i = - d) => q2 - q = - d
  /\ (q = 0 /\ j - i = 0) => q2 - q = 0

LEMMA RestPushed ==
  ASSUME NEW i \in Int, NEW j \in Int, NEW h \in Int, h >= 0, NEW q, NEW q2, NEW d \in Int, d > 0,
         Rest(i, h, q), Rest(j, h, q2)
  PROVE  Follows(i, j, q, q2, d)
<1>1. q \in Int /\ q2 \in Int
  BY DEF Rest
<1>2. ASSUME q > 0, j - i = d PROVE q2 - q = d
  <2>1. q = i - h /\ j > h /\ j > 0
    BY <1>1, <1>2 DEF Rest
  <2>2. q2 > 0
    BY <1>1, <2>1 DEF Rest
  <2>3. q2 = j - h
    BY <2>2 DEF Rest
  <2> QED
    BY <1>2, <2>1, <2>3
<1>3. ASSUME q < 0, j - i = - d PROVE q2 - q = - d
  <2>1. q = i + h /\ j < - h /\ j < 0
    BY <1>1, <1>3 DEF Rest
  <2>2. q2 < 0
    BY <1>1, <2>1 DEF Rest
  <2>3. q2 = j + h
    BY <2>2 DEF Rest
  <2> QED
    BY <1>3, <2>1, <2>3
<1>4. ASSUME q = 0, j - i = 0 PROVE q2 - q = 0
  <2>1. j <= h /\ j >= - h
    BY <1>4 DEF Rest
  <2>2. q2 = 0
    BY <1>1, <2>1 DEF Rest
  <2> QED
    BY <1>4, <2>2
<1> QED
  BY <1>2, <1>3, <1>4 DEF Follows

LEMMA RestBound ==
  ASSUME NEW i \in Int, NEW h \in Int, NEW q, Rest(i, h, q)
  PROVE  i <= h + Abs(q) /\ i >= - h - Abs(q)
  BY DEF Rest, Abs

LEMMA CircleRectangleIs ==
  ASSUME NEW a, NEW b, NEW s, NEW t
  PROVE  LET c == CircleRectangleContact(a, b, s, t)
         IN  /\ ToCircle(s, t) # Zero => c.Normal = Normalized(ToCircle(s, t))
             /\ c.Penetration = s.Radius - Length(ToCircle(s, t))
  BY DEF CircleRectangleContact, ContactBetween

\* The circle's place with respect to the rectangle, and what is left of it.
Beside(s, t, p, h, q) ==
  /\ h = HalfSize(t) /\ h.X \in Int /\ h.X >= 0 /\ h.Y \in Int /\ h.Y >= 0
  /\ p.X \in Int /\ p.X = s.Center.X - Center(t).X
  /\ p.Y \in Int /\ p.Y = s.Center.Y - Center(t).Y
  /\ q = ToCircle(s, t) /\ q \in Vectors /\ Rest(p.X, h.X, q.X) /\ Rest(p.Y, h.Y, q.Y)

LEMMA BesideIs ==
  ASSUME NEW s, NEW t, IsCircle(s), IsBox(t)
  PROVE  Beside(s, t, Minus(s.Center, Center(t)), HalfSize(t), ToCircle(s, t))
<1> DEFINE p == Minus(s.Center, Center(t))
           h == HalfSize(t)
           q == ToCircle(s, t)
<1>1. s.Center \in Vectors /\ Center(t) \in Vectors /\ h \in Vectors /\ h.X >= 0 /\ h.Y >= 0
  BY BoxFacts DEF IsCircle
<1>2. /\ p.X = s.Center.X - Center(t).X /\ p.Y = s.Center.Y - Center(t).Y
      /\ p.X \in Int /\ p.Y \in Int /\ h.X \in Int /\ h.Y \in Int
  BY <1>1, MinusFacts DEF Vectors
<1>3. q \in Vectors /\ q.X = p.X - Clamp(p.X, h.X) /\ q.Y = p.Y - Clamp(p.Y, h.Y)
  BY ToCircleFacts
<1> HIDE DEF p, h, q
<1>4. Rest(p.X, h.X, q.X) /\ Rest(p.Y, h.Y, q.Y)
  BY <1>1, <1>2, <1>3, Clamped
<1>5. h = HalfSize(t) /\ q = ToCircle(s, t)
  BY DEF h, q
<1>6. Beside(s, t, p, h, q)
  BY <1>1, <1>2, <1>3, <1>4, <1>5 DEF Beside
<1> QED
  BY <1>6 DEF p, h, q

\* A circle near the rectangle, in one direction, touches it.
LEMMA NearTouches ==
  ASSUME NEW s, NEW t, IsCircle(s), IsBox(t), NEW p, NEW h, NEW q, Beside(s, t, p, h, q),
         Near(q.X, q.Y, s.Radius)
  PROVE  RectangleCircleIntersect(t, s)
<1> DEFINE r == s.Radius
           v == Point(r, 0)
           w == Point(0, r)
<1>1. /\ r \in Nat /\ s.Center.X \in Int /\ s.Center.Y \in Int
      /\ Center(t).X \in Int /\ Center(t).Y \in Int
      /\ q.X \in Int /\ q.Y \in Int /\ h.X \in Int /\ h.Y \in Int /\ p.X \in Int /\ p.Y \in Int
  BY BoxFacts DEF IsCircle, Vectors, Beside
<1>2. /\ t.Min.X = Center(t).X - h.X /\ t.Max.X \in {Center(t).X + h.X, Center(t).X + h.X + 1}
      /\ t.Min.Y = Center(t).Y - h.Y /\ t.Max.Y \in {Center(t).Y + h.Y, Center(t).Y + h.Y + 1}
  BY BoxFacts DEF Beside
<1>3. s.Center.X = Center(t).X + p.X /\ s.Center.Y = Center(t).Y + p.Y
  BY <1>1 DEF Beside
<1>4. /\ p.X <= h.X + Abs(q.X) /\ p.X >= - h.X - Abs(q.X)
      /\ p.Y <= h.Y + Abs(q.Y) /\ p.Y >= - h.Y - Abs(q.Y)
  BY <1>1, RestBound DEF Beside
<1>5. /\ Box(Minus(t.Min, v), Plus(t.Max, v)).Max.X = t.Max.X + r
      /\ Box(Minus(t.Min, v), Plus(t.Max, v)).Max.Y = t.Max.Y + 0
      /\ Box(Minus(t.Min, v), Plus(t.Max, v)).Min.X = t.Min.X - r
      /\ Box(Minus(t.Min, v), Plus(t.Max, v)).Min.Y = t.Min.Y - 0
  BY DEF Box, Plus, Minus, Point
<1>6. /\ Box(Minus(t.Min, w), Plus(t.Max, w)).Max.X = t.Max.X + 0
      /\ Box(Minus(t.Min, w), Plus(t.Max, w)).Max.Y = t.Max.Y + r
      /\ Box(Minus(t.Min, w), Plus(t.Max, w)).Min.X = t.Min.X - 0
      /\ Box(Minus(t.Min, w), Plus(t.Max, w)).Min.Y = t.Min.Y - r
  BY DEF Box, Plus, Minus, Point
<1>7. \/ RectangleContains(Box(Minus(t.Min, v), Plus(t.Max, v)), s.Center)
      \/ RectangleContains(Box(Minus(t.Min, w), Plus(t.Max, w)), s.Center)
  <2> HIDE DEF r, v, w
  <2>1. (Abs(q.X) <= r /\ q.Y = 0) \/ (q.X = 0 /\ Abs(q.Y) <= r)
    BY <1>1 DEF Near, Abs, r
  <2>2. CASE Abs(q.X) <= r /\ q.Y = 0
    <3>1. Abs(q.X) \in Int /\ Abs(q.X) <= r /\ Abs(q.Y) = 0
      BY <1>1, <2>2 DEF Abs
    <3>2. /\ t.Max.X + r >= s.Center.X /\ t.Min.X - r <= s.Center.X
          /\ t.Max.Y + 0 >= s.Center.Y /\ t.Min.Y - 0 <= s.Center.Y
      BY <1>1, <1>2, <1>3, <1>4, <3>1
    <3> QED
      BY <1>5, <3>2 DEF RectangleContains
  <2>3. CASE q.X = 0 /\ Abs(q.Y) <= r
    <3>1. Abs(q.X) = 0 /\ Abs(q.Y) \in Int /\ Abs(q.Y) <= r
      BY <1>1, <2>3 DEF Abs
    <3>2. /\ t.Max.X + 0 >= s.Center.X /\ t.Min.X - 0 <= s.Center.X
          /\ t.Max.Y + r >= s.Center.Y /\ t.Min.Y - r <= s.Center.Y
      BY <1>1, <1>2, <1>3, <1>4, <3>1
    <3> QED
      BY <1>6, <3>2 DEF RectangleContains
  <2> QED
    BY <2>1, <2>2, <2>3
<1> QED
  BY <1>7 DEF RectangleCircleIntersect

\* A circle pushed away from a rectangle by their depth touches it.
LEMMA CircleRectanglePushed ==
  ASSUME NEW a, NEW b, NEW s, NEW t, NEW s2, NEW t2, NEW u, NEW z,
         ShiftedCircle(s2, s, u), ShiftedBox(t2, t, z), ToCircle(s, t) # Zero,
         LET c == CircleRectangleContact(a, b, s, t) IN Parted(u, z, c.Normal, c.Penetration)
  PROVE  /\ CircleRectangleContact(a, b, s2, t2).Penetration <= 0
         /\ RectangleCircleIntersect(t2, s2)
<1> DEFINE c == CircleRectangleContact(a, b, s, t)
           q == ToCircle(s, t)
           q2 == ToCircle(s2, t2)
           r == s.Radius
           n == c.Normal
           d == c.Penetration
           p == Minus(s.Center, Center(t))
           p2 == Minus(s2.Center, Center(t2))
           h == HalfSize(t)
<1>1. IsCircle(s) /\ IsBox(t) /\ IsCircle(s2) /\ IsBox(t2) /\ r \in Nat /\ s2.Radius = r
  BY DEF ShiftedCircle, ShiftedBox, IsCircle
<1>2. Beside(s, t, p, h, q)
  BY <1>1, BesideIs
<1>3. Beside(s2, t2, p2, h, q2)
  BY <1>1, BesideIs, ShiftedMiddle
<1>4. /\ n = Normalized(q) /\ d = r - Length(q)
      /\ CircleRectangleContact(a, b, s2, t2).Penetration = r - Length(q2)
  BY <1>1, CircleRectangleIs
<1>5. /\ u.X \in Int /\ u.Y \in Int /\ z.X \in Int /\ z.Y \in Int /\ d \in Int /\ d > 0
      /\ \/ n.X = 1 /\ n.Y = 0 /\ u.X - z.X = d /\ u.Y - z.Y = 0
         \/ n.X = -1 /\ n.Y = 0 /\ u.X - z.X = - d /\ u.Y - z.Y = 0
         \/ n.X = 0 /\ n.Y = 1 /\ u.X - z.X = 0 /\ u.Y - z.Y = d
         \/ n.X = 0 /\ n.Y = -1 /\ u.X - z.X = 0 /\ u.Y - z.Y = - d
  BY PartedFacts
<1>6. /\ s2.Center.X = s.Center.X + u.X /\ s2.Center.Y = s.Center.Y + u.Y
      /\ Center(t2).X = Center(t).X + z.X /\ Center(t2).Y = Center(t).Y + z.Y
      /\ s.Center.X \in Int /\ s.Center.Y \in Int /\ Center(t).X \in Int /\ Center(t).Y \in Int
  <2>1. s.Center \in Vectors /\ Center(t) \in Vectors
    BY <1>1, BoxFacts DEF IsCircle
  <2> QED
    BY <2>1, ShiftedMiddle DEF ShiftedCircle, Vectors
<1> HIDE DEF c, q, q2, r, n, d, p, p2, h
<1>7. p2.X - p.X = u.X - z.X /\ p2.Y - p.Y = u.Y - z.Y
  BY <1>2, <1>3, <1>5, <1>6 DEF Beside
<1>8. /\ q \in Vectors /\ q2 \in Vectors
      /\ q.X \in Int /\ q.Y \in Int /\ q2.X \in Int /\ q2.Y \in Int
      /\ p.X \in Int /\ p.Y \in Int /\ p2.X \in Int /\ p2.Y \in Int
      /\ h.X \in Int /\ h.Y \in Int /\ h.X >= 0 /\ h.Y >= 0
      /\ Rest(p.X, h.X, q.X) /\ Rest(p.Y, h.Y, q.Y)
      /\ Rest(p2.X, h.X, q2.X) /\ Rest(p2.Y, h.Y, q2.Y)
  BY <1>2, <1>3 DEF Beside, Vectors
<1>9. n.X = Sign(q.X) /\ n.Y = Sign(q.Y) /\ Length(q) = Abs(q.X) + Abs(q.Y)
      /\ Length(q2) = Abs(q2.X) + Abs(q2.Y)
  BY <1>4, <1>8, NormalizedFacts
<1>10. d = r - (Abs(q.X) + Abs(q.Y))
  BY <1>4, <1>9
<1>11. Follows(p.X, p2.X, q.X, q2.X, d)
  BY <1>5, <1>8, RestPushed
<1>12. Follows(p.Y, p2.Y, q.Y, q2.Y, d)
  BY <1>5, <1>8, RestPushed
<1>13. /\ n.X = 1 => q.X > 0
       /\ n.X = -1 => q.X < 0
       /\ n.X = 0 => q.X = 0
       /\ n.Y = 1 => q.Y > 0
       /\ n.Y = -1 => q.Y < 0
       /\ n.Y = 0 => q.Y = 0
  BY <1>8, <1>9 DEF Sign
<1>14. \/ n.X = 1 /\ n.Y = 0 /\ q2.X - q.X = d /\ q2.Y - q.Y = 0
       \/ n.X = -1 /\ n.Y = 0 /\ q2.X - q.X = - d /\ q2.Y - q.Y = 0
       \/ n.X = 0 /\ n.Y = 1 /\ q2.X - q.X = 0 /\ q2.Y - q.Y = d
       \/ n.X = 0 /\ n.Y = -1 /\ q2.X - q.X = 0 /\ q2.Y - q.Y = - d
  BY <1>5, <1>7, <1>11, <1>12, <1>13 DEF Follows
<1>15. Reaches(q2.X, q2.Y, r)
  BY <1>1, <1>5, <1>8, <1>9, <1>10, <1>14, PushedAlong
<1>16. Length(q2) = r
  BY <1>1, <1>8, <1>9, <1>15, ReachesFacts
<1>17. r - Length(q2) <= 0
  BY <1>1, <1>16
<1>18. RectangleCircleIntersect(t2, s2)
  BY <1>1, <1>3, <1>8, <1>15, ReachesFacts, NearTouches
<1> QED
  BY <1>4, <1>17, <1>18

\* The distance i of two middles, whose shapes are d deep, becomes j.
Spread(i, j, h, d) ==
  /\ d = h - Abs(i)
  /\ j - i = IF i > 0 THEN d ELSE - d

LEMMA SpreadFacts ==
  ASSUME NEW i \in Int, NEW j \in Int, NEW h \in Int, NEW d \in Int, d > 0, Spread(i, j, h, d)
  PROVE  Abs(j) = h
<1>1. CASE i > 0
  <2>1. d = h - i /\ j - i = d
    BY <1>1 DEF Spread, Abs
  <2>2. j = h /\ j > 0
    BY <1>1, <2>1
  <2> QED
    BY <2>2 DEF Abs
<1>2. CASE ~(i > 0)
  <2>1. i <= 0 /\ j - i = - d
    BY <1>2 DEF Spread
  <2>2. d = h + i
    BY <1>2 DEF Spread, Abs
  <2>3. j = - h /\ j < 0
    BY <2>1, <2>2
  <2> QED
    BY <2>3 DEF Abs
<1> QED
  BY <1>1, <1>2

\* A side of a rectangle, from m to n around c.
Side(m, n, c, h) == m = c - h /\ (n = c + h \/ n = c + h + 1)

LEMMA SidesTouch ==
  ASSUME NEW m \in Int, NEW n \in Int, NEW c \in Int, NEW h \in Int, h >= 0, Side(m, n, c, h),
         NEW m2 \in Int, NEW n2 \in Int, NEW c2 \in Int, NEW h2 \in Int, h2 >= 0,
         Side(m2, n2, c2, h2), Abs(c - c2) = h + h2
  PROVE  n >= m2 /\ m <= n2
<1>1. c - c2 = h + h2 \/ c2 - c = h + h2
  BY DEF Abs
<1> QED
  BY <1>1 DEF Side

\* The numbers of two rectangles.
BoxNumbers(s, t) ==
  /\ s.Min.X \in Int /\ s.Max.X \in Int /\ s.Min.Y \in Int /\ s.Max.Y \in Int
  /\ t.Min.X \in Int /\ t.Max.X \in Int /\ t.Min.Y \in Int /\ t.Max.Y \in Int
  /\ Center(s).X \in Int /\ Center(s).Y \in Int /\ Center(t).X \in Int /\ Center(t).Y \in Int
  /\ HalfSize(s).X \in Int /\ HalfSize(s).X >= 0 /\ HalfSize(s).Y \in Int /\ HalfSize(s).Y >= 0
  /\ HalfSize(t).X \in Int /\ HalfSize(t).X >= 0 /\ HalfSize(t).Y \in Int /\ HalfSize(t).Y >= 0
  /\ Side(s.Min.X, s.Max.X, Center(s).X, HalfSize(s).X)
  /\ Side(s.Min.Y, s.Max.Y, Center(s).Y, HalfSize(s).Y)
  /\ Side(t.Min.X, t.Max.X, Center(t).X, HalfSize(t).X)
  /\ Side(t.Min.Y, t.Max.Y, Center(t).Y, HalfSize(t).Y)

LEMMA BoxNumbersAre ==
  ASSUME NEW s, NEW t, IsBox(s), IsBox(t)
  PROVE  BoxNumbers(s, t)
<1>1. ASSUME NEW r, IsBox(r)
      PROVE  /\ r.Min.X \in Int /\ r.Max.X \in Int /\ r.Min.Y \in Int /\ r.Max.Y \in Int
             /\ Center(r).X \in Int /\ Center(r).Y \in Int
             /\ HalfSize(r).X \in Int /\ HalfSize(r).X >= 0
             /\ HalfSize(r).Y \in Int /\ HalfSize(r).Y >= 0
             /\ Side(r.Min.X, r.Max.X, Center(r).X, HalfSize(r).X)
             /\ Side(r.Min.Y, r.Max.Y, Center(r).Y, HalfSize(r).Y)
  <2>1. r.Min \in Vectors /\ r.Max \in Vectors /\ Center(r) \in Vectors /\ HalfSize(r) \in Vectors
    BY <1>1, BoxFacts DEF IsBox
  <2>2. /\ r.Min.X \in Int /\ r.Max.X \in Int /\ r.Min.Y \in Int /\ r.Max.Y \in Int
        /\ Center(r).X \in Int /\ Center(r).Y \in Int
        /\ HalfSize(r).X \in Int /\ HalfSize(r).Y \in Int
    BY <2>1 DEF Vectors
  <2>3. /\ HalfSize(r).X >= 0 /\ HalfSize(r).Y >= 0
        /\ Side(r.Min.X, r.Max.X, Center(r).X, HalfSize(r).X)
        /\ Side(r.Min.Y, r.Max.Y, Center(r).Y, HalfSize(r).Y)
    BY <1>1, BoxFacts DEF Side
  <2> QED
    BY <2>2, <2>3
<1> QED
  BY <1>1 DEF BoxNumbers

LEMMA BoxesTouch ==
  ASSUME NEW s, NEW t, BoxNumbers(s, t)
  PROVE  /\ Abs(Center(s).X - Center(t).X) = HalfSize(s).X + HalfSize(t).X
             => s.Max.X >= t.Min.X /\ s.Min.X <= t.Max.X
         /\ Abs(Center(s).Y - Center(t).Y) = HalfSize(s).Y + HalfSize(t).Y
             => s.Max.Y >= t.Min.Y /\ s.Min.Y <= t.Max.Y
<1>1. /\ s.Min.X \in Int /\ s.Max.X \in Int /\ t.Min.X \in Int /\ t.Max.X \in Int
      /\ Center(s).X \in Int /\ HalfSize(s).X \in Int /\ HalfSize(s).X >= 0
      /\ Center(t).X \in Int /\ HalfSize(t).X \in Int /\ HalfSize(t).X >= 0
      /\ Side(s.Min.X, s.Max.X, Center(s).X, HalfSize(s).X)
      /\ Side(t.Min.X, t.Max.X, Center(t).X, HalfSize(t).X)
  BY DEF BoxNumbers
<1>2. /\ s.Min.Y \in Int /\ s.Max.Y \in Int /\ t.Min.Y \in Int /\ t.Max.Y \in Int
      /\ Center(s).Y \in Int /\ HalfSize(s).Y \in Int /\ HalfSize(s).Y >= 0
      /\ Center(t).Y \in Int /\ HalfSize(t).Y \in Int /\ HalfSize(t).Y >= 0
      /\ Side(s.Min.Y, s.Max.Y, Center(s).Y, HalfSize(s).Y)
      /\ Side(t.Min.Y, t.Max.Y, Center(t).Y, HalfSize(t).Y)
  BY DEF BoxNumbers
<1>3. Abs(Center(s).X - Center(t).X) = HalfSize(s).X + HalfSize(t).X
        => s.Max.X >= t.Min.X /\ s.Min.X <= t.Max.X
  BY <1>1, SidesTouch, SMTT(60)
<1>4. Abs(Center(s).Y - Center(t).Y) = HalfSize(s).Y + HalfSize(t).Y
        => s.Max.Y >= t.Min.Y /\ s.Min.Y <= t.Max.Y
  BY <1>2, SidesTouch, SMTT(60)
<1> QED
  BY <1>3, <1>4

LEMMA AbsIs ==
  ASSUME NEW i \in Int
  PROVE  Abs(i) \in Int
  BY DEF Abs

LEMMA DepthsAre ==
  ASSUME NEW s, NEW t, BoxNumbers(s, t)
  PROVE  /\ DepthX(s, t) = (HalfSize(s).X + HalfSize(t).X) - Abs(Center(s).X - Center(t).X)
         /\ DepthY(s, t) = (HalfSize(s).Y + HalfSize(t).Y) - Abs(Center(s).Y - Center(t).Y)
<1>1. /\ HalfSize(s).X \in Int /\ HalfSize(t).X \in Int
      /\ HalfSize(s).Y \in Int /\ HalfSize(t).Y \in Int
      /\ Center(s).X - Center(t).X \in Int /\ Center(s).Y - Center(t).Y \in Int
  BY DEF BoxNumbers
<1>2. Abs(Center(s).X - Center(t).X) \in Int /\ Abs(Center(s).Y - Center(t).Y) \in Int
  BY <1>1, AbsIs
<1>3. \A m, n, o \in Int : m + n - o = (m + n) - o
  OBVIOUS
<1> QED
  BY <1>1, <1>2, <1>3 DEF DepthX, DepthY

LEMMA Shifted ==
  ASSUME NEW i \in Int, NEW u \in Int, NEW z \in Int, NEW j, j = i + (u - z)
  PROVE  j - i = u - z /\ (u - z = 0 => u = z /\ j = i)
  OBVIOUS

\* The moves of two rectangles along an axis, n.
PartedX(u, z, i, d) ==
  u.X - z.X = (IF i > 0 THEN d ELSE - d) /\ u.Y - z.Y = 0

PartedY(u, z, i, d) ==
  u.Y - z.Y = (IF i > 0 THEN d ELSE - d) /\ u.X - z.X = 0

LEMMA PartedAxis ==
  ASSUME NEW u, NEW z, NEW n, NEW d, Parted(u, z, n, d), NEW i
  PROVE  /\ n = Point(IF i > 0 THEN 1 ELSE -1, 0) => PartedX(u, z, i, d)
         /\ n = Point(0, IF i > 0 THEN 1 ELSE -1) => PartedY(u, z, i, d)
<1>1. /\ u.X \in Int /\ u.Y \in Int /\ z.X \in Int /\ z.Y \in Int
      /\ d \in Int /\ d > 0
      /\ \/ n.X = 1 /\ n.Y = 0 /\ u.X - z.X = d /\ u.Y - z.Y = 0
         \/ n.X = -1 /\ n.Y = 0 /\ u.X - z.X = - d /\ u.Y - z.Y = 0
         \/ n.X = 0 /\ n.Y = 1 /\ u.X - z.X = 0 /\ u.Y - z.Y = d
         \/ n.X = 0 /\ n.Y = -1 /\ u.X - z.X = 0 /\ u.Y - z.Y = - d
  BY PartedFacts
<1>2. ASSUME n = Point(IF i > 0 THEN 1 ELSE -1, 0) PROVE PartedX(u, z, i, d)
  <2>1. n.X = (IF i > 0 THEN 1 ELSE -1) /\ n.Y = 0
    BY <1>2 DEF Point
  <2> QED
    BY <1>1, <2>1 DEF PartedX
<1>3. ASSUME n = Point(0, IF i > 0 THEN 1 ELSE -1) PROVE PartedY(u, z, i, d)
  <2>1. n.Y = (IF i > 0 THEN 1 ELSE -1) /\ n.X = 0
    BY <1>3 DEF Point
  <2> QED
    BY <1>1, <2>1 DEF PartedY
<1> QED
  BY <1>2, <1>3

\* Rectangles pushed apart along the axis in which they are least deep touch.
LEMMA RectanglesPushed ==
  ASSUME NEW a, NEW b, NEW s, NEW t, NEW s2, NEW t2, NEW u, NEW z,
         ShiftedBox(s2, s, u), ShiftedBox(t2, t, z), Intersect(s, t),
         LET c == RectangleRectangleContact(a, b, s, t) IN Parted(u, z, c.Normal, c.Penetration)
  PROVE  /\ RectangleRectangleContact(a, b, s2, t2).Penetration <= 0
         /\ Intersect(s2, t2)
<1> DEFINE c == RectangleRectangleContact(a, b, s, t)
           c2 == RectangleRectangleContact(a, b, s2, t2)
           d == c.Penetration
           i == Center(s).X - Center(t).X
           j == Center(s).Y - Center(t).Y
           i2 == Center(s2).X - Center(t2).X
           j2 == Center(s2).Y - Center(t2).Y
           h == HalfSize(s).X + HalfSize(t).X
           l == HalfSize(s).Y + HalfSize(t).Y
<1>1. IsBox(s) /\ IsBox(t) /\ IsBox(s2) /\ IsBox(t2)
  BY DEF ShiftedBox
<1>2. BoxNumbers(s, t) /\ BoxNumbers(s2, t2)
  BY <1>1, BoxNumbersAre
<1>3. /\ HalfSize(s2) = HalfSize(s) /\ HalfSize(t2) = HalfSize(t)
      /\ Center(s2).X = Center(s).X + u.X /\ Center(s2).Y = Center(s).Y + u.Y
      /\ Center(t2).X = Center(t).X + z.X /\ Center(t2).Y = Center(t).Y + z.Y
  BY ShiftedMiddle
<1>4. /\ s2.Min.X = s.Min.X + u.X /\ s2.Min.Y = s.Min.Y + u.Y
      /\ s2.Max.X = s.Max.X + u.X /\ s2.Max.Y = s.Max.Y + u.Y
      /\ t2.Min.X = t.Min.X + z.X /\ t2.Min.Y = t.Min.Y + z.Y
      /\ t2.Max.X = t.Max.X + z.X /\ t2.Max.Y = t.Max.Y + z.Y
  BY DEF ShiftedBox
<1>5. /\ u.X \in Int /\ u.Y \in Int /\ z.X \in Int /\ z.Y \in Int /\ d \in Int /\ d > 0
  BY PartedFacts
<1>6. /\ s.Min.X \in Int /\ s.Max.X \in Int /\ s.Min.Y \in Int /\ s.Max.Y \in Int
      /\ t.Min.X \in Int /\ t.Max.X \in Int /\ t.Min.Y \in Int /\ t.Max.Y \in Int
      /\ s2.Min.X \in Int /\ s2.Max.X \in Int /\ s2.Min.Y \in Int /\ s2.Max.Y \in Int
      /\ t2.Min.X \in Int /\ t2.Max.X \in Int /\ t2.Min.Y \in Int /\ t2.Max.Y \in Int
      /\ i \in Int /\ j \in Int /\ i2 \in Int /\ j2 \in Int /\ h \in Int /\ l \in Int
  BY <1>2 DEF BoxNumbers
<1>7. i2 = i + (u.X - z.X) /\ j2 = j + (u.Y - z.Y)
  BY <1>2, <1>3, <1>5 DEF BoxNumbers
<1>8. /\ DepthX(s, t) = h - Abs(i) /\ DepthY(s, t) = l - Abs(j)
      /\ DepthX(s2, t2) = h - Abs(i2) /\ DepthY(s2, t2) = l - Abs(j2)
      /\ DepthX(s, t) \in Int /\ DepthY(s, t) \in Int
      /\ DepthX(s2, t2) \in Int /\ DepthY(s2, t2) \in Int
  <2>1. DepthX(s, t) = h - Abs(i) /\ DepthY(s, t) = l - Abs(j)
    BY <1>2, DepthsAre
  <2>2. DepthX(s2, t2) = h - Abs(i2) /\ DepthY(s2, t2) = l - Abs(j2)
    BY <1>2, <1>3, DepthsAre
  <2>3. /\ DepthX(s, t) \in Int /\ DepthY(s, t) \in Int
        /\ DepthX(s2, t2) \in Int /\ DepthY(s2, t2) \in Int
    BY <1>1, RectanglesContact
  <2> QED
    BY <2>1, <2>2, <2>3
<1>9. CASE DepthX(s, t) < DepthY(s, t)
  <2>1. c.Normal = Point(IF i > 0 THEN 1 ELSE -1, 0) /\ d = DepthX(s, t)
    BY <1>1, <1>9, RectanglesContact
  <2>2. PartedX(u, z, i, d)
    BY <2>1, PartedAxis
  <2> HIDE DEF c, d, i, j, i2, j2, h, l
  <2>3. i2 - i = (IF i > 0 THEN d ELSE - d) /\ u.Y = z.Y /\ j2 = j
    <3>1. u.X - z.X = (IF i > 0 THEN d ELSE - d) /\ u.Y - z.Y = 0
      BY <2>2 DEF PartedX
    <3>2. i2 - i = u.X - z.X /\ u.Y = z.Y /\ j2 = j
      BY <1>5, <1>6, <1>7, <3>1, Shifted
    <3> QED
      BY <3>1, <3>2
  <2>4. Spread(i, i2, h, d)
    BY <1>8, <2>1, <2>3 DEF Spread
  <2>5. Abs(i2) = h
    BY <1>5, <1>6, <2>4, SpreadFacts
  <2>6. DepthX(s2, t2) = 0 /\ DepthX(s2, t2) < DepthY(s2, t2)
    BY <1>5, <1>6, <1>8, <1>9, <2>1, <2>3, <2>5, AbsIs
  <2>7. c2.Penetration <= 0
    BY <1>1, <2>6, RectanglesContact
  <2>8. s2.Max.X >= t2.Min.X /\ s2.Min.X <= t2.Max.X
    BY <1>2, <1>3, <2>5, BoxesTouch DEF i2, h
  <2>9. s2.Max.Y >= t2.Min.Y /\ s2.Min.Y <= t2.Max.Y
    BY <1>4, <1>5, <1>6, <2>3 DEF Intersect
  <2> QED
    BY <2>7, <2>8, <2>9 DEF Intersect
<1>10. CASE ~(DepthX(s, t) < DepthY(s, t))
  <2>1. c.Normal = Point(0, IF j > 0 THEN 1 ELSE -1) /\ d = DepthY(s, t)
    BY <1>1, <1>10, RectanglesContact
  <2>2. PartedY(u, z, j, d)
    BY <2>1, PartedAxis
  <2> HIDE DEF c, d, i, j, i2, j2, h, l
  <2>3. j2 - j = (IF j > 0 THEN d ELSE - d) /\ u.X = z.X /\ i2 = i
    <3>1. u.Y - z.Y = (IF j > 0 THEN d ELSE - d) /\ u.X - z.X = 0
      BY <2>2 DEF PartedY
    <3>2. j2 - j = u.Y - z.Y /\ u.X = z.X /\ i2 = i
      BY <1>5, <1>6, <1>7, <3>1, Shifted
    <3> QED
      BY <3>1, <3>2
  <2>4. Spread(j, j2, l, d)
    BY <1>8, <2>1, <2>3 DEF Spread
  <2>5. Abs(j2) = l
    BY <1>5, <1>6, <2>4, SpreadFacts
  <2>6. DepthY(s2, t2) = 0 /\ ~(DepthX(s2, t2) < DepthY(s2, t2))
    BY <1>5, <1>6, <1>8, <1>10, <2>1, <2>3, <2>5, AbsIs
  <2>7. c2.Penetration <= 0
    BY <1>1, <2>6, RectanglesContact
  <2>8. s2.Max.Y >= t2.Min.Y /\ s2.Min.Y <= t2.Max.Y
    BY <1>2, <1>3, <2>5, BoxesTouch DEF j2, l
  <2>9. s2.Max.X >= t2.Min.X /\ s2.Min.X <= t2.Max.X
    BY <1>4, <1>5, <1>6, <2>3 DEF Intersect
  <2> QED
    BY <2>7, <2>8, <2>9 DEF Intersect
<1> QED
  BY <1>9, <1>10

LEMMA IntersectIs ==
  ASSUME NEW s, NEW t
  PROVE  /\ (s.Kind = "Circle" /\ t.Kind = "Circle")
              => (ShapesIntersect(s, t) <=> CirclesIntersect(s, t))
         /\ (s.Kind = "Circle" /\ t.Kind = "Rectangle")
              => (ShapesIntersect(s, t) <=> RectangleCircleIntersect(t, s))
         /\ (s.Kind = "Rectangle" /\ t.Kind = "Circle")
              => (ShapesIntersect(s, t) <=> RectangleCircleIntersect(s, t))
         /\ (s.Kind = "Rectangle" /\ t.Kind = "Rectangle")
              => (ShapesIntersect(s, t) <=> Intersect(s, t))
  BY DEF ShapesIntersect

LEMMA PartedTurned ==
  ASSUME NEW u, NEW z, NEW n \in Vectors, NEW d, Parted(u, z, Times(n, -1), d)
  PROVE  Parted(z, u, n, d)
<1>1. /\ u \in Vectors /\ z \in Vectors /\ Times(n, -1) \in UnitVectors /\ d \in Int /\ d > 0
      /\ u.X - z.X = Times(n, -1).X * d /\ u.Y - z.Y = Times(n, -1).Y * d
  BY DEF Parted
<1>2. n \in UnitVectors
  <2>1. Times(n, -1) \in Vectors /\ Times(Times(n, -1), -1) = n
    BY NegatedFacts
  <2> QED
    BY <1>1, <2>1, NegatedFacts
<1>3. Times(n, -1).X = n.X * (-1) /\ Times(n, -1).Y = n.Y * (-1)
  BY TimesFacts
<1>4. \/ (n.X = 1 /\ n.Y = 0) \/ (n.X = -1 /\ n.Y = 0)
      \/ (n.X = 0 /\ n.Y = 1) \/ (n.X = 0 /\ n.Y = -1)
  BY <1>2 DEF UnitVectors
<1>5. u.X \in Int /\ u.Y \in Int /\ z.X \in Int /\ z.Y \in Int
  BY <1>1 DEF Vectors
<1>6. u.X - z.X = (n.X * (-1)) * d /\ u.Y - z.Y = (n.Y * (-1)) * d
  BY <1>1, <1>3
<1>7. z.X - u.X = n.X * d /\ z.Y - u.Y = n.Y * d
  <2>1. d \in Int
    BY <1>1
  <2>2. CASE n.X = 1 /\ n.Y = 0
    BY <1>5, <1>6, <2>1, <2>2
  <2>3. CASE n.X = -1 /\ n.Y = 0
    BY <1>5, <1>6, <2>1, <2>3
  <2>4. CASE n.X = 0 /\ n.Y = 1
    BY <1>5, <1>6, <2>1, <2>4
  <2>5. CASE n.X = 0 /\ n.Y = -1
    BY <1>5, <1>6, <2>1, <2>5
  <2> QED
    BY <1>4, <2>2, <2>3, <2>4, <2>5
<1> QED
  BY <1>1, <1>2, <1>7 DEF Parted

\* What the push of two bodies by u and z does to their shapes.
Push(b2, b, k, A, x, y, u, z) ==
  /\ Pair(b, k, A, x, y) /\ AreBodies(b2, A) /\ ~Throws(b, k, x, y) /\ ~Sunk(b, k, x, y)
  /\ ShapesIntersect(Placed(b, k, x), Placed(b, k, y))
  /\ u \in Vectors /\ b2[x].Position = Plus(b[x].Position, u)
  /\ z \in Vectors /\ b2[y].Position = Plus(b[y].Position, z)
  /\ Parted(u, z, Toward(TheContact(b, k, x, y), x), TheContact(b, k, x, y).Penetration)

Touching(b, k, x, y) ==
  /\ ShapesIntersect(Placed(b, k, x), Placed(b, k, y))
  /\ TheContact(b, k, x, y).Penetration <= 0

LEMMA PushedTouch ==
  ASSUME NEW b2, NEW b, NEW k, NEW A, NEW x, NEW y, NEW u, NEW z, Push(b2, b, k, A, x, y, u, z)
  PROVE  Touching(b2, k, x, y)
<1> DEFINE s == Placed(b, k, x)
           t == Placed(b, k, y)
           s2 == Placed(b2, k, x)
           t2 == Placed(b2, k, y)
           c == TheContact(b, k, x, y)
           c2 == TheContact(b2, k, x, y)
<1>1. /\ x \in A /\ y \in A /\ x # y /\ AreBodies(b, A) /\ AreColliders(k, A)
      /\ ShapesIntersect(s, t) /\ Parted(u, z, Toward(c, x), c.Penetration)
      /\ u \in Vectors /\ z \in Vectors
  BY DEF Push, Pair
<1>2. \/ ShiftedCircle(s2, s, u) /\ s.Kind = "Circle"
      \/ ShiftedBox(s2, s, u) /\ s.Kind = "Rectangle"
  BY <1>1, PlacedShifted DEF Push
<1>3. \/ ShiftedCircle(t2, t, z) /\ t.Kind = "Circle"
      \/ ShiftedBox(t2, t, z) /\ t.Kind = "Rectangle"
  BY <1>1, PlacedShifted DEF Push
<1>4. c.Normal \in Vectors
  BY TheContactJoins DEF Push, Joins
<1>5. CASE s.Kind = "Circle" /\ t.Kind = "Circle"
  <2>1. /\ ShiftedCircle(s2, s, u) /\ ShiftedCircle(t2, t, z)
        /\ s2.Kind = "Circle" /\ t2.Kind = "Circle"
    BY <1>2, <1>3, <1>5 DEF ShiftedCircle
  <2>2. c = CircleCircleContact(x, y, s, t) /\ c2 = CircleCircleContact(x, y, s2, t2)
    BY <1>5, <2>1 DEF TheContact
  <2>3. Toward(c, x) = c.Normal
    BY <2>2, ContactFields DEF Toward, CircleCircleContact
  <2> HIDE DEF s, t, s2, t2, c, c2
  <2>4. c2.Penetration <= 0 /\ CirclesIntersect(s2, t2)
    BY <1>1, <2>1, <2>2, <2>3, CirclesPushed
  <2>5. ShapesIntersect(s2, t2)
    BY <2>1, <2>4, IntersectIs
  <2> QED
    BY <2>4, <2>5 DEF Touching, s2, t2, c2
<1>6. CASE s.Kind = "Circle" /\ t.Kind = "Rectangle"
  <2>1. /\ ShiftedCircle(s2, s, u) /\ ShiftedBox(t2, t, z) /\ IsCircle(s) /\ IsBox(t)
        /\ s2.Kind = "Circle" /\ t2.Kind = "Rectangle"
    BY <1>2, <1>3, <1>6 DEF ShiftedCircle, ShiftedBox
  <2>2. c = CircleRectangleContact(x, y, s, t) /\ c2 = CircleRectangleContact(x, y, s2, t2)
    BY <1>6, <2>1 DEF TheContact
  <2>3. Toward(c, x) = c.Normal
    BY <2>2, ContactFields DEF Toward, CircleRectangleContact
  <2>4. ~RectangleContains(t, s.Center)
    BY <1>6 DEF Push, Sunk
  <2> HIDE DEF s, t, s2, t2, c, c2
  <2>5. ToCircle(s, t) # Zero
    BY <2>1, <2>4, CircleRectangleLeads
  <2>6. c2.Penetration <= 0 /\ RectangleCircleIntersect(t2, s2)
    BY <1>1, <2>1, <2>2, <2>3, <2>5, CircleRectanglePushed
  <2>7. ShapesIntersect(s2, t2)
    BY <2>1, <2>6, IntersectIs
  <2> QED
    BY <2>6, <2>7 DEF Touching, s2, t2, c2
<1>7. CASE s.Kind = "Rectangle" /\ t.Kind = "Circle"
  <2>1. /\ ShiftedBox(s2, s, u) /\ ShiftedCircle(t2, t, z) /\ IsBox(s) /\ IsCircle(t)
        /\ s2.Kind = "Rectangle" /\ t2.Kind = "Circle"
    BY <1>2, <1>3, <1>7 DEF ShiftedCircle, ShiftedBox
  <2>2. c = CircleRectangleContact(y, x, t, s) /\ c2 = CircleRectangleContact(y, x, t2, s2)
    BY <1>7, <2>1 DEF TheContact
  <2>3. Toward(c, x) = Times(c.Normal, -1)
    BY <1>1, <2>2, ContactFields DEF Toward, CircleRectangleContact
  <2>4. ~RectangleContains(s, t.Center)
    BY <1>7 DEF Push, Sunk
  <2> HIDE DEF s, t, s2, t2, c, c2
  <2>5. ToCircle(t, s) # Zero
    BY <2>1, <2>4, CircleRectangleLeads
  <2>6. Parted(z, u, c.Normal, c.Penetration)
    BY <1>1, <1>4, <2>3, PartedTurned
  <2>7. c2.Penetration <= 0 /\ RectangleCircleIntersect(s2, t2)
    BY <2>1, <2>2, <2>5, <2>6, CircleRectanglePushed
  <2>8. ShapesIntersect(s2, t2)
    BY <2>1, <2>7, IntersectIs
  <2> QED
    BY <2>7, <2>8 DEF Touching, s2, t2, c2
<1>8. CASE s.Kind = "Rectangle" /\ t.Kind = "Rectangle"
  <2>1. /\ ShiftedBox(s2, s, u) /\ ShiftedBox(t2, t, z) /\ IsBox(s) /\ IsBox(t)
        /\ s2.Kind = "Rectangle" /\ t2.Kind = "Rectangle"
    BY <1>2, <1>3, <1>8 DEF ShiftedBox
  <2>2. c = RectangleRectangleContact(x, y, s, t) /\ c2 = RectangleRectangleContact(x, y, s2, t2)
    BY <1>8, <2>1 DEF TheContact
  <2>3. Toward(c, x) = c.Normal
    BY <2>1, <2>2, RectanglesContact DEF Toward
  <2> HIDE DEF s, t, s2, t2, c, c2
  <2>4. Intersect(s, t)
    BY <1>1, <1>8, IntersectIs
  <2>5. c2.Penetration <= 0 /\ Intersect(s2, t2)
    BY <1>1, <2>1, <2>2, <2>3, <2>4, RectanglesPushed
  <2>6. ShapesIntersect(s2, t2)
    BY <2>1, <2>5, IntersectIs
  <2> QED
    BY <2>5, <2>6 DEF Touching, s2, t2, c2
<1> QED
  BY <1>2, <1>3, <1>5, <1>6, <1>7, <1>8

LEMMA Unmoved ==
  ASSUME NEW p \in Vectors, NEW n \in Vectors, NEW m \in Int, m = 0
  PROVE  Plus(p, Times(n, m)) = p /\ Plus(p, Times(n, - m)) = p
<1>1. - m = 0
  <2>1. \A i \in Int : i <= 0 /\ i >= 0 => - i = 0
    OBVIOUS
  <2>2. m <= 0 /\ m >= 0
    OBVIOUS
  <2> QED
    BY <2>1, <2>2
<1>2. Times(n, m) = Zero /\ Times(n, - m) = Zero
  BY <1>1 DEF Times, Zero, Point, Vectors
<1>3. Plus(p, Zero) = p
  BY DEF Plus, Zero, Point, Vectors
<1> QED
  BY <1>2, <1>3

LEMMA PushParts ==
  ASSUME NEW n \in UnitVectors, NEW d \in Int, NEW e \in Int, NEW depth \in Int, depth > 0,
         d + e = depth
  PROVE  Parted(Times(n, d), Times(n, - e), n, depth)
<1>1. n \in Vectors /\ - e \in Int
  BY DEF UnitVectors
<1>2. /\ Times(n, d) \in Vectors /\ Times(n, d).X = n.X * d /\ Times(n, d).Y = n.Y * d
      /\ Times(n, - e) \in Vectors
      /\ Times(n, - e).X = n.X * (- e) /\ Times(n, - e).Y = n.Y * (- e)
  BY <1>1, TimesFacts
<1>3. \/ (n.X = 1 /\ n.Y = 0) \/ (n.X = -1 /\ n.Y = 0)
      \/ (n.X = 0 /\ n.Y = 1) \/ (n.X = 0 /\ n.Y = -1)
  BY DEF UnitVectors
<1>4. n.X * d - n.X * (- e) = n.X * depth /\ n.Y * d - n.Y * (- e) = n.Y * depth
  BY <1>3
<1> QED
  BY <1>2, <1>4 DEF Parted

LEMMA PushesApart ==
  ASSUME NEW A, NEW b, NEW k, NEW x, NEW y, Pair(b, k, A, x, y), ~Throws(b, k, x, y),
         ~Sunk(b, k, x, y), Driven(b, x, y), ShapesIntersect(Placed(b, k, x), Placed(b, k, y)),
         NEW b2, NEW n, NEW r, NEW j, NEW v, NEW w, NEW d, NEW e,
         n = Toward(TheContact(b, k, x, y), x), Result(b2, b, k, A, x, y, n, r, j, v, w, d, e)
  PROVE  Touching(b2, k, x, y)
<1> DEFINE depth == TheContact(b, k, x, y).Penetration
<1>1. /\ n \in UnitVectors /\ n \in Vectors /\ AreBodies(b2, A) /\ d \in Int /\ e \in Int
      /\ b2[x].Position = Plus(b[x].Position, Times(n, d))
      /\ b2[y].Position = Plus(b[y].Position, Times(n, - e))
      /\ PushOf(b, x, y, depth, d, e)
  BY DEF Result, Outcome
<1>2. depth \in Int
  BY TheContactJoins DEF Joins
<1>3. CASE depth <= 0
  <2>1. d = 0 /\ e = 0
    BY <1>1, <1>3 DEF PushOf
  <2>2. b[x].Position \in Vectors /\ b[y].Position \in Vectors
    BY DEF Pair, AreBodies, Bodies
  <2>3. b2[x].Position = b[x].Position /\ b2[y].Position = b[y].Position
    BY <1>1, <2>1, <2>2, Unmoved
  <2>4. Placed(b2, k, x) = Placed(b, k, x) /\ Placed(b2, k, y) = Placed(b, k, y)
    BY <2>3 DEF Placed
  <2>5. TheContact(b2, k, x, y) = TheContact(b, k, x, y)
    BY <2>4 DEF TheContact
  <2> QED
    BY <1>3, <2>4, <2>5 DEF Touching
<1>4. CASE depth > 0
  <2>1. d + e = depth
    BY <1>1, <1>4 DEF PushOf
  <2>2. Parted(Times(n, d), Times(n, - e), n, depth)
    BY <1>1, <1>2, <1>4, <2>1, PushParts
  <2>3. Times(n, d) \in Vectors /\ Times(n, - e) \in Vectors
    BY <2>2 DEF Parted
  <2>4. Push(b2, b, k, A, x, y, Times(n, d), Times(n, - e))
    BY <1>1, <2>2, <2>3 DEF Push
  <2> QED
    BY <2>4, PushedTouch
<1> QED
  BY <1>2, <1>3, <1>4

-----------------------------------------------------------------------------
(* Shapes that do not overlap are not deep in each other.                  *)

LEMMA FarApart ==
  ASSUME NEW i \in Int, NEW j \in Int, NEW r \in Nat, ~(i * i + j * j <= r * r)
  PROVE  r - (Abs(i) + Abs(j)) <= 0
<1> DEFINE k == Abs(i)
           l == Abs(j)
<1>1. k \in Nat /\ l \in Nat /\ k * k = i * i /\ l * l = j * j
  BY DEF Abs
<1>2. SUFFICES ASSUME k + l < r PROVE FALSE
  BY <1>1
<1> HIDE DEF k, l
<1>3. k * l \in Nat /\ (k + l) * (k + l) = k * k + l * l + 2 * (k * l)
  BY <1>1
<1>4. (k + l) * (k + l) <= r * r
  BY <1>1, <1>2
<1> QED
  BY <1>1, <1>3, <1>4

LEMMA CirclesApart ==
  ASSUME NEW a, NEW b, NEW s, NEW t, IsCircle(s), IsCircle(t), ~CirclesIntersect(s, t)
  PROVE  CircleCircleContact(a, b, s, t).Penetration <= 0
<1> DEFINE q == Minus(s.Center, t.Center)
           r == s.Radius + t.Radius
<1>1. s.Center \in Vectors /\ t.Center \in Vectors /\ s.Radius \in Nat /\ t.Radius \in Nat
  BY DEF IsCircle
<1>2. /\ q \in Vectors /\ q.X \in Int /\ q.Y \in Int
      /\ Length(q) = Abs(q.X) + Abs(q.Y) /\ Length(q) \in Nat
  BY <1>1, MinusFacts, NormalizedFacts DEF Vectors
<1>3. r \in Nat
  BY <1>1
<1>4. CircleCircleContact(a, b, s, t).Penetration = r - (Abs(q.X) + Abs(q.Y))
  <2>1. CircleCircleContact(a, b, s, t).Penetration = s.Radius + t.Radius - Length(q)
    BY CircleCircleIs DEF Delta
  <2> HIDE DEF q
  <2> QED
    BY <1>1, <1>2, <2>1
<1>5. ~(q.X * q.X + q.Y * q.Y <= r * r)
  BY DEF CirclesIntersect, SquareLength, Dot
<1> HIDE DEF q, r
<1> QED
  BY <1>2, <1>3, <1>4, <1>5, FarApart

LEMMA CircleRectangleApart ==
  ASSUME NEW a, NEW b, NEW s, NEW t, IsCircle(s), IsBox(t), ~RectangleCircleIntersect(t, s),
         Straight(CircleRectangleContact(a, b, s, t).Normal)
  PROVE  CircleRectangleContact(a, b, s, t).Penetration <= 0
<1> DEFINE c == CircleRectangleContact(a, b, s, t)
           q == ToCircle(s, t)
           p == Minus(s.Center, Center(t))
<1>1. Beside(s, t, p, HalfSize(t), q)
  BY BesideIs
<1>2. q \in Vectors /\ q.X \in Int /\ q.Y \in Int /\ s.Radius \in Nat
  BY <1>1 DEF Beside, Vectors, IsCircle
<1>3. /\ q # Zero => c.Normal = Normalized(q)
      /\ c.Penetration = s.Radius - Length(q)
  BY CircleRectangleIs
<1>4. q.X = 0 \/ q.Y = 0
  <2>1. CASE q = Zero
    BY <2>1 DEF Zero, Point
  <2>2. CASE q # Zero
    <3>1. Sign(q.X) = 0 \/ Sign(q.Y) = 0
      BY <1>2, <1>3, <2>2, NormalizedFacts DEF Straight
    <3> QED
      BY <1>2, <3>1 DEF Sign
  <2> QED
    BY <2>1, <2>2
<1>5. Length(q) = Abs(q.X) + Abs(q.Y) /\ Length(q) \in Nat
  BY <1>2, NormalizedFacts
<1> HIDE DEF c, q, p
<1>6. ~Near(q.X, q.Y, s.Radius)
  BY <1>1, NearTouches
<1>7. ~(Length(q) <= s.Radius)
  BY <1>4, <1>5, <1>6 DEF Near
<1>8. c.Penetration <= 0
  BY <1>2, <1>3, <1>5, <1>7
<1> QED
  BY <1>8 DEF c

LEMMA SidesApart ==
  ASSUME NEW m \in Int, NEW n \in Int, NEW c \in Int, NEW h \in Int, h >= 0, Side(m, n, c, h),
         NEW m2 \in Int, NEW n2 \in Int, NEW c2 \in Int, NEW h2 \in Int, h2 >= 0,
         Side(m2, n2, c2, h2), ~(n >= m2 /\ m <= n2)
  PROVE  (h + h2) - Abs(c - c2) <= 0
<1>1. c - c2 > h + h2 \/ c2 - c > h + h2
  BY DEF Side
<1> QED
  BY <1>1 DEF Abs

LEMMA RectanglesApart ==
  ASSUME NEW a, NEW b, NEW s, NEW t, IsBox(s), IsBox(t), ~Intersect(s, t)
  PROVE  RectangleRectangleContact(a, b, s, t).Penetration <= 0
<1>1. BoxNumbers(s, t)
  BY BoxNumbersAre
<1>2. \/ ~(s.Max.X >= t.Min.X /\ s.Min.X <= t.Max.X)
      \/ ~(s.Max.Y >= t.Min.Y /\ s.Min.Y <= t.Max.Y)
  BY <1>1 DEF Intersect, BoxNumbers
<1>3. ASSUME ~(s.Max.X >= t.Min.X /\ s.Min.X <= t.Max.X) PROVE DepthX(s, t) <= 0
  <2>1. /\ s.Min.X \in Int /\ s.Max.X \in Int /\ t.Min.X \in Int /\ t.Max.X \in Int
        /\ Center(s).X \in Int /\ HalfSize(s).X \in Int /\ HalfSize(s).X >= 0
        /\ Center(t).X \in Int /\ HalfSize(t).X \in Int /\ HalfSize(t).X >= 0
        /\ Side(s.Min.X, s.Max.X, Center(s).X, HalfSize(s).X)
        /\ Side(t.Min.X, t.Max.X, Center(t).X, HalfSize(t).X)
    BY <1>1 DEF BoxNumbers
  <2>2. (HalfSize(s).X + HalfSize(t).X) - Abs(Center(s).X - Center(t).X) <= 0
    BY <1>3, <2>1, SidesApart, SMTT(60)
  <2> QED
    BY <1>1, <2>2, DepthsAre
<1>4. ASSUME ~(s.Max.Y >= t.Min.Y /\ s.Min.Y <= t.Max.Y) PROVE DepthY(s, t) <= 0
  <2>1. /\ s.Min.Y \in Int /\ s.Max.Y \in Int /\ t.Min.Y \in Int /\ t.Max.Y \in Int
        /\ Center(s).Y \in Int /\ HalfSize(s).Y \in Int /\ HalfSize(s).Y >= 0
        /\ Center(t).Y \in Int /\ HalfSize(t).Y \in Int /\ HalfSize(t).Y >= 0
        /\ Side(s.Min.Y, s.Max.Y, Center(s).Y, HalfSize(s).Y)
        /\ Side(t.Min.Y, t.Max.Y, Center(t).Y, HalfSize(t).Y)
    BY <1>1 DEF BoxNumbers
  <2>2. (HalfSize(s).Y + HalfSize(t).Y) - Abs(Center(s).Y - Center(t).Y) <= 0
    BY <1>4, <2>1, SidesApart, SMTT(60)
  <2> QED
    BY <1>1, <2>2, DepthsAre
<1> QED
  BY <1>2, <1>3, <1>4, RectanglesContact

LEMMA NotDeep ==
  ASSUME NEW A, NEW b, NEW k, NEW x, NEW y, Pair(b, k, A, x, y), ~Throws(b, k, x, y),
         ~ShapesIntersect(Placed(b, k, x), Placed(b, k, y)),
         Straight(TheContact(b, k, x, y).Normal)
  PROVE  TheContact(b, k, x, y).Penetration <= 0
<1> DEFINE s == Placed(b, k, x)
           t == Placed(b, k, y)
           c == TheContact(b, k, x, y)
<1>1. /\ (IsCircle(s) /\ s.Kind = "Circle") \/ (IsBox(s) /\ s.Kind = "Rectangle")
      /\ (IsCircle(t) /\ t.Kind = "Circle") \/ (IsBox(t) /\ t.Kind = "Rectangle")
  BY PlacedShape DEF Pair
<1>2. CASE s.Kind = "Circle" /\ t.Kind = "Circle"
  <2>1. c = CircleCircleContact(x, y, s, t)
    BY <1>2 DEF TheContact
  <2> QED
    BY <1>1, <1>2, <2>1, IntersectIs, CirclesApart
<1>3. CASE s.Kind = "Circle" /\ t.Kind = "Rectangle"
  <2>1. c = CircleRectangleContact(x, y, s, t)
    BY <1>3 DEF TheContact
  <2> QED
    BY <1>1, <1>3, <2>1, IntersectIs, CircleRectangleApart
<1>4. CASE s.Kind = "Rectangle" /\ t.Kind = "Circle"
  <2>1. c = CircleRectangleContact(y, x, t, s)
    BY <1>4 DEF TheContact
  <2> QED
    BY <1>1, <1>4, <2>1, IntersectIs, CircleRectangleApart
<1>5. CASE s.Kind = "Rectangle" /\ t.Kind = "Rectangle"
  <2>1. c = RectangleRectangleContact(x, y, s, t)
    BY <1>5 DEF TheContact
  <2> QED
    BY <1>1, <1>5, <2>1, IntersectIs, RectanglesApart
<1> QED
  BY <1>1, <1>2, <1>3, <1>4, <1>5

-----------------------------------------------------------------------------
(* The positions after a resolution.                                       *)

LEMMA OnlyTheDynamicMove ==
  ASSUME IInv, [Next]_vars, NEW p \in todo, Resolves(p), NEW a \in Actors, ~IsDynamic(a)
  PROVE  body'[a] = body[a]
<1>1. PICK r, j, v, w, d, e : Outcome(body', body, Actors, p[1], p[2], Apart(p), v, w, d, e)
  BY ResolvedStep
<1> QED
  BY <1>1 DEF Outcome, IsDynamic

LEMMA DepthAfter ==
  ASSUME NEW p, Pair(body', collider', Actors, p[1], p[2])
  PROVE  Depth(p)' = TheContact(body', collider', p[1], p[2]).Penetration
<1>1. ContactProperties(body', collider', p[1], p[2])
        = {TheContact(body', collider', p[1], p[2])}
  BY ContactIsThe
<1>2. ContactOf(p)' = TheContact(body', collider', p[1], p[2])
  BY <1>1 DEF ContactOf
<1> QED
  BY <1>2 DEF Depth

LEMMA TouchesAfter ==
  ASSUME IInv, [Next]_vars, NEW p \in todo, Resolves(p), Movable(p), Overlapping(body, p), ~Deep(p)
  PROVE  Overlapping(body', p) /\ Depth(p)' <= 0
<1>1. /\ Pair(body, collider, Actors, p[1], p[2]) /\ ~Throws(body, collider, p[1], p[2])
  BY ResolvedStep
<1>2. PICK r, j, v, w, d, e :
        Result(body', body, collider, Actors, p[1], p[2], Apart(p), r, j, v, w, d, e)
  BY ResolvedStep
<1>3. Apart(p) = Toward(TheContact(body, collider, p[1], p[2]), p[1])
  BY <1>1, ContactOfIs
<1>4. ~Sunk(body, collider, p[1], p[2])
  BY DEF Deep, Sunk
<1>5. Driven(body, p[1], p[2])
  BY MovableIsDriven
<1>6. ShapesIntersect(Placed(body, collider, p[1]), Placed(body, collider, p[2]))
  BY DEF Overlapping
<1>7. Touching(body', collider, p[1], p[2])
  BY <1>1, <1>2, <1>3, <1>4, <1>5, <1>6, PushesApart
<1>8. Resolution(p)
  BY ResolvesIs
<1>9. collider' = collider
  BY <1>8 DEF Resolution, setting
<1>10. Pair(body', collider', Actors, p[1], p[2])
  <2>1. AreBodies(body', Actors)
    BY <1>2 DEF Result, Outcome
  <2> QED
    BY <1>1, <1>9, <2>1 DEF Pair
<1>11. Depth(p)' = TheContact(body', collider, p[1], p[2]).Penetration
  BY <1>9, <1>10, DepthAfter
<1> QED
  BY <1>7, <1>11 DEF Touching, Overlapping

LEMMA StaysApart ==
  ASSUME IInv, [Next]_vars, NEW p \in todo, Resolves(p), ~Overlapping(body, p), NEW a \in Actors
  PROVE  body'[a].Position = body[a].Position
<1> DEFINE c == TheContact(body, collider, p[1], p[2])
<1>1. /\ Pair(body, collider, Actors, p[1], p[2]) /\ ~Throws(body, collider, p[1], p[2])
      /\ p[1] \in Actors /\ p[2] \in Actors
  BY ResolvedStep
<1>2. PICK r, j, v, w, d, e :
        /\ Result(body', body, collider, Actors, p[1], p[2], Apart(p), r, j, v, w, d, e)
        /\ Outcome(body', body, Actors, p[1], p[2], Apart(p), v, w, d, e)
        /\ Apart(p) \in UnitVectors
  BY ResolvedStep
<1>3. Straight(c.Normal)
  <2>1. Apart(p) = c.Normal \/ Apart(p) = Times(c.Normal, -1)
    BY <1>1, ContactOfIs DEF Toward
  <2>2. c.Normal \in Vectors
    BY <1>1, TheContactJoins DEF Joins
  <2>3. Apart(p).X = 0 \/ Apart(p).Y = 0
    BY <1>2 DEF UnitVectors
  <2> QED
    BY <2>1, <2>2, <2>3, NegatedFacts DEF Straight
<1>4. c.Penetration <= 0
  BY <1>1, <1>3, NotDeep DEF Overlapping
<1>5. d = 0 /\ e = 0
  BY <1>2, <1>4 DEF Result, PushOf
<1>6. /\ Apart(p) \in Vectors
      /\ body[p[1]].Position \in Vectors /\ body[p[2]].Position \in Vectors
  BY <1>1, <1>2 DEF Outcome, Pair, AreBodies, Bodies
<1>7. /\ body'[p[1]].Position = body[p[1]].Position
      /\ body'[p[2]].Position = body[p[2]].Position
  BY <1>2, <1>5, <1>6, Unmoved DEF Outcome
<1> QED
  BY <1>2, <1>7 DEF Outcome

\* ContactSolver::ResolvePostCollisionPosition moves no body but a dynamic one,
\* leaves circles and rectangles that overlapped touching and no deeper than that,
\* and those that did not where they are.
THEOREM PushesExactly == Spec => PushedApart
<1>1. IInv /\ [Next]_vars
        => [ \A p \in todo :
               Resolves(p)
                 => /\ \A a \in Actors : ~IsDynamic(a) => body'[a] = body[a]
                    /\ Collides(p) /\ ~Deep(p)
                         => IF Overlapping(body, p)
                            THEN Overlapping(body', p) /\ Depth(p)' <= 0
                            ELSE \A a \in Actors : body'[a].Position = body[a].Position ]_vars
  BY OnlyTheDynamicMove, TouchesAfter, StaysApart DEF Collides
<1> QED
  BY <1>1, InvariantHolds, PTL DEF Spec, PushedApart
=============================================================================
