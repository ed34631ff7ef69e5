-------------------------- MODULE PointersProofs ---------------------------
(***************************************************************************)
(* The theorems about SharedPtr and UniquePtr, for any finite number of    *)
(* handles.  Every one about SharedPtr rests on what an operation does to  *)
(* the set of the handles that own an object, which the first lemmas state *)
(* operation by operation; the counts then follow by cardinality.  That an *)
(* object of a UniquePtr has one owner and that only owned objects are     *)
(* allocated needs no strengthening.                                       *)
(***************************************************************************)
EXTENDS Pointers, FiniteSetTheorems, TLAPS

LEMMA OwnersFinite ==
  ASSUME TypeOK, NEW o \in Objects
  PROVE  IsFiniteSet(Owners(o)) /\ Cardinality(Owners(o)) \in Nat
<1>1. Owners(o) \subseteq Handles
  BY DEF Owners, TypeOK
<1>2. IsFiniteSet(Owners(o))
  BY <1>1, PointerAssumption, FS_Subset
<1> QED
  BY <1>2, FS_CardinalityType

\* What the counts have to follow: a handle joins, one leaves, one replaces
\* another.
LEMMA CardinalityJoin ==
  ASSUME NEW S, IsFiniteSet(S), NEW x
  PROVE  /\ Cardinality(S \union {x}) <= Cardinality(S) + 1
         /\ x \notin S => Cardinality(S \union {x}) = Cardinality(S) + 1
<1>1. Cardinality(S) \in Nat
  BY FS_CardinalityType
<1> QED
  BY <1>1, FS_AddElement

LEMMA CardinalityLeave ==
  ASSUME NEW S, IsFiniteSet(S), NEW x \in S
  PROVE  Cardinality(S \ {x}) = Cardinality(S) - 1
BY FS_RemoveElement

LEMMA CardinalityReplace ==
  ASSUME NEW S, IsFiniteSet(S), NEW y \in S, NEW x, x \notin S
  PROVE  Cardinality((S \ {y}) \union {x}) = Cardinality(S)
<1>1. IsFiniteSet(S \ {y}) /\ Cardinality(S \ {y}) = Cardinality(S) - 1
  BY FS_RemoveElement
<1>2. Cardinality((S \ {y}) \union {x}) = Cardinality(S \ {y}) + 1
  BY <1>1, FS_AddElement
<1>3. Cardinality(S) \in Nat
  BY FS_CardinalityType
<1> QED
  BY <1>1, <1>2, <1>3

LEMMA CardinalityLess ==
  ASSUME NEW S, IsFiniteSet(S), NEW x
  PROVE  /\ Cardinality(S \ {x}) <= Cardinality(S)
         /\ \A y \in S : Cardinality((S \ {y}) \union {x}) <= Cardinality(S)
<1>1. Cardinality(S) \in Nat
  BY FS_CardinalityType
<1>2. Cardinality(S \ {x}) = IF x \in S THEN Cardinality(S) - 1 ELSE Cardinality(S)
  BY FS_RemoveElement
<1>3. ASSUME NEW y \in S
      PROVE  Cardinality((S \ {y}) \union {x}) <= Cardinality(S)
  <2>1. IsFiniteSet(S \ {y}) /\ Cardinality(S \ {y}) = Cardinality(S) - 1
    BY FS_RemoveElement
  <2>2. Cardinality((S \ {y}) \union {x})
          = IF x \in S \ {y} THEN Cardinality(S \ {y}) ELSE Cardinality(S \ {y}) + 1
    BY <2>1, FS_AddElement
  <2> QED
    BY <1>1, <2>1, <2>2
<1> QED
  BY <1>1, <1>2, <1>3

\* The owners after each operation.
LEMMA ConstructOwners ==
  ASSUME TypeOK, NEW h \in Handles, Construct(h), NEW o \in Objects
  PROVE  Owners(o)' = Owners(o)
BY PointerAssumption DEF TypeOK, Construct, Owners

LEMMA AcquireOwners ==
  ASSUME TypeOK, NEW h \in Handles, NEW p \in Objects, Acquire(h, p), NEW o \in Objects
  PROVE  /\ h \notin Owners(o)
         /\ Owners(o)' = IF o = p THEN Owners(o) \union {h} ELSE Owners(o)
BY DEF TypeOK, Acquire, Owners

LEMMA CopyOwners ==
  ASSUME TypeOK, NEW h \in Handles, NEW other \in Handles, Counted(other),
         CopyConstruct(h, other), NEW o \in Objects
  PROVE  /\ h \notin Owners(o)
         /\ Owners(o)' = IF o = target[other] THEN Owners(o) \union {h} ELSE Owners(o)
BY DEF TypeOK, CopyConstruct, Counted, Owners, Undefined

LEMMA MoveConstructOwners ==
  ASSUME TypeOK, NEW h \in Handles, NEW other \in Handles,
         MoveConstruct(h, other), NEW o \in Objects
  PROVE  /\ h \notin Owners(o)
         /\ o # target[other] => Owners(o)' = Owners(o)
         /\ o = target[other] => /\ other \in Owners(o)
                                 /\ Owners(o)' = (Owners(o) \ {other}) \union {h}
BY PointerAssumption DEF TypeOK, MoveConstruct, Owners

LEMMA CopyAssignOwners ==
  ASSUME TypeOK, NEW h \in Handles, NEW other \in Handles, Counted(other),
         CopyAssign(h, other), NEW o \in Objects
  PROVE  /\ Owners(o)' = IF o = target[other] THEN Owners(o) \union {h}
                         ELSE Owners(o) \ {h}
         /\ target[h] = Null => h \notin Owners(o)
BY PointerAssumption DEF TypeOK, CopyAssign, Counted, Owners, Undefined

LEMMA MoveAssignOwners ==
  ASSUME TypeOK, NEW h \in Handles, NEW other \in Handles,
         MoveAssign(h, other), NEW o \in Objects
  PROVE  /\ o # target[other] => Owners(o)' = Owners(o) \ {h}
         /\ o = target[other] =>
              /\ other \in Owners(o)
              /\ Owners(o)' = (Owners(o) \ {other}) \union (IF h = other THEN {} ELSE {h})
         /\ target[h] = Null => h \notin Owners(o)
<1>1. CASE h = other
  BY <1>1, PointerAssumption DEF TypeOK, MoveAssign, Owners
<1>2. CASE h # other
  BY <1>2, PointerAssumption DEF TypeOK, MoveAssign, Owners
<1> QED
  BY <1>1, <1>2

LEMMA DestroyOwners ==
  ASSUME TypeOK, NEW h \in Handles, Counted(h), Destroy(h), NEW o \in Objects
  PROVE  /\ Owners(o)' = Owners(o) \ {h}
         /\ h \in Owners(o) <=> o = target[h]
BY DEF TypeOK, Destroy, Counted, Owners, Undefined

-----------------------------------------------------------------------------
(* The types and the inequality between counts and owners.  A count stays a *)
(* natural number because an object that can still be reached is counted,  *)
(* so the two are proved together.                                         *)

IInv == TypeOK /\ NeverDangling

LEMMA InitHolds == Init => IInv
<1> SUFFICES ASSUME Init
             PROVE  IInv
  OBVIOUS
<1>1. TypeOK
  BY PointerAssumption DEF Init, TypeOK
<1>2. \A o \in Objects : Owners(o) = {} /\ count[o] = 0 /\ heap[o] = "unused"
  BY DEF Init, Owners
<1> QED
  BY <1>1, <1>2, FS_EmptySet DEF IInv, NeverDangling

\* A handle that is counted shares an object whose count is positive.
LEMMA CountedPositive ==
  ASSUME IInv, NEW h \in Handles, Counted(h)
  PROVE  target[h] \in Objects /\ count[target[h]] \in Nat \ {0}
BY DEF IInv, TypeOK, NeverDangling, Counted

LEMMA TypeStep == IInv /\ [AnyNext]_vars => TypeOK'
<1> SUFFICES ASSUME IInv, [AnyNext]_vars
             PROVE  TypeOK'
  OBVIOUS
<1>0. TypeOK
  BY DEF IInv
<1>1. ASSUME NEW h \in Handles, Construct(h)
      PROVE  TypeOK'
  BY <1>0, <1>1 DEF Construct, TypeOK
<1>2. ASSUME NEW h \in Handles, Destroy(h)
      PROVE  TypeOK'
  <2>1. CASE Counted(h)
    <3>1. target[h] \in Objects /\ count[target[h]] - 1 \in Nat
      BY <2>1, CountedPositive
    <3> QED
      BY <1>0, <1>2, <2>1, <3>1 DEF Destroy, TypeOK
  <2> QED
    BY <1>0, <1>2, <2>1 DEF Destroy, Undefined, TypeOK
<1>3. ASSUME NEW h \in Handles, NEW o \in Objects, Acquire(h, o)
      PROVE  TypeOK'
  BY <1>0, <1>3 DEF Acquire, TypeOK
<1>4. ASSUME NEW h \in Handles, NEW other \in Handles, CopyConstruct(h, other)
      PROVE  TypeOK'
  BY <1>0, <1>4 DEF CopyConstruct, Counted, Incremented, Undefined, TypeOK
<1>5. ASSUME NEW h \in Handles, NEW other \in Handles, CopyAssign(h, other)
      PROVE  TypeOK'
  BY <1>0, <1>5 DEF CopyAssign, Counted, Incremented, Undefined, TypeOK
<1>6. ASSUME NEW h \in Handles, NEW other \in Handles,
             MoveConstruct(h, other) \/ MoveAssign(h, other)
      PROVE  TypeOK'
  BY <1>0, <1>6 DEF MoveConstruct, MoveAssign, TypeOK
<1> QED
  BY <1>0, <1>1, <1>2, <1>3, <1>4, <1>5, <1>6 DEF AnyNext, vars, TypeOK

\* One object's part of NeverDangling, which each operation is shown to keep.
Safe(o) ==
  /\ Cardinality(Owners(o)) <= count[o]
  /\ heap[o] = "allocated" <=> count[o] > 0

LEMMA AcquireSafe ==
  ASSUME IInv, NEW h \in Handles, NEW p \in Objects, Acquire(h, p), NEW o \in Objects
  PROVE  Safe(o)'
<1>1. TypeOK /\ Safe(o) /\ Safe(p)
  BY DEF IInv, NeverDangling, Safe
<1>2. CASE o # p
  BY <1>1, <1>2, AcquireOwners DEF Acquire, Safe, TypeOK
<1>3. CASE o = p
  <2>1. heap[p] = "unused" /\ count'[p] = 1 /\ heap'[p] = "allocated"
    BY <1>1 DEF Acquire, TypeOK
  <2>2. Cardinality(Owners(p)) = 0
    BY <1>1, <2>1, OwnersFinite DEF Safe, TypeOK
  <2>3. Cardinality(Owners(p) \union {h}) <= 1
    BY <1>1, <2>2, OwnersFinite, CardinalityJoin
  <2> QED
    BY <1>1, <1>3, <2>1, <2>3, AcquireOwners DEF Safe
<1> QED
  BY <1>2, <1>3

LEMMA CopySafe ==
  ASSUME IInv, NEW h \in Handles, NEW other \in Handles, Counted(other),
         CopyConstruct(h, other) \/ CopyAssign(h, other), NEW o \in Objects
  PROVE  Safe(o)'
<1>1. TypeOK /\ Safe(o) /\ count[o] \in Nat
  BY DEF IInv, NeverDangling, Safe, TypeOK
<1>2. /\ target[other] \in Objects /\ heap' = heap
      /\ count' = [count EXCEPT ![target[other]] = @ + 1]
  BY <1>1, CountedPositive DEF CopyConstruct, CopyAssign, Incremented
<1>3. IsFiniteSet(Owners(o)) /\ Cardinality(Owners(o)) \in Nat
  BY <1>1, OwnersFinite
<1>4. CASE o = target[other]
  <2>1. Owners(o)' = Owners(o) \union {h}
    BY <1>1, <1>4, CopyOwners, CopyAssignOwners
  <2>2. Cardinality(Owners(o) \union {h}) <= Cardinality(Owners(o)) + 1
    BY <1>3, CardinalityJoin
  <2>3. Cardinality(Owners(o) \union {h}) \in Nat
    BY <1>3, FS_AddElement
  <2>4. count'[o] = count[o] + 1 /\ heap[o] = "allocated" /\ heap'[o] = "allocated"
    BY <1>1, <1>2, <1>4 DEF Counted, TypeOK
  <2> QED
    BY <1>1, <1>3, <2>1, <2>2, <2>3, <2>4 DEF Safe
<1>5. CASE o # target[other]
  <2>1. Owners(o)' = Owners(o) \/ Owners(o)' = Owners(o) \ {h}
    BY <1>1, <1>5, CopyOwners, CopyAssignOwners
  <2>2. Cardinality(Owners(o) \ {h}) <= Cardinality(Owners(o))
        /\ Cardinality(Owners(o) \ {h}) \in Nat
    BY <1>3, FS_Subset, FS_CardinalityType, FS_RemoveElement
  <2>3. count'[o] = count[o] /\ heap'[o] = heap[o]
    BY <1>1, <1>2, <1>5 DEF TypeOK
  <2> QED
    BY <1>1, <1>3, <2>1, <2>2, <2>3 DEF Safe
<1> QED
  BY <1>4, <1>5

LEMMA MoveSafe ==
  ASSUME IInv, NEW h \in Handles, NEW other \in Handles,
         MoveConstruct(h, other) \/ MoveAssign(h, other), NEW o \in Objects
  PROVE  Safe(o)'
<1>1. TypeOK /\ Safe(o) /\ count[o] \in Nat
  BY DEF IInv, NeverDangling, Safe, TypeOK
<1>2. count' = count /\ heap' = heap
  BY DEF MoveConstruct, MoveAssign
<1>3. IsFiniteSet(Owners(o)) /\ Cardinality(Owners(o)) \in Nat
  BY <1>1, OwnersFinite
<1>4. \/ Owners(o)' = Owners(o)
      \/ Owners(o)' = Owners(o) \ {h}
      \/ other \in Owners(o) /\ Owners(o)' = (Owners(o) \ {other}) \union {h}
  BY <1>1, MoveConstructOwners, MoveAssignOwners
<1>5. Cardinality(Owners(o)') <= Cardinality(Owners(o))
  <2>1. /\ Cardinality(Owners(o) \ {h}) <= Cardinality(Owners(o))
        /\ other \in Owners(o) =>
             Cardinality((Owners(o) \ {other}) \union {h}) <= Cardinality(Owners(o))
    BY <1>3, CardinalityLess
  <2> QED
    BY <1>3, <1>4, <2>1
<1>6. Cardinality(Owners(o)') \in Nat
  BY <1>3, <1>4, FS_CardinalityType, FS_RemoveElement, FS_AddElement
<1> QED
  BY <1>1, <1>2, <1>3, <1>5, <1>6 DEF Safe

LEMMA DestroySafe ==
  ASSUME IInv, NEW h \in Handles, Counted(h), Destroy(h), NEW o \in Objects
  PROVE  Safe(o)'
<1>1. TypeOK /\ Safe(o) /\ count[o] \in Nat
  BY DEF IInv, NeverDangling, Safe, TypeOK
<1>2. target[h] \in Objects /\ count[target[h]] \in Nat \ {0}
  BY CountedPositive
<1>3. /\ count' = [count EXCEPT ![target[h]] = @ - 1]
      /\ heap' = IF count'[target[h]] = 0
                 THEN [heap EXCEPT ![target[h]] = "deleted"] ELSE heap
  BY DEF Destroy
<1>4. IsFiniteSet(Owners(o)) /\ Cardinality(Owners(o)) \in Nat
  BY <1>1, OwnersFinite
<1>5. CASE o = target[h]
  <2>1. h \in Owners(o) /\ Owners(o)' = Owners(o) \ {h}
    BY <1>1, <1>5, DestroyOwners
  <2>2. Cardinality(Owners(o)') = Cardinality(Owners(o)) - 1
    BY <1>4, <2>1, CardinalityLeave
  <2>3. count'[o] = count[o] - 1 /\ heap[o] = "allocated"
    BY <1>1, <1>3, <1>5 DEF Counted, TypeOK
  <2>4. heap'[o] = IF count'[o] = 0 THEN "deleted" ELSE "allocated"
    BY <1>1, <1>3, <1>5, <2>3 DEF TypeOK
  <2> QED
    BY <1>1, <1>2, <1>4, <1>5, <2>2, <2>3, <2>4 DEF Safe
<1>6. CASE o # target[h]
  <2>1. Owners(o)' = Owners(o)
    BY <1>1, <1>6, DestroyOwners
  <2>2. count'[o] = count[o] /\ heap'[o] = heap[o]
    BY <1>1, <1>2, <1>3, <1>6 DEF TypeOK
  <2> QED
    BY <1>1, <2>1, <2>2 DEF Safe
<1> QED
  BY <1>5, <1>6

\* A step that leaves owners, counts and heap alone.
LEMMA UnchangedSafe ==
  ASSUME IInv, UNCHANGED <<count, heap>>, NEW o \in Objects, Owners(o)' = Owners(o)
  PROVE  Safe(o)'
BY DEF IInv, NeverDangling, Safe

LEMMA StepHolds == IInv /\ [AnyNext]_vars => IInv'
<1> SUFFICES ASSUME IInv, [AnyNext]_vars, NEW o \in Objects
             PROVE  Safe(o)'
  BY TypeStep DEF IInv, NeverDangling, Safe
<1>0. TypeOK
  BY DEF IInv
<1>1. ASSUME NEW h \in Handles, Construct(h)
      PROVE  Safe(o)'
  <2>1. UNCHANGED <<count, heap>> /\ Owners(o)' = Owners(o)
    BY <1>0, <1>1, ConstructOwners DEF Construct
  <2> QED
    BY <2>1, UnchangedSafe
<1>2. CASE \/ UNCHANGED vars
           \/ Undefined
  <2>1. UNCHANGED <<count, heap>> /\ Owners(o)' = Owners(o)
    BY <1>2 DEF vars, Undefined, Owners
  <2> QED
    BY <2>1, UnchangedSafe
<1>3. ASSUME NEW h \in Handles, Destroy(h)
      PROVE  Safe(o)'
  <2>1. Counted(h) \/ Undefined
    BY <1>3 DEF Destroy
  <2> QED
    BY <1>2, <1>3, <2>1, DestroySafe
<1>4. ASSUME NEW h \in Handles, NEW other \in Handles,
             CopyConstruct(h, other) \/ CopyAssign(h, other)
      PROVE  Safe(o)'
  <2>1. Counted(other) \/ Undefined
    BY <1>4 DEF CopyConstruct, CopyAssign
  <2> QED
    BY <1>2, <1>4, <2>1, CopySafe
<1> QED
  BY <1>1, <1>2, <1>3, <1>4, AcquireSafe, MoveSafe DEF AnyNext

\* Whatever its client does, SharedPtr deletes no object a handle can reach.
THEOREM NothingDangles == AnySpec => []NeverDangling
<1>1. IInv => NeverDangling
  BY DEF IInv
<1> QED
  BY <1>1, InitHolds, StepHolds, PTL DEF AnySpec

-----------------------------------------------------------------------------
(* In careful hands the inequality is an equality.                         *)

CarefulInv == IInv /\ CountExact

LEMMA CarefulInit == Init => CarefulInv
<1>1. ASSUME Init, NEW o \in Objects
      PROVE  count[o] = 0 /\ Owners(o) = {}
  BY <1>1 DEF Init, Owners
<1> QED
  BY <1>1, InitHolds, FS_EmptySet DEF CarefulInv, CountExact

\* The discipline spelt out: what a careful step that is defined may be.
CarefulStep(h) ==
  \/ Construct(h)
  \/ Counted(h) /\ Destroy(h)
  \/ \E o \in Objects : Acquire(h, o)
  \/ \E other \in Handles :
       \/ Counted(other) /\ CopyConstruct(h, other)
       \/ MoveConstruct(h, other)
       \/ target[h] = Null /\ Counted(other) /\ CopyAssign(h, other)
       \/ target[h] = Null /\ MoveAssign(h, other)

LEMMA CarefulSteps ==
  ASSUME CarefulNext
  PROVE  AnyNext /\ (Undefined \/ \E h \in Handles : CarefulStep(h))
<1>1. AnyNext
  BY DEF CarefulNext, AnyNext
<1>2. \A h \in Handles : Destroy(h) => Counted(h) \/ Undefined
  BY DEF Destroy
<1>3. \A h, other \in Handles :
        CopyConstruct(h, other) \/ CopyAssign(h, other) => Counted(other) \/ Undefined
  BY DEF CopyConstruct, CopyAssign
<1> QED
  BY <1>1, <1>2, <1>3 DEF CarefulNext, CarefulStep

\* Undefined behaviour is where the model ends: it leaves everything in place.
LEMMA UndefinedKeeps ==
  ASSUME Undefined PROVE UNCHANGED <<alive, target, count, heap>>
BY DEF Undefined

LEMMA ExactStep ==
  ASSUME CarefulInv, NEW h \in Handles, CarefulStep(h), NEW o \in Objects
  PROVE  count'[o] = Cardinality(Owners(o)')
<1>1. TypeOK /\ IInv /\ count[o] = Cardinality(Owners(o)) /\ count \in [Objects -> Nat]
  BY DEF CarefulInv, IInv, CountExact, TypeOK
<1>2. IsFiniteSet(Owners(o)) /\ Cardinality(Owners(o)) \in Nat
  BY <1>1, OwnersFinite
<1>3. CASE Construct(h)
  <2>1. count' = count /\ Owners(o)' = Owners(o)
    BY <1>1, <1>3, ConstructOwners DEF Construct
  <2> QED
    BY <1>1, <2>1
<1>4. CASE Counted(h) /\ Destroy(h)
  <2>1. /\ Owners(o)' = Owners(o) \ {h}
        /\ h \in Owners(o) <=> o = target[h]
    BY <1>1, <1>4, DestroyOwners
  <2>2. count' = [count EXCEPT ![target[h]] = @ - 1]
    BY <1>4 DEF Destroy
  <2>3. Cardinality(Owners(o)') = IF h \in Owners(o) THEN Cardinality(Owners(o)) - 1
                                  ELSE Cardinality(Owners(o))
    BY <1>2, <2>1, FS_RemoveElement
  <2> QED
    BY <1>1, <1>2, <2>1, <2>2, <2>3
<1>5. ASSUME NEW p \in Objects, Acquire(h, p)
      PROVE  count'[o] = Cardinality(Owners(o)')
  <2>1. /\ h \notin Owners(o)
        /\ Owners(o)' = IF o = p THEN Owners(o) \union {h} ELSE Owners(o)
    BY <1>1, <1>5, AcquireOwners
  <2>2. count' = [count EXCEPT ![p] = 1] /\ heap[p] = "unused"
    BY <1>5 DEF Acquire
  <2>3. o = p => count[o] = 0
    BY <1>1, <2>2 DEF IInv, NeverDangling
  <2>4. Cardinality(Owners(o) \union {h}) = Cardinality(Owners(o)) + 1
    BY <1>2, <2>1, CardinalityJoin
  <2> QED
    BY <1>1, <1>2, <2>1, <2>2, <2>3, <2>4
<1>6. ASSUME NEW other \in Handles, Counted(other),
             \/ CopyConstruct(h, other)
             \/ target[h] = Null /\ CopyAssign(h, other)
      PROVE  count'[o] = Cardinality(Owners(o)')
  <2>1. /\ h \notin Owners(o)
        /\ Owners(o)' = IF o = target[other] THEN Owners(o) \union {h} ELSE Owners(o)
    BY <1>1, <1>6, CopyOwners, CopyAssignOwners
  <2>2. count' = [count EXCEPT ![target[other]] = @ + 1]
    BY <1>6 DEF CopyConstruct, CopyAssign, Incremented
  <2>3. Cardinality(Owners(o) \union {h}) = Cardinality(Owners(o)) + 1
    BY <1>2, <2>1, CardinalityJoin
  <2> QED
    BY <1>1, <1>2, <2>1, <2>2, <2>3
<1>7. ASSUME NEW other \in Handles,
             \/ MoveConstruct(h, other)
             \/ target[h] = Null /\ MoveAssign(h, other)
      PROVE  count'[o] = Cardinality(Owners(o)')
  <2>1. count' = count
    BY <1>7 DEF MoveConstruct, MoveAssign
  <2>2. h \notin Owners(o)
    BY <1>1, <1>7, MoveConstructOwners, MoveAssignOwners
  <2>3. CASE o # target[other]
    <3>1. Owners(o)' = Owners(o)
      BY <1>1, <1>7, <2>2, <2>3, MoveConstructOwners, MoveAssignOwners
    <3> QED
      BY <1>1, <2>1, <3>1
  <2>4. CASE o = target[other]
    <3>1. /\ other \in Owners(o)
          /\ Owners(o)' = (Owners(o) \ {other}) \union {h}
      BY <1>1, <1>7, <2>2, <2>4, MoveConstructOwners, MoveAssignOwners
    <3>2. Cardinality((Owners(o) \ {other}) \union {h}) = Cardinality(Owners(o))
      BY <1>2, <2>2, <3>1, CardinalityReplace
    <3> QED
      BY <1>1, <2>1, <3>1, <3>2
  <2> QED
    BY <2>3, <2>4
<1> QED
  BY <1>3, <1>4, <1>5, <1>6, <1>7 DEF CarefulStep

LEMMA CarefulStepHolds == CarefulInv /\ [CarefulNext]_vars => CarefulInv'
<1> SUFFICES ASSUME CarefulInv, [CarefulNext]_vars
             PROVE  CarefulInv'
  OBVIOUS
<1>1. IInv'
  BY StepHolds, CarefulSteps DEF CarefulInv
<1>2. CASE Undefined \/ UNCHANGED vars
  <2>1. UNCHANGED <<alive, target, count>>
    BY <1>2, UndefinedKeeps DEF vars
  <2> QED
    BY <1>1, <2>1 DEF CarefulInv, CountExact, Owners
<1>3. ASSUME NEW h \in Handles, CarefulStep(h)
      PROVE  CountExact'
  BY <1>3, ExactStep DEF CountExact
<1> QED
  BY <1>1, <1>2, <1>3, CarefulSteps DEF CarefulInv

\* A client that assigns only to empty handles finds in UseCount exactly the
\* number of the handles that share the object.
THEOREM CountsExact == CarefulSpec => []CountExact
<1>1. CarefulInv => CountExact
  BY DEF CarefulInv
<1> QED
  BY <1>1, CarefulInit, CarefulStepHolds, PTL DEF CarefulSpec

-----------------------------------------------------------------------------
(* In careful hands SharedPtr keeps the promise of Ownership.              *)

\* Only Acquire changes an unused object, and a deleted one stays deleted.
LEMMA HeapStep ==
  ASSUME CarefulInv, [CarefulNext]_vars, NEW o \in Objects
  PROVE  /\ heap'[o] = "deleted" <=> \/ heap[o] = "deleted"
                                     \/ heap[o] = "allocated" /\ heap'[o] # "allocated"
         /\ heap[o] = "deleted" => heap'[o] # "allocated"
<1>1. TypeOK /\ heap[o] \in {"unused", "allocated", "deleted"}
  BY DEF CarefulInv, IInv, TypeOK
<1>2. CASE heap' = heap
  BY <1>1, <1>2
<1>3. ASSUME NEW h \in Handles, Counted(h), Destroy(h)
      PROVE  heap'[o] = heap[o] \/ (heap[o] = "allocated" /\ heap'[o] = "deleted")
  BY <1>1, <1>3 DEF Destroy, Counted, TypeOK
<1>4. ASSUME NEW h \in Handles, NEW p \in Objects, Acquire(h, p)
      PROVE  heap'[o] = heap[o] \/ (heap[o] = "unused" /\ heap'[o] = "allocated")
  BY <1>1, <1>4 DEF Acquire, TypeOK
<1>5. CASE UNCHANGED vars
  BY <1>2, <1>5 DEF vars
<1>6. ASSUME NEW h \in Handles, CarefulStep(h)
      PROVE  /\ heap'[o] = "deleted" <=> \/ heap[o] = "deleted"
                                         \/ heap[o] = "allocated" /\ heap'[o] # "allocated"
             /\ heap[o] = "deleted" => heap'[o] # "allocated"
  <2>1. \/ heap' = heap
        \/ Counted(h) /\ Destroy(h)
        \/ \E p \in Objects : Acquire(h, p)
    BY <1>6 DEF CarefulStep, Construct, CopyConstruct, MoveConstruct, CopyAssign,
         MoveAssign, Undefined
  <2> QED
    BY <1>1, <1>2, <1>3, <1>4, <2>1
<1>7. CASE Undefined
  BY <1>2, <1>7, UndefinedKeeps
<1> QED
  BY <1>5, <1>6, <1>7, CarefulSteps

\* An object is allocated exactly as long as it has an owner.
AllOwned == \A o \in Objects : heap[o] = "allocated" <=> Owners(o) # {}

LEMMA AllocatedOwned == CarefulInv => AllOwned
<1> SUFFICES ASSUME CarefulInv, NEW o \in Objects
             PROVE  heap[o] = "allocated" <=> Owners(o) # {}
  BY DEF AllOwned
<1>1. /\ IsFiniteSet(Owners(o)) /\ Cardinality(Owners(o)) \in Nat
      /\ count[o] = Cardinality(Owners(o))
      /\ heap[o] = "allocated" <=> count[o] > 0
  BY OwnersFinite DEF CarefulInv, IInv, CountExact, NeverDangling
<1>2. Cardinality(Owners(o)) = 0 <=> Owners(o) = {}
  BY <1>1, FS_EmptySet
<1> QED
  BY <1>1, <1>2

LEMMA AllocatedOwnedNext == CarefulInv' => AllOwned'
  BY AllocatedOwned, PTL

LEMMA InitImplements == Init => Promise!Init
<1> SUFFICES ASSUME Init PROVE Promise!Init
  OBVIOUS
<1>1. \A o \in Objects : Owners(o) = {} /\ heap[o] # "deleted"
  BY DEF Init, Owners
<1> QED
  BY <1>1 DEF Promise!Init

LEMMA StepImplements ==
  CarefulInv /\ CarefulInv' /\ [CarefulNext]_vars => Promise!Next
<1> SUFFICES ASSUME CarefulInv, CarefulInv', [CarefulNext]_vars
             PROVE  Promise!Next
  OBVIOUS
<1> DEFINE owns == [o \in Objects |-> Owners(o)]
           gone == {o \in Objects : heap[o] = "deleted"}
<1>1. \A o \in Objects : heap[o] = "allocated" <=> Owners(o) # {}
  BY AllocatedOwned DEF AllOwned
<1>2. \A o \in Objects : heap'[o] = "allocated" <=> Owners(o)' # {}
  BY AllocatedOwnedNext DEF AllOwned
<1>3. owns' \in [Objects -> SUBSET Handles]
  BY DEF CarefulInv, IInv, TypeOK, Owners
<1>4. ASSUME NEW o \in gone
      PROVE  owns'[o] = {}
  BY <1>2, <1>4, HeapStep
<1>5. gone' = gone \union {o \in Objects : owns[o] # {} /\ owns'[o] = {}}
  <2>1. ASSUME NEW o \in Objects
        PROVE  heap'[o] = "deleted" <=> heap[o] = "deleted" \/ (owns[o] # {} /\ owns'[o] = {})
    BY <1>1, <1>2, <2>1, HeapStep
  <2> QED
    BY <2>1
<1> QED
  BY <1>3, <1>4, <1>5 DEF Promise!Next, Promise!LetGo

\* Then an object is deleted in the step in which its last owner lets go of it,
\* and never has an owner again.
THEOREM SharedOwnership == CarefulSpec => IsOwnership
  BY CarefulInit, CarefulStepHolds, InitImplements, StepImplements, PTL
  DEF CarefulSpec, IsOwnership, Promise!Spec

-----------------------------------------------------------------------------
(* UniquePtr.                                                              *)

UniqueInv == U!TypeOK /\ U!OwnedOnce

\* OwnedOnce in a form that names the owner.
LEMMA OwnedOnceMeaning ==
  U!OwnedOnce <=>
    /\ \A g, h \in uniqueAlive :
         uniqueTarget[g] = uniqueTarget[h] /\ uniqueTarget[g] # Null => g = h
    /\ \A o \in Objects : uniqueHeap[o] = "allocated" <=>
         \E h \in uniqueAlive : uniqueTarget[h] = o
BY DEF U!OwnedOnce, U!Owners

LEMMA OwnedOnceMeaningNext ==
  U!OwnedOnce' <=>
    /\ \A g, h \in uniqueAlive' :
         uniqueTarget'[g] = uniqueTarget'[h] /\ uniqueTarget'[g] # Null => g = h
    /\ \A o \in Objects : uniqueHeap'[o] = "allocated" <=>
         \E h \in uniqueAlive' : uniqueTarget'[h] = o
BY DEF U!OwnedOnce, U!Owners

LEMMA UniqueInitHolds == U!Init => UniqueInv
BY PointerAssumption DEF U!Init, UniqueInv, U!TypeOK, U!OwnedOnce, U!Owners

LEMMA UniqueConstructHolds ==
  ASSUME UniqueInv, NEW h \in Handles, U!Construct(h)
  PROVE  UniqueInv'
<1>1. U!TypeOK'
  BY DEF UniqueInv, U!TypeOK, U!Construct
<1>2. U!OwnedOnce'
  BY PointerAssumption, OwnedOnceMeaning, OwnedOnceMeaningNext DEF UniqueInv, U!TypeOK, U!Construct
<1> QED
  BY <1>1, <1>2 DEF UniqueInv

LEMMA MakeUniqueHolds ==
  ASSUME UniqueInv, NEW h \in Handles, NEW o \in Objects, U!MakeUnique(h, o)
  PROVE  UniqueInv'
<1>1. U!TypeOK'
  BY DEF UniqueInv, U!TypeOK, U!MakeUnique, U!Allocate
<1>2. U!OwnedOnce'
  BY PointerAssumption, OwnedOnceMeaning, OwnedOnceMeaningNext
  DEF UniqueInv, U!TypeOK, U!MakeUnique, U!Allocate
<1> QED
  BY <1>1, <1>2 DEF UniqueInv

LEMMA UniqueMoveConstructHolds ==
  ASSUME UniqueInv, NEW h \in Handles, NEW other \in Handles, U!MoveConstruct(h, other)
  PROVE  UniqueInv'
<1>1. U!TypeOK'
  BY DEF UniqueInv, U!TypeOK, U!MoveConstruct
<1>2. U!OwnedOnce'
  BY PointerAssumption, OwnedOnceMeaning, OwnedOnceMeaningNext DEF UniqueInv, U!TypeOK, U!MoveConstruct
<1> QED
  BY <1>1, <1>2 DEF UniqueInv

LEMMA UniqueMoveAssignHolds ==
  ASSUME UniqueInv, NEW h \in Handles, NEW other \in Handles, U!MoveAssign(h, other)
  PROVE  UniqueInv'
<1>1. U!TypeOK'
  BY DEF UniqueInv, U!TypeOK, U!MoveAssign
<1>2. U!OwnedOnce'
  BY PointerAssumption, OwnedOnceMeaning, OwnedOnceMeaningNext DEF UniqueInv, U!TypeOK, U!MoveAssign
<1> QED
  BY <1>1, <1>2 DEF UniqueInv

LEMMA UniqueDestroyHolds ==
  ASSUME UniqueInv, NEW h \in Handles, U!Destroy(h)
  PROVE  UniqueInv'
<1>1. U!TypeOK'
  BY DEF UniqueInv, U!TypeOK, U!Destroy
<1>2. U!OwnedOnce'
  BY PointerAssumption, OwnedOnceMeaning, OwnedOnceMeaningNext DEF UniqueInv, U!TypeOK, U!Destroy
<1> QED
  BY <1>1, <1>2 DEF UniqueInv

LEMMA UniqueStepHolds == UniqueInv /\ [U!Next]_U!vars => UniqueInv'
<1> SUFFICES ASSUME UniqueInv, [U!Next]_U!vars
             PROVE  UniqueInv'
  OBVIOUS
<1>1. CASE UNCHANGED U!vars
  BY <1>1 DEF U!vars, UniqueInv, U!TypeOK, U!OwnedOnce, U!Owners
<1>2. CASE U!Next
  BY <1>2, UniqueConstructHolds, MakeUniqueHolds, UniqueMoveConstructHolds,
     UniqueMoveAssignHolds, UniqueDestroyHolds
  DEF U!Next
<1> QED
  BY <1>1, <1>2

\* No object has two owners and none is lost, whatever a client moves, assigns,
\* casts and destroys.
THEOREM UniquelyOwned == U!Spec => []U!OwnedOnce
<1>1. UniqueInv => U!OwnedOnce
  BY DEF UniqueInv
<1> QED
  BY <1>1, UniqueInitHolds, UniqueStepHolds, PTL DEF U!Spec

-----------------------------------------------------------------------------
(* It keeps the promise of Ownership.                                      *)

\* Only a destructor changes an object that is allocated, and only MakeUnique
\* one that is unused.
LEMMA UniqueHeapStep ==
  ASSUME UniqueInv, [U!Next]_U!vars, NEW o \in Objects
  PROVE  /\ uniqueHeap'[o] = "deleted" <=>
              \/ uniqueHeap[o] = "deleted"
              \/ uniqueHeap[o] = "allocated" /\ uniqueHeap'[o] # "allocated"
         /\ uniqueHeap[o] = "deleted" => uniqueHeap'[o] # "allocated"
<1>1. uniqueHeap[o] \in {"unused", "allocated", "deleted"} /\ U!TypeOK /\ U!OwnedOnce
  BY DEF UniqueInv, U!TypeOK
<1>2. ASSUME NEW h \in Handles, U!Destroy(h)
      PROVE  uniqueHeap'[o] = IF uniqueTarget[h] = o THEN "deleted" ELSE uniqueHeap[o]
  BY <1>2 DEF U!Destroy
<1>3. ASSUME NEW h \in Handles, U!Destroy(h), uniqueTarget[h] = o
      PROVE  uniqueHeap[o] = "allocated"
  BY <1>1, <1>3, OwnedOnceMeaning DEF U!Destroy
<1>4. ASSUME NEW h \in Handles, NEW p \in Objects, U!MakeUnique(h, p)
      PROVE  \/ uniqueHeap'[o] = uniqueHeap[o]
             \/ uniqueHeap[o] = "unused" /\ uniqueHeap'[o] = "allocated"
  BY <1>1, <1>4 DEF U!MakeUnique, U!Allocate, U!TypeOK
<1>5. ASSUME NEW h \in Handles, U!Construct(h)
      PROVE  uniqueHeap'[o] = uniqueHeap[o]
  BY <1>5 DEF U!Construct
<1>6. ASSUME NEW h \in Handles, NEW g \in Handles, U!MoveConstruct(h, g) \/ U!MoveAssign(h, g)
      PROVE  uniqueHeap'[o] = uniqueHeap[o]
  BY <1>6 DEF U!MoveConstruct, U!MoveAssign
<1>7. CASE UNCHANGED U!vars
  BY <1>1, <1>7 DEF U!vars
<1>8. CASE U!Next
  <2>1. PICK h \in Handles :
          \/ U!Construct(h) \/ U!Destroy(h)
          \/ \E p \in Objects : U!MakeUnique(h, p)
          \/ \E g \in Handles : U!MoveConstruct(h, g) \/ U!MoveAssign(h, g)
    BY <1>8 DEF U!Next
  <2>2. CASE U!Destroy(h)
    BY <1>1, <1>2, <1>3, <2>2
  <2> QED
    BY <1>1, <1>4, <1>5, <1>6, <2>1, <2>2
<1> QED
  BY <1>7, <1>8

\* An object is allocated exactly as long as it has an owner.
LEMMA UniqueAllocatedOwned ==
  ASSUME U!OwnedOnce, NEW o \in Objects
  PROVE  uniqueHeap[o] = "allocated" <=> U!Owners(o) # {}
BY DEF U!OwnedOnce

LEMMA UniqueAllocatedOwnedNext ==
  ASSUME U!OwnedOnce', NEW o \in Objects
  PROVE  uniqueHeap'[o] = "allocated" <=> U!Owners(o)' # {}
BY DEF U!OwnedOnce

LEMMA UniqueInitImplements == U!Init => U!Promise!Init
<1> SUFFICES ASSUME U!Init PROVE U!Promise!Init
  OBVIOUS
<1>1. \A o \in Objects : U!Owners(o) = {} /\ uniqueHeap[o] # "deleted"
  BY DEF U!Init, U!Owners
<1> QED
  BY <1>1 DEF U!Promise!Init

LEMMA UniqueStepImplements ==
  ASSUME UniqueInv, UniqueInv', [U!Next]_U!vars
  PROVE  U!Promise!Next
<1> DEFINE owns == [o \in Objects |-> U!Owners(o)]
           gone == {o \in Objects : uniqueHeap[o] = "deleted"}
<1>1. owns' \in [Objects -> SUBSET Handles]
  BY DEF UniqueInv, U!TypeOK, U!Owners
<1>2. ASSUME NEW o \in gone
      PROVE  owns'[o] = {}
  BY <1>2, UniqueHeapStep, UniqueAllocatedOwnedNext DEF UniqueInv
<1>3. gone' = gone \union {o \in Objects : owns[o] # {} /\ owns'[o] = {}}
  <2>1. ASSUME NEW o \in Objects
        PROVE  uniqueHeap'[o] = "deleted" <=>
                 uniqueHeap[o] = "deleted" \/ (owns[o] # {} /\ owns'[o] = {})
    BY <2>1, UniqueHeapStep, UniqueAllocatedOwned, UniqueAllocatedOwnedNext DEF UniqueInv
  <2> QED
    BY <2>1
<1> QED
  BY <1>1, <1>2, <1>3 DEF U!Promise!Next, U!Promise!LetGo

\* An object is deleted in the step in which its only owner lets go of it, and
\* never has an owner again.
THEOREM UniqueOwnership == U!Spec => U!IsOwnership
<1>1. UniqueInv /\ UniqueInv' /\ [U!Next]_U!vars => U!Promise!Next
  BY UniqueStepImplements
<1> QED
  BY <1>1, UniqueInitHolds, UniqueStepHolds, UniqueInitImplements, PTL
  DEF U!Spec, U!IsOwnership, U!Promise!Spec

-----------------------------------------------------------------------------
(* A program that uses both.                                               *)

LEMMA BothSteps ==
  [BothNext]_<<vars, uniqueVars>> => [CarefulNext]_vars /\ [U!Next]_U!vars
BY DEF BothNext, uniqueVars, U!vars

\* However the operations of the two interleave, each keeps its promise and the
\* counts are exact.
THEOREM BothOwn == BothSpec => IsOwnership /\ UniqueIsOwnership /\ []CountExact
<1>1. BothSpec => CarefulSpec /\ U!Spec
  BY BothSteps, PTL DEF BothSpec, BothInit, CarefulSpec, U!Spec
<1> QED
  BY <1>1, SharedOwnership, UniqueOwnership, CountsExact, PTL DEF UniqueIsOwnership
=============================================================================
