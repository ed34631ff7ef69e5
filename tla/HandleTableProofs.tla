-------------------------- MODULE HandleTableProofs --------------------------
(***************************************************************************)
(* For tables of every size: a careful client's references stay exact, and *)
(* the table implements an allocator of unique handles.  LiveUsed is not   *)
(* invariant (the client may disable what it owns); the client's own guard *)
(* restores it whenever Create... is called, which is where it is needed.  *)
(***************************************************************************)
EXTENDS HandleTable, SlotTableProofs

\* The inductive invariant: the state is well formed, the references are
\* exact, there is a slot to enlarge once Init has run, and nothing is left
\* from before it.
IInv ==
  /\ TypeOK
  /\ Consistent(table)
  /\ status = "running" => table.size > 0
  /\ status = "constructed" => table = EmptyTable
  /\ status # "undefined"

LEMMA InitEstablishes == Init => IInv
<1> SUFFICES ASSUME Init PROVE IInv
  OBVIOUS
<1> QED
  BY EmptyTableFacts DEF Init, IInv, TypeOK

\* What each call of a careful client does, said of the reference it is about.
LEMMA CarefulCallFacts ==
  ASSUME IInv, CarefulCalls
  PROVE  \/ /\ status = "constructed" /\ status' = "running"
            /\ \E n \in Nat \ {0} : table' = Resize(EmptyTable, n)
            /\ returned' = {}
         \/ /\ status = "running" /\ status' = "running"
            /\ LiveUsed(table) /\ CanCreate(table)
            /\ table' = Create(table) /\ returned' = {NewRef(table)}
         \/ /\ status = "running" /\ status' = "running"
            /\ \E r \in Live(table) : table' = Destroy(table, r)
            /\ returned' = {}
         \/ /\ status = "running" /\ status' = "running"
            /\ \E r \in Live(table), on \in BOOLEAN : table' = SetUsed(table, r, on)
            /\ returned' = {}
         \/ /\ status = "running" /\ status' = "constructed"
            /\ table' = EmptyTable /\ returned' = {}
<1>1. CASE \E n \in InitCounts : Preallocated(n) > 0 /\ InitTable(n)
  <2>1. PICK n \in InitCounts : Preallocated(n) > 0 /\ InitTable(n)
    BY <1>1
  <2>2. Preallocated(n) \in Nat \ {0}
    BY <2>1, BoundsAssumption DEF Preallocated
  <2> QED
    BY <2>1, <2>2 DEF InitTable, IInv
<1>2. CASE LiveUsed(table) /\ CreateObject
  <2>1. status = "running"
    BY <1>2 DEF CreateObject
  <2>2. CanCreate(table)
    BY <2>1, CreateAlwaysPossible DEF IInv, TypeOK
  <2> QED
    BY <1>2, <2>1, <2>2 DEF CreateObject
<1>3. CASE \E r \in Live(table) : DestroyObject(r)
  BY <1>3 DEF DestroyObject
<1>4. CASE \E r \in Live(table), u \in BOOLEAN : ChangeUse(r, u)
  BY <1>4 DEF ChangeUse
<1>5. CASE ClearTable
  BY <1>5 DEF ClearTable
<1> QED
  BY <1>1, <1>2, <1>3, <1>4, <1>5 DEF CarefulCalls

LEMMA CallPreserves == IInv /\ [CarefulCalls]_vars => IInv'
<1> SUFFICES ASSUME IInv, [CarefulCalls]_vars PROVE IInv'
  OBVIOUS
<1>1. IsTable(table) /\ Consistent(table) /\ table.size \in Nat
  BY DEF IInv, TypeOK, IsTable
<1>2. CASE CarefulCalls
  <2>1. CASE /\ status' = "running" /\ returned' = {}
             /\ \E n \in Nat \ {0} : table' = Resize(EmptyTable, n)
    <3>1. PICK n \in Nat \ {0} : table' = Resize(EmptyTable, n)
      BY <2>1
    <3>2. /\ IsTable(table') /\ Consistent(table') /\ table'.size = n
      BY <3>1, PreallocateConsistent
    <3> QED
      BY <2>1, <3>1, <3>2 DEF IInv, TypeOK
  <2>2. CASE /\ status = "running" /\ status' = "running"
             /\ LiveUsed(table) /\ CanCreate(table)
             /\ table' = Create(table) /\ returned' = {NewRef(table)}
    <3>1. Consistent(table')
      BY <1>1, <2>2, CreateConsistent
    <3>2. /\ IsTable(table') /\ table.size <= table'.size
          /\ table'.issued = table.issued \union {NewRef(table)}
      BY <1>1, <2>2, CreateTable
    <3>3. table'.size \in Nat /\ table.size > 0
      BY <2>2, <3>2 DEF IsTable, IInv
    <3>4. table'.size > 0
      BY <1>1, <3>2, <3>3
    <3> QED
      BY <2>2, <3>1, <3>2, <3>4 DEF IInv, TypeOK
  <2>3. CASE /\ status = "running" /\ status' = "running" /\ returned' = {}
             /\ \E r \in Live(table) : table' = Destroy(table, r)
    <3>1. IsTable(table') /\ Consistent(table') /\ table'.size = table.size
      BY <1>1, <2>3, DestroyConsistent
    <3> QED
      BY <2>3, <3>1 DEF IInv, TypeOK
  <2>4. CASE /\ status = "running" /\ status' = "running" /\ returned' = {}
             /\ \E r \in Live(table), on \in BOOLEAN : table' = SetUsed(table, r, on)
    <3>1. IsTable(table') /\ Consistent(table') /\ table'.size = table.size
      BY <1>1, <2>4, SetUsedConsistent
    <3> QED
      BY <2>4, <3>1 DEF IInv, TypeOK
  <2>5. CASE /\ status' = "constructed" /\ returned' = {}
             /\ table' = EmptyTable
    BY <2>5, EmptyTableFacts DEF IInv, TypeOK
  <2> QED
    BY <1>2, <2>1, <2>2, <2>3, <2>4, <2>5, CarefulCallFacts
<1>3. CASE UNCHANGED vars
  BY <1>3 DEF vars, IInv, TypeOK
<1> QED
  BY <1>2, <1>3

\* The state of a table stays well formed.
THEOREM CarefulTypeOK == CarefulSpec => []TypeOK
<1>1. IInv => TypeOK
  BY DEF IInv
<1> QED
  BY <1>1, InitEstablishes, CallPreserves, PTL DEF CarefulSpec

\* GetBody and GetCollider accept a reference exactly until its owner
\* destroys it, for tables of any size and any number of reuses.
THEOREM CarefulConsistent == CarefulSpec => []TableConsistent
<1>1. IInv => TableConsistent
  BY DEF IInv, TableConsistent
<1> QED
  BY <1>1, InitEstablishes, CallPreserves, PTL DEF CarefulSpec

\* What each call does, said in the terms of the abstract allocator.
LEMMA CallImplements ==
  ASSUME IInv, [CarefulCalls]_vars, Bounded(table), Bounded(table')
  PROVE  [Abstract!Next]_Abstract!vars
<1> DEFINE valid(t) == {r \in t.issued : Valid(t, r)}
<1>1. IsTable(table) /\ Consistent(table)
  BY DEF IInv, TypeOK
<1>2. CASE CarefulCalls
  <2>1. CASE /\ status = "constructed" /\ returned' = {}
             /\ \E n \in Nat \ {0} : table' = Resize(EmptyTable, n)
    <3>1. PICK n \in Nat \ {0} : table' = Resize(EmptyTable, n)
      BY <2>1
    <3>2. table'.issued = {} /\ valid(table') = {}
      BY <3>1, PreallocateConsistent
    <3> QED
      BY <2>1, <3>2 DEF Abstract!Next, Abstract!Reset
  <2>2. CASE /\ LiveUsed(table) /\ CanCreate(table)
             /\ table' = Create(table) /\ returned' = {NewRef(table)}
    <3> DEFINE h == NewRef(table)
    <3>1. /\ IsTable(table') /\ Valid(table', h)
          /\ h \in [Index : Slots(table'.size), GenerationIdx : Nat]
          /\ table'.issued = table.issued \union {h}
      BY <1>1, <2>2, CreateTable
    <3>2. /\ h \notin table.issued
          /\ \A s \in table.issued : Valid(table', s) <=> Valid(table, s)
      BY <1>1, <2>2, CreateConsistent
    <3>3. h \in AllRefs
      <4>1. h.Index \in Slots(table'.size) /\ h.GenerationIdx \in Nat
        BY <3>1
      <4>2. table'.gens[h.Index] = h.GenerationIdx
        BY <3>1 DEF Valid
      <4>3. table'.size \in Nat /\ table'.size <= MaxSlots /\ h.GenerationIdx <= MaxGen
        BY <3>1, <4>1, <4>2 DEF Bounded, IsTable
      <4>4. h.Index \in 0 .. MaxSlots - 1 /\ h.GenerationIdx \in 0 .. MaxGen
        BY <4>1, <4>3, BoundsAssumption DEF Slots
      <4> QED
        BY <3>1, <4>4, RefOfFields DEF AllRefs, Ref
    <3>4. valid(table') = valid(table) \union {h}
      BY <3>1, <3>2
    <3>5. Abstract!Alloc(h)
      BY <2>2, <3>1, <3>2, <3>4 DEF Abstract!Alloc
    <3> QED
      BY <3>3, <3>5 DEF Abstract!Next
  <2>3. CASE /\ returned' = {}
             /\ \E r \in Live(table) : table' = Destroy(table, r)
    <3>1. PICK r \in Live(table) : table' = Destroy(table, r)
      BY <2>3
    <3>2. /\ table'.issued = table.issued
          /\ \A s \in table.issued : Valid(table', s) <=> Valid(table, s) /\ s # r
      BY <1>1, <3>1, DestroyConsistent
    <3>3. r \in valid(table) /\ valid(table') = valid(table) \ {r}
      BY <1>1, <3>2 DEF Consistent, RefsExact, Live
    <3>4. Abstract!Free(r)
      BY <2>3, <3>2, <3>3 DEF Abstract!Free
    <3>5. r \in AllRefs
      <4>1. r \in [Index : Slots(table.size), GenerationIdx : Nat]
        BY <1>1 DEF Live, IsTable
      <4>2. table.gens[r.Index] = r.GenerationIdx
        BY <3>3 DEF Valid
      <4>3. table.size \in Nat /\ table.size <= MaxSlots /\ r.GenerationIdx <= MaxGen
        BY <1>1, <4>1, <4>2 DEF Bounded, IsTable
      <4>4. r.Index \in 0 .. MaxSlots - 1 /\ r.GenerationIdx \in 0 .. MaxGen
        BY <4>1, <4>3, BoundsAssumption DEF Slots
      <4> QED
        BY <4>1, <4>4, RefOfFields DEF AllRefs, Ref
    <3> QED
      BY <3>4, <3>5 DEF Abstract!Next
  <2>4. CASE /\ returned' = {}
             /\ \E r \in Live(table), on \in BOOLEAN : table' = SetUsed(table, r, on)
    <3>1. table'.issued = table.issued /\ table'.gens = table.gens
      BY <1>1, <2>4, SetUsedConsistent
    <3>2. valid(table') = valid(table)
      BY <3>1 DEF Valid
    <3> QED
      BY <2>4, <3>1, <3>2 DEF Abstract!Next, Abstract!Other
  <2>5. CASE returned' = {} /\ table' = EmptyTable
    BY <2>5, EmptyTableFacts DEF Abstract!Next, Abstract!Reset
  <2> QED
    BY <1>2, <2>1, <2>2, <2>3, <2>4, <2>5, CarefulCallFacts
<1>3. CASE UNCHANGED vars
  BY <1>3 DEF vars, Abstract!vars, Valid
<1> QED
  BY <1>2, <1>3

\* The bounds TLC and the abstract allocator's set of handles rest on.
LEMMA BoundKept ==
  ASSUME IInv, [CarefulCalls]_vars, Bounded(table)
  PROVE  Bounded(table')
<1>1. IsTable(table) /\ Consistent(table)
  BY DEF IInv, TypeOK
<1>2. Bounded(EmptyTable)
  BY BoundsAssumption DEF Bounded, EmptyTable, Table, Slots
<1>3. ASSUME NEW r \in Live(table), NEW on \in BOOLEAN, table' = SetUsed(table, r, on)
      PROVE  Bounded(table')
  <2>1. table'.size = table.size /\ table'.gens = table.gens
    BY <1>1, <1>3, SetUsedConsistent
  <2> QED
    BY <2>1 DEF Bounded
<1>4. CASE CarefulCalls
  <2>1. CASE \E r \in Live(table), on \in BOOLEAN : ChangeUse(r, on)
    BY <1>3, <2>1 DEF ChangeUse
  <2>2. CASE \E n \in InitCounts : InitTable(n)
    BY <2>2 DEF InitTable
  <2>3. CASE CreateObject
    BY <2>3 DEF CreateObject
  <2>4. CASE \E r \in Live(table) : DestroyObject(r)
    BY <2>4 DEF DestroyObject
  <2>5. CASE ClearTable
    BY <1>2, <2>5 DEF ClearTable
  <2> QED
    BY <1>4, <2>1, <2>2, <2>3, <2>4, <2>5 DEF CarefulCalls
<1>5. CASE UNCHANGED vars
  BY <1>5 DEF vars, Bounded
<1> QED
  BY <1>4, <1>5

\* For a careful client, CreateBody, DestroyBody and their collider twins
\* implement the allocator of unique handles (AbstractSpec): no reference is
\* handed out twice, and only its owner's Destroy... ends its validity.
THEOREM CarefulImplements == CarefulSpec => AbstractSpec
<1>1. Init => IInv /\ Bounded(table)
  <2>1. Bounded(EmptyTable)
    BY BoundsAssumption DEF Bounded, EmptyTable, Table, Slots
  <2> QED
    BY <2>1, InitEstablishes DEF Init
<1>2. Init => Abstract!Init
  BY EmptyTableFacts DEF Init, Abstract!Init
<1>3. IInv /\ Bounded(table) /\ [CarefulCalls]_vars => IInv' /\ Bounded(table)'
  BY CallPreserves, BoundKept
<1>4. /\ IInv /\ IInv' /\ Bounded(table) /\ Bounded(table)' /\ [CarefulCalls]_vars
      => [Abstract!Next]_Abstract!vars
  BY CallImplements
<1> QED
  BY <1>1, <1>2, <1>3, <1>4, PTL DEF CarefulSpec, AbstractSpec, Abstract!Spec

\* No call of a careful client indexes a vector out of bounds.
THEOREM CarefulCreateIsDefined == CarefulSpec => []CreateIsDefined
<1>1. IInv => CreateIsDefined
  BY DEF IInv, CreateIsDefined
<1> QED
  BY <1>1, InitEstablishes, CallPreserves, PTL DEF CarefulSpec
=============================================================================
