--------------------------- MODULE SlotTableProofs ---------------------------
(***************************************************************************)
(* What World's table operations preserve, for tables of every size.       *)
(***************************************************************************)
EXTENDS SlotTable, WellFoundedInduction, TLAPS

\* The first free slot exists when there is a free slot.
LEMMA FirstFreeIsFree ==
  ASSUME NEW t, IsTable(t), ~IsFull(t)
  PROVE  FirstFree(t) \in FreeSlots(t)
<1>1. FreeSlots(t) \in SUBSET Nat /\ FreeSlots(t) # {}
  BY DEF IsTable, FreeSlots, IsFull, Slots
<1>2. PICK i \in FreeSlots(t) :
        \A j \in FreeSlots(t) : ~ (<<j, i>> \in OpToRel(<, Nat))
  BY <1>1, NatLessThanWellFounded, WFMin, Zenon
<1>3. \A j \in FreeSlots(t) : i <= j
  <2> SUFFICES ASSUME NEW j \in FreeSlots(t), j < i PROVE FALSE
    BY <1>1
  <2>1. <<j, i>> \in OpToRel(<, Nat)
    BY <1>1 DEF OpToRel
  <2> QED
    BY <1>2, <2>1
<1> QED
  BY <1>3 DEF FirstFree

\* Enlarging a table keeps what it holds and adds slots that hold nothing.
LEMMA ResizeFacts ==
  ASSUME NEW t, IsTable(t), NEW n \in Nat, t.size <= n,
         NEW u, u = Resize(t, n)
  PROVE  /\ IsTable(u)
         /\ u.size = n /\ u.used = t.used
         /\ u.issued = t.issued /\ u.destroyed = t.destroyed
         /\ \A i \in Slots(t.size) : u.gens[i] = t.gens[i]
<1>1. /\ u.used = t.used \intersect Slots(n) /\ u.gens = ResizedTo(t.gens, n, 0)
      /\ u.size = n /\ u.issued = t.issued /\ u.destroyed = t.destroyed
  BY DEF Resize, Table
<1>2. Slots(t.size) \subseteq Slots(n)
  BY DEF IsTable, Slots
<1>3. /\ t.used \subseteq Slots(t.size)
      /\ DOMAIN t.gens = Slots(t.size)
      /\ \A i \in Slots(t.size) : t.gens[i] \in Nat
  BY DEF IsTable
<1>4. ResizedTo(t.gens, n, 0) \in [Slots(n) -> Nat]
  BY <1>3 DEF ResizedTo
<1>5. t.issued \subseteq [Index : Slots(n), GenerationIdx : Nat]
  BY <1>2 DEF IsTable
<1>6. IsTable(u)
  BY <1>1, <1>4, <1>5 DEF IsTable, Resize, Table
<1> QED
  BY <1>1, <1>2, <1>3, <1>6 DEF ResizedTo

\* The table Create... writes to, before it writes.
LEMMA GrownFacts ==
  ASSUME NEW t, IsTable(t), CanCreate(t),
         NEW g, g = Grown(t), NEW k, k = TargetSlot(t)
  PROVE  /\ IsTable(g)
         /\ t.size <= g.size /\ g.used = t.used
         /\ g.issued = t.issued /\ g.destroyed = t.destroyed
         /\ k \in Slots(g.size) /\ k \notin t.used
         /\ \A i \in Slots(t.size) : g.gens[i] = t.gens[i]
<1>1. t.size \in Nat /\ t.used \subseteq Slots(t.size)
  BY DEF IsTable
<1>2. CASE IsFull(t)
  <2>1. PICK n \in Nat : n = 2 * t.size
    BY <1>1
  <2>2. g = Resize(t, n) /\ k = t.size /\ t.size <= n
    BY <1>1, <1>2, <2>1 DEF Grown, TargetSlot, ResizeFactor
  <2>3. /\ IsTable(g) /\ g.size = n /\ g.used = t.used
        /\ g.issued = t.issued /\ g.destroyed = t.destroyed
        /\ \A i \in Slots(t.size) : g.gens[i] = t.gens[i]
    BY <2>2, ResizeFacts
  <2>4. k \in Slots(n) /\ k \notin Slots(t.size)
    BY <1>1, <2>1, <2>2, <2>3 DEF CanCreate, Slots
  <2> QED
    BY <1>1, <2>2, <2>3, <2>4
<1>3. CASE ~IsFull(t)
  <2>1. g = t /\ k = FirstFree(t)
    BY <1>3 DEF Grown, TargetSlot
  <2>2. k \in Slots(t.size) /\ k \notin t.used
    BY <1>3, <2>1, FirstFreeIsFree DEF FreeSlots
  <2> QED
    BY <1>1, <2>1, <2>2
<1> QED
  BY <1>2, <1>3

\* Create... yields a table, and a reference that is valid in it, whatever
\* the client did before.
LEMMA CreateTable ==
  ASSUME NEW t, IsTable(t), CanCreate(t),
         NEW u, u = Create(t), NEW r, r = NewRef(t)
  PROVE  /\ IsTable(u)
         /\ r \in [Index : Slots(u.size), GenerationIdx : Nat]
         /\ u.issued = t.issued \union {r} /\ u.destroyed = t.destroyed
         /\ u.used = t.used \union {r.Index} /\ r.Index \notin t.used
         /\ Valid(u, r)
         /\ t.size <= u.size
         /\ \A i \in Slots(t.size) : u.gens[i] = t.gens[i]
<1> DEFINE g == Grown(t)
           k == TargetSlot(t)
<1>1. /\ IsTable(g) /\ k \in Slots(g.size) /\ t.size <= g.size
      /\ g.used = t.used /\ k \notin t.used
      /\ g.issued = t.issued /\ g.destroyed = t.destroyed
      /\ \A i \in Slots(t.size) : g.gens[i] = t.gens[i]
  BY GrownFacts
<1>2. /\ u.size = g.size /\ u.used = g.used \union {k} /\ u.gens = g.gens
      /\ u.issued = t.issued \union {r} /\ u.destroyed = t.destroyed
  BY DEF Create, Table
<1>3. r.Index = k /\ r.GenerationIdx = g.gens[k]
  BY DEF NewRef, Ref
<1>4. /\ g.size \in Nat /\ g.used \subseteq Slots(g.size)
      /\ g.gens \in [Slots(g.size) -> Nat]
      /\ g.issued \subseteq [Index : Slots(g.size), GenerationIdx : Nat]
      /\ g.destroyed \subseteq g.issued
  BY <1>1 DEF IsTable
<1>5. r \in [Index : Slots(g.size), GenerationIdx : Nat]
  BY <1>1, <1>4 DEF NewRef, Ref
<1>6. /\ u.size \in Nat /\ u.used \subseteq Slots(u.size)
      /\ u.gens \in [Slots(u.size) -> Nat]
      /\ u.issued \subseteq [Index : Slots(u.size), GenerationIdx : Nat]
      /\ u.destroyed \subseteq u.issued
  BY <1>1, <1>2, <1>4, <1>5
<1>7. IsTable(u)
  BY <1>6 DEF IsTable, Create, Table
<1> QED
  BY <1>1, <1>2, <1>3, <1>5, <1>7 DEF Valid

-----------------------------------------------------------------------------
\* A reference is its index and its generation.
LEMMA RefOfFields ==
  ASSUME NEW S, NEW r \in [Index : S, GenerationIdx : Nat]
  PROVE  r = Ref(r.Index, r.GenerationIdx)
BY DEF Ref

\* Before Init the table is consistent.
LEMMA EmptyTableFacts ==
  /\ IsTable(EmptyTable) /\ Consistent(EmptyTable) /\ LiveUsed(EmptyTable)
  /\ EmptyTable.size = 0 /\ EmptyTable.issued = {} /\ EmptyTable.used = {}
BY DEF EmptyTable, Table, IsTable, Slots, Consistent, RefsExact, NoFutureRef,
       NoOrphan, LiveUsed, Live

\* Preallocating slots in an empty table keeps it consistent.
LEMMA PreallocateConsistent ==
  ASSUME NEW n \in Nat, NEW u, u = Resize(EmptyTable, n)
  PROVE  /\ IsTable(u) /\ Consistent(u) /\ LiveUsed(u)
         /\ u.size = n /\ u.issued = {} /\ u.used = {}
<1>1. IsTable(u) /\ u.issued = {} /\ u.used = {} /\ u.size = n
  BY ResizeFacts, EmptyTableFacts
<1> QED
  BY <1>1 DEF Consistent, RefsExact, NoFutureRef, NoOrphan, LiveUsed, Live

\* While everything the client owns is in use, Create... returns a reference
\* it has never returned before, and leaves every other reference as it was.
LEMMA CreateConsistent ==
  ASSUME NEW t, IsTable(t), CanCreate(t), Consistent(t), LiveUsed(t),
         NEW u, u = Create(t), NEW r, r = NewRef(t)
  PROVE  /\ r \notin t.issued
         /\ Consistent(u) /\ LiveUsed(u)
         /\ Live(u) = Live(t) \union {r}
         /\ \A s \in t.issued : Valid(u, s) <=> Valid(t, s)
<1>1. /\ IsTable(u)
      /\ r \in [Index : Slots(u.size), GenerationIdx : Nat]
      /\ u.issued = t.issued \union {r} /\ u.destroyed = t.destroyed
      /\ u.used = t.used \union {r.Index} /\ r.Index \notin t.used
      /\ Valid(u, r)
      /\ \A i \in Slots(t.size) : u.gens[i] = t.gens[i]
  BY CreateTable
<1>2. /\ t.issued \subseteq [Index : Slots(t.size), GenerationIdx : Nat]
      /\ t.destroyed \subseteq t.issued
      /\ t.gens \in [Slots(t.size) -> Nat] /\ t.used \subseteq Slots(t.size)
  BY DEF IsTable
<1>3. r \notin t.issued
  <2> SUFFICES ASSUME r \in t.issued PROVE FALSE
    OBVIOUS
  <2>1. Valid(t, r)
    BY <1>1, <1>2 DEF Valid
  <2>2. r \in Live(t)
    BY <2>1 DEF Consistent, RefsExact, Live
  <2> QED
    BY <1>1, <2>2 DEF LiveUsed
<1>4. \A s \in t.issued : Valid(u, s) <=> Valid(t, s)
  BY <1>1, <1>2 DEF Valid
<1>5. Live(u) = Live(t) \union {r}
  BY <1>1, <1>2, <1>3 DEF Live
<1>6. RefsExact(u)
  BY <1>1, <1>2, <1>3, <1>4 DEF Consistent, RefsExact
<1>7. NoFutureRef(u)
  <2>1. r.GenerationIdx <= u.gens[r.Index]
    BY <1>1 DEF Valid
  <2>2. \A s \in t.issued : s.GenerationIdx <= u.gens[s.Index]
    BY <1>1, <1>2 DEF Consistent, NoFutureRef
  <2> QED
    BY <1>1, <2>1, <2>2 DEF NoFutureRef
<1>8. NoOrphan(u)
  <2>1. Ref(r.Index, u.gens[r.Index]) = r
    BY <1>1, RefOfFields DEF Valid
  <2>2. \A i \in t.used : Ref(i, u.gens[i]) \in Live(t)
    BY <1>1, <1>2 DEF Consistent, NoOrphan
  <2> QED
    BY <1>1, <1>5, <2>1, <2>2 DEF NoOrphan
<1>9. LiveUsed(u)
  BY <1>1, <1>5 DEF LiveUsed
<1> QED
  BY <1>3, <1>4, <1>5, <1>6, <1>7, <1>8, <1>9 DEF Consistent

\* Destroying an object one owns makes its reference stale, and no other.
LEMMA DestroyConsistent ==
  ASSUME NEW t, IsTable(t), Consistent(t), NEW r \in Live(t),
         NEW u, u = Destroy(t, r)
  PROVE  /\ IsTable(u) /\ Consistent(u)
         /\ u.size = t.size /\ u.used = t.used \ {r.Index} /\ u.issued = t.issued
         /\ Live(u) = Live(t) \ {r}
         /\ \A s \in t.issued : Valid(u, s) <=> Valid(t, s) /\ s # r
         /\ LiveUsed(t) => LiveUsed(u)
<1>1. /\ t.size \in Nat
      /\ t.issued \subseteq [Index : Slots(t.size), GenerationIdx : Nat]
      /\ t.destroyed \subseteq t.issued
      /\ t.gens \in [Slots(t.size) -> Nat] /\ t.used \subseteq Slots(t.size)
  BY DEF IsTable
<1>2. /\ u.size = t.size /\ u.used = t.used \ {r.Index}
      /\ u.gens = [t.gens EXCEPT ![r.Index] = t.gens[r.Index] + 1]
      /\ u.issued = t.issued /\ u.destroyed = t.destroyed \union {r}
  BY DEF Destroy, Table
<1>3. /\ r \in t.issued /\ r \notin t.destroyed
      /\ r.Index \in Slots(t.size) /\ r.GenerationIdx = t.gens[r.Index]
  BY <1>1 DEF Live, Consistent, RefsExact, Valid
<1>4. u.gens \in [Slots(t.size) -> Nat]
  BY <1>1, <1>2, <1>3
<1>5. IsTable(u)
  BY <1>1, <1>2, <1>3, <1>4 DEF IsTable, Destroy, Table
<1>6. /\ u.gens[r.Index] = t.gens[r.Index] + 1
      /\ \A i \in Slots(t.size) : i # r.Index => u.gens[i] = t.gens[i]
  BY <1>1, <1>2, <1>3
\* Two valid references to one slot are equal.
<1>7. \A s \in t.issued : s.Index = r.Index /\ Valid(t, s) => s = r
  BY <1>1, <1>3, RefOfFields DEF Valid
<1>8. \A s \in t.issued : Valid(u, s) <=> Valid(t, s) /\ s # r
  <2> SUFFICES ASSUME NEW s \in t.issued
               PROVE  Valid(u, s) <=> Valid(t, s) /\ s # r
    OBVIOUS
  <2>1. s.Index \in Slots(t.size) /\ s.GenerationIdx \in Nat
    BY <1>1
  <2>2. CASE s.Index = r.Index
    <3>1. s.GenerationIdx <= t.gens[r.Index]
      BY <2>2 DEF Consistent, NoFutureRef
    <3>2. ~Valid(u, s)
      BY <1>1, <1>3, <1>6, <2>1, <2>2, <3>1 DEF Valid
    <3> QED
      BY <1>7, <2>2, <3>2
  <2>3. CASE s.Index # r.Index
    BY <1>6, <2>1, <2>3 DEF Valid
  <2> QED
    BY <2>2, <2>3
<1>9. Live(u) = Live(t) \ {r}
  BY <1>2 DEF Live
<1>10. RefsExact(u)
  BY <1>2, <1>8 DEF Consistent, RefsExact
<1>11. NoFutureRef(u)
  <2> SUFFICES ASSUME NEW s \in t.issued PROVE s.GenerationIdx <= u.gens[s.Index]
    BY <1>2 DEF NoFutureRef
  <2>1. s.Index \in Slots(t.size) /\ s.GenerationIdx \in Nat
    BY <1>1
  <2>2. s.GenerationIdx <= t.gens[s.Index]
    BY DEF Consistent, NoFutureRef
  <2> QED
    BY <1>1, <1>6, <2>1, <2>2
<1>12. NoOrphan(u)
  <2> SUFFICES ASSUME NEW i \in t.used, i # r.Index
               PROVE  Ref(i, u.gens[i]) \in Live(u)
    BY <1>2 DEF NoOrphan
  <2>1. Ref(i, u.gens[i]) \in Live(t)
    BY <1>1, <1>6 DEF Consistent, NoOrphan
  <2> QED
    BY <1>9, <2>1 DEF Ref
<1>13. LiveUsed(t) => LiveUsed(u)
  <2> SUFFICES ASSUME LiveUsed(t), NEW s \in Live(t), s # r
               PROVE  s.Index # r.Index
    BY <1>2, <1>9 DEF LiveUsed
  <2> QED
    BY <1>7 DEF Live, Consistent, RefsExact
<1> QED
  BY <1>2, <1>5, <1>8, <1>9, <1>10, <1>11, <1>12, <1>13 DEF Consistent

\* Taking an object one owns out of use, or back into use, changes what no
\* reference reaches.
LEMMA SetUsedConsistent ==
  ASSUME NEW t, IsTable(t), Consistent(t), NEW r \in Live(t), NEW on \in BOOLEAN,
         NEW u, u = SetUsed(t, r, on)
  PROVE  /\ IsTable(u) /\ Consistent(u)
         /\ u.size = t.size /\ u.issued = t.issued /\ Live(u) = Live(t)
         /\ u.gens = t.gens
<1>1. /\ t.size \in Nat
      /\ t.issued \subseteq [Index : Slots(t.size), GenerationIdx : Nat]
      /\ t.destroyed \subseteq t.issued
      /\ t.gens \in [Slots(t.size) -> Nat] /\ t.used \subseteq Slots(t.size)
  BY DEF IsTable
<1>2. /\ u.size = t.size /\ u.gens = t.gens
      /\ u.used \subseteq t.used \union {r.Index}
      /\ u.issued = t.issued /\ u.destroyed = t.destroyed
  BY DEF SetUsed, Table
<1>3. r \in t.issued /\ r.Index \in Slots(t.size) /\ Valid(t, r)
  BY <1>1 DEF Live, Consistent, RefsExact
<1>4. IsTable(u)
  BY <1>1, <1>2, <1>3 DEF IsTable, SetUsed, Table
<1>5. Live(u) = Live(t)
  BY <1>2 DEF Live
<1>6. RefsExact(u) /\ NoFutureRef(u)
  BY <1>2 DEF Consistent, RefsExact, NoFutureRef, Valid
<1>7. Ref(r.Index, t.gens[r.Index]) = r
  BY <1>1, <1>3, RefOfFields DEF Valid
<1>8. NoOrphan(u)
  BY <1>2, <1>5, <1>7 DEF Consistent, NoOrphan
<1> QED
  BY <1>2, <1>4, <1>5, <1>6, <1>8 DEF Consistent

\* A table with at least one slot always has a slot to create an object in.
LEMMA CreateAlwaysPossible ==
  ASSUME NEW t, IsTable(t), t.size > 0
  PROVE  CanCreate(t)
<1>1. t.size \in Nat /\ t.used \subseteq Slots(t.size)
  BY DEF IsTable
<1>2. CASE IsFull(t)
  <2>1. TargetSlot(t) = t.size /\ Grown(t).size = 2 * t.size
    BY <1>2 DEF TargetSlot, Grown, Resize, Table, ResizeFactor
  <2> QED
    BY <1>1, <2>1 DEF CanCreate, Slots
<1>3. CASE ~IsFull(t)
  <2>1. TargetSlot(t) \in Slots(t.size) /\ Grown(t) = t
    BY <1>3, FirstFreeIsFree DEF TargetSlot, Grown, FreeSlots
  <2> QED
    BY <2>1 DEF CanCreate
<1> QED
  BY <1>2, <1>3

-----------------------------------------------------------------------------
(* Tables in the hands of a client who may be careless: no generation ever *)
(* goes back, so no reference is ever ahead of its slot.                   *)

GoodTable(t) == IsTable(t) /\ NoFutureRef(t)

\* No slot that a reference names is of an earlier generation than it was.
Aged(t, u) ==
  \A r \in t.issued : r \in u.issued => t.gens[r.Index] <= u.gens[r.Index]

\* A reference gone stale stays stale.
LEMMA AgedStaysStale ==
  ASSUME NEW t, NEW u, GoodTable(t), IsTable(u), Aged(t, u),
         NEW r \in t.issued, r \in u.issued, ~Valid(t, r)
  PROVE  ~Valid(u, r)
<1>1. /\ r \in [Index : Slots(t.size), GenerationIdx : Nat]
      /\ r \in [Index : Slots(u.size), GenerationIdx : Nat]
      /\ t.gens \in [Slots(t.size) -> Nat] /\ u.gens \in [Slots(u.size) -> Nat]
  BY DEF GoodTable, IsTable
<1>2. r.GenerationIdx <= t.gens[r.Index] /\ t.gens[r.Index] <= u.gens[r.Index]
  BY DEF GoodTable, NoFutureRef, Aged
<1>3. r.GenerationIdx \in Nat /\ t.gens[r.Index] \in Nat /\ u.gens[r.Index] \in Nat
  BY <1>1
<1> QED
  BY <1>2, <1>3 DEF Valid

LEMMA UnchangedAged == ASSUME NEW t, GoodTable(t) PROVE Aged(t, t)
<1>1. \A r \in t.issued : t.gens[r.Index] \in Nat
  BY DEF GoodTable, IsTable
<1> QED
  BY <1>1 DEF Aged

LEMMA CreateAges ==
  ASSUME NEW t, GoodTable(t), CanCreate(t), NEW u, u = Create(t)
  PROVE  GoodTable(u) /\ Aged(t, u)
<1> DEFINE r == NewRef(t)
<1>1. /\ IsTable(u) /\ Valid(u, r)
      /\ u.issued = t.issued \union {r}
      /\ \A i \in Slots(t.size) : u.gens[i] = t.gens[i]
      /\ r \in [Index : Slots(u.size), GenerationIdx : Nat]
  BY CreateTable DEF GoodTable
<1>2. /\ t.issued \subseteq [Index : Slots(t.size), GenerationIdx : Nat]
      /\ t.gens \in [Slots(t.size) -> Nat]
  BY DEF GoodTable, IsTable
<1>3. \A s \in t.issued :
        s.Index \in Slots(t.size) /\ t.gens[s.Index] \in Nat
  BY <1>2
<1>4. Aged(t, u)
  BY <1>1, <1>3 DEF Aged
<1>5. NoFutureRef(u)
  BY <1>1, <1>3 DEF GoodTable, NoFutureRef, Valid
<1> QED
  BY <1>1, <1>4, <1>5 DEF GoodTable

LEMMA DestroyAges ==
  ASSUME NEW t, GoodTable(t), NEW r \in t.issued, NEW u, u = Destroy(t, r)
  PROVE  GoodTable(u) /\ Aged(t, u) /\ u.size = t.size
<1>1. /\ t.size \in Nat
      /\ t.issued \subseteq [Index : Slots(t.size), GenerationIdx : Nat]
      /\ t.destroyed \subseteq t.issued
      /\ t.gens \in [Slots(t.size) -> Nat] /\ t.used \subseteq Slots(t.size)
  BY DEF GoodTable, IsTable
<1>2. /\ u.size = t.size /\ u.used = t.used \ {r.Index}
      /\ u.gens = [t.gens EXCEPT ![r.Index] = t.gens[r.Index] + 1]
      /\ u.issued = t.issued /\ u.destroyed = t.destroyed \union {r}
  BY DEF Destroy, Table
<1>3. u.gens \in [Slots(t.size) -> Nat]
  BY <1>1, <1>2
<1>4. IsTable(u)
  BY <1>1, <1>2, <1>3 DEF IsTable, Destroy, Table
<1>5. \A s \in t.issued :
        /\ s.Index \in Slots(t.size) /\ s.GenerationIdx \in Nat
        /\ t.gens[s.Index] \in Nat /\ u.gens[s.Index] \in Nat
        /\ t.gens[s.Index] <= u.gens[s.Index]
  BY <1>1, <1>2, <1>3
<1>6. Aged(t, u)
  BY <1>5 DEF Aged
<1>7. NoFutureRef(u)
  BY <1>2, <1>5 DEF GoodTable, NoFutureRef
<1> QED
  BY <1>2, <1>4, <1>6, <1>7 DEF GoodTable

LEMMA SetUsedAges ==
  ASSUME NEW t, GoodTable(t), NEW r \in t.issued, NEW on \in BOOLEAN,
         NEW u, u = SetUsed(t, r, on)
  PROVE  GoodTable(u) /\ Aged(t, u) /\ u.size = t.size /\ u.gens = t.gens
<1>1. /\ t.size \in Nat
      /\ t.issued \subseteq [Index : Slots(t.size), GenerationIdx : Nat]
      /\ t.destroyed \subseteq t.issued
      /\ t.gens \in [Slots(t.size) -> Nat] /\ t.used \subseteq Slots(t.size)
  BY DEF GoodTable, IsTable
<1>2. /\ u.size = t.size /\ u.gens = t.gens
      /\ u.used \subseteq t.used \union {r.Index}
      /\ u.issued = t.issued /\ u.destroyed = t.destroyed
  BY DEF SetUsed, Table
<1>3. r.Index \in Slots(t.size)
  BY <1>1
<1>4. IsTable(u)
  BY <1>1, <1>2, <1>3 DEF IsTable, SetUsed, Table
<1>5. NoFutureRef(u) /\ Aged(t, u)
  BY <1>2, UnchangedAged DEF GoodTable, NoFutureRef, Aged
<1> QED
  BY <1>2, <1>4, <1>5 DEF GoodTable
=============================================================================
