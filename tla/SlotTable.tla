------------------------------ MODULE SlotTable ------------------------------
(***************************************************************************)
(* The generational tables of PhysicsEngine::World.  World keeps a vector  *)
(* of bodies and a vector of colliders and, beside each, a vector of       *)
(* generation indices; a BodyRef or ColliderRef is an index together with  *)
(* the generation the slot had when the reference was handed out.  Both    *)
(* tables work alike and differ only in what "used" means: Body::IsValid   *)
(* (mass > 0) for a body, Collider::Enabled for a collider.                *)
(*                                                                         *)
(* A table is a value, and World's operations are functions of it:         *)
(*   size       the size() of the two vectors,                             *)
(*   used       the slots that hold an object in use,                      *)
(*   gens       for each slot, its generation index,                       *)
(* and two history components that no operation reads:                     *)
(*   issued     the references Create... has returned since the table was  *)
(*              last empty,                                                *)
(*   destroyed  those of them the client has passed to Destroy...          *)
(***************************************************************************)
EXTENDS Integers

Ref(i, g) == [Index |-> i, GenerationIdx |-> g]

Refs == [Index : Nat, GenerationIdx : Nat]

Slots(n) == 0 .. n - 1

Table(size, used, gens, issued, destroyed) ==
  [ size |-> size, used |-> used, gens |-> gens,
    issued |-> issued, destroyed |-> destroyed ]

\* The vectors of a World that has just been constructed, or deinitialised.
EmptyTable ==
  Table(0, {}, [i \in Slots(0) |-> 0], {}, {})

\* Mutant of ResizedTo: the vector is filled anew, as assign(n, value) does.
AssignedTo(f, n, default) == [i \in Slots(n) |-> default]

\* std::vector::resize(n, value): the slots kept keep their contents, the
\* new ones hold the default value.
ResizedTo(f, n, default) ==
  [i \in Slots(n) |-> IF i \in DOMAIN f THEN f[i] ELSE default]

Resize(t, n) ==
  Table(n, t.used \intersect Slots(n), ResizedTo(t.gens, n, 0),
        t.issued, t.destroyed)

\* A negative preallocation count is taken for 0.
Preallocated(count) == IF count < 0 THEN 0 ELSE count

FreeSlots(t) == Slots(t.size) \ t.used

IsFull(t) == FreeSlots(t) = {}

\* std::find_if returns the first slot that is not in use.
FirstFree(t) ==
  CHOOSE i \in FreeSlots(t) : \A j \in FreeSlots(t) : i <= j

ResizeFactor == 2

\* A full table is enlarged before a slot is taken.
Grown(t) == IF IsFull(t) THEN Resize(t, ResizeFactor * t.size) ELSE t

\* The slot Create... takes: the first free one, or the first new one.
TargetSlot(t) == IF IsFull(t) THEN t.size ELSE FirstFree(t)

\* Mutant of NewRef: every reference is of generation 0.
UnagedRef(t) == Ref(TargetSlot(t), 0)

\* The reference Create... returns.
NewRef(t) == Ref(TargetSlot(t), Grown(t).gens[TargetSlot(t)])

\* Enlarging an empty table leaves it empty: the slot Create... then writes
\* to does not exist.
CanCreate(t) == TargetSlot(t) \in Slots(Grown(t).size)

Create(t) ==
  LET g == Grown(t) IN
  Table(g.size, g.used \union {TargetSlot(t)}, g.gens,
        t.issued \union {NewRef(t)}, t.destroyed)

\* Mutants of Destroy: the generation is left alone; it is decremented.
DestroyUnaged(t, r) ==
  Table(t.size, t.used \ {r.Index}, t.gens, t.issued, t.destroyed \union {r})

DestroyDecrements(t, r) ==
  Table(t.size, t.used \ {r.Index}, [t.gens EXCEPT ![r.Index] = @ - 1],
        t.issued, t.destroyed \union {r})

\* Destroy... overwrites the slot the reference names, whatever generation
\* the reference carries.
Destroy(t, r) ==
  Table(t.size, t.used \ {r.Index},
        [t.gens EXCEPT ![r.Index] = @ + 1],
        t.issued, t.destroyed \union {r})

\* The test GetBody and GetCollider make before they return the object.
Valid(t, r) == t.gens[r.Index] = r.GenerationIdx

\* A client may change whether the object is in use through the reference
\* Get... returns: SetMass, SetEnabled, or assigning a whole Body.
SetUsed(t, r, inUse) ==
  Table(t.size, IF inUse THEN t.used \union {r.Index} ELSE t.used \ {r.Index},
        t.gens, t.issued, t.destroyed)

-----------------------------------------------------------------------------
\* What the client believes it owns.
Live(t) == t.issued \ t.destroyed

IsTable(t) ==
  /\ t.size \in Nat
  /\ t \in [ size      : {t.size},
             used      : SUBSET Slots(t.size),
             gens      : [Slots(t.size) -> Nat],
             issued    : SUBSET [Index : Slots(t.size), GenerationIdx : Nat],
             destroyed : SUBSET t.issued ]

\* A reference reaches an object exactly as long as its owner has not
\* destroyed it.
RefsExact(t) == \A r \in t.issued : Valid(t, r) <=> r \notin t.destroyed

\* Generations only grow: no reference is ahead of its slot.
NoFutureRef(t) ==
  \A r \in t.issued : r.GenerationIdx <= t.gens[r.Index]

\* Every slot in use is owned through a reference the client still holds.
NoOrphan(t) == \A i \in t.used : Ref(i, t.gens[i]) \in Live(t)

\* Every object the client still owns is in use, so its slot is not handed
\* out again.
LiveUsed(t) == \A r \in Live(t) : r.Index \in t.used

Consistent(t) == RefsExact(t) /\ NoFutureRef(t) /\ NoOrphan(t)
=============================================================================
