----------------------------- MODULE HandleTable -----------------------------
(***************************************************************************)
(* One generational table of World and the client that calls it, from the  *)
(* construction of the World on.  The same machine describes the body      *)
(* table (CreateBody, DestroyBody, SetMass) and the collider table         *)
(* (CreateCollider, DestroyCollider, SetEnabled).                          *)
(***************************************************************************)
EXTENDS SlotTable

CONSTANTS
  MaxSlots,    \* bound: the table is not grown beyond this many slots
  MaxGen,      \* bound: a slot is not destroyed more often than this
  InitCounts   \* the preallocation counts Init is called with

ASSUME BoundsAssumption ==
  MaxSlots \in Nat /\ MaxGen \in Nat /\ InitCounts \subseteq Int

VARIABLES
  table,
  status,    \* "constructed" until Init is called, then "running"; "undefined"
             \* once a vector was indexed out of bounds
  returned   \* the reference the last call returned, if it was Create..., as a set

vars == <<table, status, returned>>

Init == table = EmptyTable /\ status = "constructed" /\ returned = {}

Bounded(t) ==
  t.size <= MaxSlots /\ \A i \in Slots(t.size) : t.gens[i] <= MaxGen

\* World::Init on a World just constructed or deinitialised.
InitTable(count) ==
  /\ status = "constructed"
  /\ table' = Resize(table, Preallocated(count))
  /\ Bounded(table')
  /\ status' = "running"
  /\ returned' = {}

CreateObject ==
  /\ status = "running"
  /\ \/ /\ CanCreate(table)
        /\ table' = Create(table)
        /\ Bounded(table')
        /\ returned' = {NewRef(table)}
        /\ UNCHANGED status
     \/ /\ ~CanCreate(table)
        /\ status' = "undefined"
        /\ UNCHANGED <<table, returned>>

DestroyObject(r) ==
  /\ status = "running"
  /\ table' = Destroy(table, r)
  /\ Bounded(table')
  /\ returned' = {}
  /\ UNCHANGED status

\* SetMass or SetEnabled on the object Get... returns; Get... throws, and
\* nothing changes, if the reference is stale.
ChangeUse(r, used) ==
  /\ status = "running"
  /\ Valid(table, r)
  /\ table' = SetUsed(table, r, used)
  /\ returned' = {}
  /\ UNCHANGED status

\* World::Deinit.
ClearTable ==
  /\ status = "running"
  /\ table' = EmptyTable
  /\ status' = "constructed"
  /\ returned' = {}

-----------------------------------------------------------------------------
\* A client that keeps the discipline the code relies on: it preallocates at
\* least one slot, destroys only what it owns, and asks for a new object only
\* while everything it owns is in use.
CarefulCalls ==
  \/ \E n \in InitCounts : Preallocated(n) > 0 /\ InitTable(n)
  \/ LiveUsed(table) /\ CreateObject
  \/ \E r \in Live(table) : DestroyObject(r)
  \/ \E r \in Live(table), u \in BOOLEAN : ChangeUse(r, u)
  \/ ClearTable

CarefulSpec == Init /\ [][CarefulCalls]_vars

-----------------------------------------------------------------------------
\* The state is well formed: the vectors have one element per slot, and the
\* references handed out index them.
TypeOK ==
  /\ IsTable(table)
  /\ status \in {"constructed", "running", "undefined"}
  /\ returned \subseteq table.issued

\* GetBody / GetCollider succeed on a reference exactly until its owner
\* destroys it, every slot in use has one owner, and no reference is ahead
\* of its slot's generation.
TableConsistent == Consistent(table)

\* Create... always has a slot to write to (World.h, CreateBody: "creates a
\* body in the world and returns a BodyRef to this body").
CreateIsDefined == status # "undefined"

AllRefs == [Index : 0 .. MaxSlots - 1, GenerationIdx : 0 .. MaxGen]

Abstract ==
  INSTANCE Handles WITH
    Handle <- AllRefs,
    issued <- table.issued,
    live   <- {r \in table.issued : Valid(table, r)}

\* The table is an allocator of unique handles, whose live handles are those
\* GetBody / GetCollider accept.
AbstractSpec == Abstract!Spec
=============================================================================
