--------------------------- MODULE UniquePointers ---------------------------
(***************************************************************************)
(* UniquePtr and the HeapAllocator that MakeUnique takes its memory from.  *)
(*                                                                         *)
(* The client makes, moves, assigns, casts and destroys handles in any     *)
(* order.  Both moves exchange the pointers of the two handles.            *)
(***************************************************************************)
EXTENDS PointerConstants

VARIABLES
  alive,            \* the handles within their lifetime
  target,           \* for each handle, the object of _ptr, or Null
  heap,             \* for each object, "unused", "allocated" or "deleted"
  allocationCount   \* the allocator's _allocationCount, which
                    \* nothing changes

vars == <<alive, target, heap, allocationCount>>

Owners(o) == {h \in alive : target[h] = o}

Init ==
  /\ alive = {}
  /\ target = [h \in Handles |-> Null]
  /\ heap = [o \in Objects |-> "unused"]
  /\ allocationCount = 0

\* UniquePtr()
Construct(h) ==
  /\ h \notin alive
  /\ alive' = alive \union {h}
  /\ target' = [target EXCEPT ![h] = Null]
  /\ UNCHANGED <<heap, allocationCount>>

\* HeapAllocator::Allocate
Allocate(o) ==
  /\ heap[o] = "unused"
  /\ heap' = [heap EXCEPT ![o] = "allocated"]
  /\ UNCHANGED allocationCount

MakeUnique(h, o) ==
  /\ h \notin alive
  /\ Allocate(o)
  /\ alive' = alive \union {h}
  /\ target' = [target EXCEPT ![h] = o]

\* UniquePtr(UniquePtr<T>&& other), and the cast to UniquePtr<U>.
MoveConstruct(h, other) ==
  /\ h \notin alive /\ other \in alive
  /\ alive' = alive \union {h}
  /\ target' = [target EXCEPT ![h] = target[other], ![other] = Null]
  /\ UNCHANGED <<heap, allocationCount>>

\* Mutant of MoveAssign: what the handle owned is lost.
MoveAssignOver(h, other) ==
  /\ h \in alive /\ other \in alive
  /\ target' = [target EXCEPT ![h] = target[other], ![other] = Null]
  /\ UNCHANGED <<alive, heap, allocationCount>>

\* operator=(UniquePtr<T>&& other)
MoveAssign(h, other) ==
  /\ h \in alive /\ other \in alive
  /\ target' = [target EXCEPT ![h] = target[other], ![other] = target[h]]
  /\ UNCHANGED <<alive, heap, allocationCount>>

\* ~UniquePtr(); deleting a null pointer does nothing.
Destroy(h) ==
  /\ h \in alive
  /\ alive' = alive \ {h}
  /\ heap' = [o \in Objects |-> IF target[h] = o THEN "deleted" ELSE heap[o]]
  /\ UNCHANGED <<target, allocationCount>>

Next ==
  \E h \in Handles :
    \/ Construct(h) \/ Destroy(h)
    \/ \E o \in Objects : MakeUnique(h, o)
    \/ \E other \in Handles : MoveConstruct(h, other) \/ MoveAssign(h, other)

Spec == Init /\ [][Next]_vars

-----------------------------------------------------------------------------
(* Properties.                                                             *)

TypeOK ==
  /\ alive \subseteq Handles
  /\ target \in [Handles -> Objects \union {Null}]
  /\ heap \in [Objects -> {"unused", "allocated", "deleted"}]
  /\ allocationCount \in Nat

\* No object has two owners, none is lost and none is deleted twice: an object
\* is allocated exactly as long as one handle owns it.
OwnedOnce ==
  /\ \A g, h \in alive : target[g] = target[h] /\ target[g] # Null => g = h
  /\ \A o \in Objects : heap[o] = "allocated" <=> Owners(o) # {}

Promise ==
  INSTANCE Ownership WITH
    owners <- [o \in Objects |-> Owners(o)],
    deleted <- {o \in Objects : heap[o] = "deleted"}

\* An object is deleted with its owner, whatever moves went before.
IsOwnership == Promise!Spec
=============================================================================
