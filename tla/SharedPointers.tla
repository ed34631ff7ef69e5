--------------------------- MODULE SharedPointers ---------------------------
(***************************************************************************)
(* SharedPtr: handles that share an object, and the count of them on the   *)
(* heap.  _ptr and _count are set, exchanged and deleted together, so an   *)
(* object stands for both.                                                 *)
(*                                                                         *)
(* The client constructs, copies, moves, assigns and destroys handles in   *)
(* any order.  Reading the count through a null pointer is undefined.      *)
(***************************************************************************)
EXTENDS PointerConstants

CONSTANT MaxCount   \* bound on every count

ASSUME CountAssumption == MaxCount \in Nat

VARIABLES
  alive,     \* the handles within their lifetime
  target,    \* for each handle, the object of _ptr and _count, or Null
  count,     \* for each object, *_count
  heap,      \* for each object, "unused", "allocated" or "deleted"
  status     \* "defined", or "undefined" by undefined behaviour

vars == <<alive, target, count, heap, status>>

Owners(o) == {h \in alive : target[h] = o}

Init ==
  /\ alive = {}
  /\ target = [h \in Handles |-> Null]
  /\ count = [o \in Objects |-> 0]
  /\ heap = [o \in Objects |-> "unused"]
  /\ status = "defined"

Counted(h) == target[h] # Null /\ heap[target[h]] = "allocated"

Incremented(o) == count[o] < MaxCount /\ count' = [count EXCEPT ![o] = @ + 1]

\* SharedPtr "is a naive implementation of the std::shared_ptr" (SharedPtr.h:14),
\* whose empty and moved-from handles may be destroyed and copied.  Here both
\* read the count through a null pointer.
Undefined == status' = "undefined" /\ UNCHANGED <<alive, target, count, heap>>

-----------------------------------------------------------------------------
\* SharedPtr()
Construct(h) ==
  /\ status = "defined" /\ h \notin alive
  /\ alive' = alive \union {h}
  /\ target' = [target EXCEPT ![h] = Null]
  /\ UNCHANGED <<count, heap, status>>

\* SharedPtr(new T)
Acquire(h, o) ==
  /\ status = "defined" /\ h \notin alive /\ heap[o] = "unused"
  /\ alive' = alive \union {h}
  /\ target' = [target EXCEPT ![h] = o]
  /\ count' = [count EXCEPT ![o] = 1]
  /\ heap' = [heap EXCEPT ![o] = "allocated"]
  /\ UNCHANGED status

\* SharedPtr(const SharedPtr<T>& other)
CopyConstruct(h, other) ==
  /\ status = "defined" /\ h \notin alive /\ other \in alive
  /\ \/ /\ Counted(other)
        /\ alive' = alive \union {h}
        /\ target' = [target EXCEPT ![h] = target[other]]
        /\ Incremented(target[other])
        /\ UNCHANGED <<heap, status>>
     \/ ~Counted(other) /\ Undefined

\* SharedPtr(SharedPtr<T>&& other)
MoveConstruct(h, other) ==
  /\ status = "defined" /\ h \notin alive /\ other \in alive
  /\ alive' = alive \union {h}
  /\ target' = [target EXCEPT ![h] = target[other], ![other] = Null]
  /\ UNCHANGED <<count, heap, status>>

\* operator=(const SharedPtr<T>& other): what the handle shared until then
\* keeps being counted for it, so the handles that go on sharing that object are
\* told of one too many by SharedCount.
CopyAssign(h, other) ==
  /\ status = "defined" /\ h \in alive /\ other \in alive \ {h}
  /\ \/ /\ Counted(other)
        /\ target' = [target EXCEPT ![h] = target[other]]
        /\ Incremented(target[other])
        /\ UNCHANGED <<alive, heap, status>>
     \/ ~Counted(other) /\ Undefined

\* Mutant of MoveAssign: the other handle is left as it is.
MoveAssignKeeping(h, other) ==
  /\ status = "defined" /\ h \in alive /\ other \in alive
  /\ target' = [target EXCEPT ![h] = target[other]]
  /\ UNCHANGED <<alive, count, heap, status>>

\* operator=(SharedPtr<T>&& other): swap, then other is set to null, even if
\* it is the handle itself.
MoveAssign(h, other) ==
  /\ status = "defined" /\ h \in alive /\ other \in alive
  /\ target' = [target EXCEPT ![h] = target[other], ![other] = Null]
  /\ UNCHANGED <<alive, count, heap, status>>

\* Mutant of Destroy: the object is deleted when one handle is left.
DestroyEarly(h) ==
  /\ status = "defined" /\ h \in alive
  /\ \/ /\ Counted(h)
        /\ alive' = alive \ {h}
        /\ count' = [count EXCEPT ![target[h]] = @ - 1]
        /\ heap' = IF count'[target[h]] <= 1
                   THEN [heap EXCEPT ![target[h]] = "deleted"] ELSE heap
        /\ UNCHANGED <<target, status>>
     \/ ~Counted(h) /\ Undefined

\* ~SharedPtr()
Destroy(h) ==
  /\ status = "defined" /\ h \in alive
  /\ \/ /\ Counted(h)
        /\ alive' = alive \ {h}
        /\ count' = [count EXCEPT ![target[h]] = @ - 1]
        /\ heap' = IF count'[target[h]] = 0
                   THEN [heap EXCEPT ![target[h]] = "deleted"] ELSE heap
        /\ UNCHANGED <<target, status>>
     \/ ~Counted(h) /\ Undefined

-----------------------------------------------------------------------------
AnyNext ==
  \E h \in Handles :
    \/ Construct(h) \/ Destroy(h)
    \/ \E o \in Objects : Acquire(h, o)
    \/ \E other \in Handles :
         \/ CopyConstruct(h, other) \/ MoveConstruct(h, other)
         \/ CopyAssign(h, other) \/ MoveAssign(h, other)

AnySpec == Init /\ [][AnyNext]_vars

\* A client that assigns only to handles that share nothing.  It constructs,
\* copies, moves and destroys what it likes, as C++ destroys every handle in the
\* end, the empty and the moved-from ones included.
CarefulNext ==
  \E h \in Handles :
    \/ Construct(h) \/ Destroy(h)
    \/ \E o \in Objects : Acquire(h, o)
    \/ \E other \in Handles :
         \/ CopyConstruct(h, other) \/ MoveConstruct(h, other)
         \/ target[h] = Null /\ (CopyAssign(h, other) \/ MoveAssign(h, other))

CarefulSpec == Init /\ [][CarefulNext]_vars

-----------------------------------------------------------------------------
(* Properties.                                                             *)

TypeOK ==
  /\ alive \subseteq Handles
  /\ target \in [Handles -> Objects \union {Null}]
  /\ count \in [Objects -> Nat]
  /\ heap \in [Objects -> {"unused", "allocated", "deleted"}]
  /\ status \in {"defined", "undefined"}

\* Whatever the client does, and though an assignment may count a handle that is
\* gone, no object is deleted while a handle can reach it: a count is never below
\* the number of the handles, and only an object whose count is zero is deleted.
NeverDangling ==
  \A o \in Objects :
    /\ Cardinality(Owners(o)) <= count[o]
    /\ heap[o] = "allocated" <=> count[o] > 0

\* The count of every object is that of its handles, for a client that assigns to
\* handles that share nothing only.
CountExact == \A o \in Objects : count[o] = Cardinality(Owners(o))

\* In careful hands an object is deleted with its last handle, as long as the
\* behaviour is defined.
Promise ==
  INSTANCE Ownership WITH
    owners <- [o \in Objects |-> Owners(o)],
    deleted <- {o \in Objects : heap[o] = "deleted"}

IsOwnership == Promise!Spec
=============================================================================
