------------------------------ MODULE Pointers ------------------------------
(* A program that uses both smart pointers: its SharedPtrs, in careful hands, *)
(* and its UniquePtrs, between whose operations it may switch at any time.    *)
EXTENDS SharedPointers

VARIABLES uniqueAlive, uniqueTarget, uniqueHeap, allocationCount

uniqueVars == <<uniqueAlive, uniqueTarget, uniqueHeap, allocationCount>>

U == INSTANCE UniquePointers WITH
       alive <- uniqueAlive, target <- uniqueTarget, heap <- uniqueHeap

BothInit == Init /\ U!Init

BothNext ==
  \/ CarefulNext /\ UNCHANGED uniqueVars
  \/ status = "defined" /\ U!Next /\ UNCHANGED vars

BothSpec == BothInit /\ [][BothNext]_<<vars, uniqueVars>>

\* A UniquePtr's object is deleted with its owner (UniquePointers).
UniqueIsOwnership == U!IsOwnership
=============================================================================
