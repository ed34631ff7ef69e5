-------------------------- MODULE PointerConstants --------------------------
(* What the models of the smart pointers are parameterised by.             *)
EXTENDS Integers, FiniteSets

CONSTANTS
  Handles,    \* the pointer variables the client may declare
  Objects,    \* the objects it may create
  Null        \* nullptr

ASSUME PointerAssumption == IsFiniteSet(Handles) /\ Null \notin Objects
=============================================================================
