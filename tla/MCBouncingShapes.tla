-------------------------- MODULE MCBouncingShapes --------------------------
(* A world that grows with the shapes.                                     *)
EXTENDS BouncingShapes

Counts == {1}
=============================================================================
