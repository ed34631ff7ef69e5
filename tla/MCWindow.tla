------------------------------ MODULE MCWindow ------------------------------
(* A disk, a box, and the triangle of TriggerColliderSample.               *)
EXTENDS Window

At(x, y) == [X |-> x, Y |-> y]

SomeShapes ==
  { <<At(1, 1)>>, <<At(2, 1)>>, <<At(-2, -2), At(0, 2), At(2, -2)>> }

Slow    == {-1, 1}
OneTwo  == {1, 2}
Down    == -13
=============================================================================
