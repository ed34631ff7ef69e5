------------------------------- MODULE MCWorld -------------------------------
(* World for TLC: the preallocation counts of each run.                     *)
EXTENDS World

OneSlot    == {1}
AnyCount   == {-1, 0, 1}
=============================================================================
