---------------------------- MODULE MCHandleTable ----------------------------
(* HandleTable for TLC: preallocation counts of each kind World::Init       *)
(* distinguishes (negative, none, one, several).                            *)
EXTENDS HandleTable

MCInitCounts == {-1, 0, 1, 2, 3}
=============================================================================
