------------------------------- MODULE Handles -------------------------------
(***************************************************************************)
(* What a table of World promises its client: a reference that has been    *)
(* handed out is never handed out again, it is good from the call that     *)
(* created it to the call that destroys it, and nothing but destroying it  *)
(* (or emptying the whole table) ends its life.                            *)
(***************************************************************************)
CONSTANT Handle

VARIABLES
  issued,   \* every handle handed out since the table was last emptied
  live,     \* those that still reach their object
  returned  \* the handle the last call handed out, as a set

vars == <<issued, live, returned>>

Init == issued = {} /\ live = {} /\ returned = {}

Alloc(h) ==
  /\ h \notin issued
  /\ issued' = issued \union {h}
  /\ live' = live \union {h}
  /\ returned' = {h}

Free(h) ==
  /\ h \in live
  /\ live' = live \ {h}
  /\ returned' = {}
  /\ UNCHANGED issued

Reset == issued' = {} /\ live' = {} /\ returned' = {}

\* A call that neither creates nor destroys.
Other == returned' = {} /\ UNCHANGED <<issued, live>>

Next == (\E h \in Handle : Alloc(h) \/ Free(h)) \/ Reset \/ Other

Spec == Init /\ [][Next]_vars
=============================================================================
