------------------------------ MODULE Ownership ------------------------------
(***************************************************************************)
(* What a smart pointer promises: an object is deleted in the step in      *)
(* which its last owner lets go of it, not before and only then, and a     *)
(* deleted object never has an owner again.                                *)
(***************************************************************************)
CONSTANTS Handles, Objects

VARIABLES
  owners,    \* for each object, the handles that own it
  deleted    \* the objects that have been deleted

Init ==
  /\ owners = [o \in Objects |-> {}]
  /\ deleted = {}

LetGo == {o \in Objects : owners[o] # {} /\ owners'[o] = {}}

Next ==
  /\ owners' \in [Objects -> SUBSET Handles]
  /\ \A o \in deleted : owners'[o] = {}
  /\ deleted' = deleted \union LetGo

Spec == Init /\ [][Next]_<<owners, deleted>>
=============================================================================
