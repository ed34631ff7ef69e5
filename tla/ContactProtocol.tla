--------------------------- MODULE ContactProtocol ---------------------------
(***************************************************************************)
(* What a ContactListener can rely on.  An Update fixes the set of pairs   *)
(* that touch in this frame; the listener is then told of every pair that  *)
(* began to touch, and may be told of every pair that still does, before   *)
(* it is told of the pairs that ceased to.  A pair enters only if it was   *)
(* apart, stays or exits only if it had entered, is reported at most once  *)
(* a frame, and the next frame begins when the listener knows exactly the  *)
(* pairs of this one.                                                      *)
(***************************************************************************)
CONSTANT Pair   \* the unordered pairs of colliders

VARIABLES
  contacts,   \* the pairs the listener has been told are in contact
  frame,      \* the pairs that touch in the current frame
  pending,    \* those of them this frame has not come to yet
  told        \* the callback in progress, <<kind, pair>>, or <<>>

vars == <<contacts, frame, pending, told>>

Kind == {"Enter", "Stay", "Exit"}

Init == contacts = {} /\ frame = {} /\ pending = {} /\ told = <<>>

BeginFrame ==
  /\ contacts = frame /\ pending = {} /\ told = <<>>
  /\ frame' \in SUBSET Pair
  /\ pending' = frame'
  /\ UNCHANGED <<contacts, told>>

Enter(p) ==
  /\ p \in pending \ contacts
  /\ pending' = pending \ {p}
  /\ contacts' = contacts \union {p}
  /\ told' = <<"Enter", p>>
  /\ UNCHANGED frame

\* A pair that still touches is reported again or passed over in silence.
Stay(p) ==
  /\ p \in pending \intersect contacts
  /\ pending' = pending \ {p}
  /\ told' \in {<<"Stay", p>>, <<>>}
  /\ UNCHANGED <<contacts, frame>>

Exit(p) ==
  /\ pending = {}
  /\ p \in contacts \ frame
  /\ contacts' = contacts \ {p}
  /\ told' = <<"Exit", p>>
  /\ UNCHANGED <<frame, pending>>

Return == told' = <<>> /\ UNCHANGED <<contacts, frame, pending>>

\* World::Deinit forgets all contacts between two frames and reports none of
\* them.
Forget ==
  /\ contacts = frame /\ pending = {} /\ told = <<>>
  /\ contacts' = {} /\ frame' = {}
  /\ UNCHANGED <<pending, told>>

Next ==
  \/ BeginFrame
  \/ \E p \in Pair : Enter(p) \/ Stay(p) \/ Exit(p)
  \/ Return
  \/ Forget

Spec == Init /\ [][Next]_vars
=============================================================================
