----------------------------- MODULE BroadPhase -----------------------------
(***************************************************************************)
(* What the narrow phase needs of a broad phase: of the rectangles handed  *)
(* in since it was cleared, the pairs that intersect, each of them once.   *)
(***************************************************************************)
EXTENDS FiniteSets, Sequences

CONSTANTS
  Entry,       \* the rectangles that may be handed in, with their owners
  Meet(_, _)   \* whether the rectangles of two entries intersect

VARIABLES
  stored,      \* the entries handed in
  pairs        \* the pairs found, a sequence

vars == <<stored, pairs>>

Init == stored = {} /\ pairs = <<>>

Clear == stored' = {} /\ pairs' = <<>>

Insert(e) ==
  /\ e \notin stored
  /\ stored' = stored \union {e}
  /\ UNCHANGED pairs

MeetingPairs ==
  {{ef[1], ef[2]} :
     ef \in {p \in stored \X stored : p[1] # p[2] /\ Meet(p[1], p[2])}}

Calculate ==
  /\ pairs = <<>>
  /\ {{pairs'[i][1], pairs'[i][2]} : i \in DOMAIN pairs'} = MeetingPairs
  /\ Len(pairs') = Cardinality(MeetingPairs)
  /\ UNCHANGED stored

Next == Clear \/ (\E e \in Entry : Insert(e)) \/ Calculate

Spec == Init /\ [][Next]_vars
=============================================================================
