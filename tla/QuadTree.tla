------------------------------ MODULE QuadTree ------------------------------
(***************************************************************************)
(* PhysicsEngine::QuadTree, driven as World::resolveBroadPhase drives it:  *)
(* in every frame Clear, SetRootNodeBoundary, one Insert for every enabled *)
(* collider in the order of their slots, and CalculatePossiblePairs.       *)
(*                                                                         *)
(* The nodes are a preallocated pool; a subdivision takes the next four.   *)
(* insertInNode calls itself, for one collider or, when it subdivides a    *)
(* node, for up to MaxColliderNbr + 1 of them; a step of the model is one  *)
(* activation of insertInNode, and the activations to come are on a stack. *)
(* A frame may insert any of the given rectangles for each collider.       *)
(***************************************************************************)
EXTENDS Quadrants, Sequences, SequencesExt, FiniteSets

CONSTANTS
  MaxColliderNbr,   \* QuadNode::MaxColliderNbr
  MaxDepth,         \* QuadTree::_maxDepth
  MaxColliders,     \* bound on the colliders inserted in a frame
  Boundaries,       \* the root boundaries a frame may have
  Shapes            \* the rectangles a collider may be simplified to

ASSUME SizesAssumption ==
  /\ MaxColliderNbr \in Nat /\ MaxDepth \in Nat /\ MaxColliders \in Nat

\* A shape has no negative size, and the root boundary, around the positions of
\* the enabled colliders, is turned inside out only in a frame that has none.
ASSUME ProperAssumption == \A r \in Boundaries \union Shapes : Proper(r)

VARIABLES
  nodes,           \* _nodes, by index; no node at all before Init
  nodeIndex,       \* _nodeIndex, the next free node of the pool
  possiblePairs,   \* _possiblePairs
  calls,           \* the activations of insertInNode to come, first one first
  stage,           \* how far the frame is: "inserting", or "paired"
                   \* between two frames
  status           \* "constructed", "running"; "undefined" once the pool was
                   \* indexed out of bounds

vars == <<nodes, nodeIndex, possiblePairs, calls, stage, status>>

\* The nodes of a complete tree of the given depth: the root, and below it four
\* trees that are one less deep (the code adds up the powers of four).
QuadCount[depth \in Nat] ==
  IF depth = 0 THEN 1 ELSE 1 + 4 * QuadCount[depth - 1]

Zero == Rectangle(Point(0, 0), Point(0, 0))

\* A QuadNode; without children, Children is empty.
Node(boundary, children, colliders) ==
  [Boundary |-> boundary, Children |-> children, Colliders |-> colliders]

SimplifiedCollider(ref, rect) == [ColRef |-> ref, Rectangle |-> rect]

Root == 0

Init ==
  /\ nodes = <<>>
  /\ nodeIndex = 1
  /\ possiblePairs = <<>>
  /\ calls = <<>>
  /\ stage = "paired"
  /\ status = "constructed"

InitTree ==
  /\ status = "constructed"
  /\ nodes' = [n \in 0 .. QuadCount[MaxDepth] - 1 |-> Node(Zero, <<>>, <<>>)]
  /\ status' = "running"
  /\ UNCHANGED <<nodeIndex, possiblePairs, calls, stage>>

DeinitTree ==
  /\ status = "running" /\ stage = "paired"
  /\ nodes' = <<>>
  /\ nodeIndex' = 1
  /\ possiblePairs' = <<>>
  /\ status' = "constructed"
  /\ UNCHANGED <<calls, stage>>

\* The boundaries of the nodes are left as they are.
Cleared == [n \in DOMAIN nodes |-> Node(nodes[n].Boundary, <<>>, <<>>)]

\* Mutant of BeginFrame: Clear does not give the nodes back to the pool.
BeginFrameLeaking(boundary) ==
  /\ status = "running" /\ stage = "paired"
  /\ nodes' = [Cleared EXCEPT ![Root].Boundary = boundary]
  /\ possiblePairs' = <<>>
  /\ stage' = "inserting"
  /\ UNCHANGED <<nodeIndex, calls, status>>

\* Clear, and SetRootNodeBoundary.
BeginFrame(boundary) ==
  /\ status = "running" /\ stage = "paired"
  /\ nodes' = [Cleared EXCEPT ![Root].Boundary = boundary]
  /\ nodeIndex' = 1
  /\ possiblePairs' = <<>>
  /\ stage' = "inserting"
  /\ UNCHANGED <<calls, status>>

-----------------------------------------------------------------------------
(* Insert.                                                                 *)

Call(n, e, depth) == [node |-> n, entry |-> e, depth |-> depth]

\* Every entry of the pool's nodes, and of the activations to come.
StoredIn(n) == ToSet(nodes[n].Colliders)
StoredEntries == UNION {StoredIn(n) : n \in DOMAIN nodes}
PendingEntries == {calls[i].entry : i \in DOMAIN calls}

Insert(rect) ==
  /\ status = "running" /\ stage = "inserting" /\ calls = <<>>
  /\ LET ref == Cardinality(StoredEntries) IN
       /\ ref < MaxColliders
       /\ calls' = <<Call(Root, SimplifiedCollider(ref, rect), 0)>>
  /\ UNCHANGED <<nodes, nodeIndex, possiblePairs, stage, status>>

ChildBoundaries(n) ==
  [k \in DOMAIN nodes[n].Children |-> nodes[nodes[n].Children[k]].Boundary]

WithEntry(n) == Append(nodes[n].Colliders, Head(calls).entry)

Store(n) ==
  /\ nodes' = [nodes EXCEPT ![n].Colliders = WithEntry(n)]
  /\ calls' = Tail(calls)
  /\ UNCHANGED <<nodeIndex, status>>

PassDown(n, e, depth) ==
  LET k == Down(ChildBoundaries(n), e.Rectangle) IN
  /\ calls' = <<Call(nodes[n].Children[k], e, depth + 1)>> \o Tail(calls)
  /\ UNCHANGED <<nodes, nodeIndex, status>>

\* The colliders a subdivision redistributes.
Remaining(n) == SubSeq(WithEntry(n), 1, MaxColliderNbr + 1)

\* Those that do not fit in one quadrant.
Staying(boundaries, entries) ==
  FlattenSeq([i \in DOMAIN entries |->
    IF GoesDown(boundaries, entries[i].Rectangle) THEN <<>> ELSE <<entries[i]>>])

\* The others, each to be inserted in the child with its quadrant.
CallsBelow(children, boundaries, entries, depth) ==
  FlattenSeq([i \in DOMAIN entries |->
    IF GoesDown(boundaries, entries[i].Rectangle)
    THEN <<Call(children[Down(boundaries, entries[i].Rectangle)], entries[i], depth + 1)>>
    ELSE <<>>])

\* The node keeps the colliders that do not fit in one quadrant and passes
\* the others on, each one completely before the next.
Subdivide(n, depth) ==
  LET children   == [k \in 1 .. 4 |-> nodeIndex + k - 1]
      boundaries == QuadrantsOf(nodes[n].Boundary)
  IN
  IF ToSet(children) \subseteq DOMAIN nodes
  THEN /\ nodes' = [m \in DOMAIN nodes |->
             IF m = n
             THEN Node(nodes[n].Boundary, children, Staying(boundaries, Remaining(n)))
             ELSE IF m \in ToSet(children)
                  THEN [nodes[m] EXCEPT !.Boundary = boundaries[m - nodeIndex + 1]]
                  ELSE nodes[m]]
       /\ nodeIndex' = nodeIndex + 4
       /\ calls' = CallsBelow(children, boundaries, Remaining(n), depth) \o Tail(calls)
       /\ UNCHANGED status
  ELSE status' = "undefined" /\ UNCHANGED <<nodes, nodeIndex, calls>>

IsLeaf(n) == nodes[n].Children = <<>>

\* Mutants of IsToDivide: nodes of the greatest depth are divided too; a node
\* is divided one collider late.
IsToDivideDeeper(n, depth) ==
  Len(WithEntry(n)) > MaxColliderNbr /\ depth <= MaxDepth

IsToDivideLate(n, depth) ==
  Len(WithEntry(n)) > MaxColliderNbr + 1 /\ depth # MaxDepth

IsToDivide(n, depth) ==
  Len(WithEntry(n)) > MaxColliderNbr /\ depth # MaxDepth

InsertInNode ==
  /\ status = "running" /\ calls # <<>>
  /\ LET n     == Head(calls).node
         e     == Head(calls).entry
         depth == Head(calls).depth
         down  == GoesDown(ChildBoundaries(n), e.Rectangle)
     IN
     \/ IsLeaf(n) /\ ~IsToDivide(n, depth) /\ Store(n)
     \/ IsLeaf(n) /\ IsToDivide(n, depth) /\ Subdivide(n, depth)
     \/ ~IsLeaf(n) /\ ~down /\ Store(n)
     \/ ~IsLeaf(n) /\ down /\ PassDown(n, e, depth)
  /\ UNCHANGED <<possiblePairs, stage>>

-----------------------------------------------------------------------------
(* CalculatePossiblePairs.  A child's index is greater than its parent's.  *)

\* The colliders of a node and of the nodes below it, parents first.
Below ==
  LET below[n \in DOMAIN nodes] ==
        nodes[n].Colliders
          \o FlattenSeq([k \in DOMAIN nodes[n].Children |-> below[nodes[n].Children[k]]])
  IN below

\* The pairs of a collider with those of a sequence that it may touch.
PairsWith(e, others) ==
  FlattenSeq([i \in DOMAIN others |->
    IF Intersect(e.Rectangle, others[i].Rectangle) THEN <<<<e, others[i]>>>> ELSE <<>>])

BelowChildren(n) ==
  FlattenSeq([k \in DOMAIN nodes[n].Children |-> Below[nodes[n].Children[k]]])

\* A collider of a node is compared with those after it in the node and with
\* those of the nodes below.
NodePossiblePairs(n) ==
  LET cols == nodes[n].Colliders IN
  FlattenSeq([i \in DOMAIN cols |->
     PairsWith(cols[i], SubSeq(cols, i + 1, Len(cols)))
       \o PairsWith(cols[i], BelowChildren(n))])

TreePossiblePairs ==
  LET pairs[n \in DOMAIN nodes] ==
        NodePossiblePairs(n)
          \o FlattenSeq([k \in DOMAIN nodes[n].Children |-> pairs[nodes[n].Children[k]]])
  IN pairs[Root]

CalculatePossiblePairs ==
  /\ status = "running" /\ stage = "inserting" /\ calls = <<>>
  /\ possiblePairs' = possiblePairs \o TreePossiblePairs
  /\ stage' = "paired"
  /\ UNCHANGED <<nodes, nodeIndex, calls, status>>

Next ==
  \/ InitTree
  \/ DeinitTree
  \/ \E b \in Boundaries : BeginFrame(b)
  \/ \E r \in Shapes : Insert(r)
  \/ InsertInNode
  \/ CalculatePossiblePairs

Spec == Init /\ [][Next]_vars

-----------------------------------------------------------------------------
(* Properties.                                                             *)

Entries == [ColRef : 0 .. MaxColliders - 1, Rectangle : Shapes]

TypeOK ==
  /\ status \in {"constructed", "running", "undefined"}
  /\ stage \in {"inserting", "paired"}
  /\ nodeIndex \in Nat
  /\ \A n \in DOMAIN nodes :
       /\ nodes[n].Boundary \in Rectangles
       /\ nodes[n].Children \in {<<>>} \union [1 .. 4 -> DOMAIN nodes]
       /\ StoredIn(n) \subseteq Entries
  /\ \A i \in DOMAIN calls :
       /\ calls[i].node \in DOMAIN nodes
       /\ calls[i].entry \in Entries /\ calls[i].depth \in 0 .. MaxDepth
  /\ \A i \in DOMAIN possiblePairs : possiblePairs[i] \in Entries \X Entries

\* The pool Init allocates, one node for each of a complete tree, is never
\* exhausted, in any frame.
PoolSuffices == status # "undefined"

\* The depth of each node that is in the tree.
Depths ==
  LET depth[n \in 0 .. nodeIndex - 1] ==
        IF n = Root THEN 0
        ELSE 1 + depth[CHOOSE m \in 0 .. nodeIndex - 1 : n \in ToSet(nodes[m].Children)]
  IN depth

\* A subdivision copies exactly MaxColliderNbr + 1 colliders out of the node:
\* no node without children ever holds more before one is added, except at
\* the greatest depth, where nodes are not divided.
LeavesFit ==
  \A n \in DOMAIN nodes :
    n < nodeIndex /\ IsLeaf(n) /\ Len(nodes[n].Colliders) > MaxColliderNbr
      => Depths[n] = MaxDepth

MeetEntries(e, f) == Intersect(e.Rectangle, f.Rectangle)

Abstract ==
  INSTANCE BroadPhase WITH
    Entry  <- Entries,
    Meet   <- MeetEntries,
    stored <- StoredEntries \union PendingEntries,
    pairs  <- possiblePairs

\* The tree finds each pair of intersecting rectangles once and no other:
\* dividing, redistributing and clearing loses no collider and duplicates
\* none.
FindsMeetingPairs == Abstract!Spec
=============================================================================
