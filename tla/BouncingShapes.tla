--------------------------- MODULE BouncingShapes ---------------------------
(***************************************************************************)
(* BouncingShapesSample: shapes the user drops on a static ground, and     *)
(* which are destroyed once they have fallen below the screen.             *)
(*                                                                         *)
(* The loop that destroys them is a range-for over _colliders that erases  *)
(* from _colliders.  Its end is computed once.  Erasing moves the later    *)
(* references one slot down, so the loop does not visit the reference that *)
(* follows an erased one, and at last reads the slots behind the vector's  *)
(* end, which still hold what was there before.                            *)
(*                                                                         *)
(* Every step is at most one step of World.  Where the shapes are is left  *)
(* out: which of them are below the screen in a frame is arbitrary.        *)
(***************************************************************************)
EXTENDS World, Sequences, FiniteSets

CONSTANTS
  MaxShapes,   \* bound on the size of _colliders
  MaxFallen,   \* bound on the shapes below the screen in one frame
  MaxPairs     \* bound on the pairs an Update finds

VARIABLES
  shapesStage,  \* "off"; within onInit "started"; "idle" between calls; "body" while
                \* a shape is being made; "visit", "drop" within the removing loop;
                \* "update" within World::Update
  shapeBody,    \* the body of the shape being made
  refs,         \* the memory of _colliders; while no loop runs, its elements
  length,       \* _colliders.size()
  visited,      \* the slot the loop visits
  fallen        \* the colliders below the screen in this frame

shapesVars == <<shapesStage, shapeBody, refs, length, visited, fallen>>
allShapesVars == <<vars, shapesVars>>

ShapesInit ==
  /\ Init
  /\ shapesStage = "off"
  /\ shapeBody = Ref(0, 0)
  /\ refs = <<>> /\ length = 0 /\ visited = 0
  /\ fallen = {}

StartShapes ==
  /\ shapesStage = "off"
  /\ \E n \in InitCounts : InitWorld(n)
  /\ shapesStage' = "started"
  /\ UNCHANGED <<shapeBody, refs, length, visited, fallen>>

ListenShapes ==
  /\ shapesStage = "started" /\ ~listener
  /\ SetContactListener(TRUE)
  /\ UNCHANGED shapesVars

\* createCircle and createRectangle, between two frames, and the ground, in
\* onInit.  The bound MaxGen stops the making of shapes, never their removal.
MakeBody ==
  /\ shapesStage = "idle" \/ (shapesStage = "started" /\ listener)
  /\ length < MaxShapes
  /\ NewRef(bodies).GenerationIdx < MaxGen
  /\ CreateBody
  /\ shapeBody' = NewRef(bodies)
  /\ shapesStage' = "body"
  /\ UNCHANGED <<refs, length, visited, fallen>>

MakeCollider ==
  /\ shapesStage = "body"
  /\ CreateCollider(shapeBody)
  /\ refs' = Append(refs, NewRef(colliders))
  /\ length' = length + 1
  /\ shapesStage' = "idle"
  /\ UNCHANGED <<shapeBody, visited, fallen>>

-----------------------------------------------------------------------------
(* removeCollidersOutOfSBottomScreen, called by onUpdate.                  *)

\* The ground is the first reference and stays where it is.
Falling == {refs[k] : k \in 2 .. length}

BeginVisits ==
  /\ shapesStage = "idle" /\ status = "running"
  /\ fallen' \in {f \in SUBSET Falling : Cardinality(f) <= MaxFallen}
  /\ shapesStage' = "visit" /\ visited' = 1
  /\ UNCHANGED <<vars, shapeBody, refs, length>>

\* Mutant of Visiting: the last reference is not visited.
VisitingButLast == shapesStage = "visit" /\ status = "running" /\ visited < Len(refs)

Visiting == shapesStage = "visit" /\ status = "running" /\ visited <= Len(refs)

Reached(r) == Valid(colliders, r) /\ Valid(bodies, BodyOf(r))

VisitThrows ==
  /\ Visiting /\ ~Reached(refs[visited])
  /\ Terminate
  /\ UNCHANGED shapesVars

VisitAbove ==
  /\ Visiting /\ Reached(refs[visited])
  /\ refs[visited] \notin fallen
  /\ visited' = visited + 1
  /\ UNCHANGED <<vars, shapesStage, shapeBody, refs, length, fallen>>

DropBody ==
  /\ Visiting /\ Reached(refs[visited])
  /\ refs[visited] \in fallen
  /\ DestroyBody(BodyOf(refs[visited]))
  /\ shapesStage' = "drop"
  /\ UNCHANGED <<shapeBody, refs, length, visited, fallen>>

\* std::find.
Found(r) == {k \in 1 .. length : refs[k] = r /\ \A j \in 1 .. k - 1 : refs[j] # r}

\* Mutant of Erased: the reference after the k-th is erased.
ErasedNext(k) ==
  [j \in DOMAIN refs |-> IF k < j /\ j < length THEN refs[j + 1] ELSE refs[j]]

\* std::vector::erase: the references after the k-th move one slot down; the
\* last slot keeps what it held.
Erased(k) ==
  [j \in DOMAIN refs |-> IF k <= j /\ j < length THEN refs[j + 1] ELSE refs[j]]

DropCollider ==
  /\ shapesStage = "drop"
  /\ DestroyCollider(refs[visited])
  /\ \E k \in Found(refs[visited]) : refs' = Erased(k)
  /\ length' = length - 1
  /\ visited' = visited + 1
  /\ shapesStage' = "visit"
  /\ UNCHANGED <<shapeBody, fallen>>

EndVisits ==
  /\ shapesStage = "visit" /\ status = "running" /\ ~Visiting
  /\ refs' = SubSeq(refs, 1, length)
  /\ visited' = 0
  /\ fallen' = {}
  /\ shapesStage' = "update"
  /\ UNCHANGED <<vars, shapeBody, length>>

-----------------------------------------------------------------------------
\* World::Update, whose callbacks do nothing.
UpdateShapes ==
  /\ shapesStage = "update"
  /\ UpdateStep
  /\ Cardinality(newPairs') <= MaxPairs
  /\ shapesStage' = IF phase' = "idle" /\ status' = "running" THEN "idle" ELSE "update"
  /\ UNCHANGED <<shapeBody, refs, length, visited, fallen>>

Frame ==
  BeginVisits \/ VisitThrows \/ VisitAbove \/ DropBody \/ DropCollider \/ EndVisits
    \/ UpdateShapes

\* Sample::Deinit, between two frames: another sample is chosen, or this one is
\* restarted.
StopShapes ==
  /\ shapesStage = "idle"
  /\ DeinitWorld
  /\ refs' = <<>> /\ length' = 0
  /\ shapesStage' = "off" /\ shapeBody' = Ref(0, 0)
  /\ UNCHANGED <<visited, fallen>>

ShapesNext ==
  StartShapes \/ ListenShapes \/ MakeBody \/ MakeCollider \/ Frame \/ StopShapes

ShapesSpec == ShapesInit /\ [][ShapesNext]_allShapesVars

\* The main loop updates the current sample in every frame, and a shape that
\* is being made is finished.
FairShapesSpec == ShapesSpec /\ WF_allShapesVars(Frame) /\ WF_allShapesVars(MakeCollider)

-----------------------------------------------------------------------------
(* Properties.                                                             *)

\* However the loop skips and repeats, what it leaves behind is right: after it
\* _colliders lists every collider the sample has not destroyed, once, and each
\* can be drawn (onRender looks up the collider and its body).  So it is after a
\* restart too.
ListExact ==
  shapesStage \in {"idle", "update"} =>
    /\ length = Len(refs)
    /\ {refs[k] : k \in 1 .. length} = Live(colliders)
    /\ Cardinality(Live(colliders)) = length
    /\ \A k \in 1 .. length : Reached(refs[k])

\* No shape stays below the screen for ever while the program runs: a shape the
\* loop skips in one frame is destroyed in a later one.
FallenRemoved ==
  \A c \in ColliderRefs :
    ~<>[](status = "running" /\ c \in Live(colliders)
          /\ (shapesStage = "visit" => c \in fallen))
=============================================================================
