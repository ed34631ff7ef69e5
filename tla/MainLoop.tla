------------------------------ MODULE MainLoop ------------------------------
(***************************************************************************)
(* The main loop with the geometry it has drawn: the buffers are cleared   *)
(* before the current sample is updated, the user may then change the      *)
(* sample, and the sample that is current after that adds its shapes,      *)
(* which SDL_RenderGeometry draws at the end of the frame.                 *)
(***************************************************************************)
EXTENDS Samples, Sequences

CONSTANTS CircleSegmentCount, PolygonSizes, MaxVertices

ASSUME GeometryAssumption ==
  CircleSegmentCount \in Nat \ {0} /\ PolygonSizes \subseteq Nat

VARIABLES
  Vertices, TriangleIndices, shapes,   \* the state of GraphicGeometry
  artists      \* history: the samples whose shapes are in the buffers

geometry == <<Vertices, TriangleIndices, shapes>>
loopVars == <<vars, geometry, artists>>

G == INSTANCE GraphicGeometry WITH Indices <- TriangleIndices

LoopInit == Init /\ G!Init /\ artists = {}

\* Mutant of BeginFrame: the buffers of the last frame are kept.
BeginFrameUncleared == PollEvents /\ UNCHANGED <<geometry, artists>>

\* The events of a frame, and ClearGeometry.
BeginFrame == PollEvents /\ G!ClearGeometry /\ artists' = {}

\* onRender: the current sample adds a shape.
Draw ==
  /\ stage = "render"
  /\ G!Shape
  /\ artists' = artists \union {current}
  /\ UNCHANGED vars

\* The rest of a frame leaves the geometry alone.
OtherStage ==
  /\ \/ Elapse \/ Start \/ UpdateCurrentSample
     \/ (\E i \in Indices : ChangeSample(i)) \/ RestartSample \/ KeepSample
     \/ RenderCurrentSample
  /\ UNCHANGED <<geometry, artists>>

LoopNext == BeginFrame \/ Draw \/ OtherStage

LoopSpec == LoopInit /\ [][LoopNext]_loopVars

-----------------------------------------------------------------------------
(* Properties.                                                             *)

\* What SDL_RenderGeometry is given is whole: every index is that of a vertex
\* of this frame, the corners of each triangle belong to one shape, and no vertex
\* of any shape, of those that add none or several triangles too, is left out.
PictureWhole == G!TrianglesWhole /\ G!VerticesUsed

\* The picture of a frame shows the current sample only, also in the frame in
\* which the user changes the sample between its update and its drawing: nothing
\* remains of the sample that was left, and nothing of the frame before.
PictureIsCurrent == stage = "render" => artists \subseteq running
=============================================================================
