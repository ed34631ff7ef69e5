---------------------------- MODULE PlanetSystem ----------------------------
(***************************************************************************)
(* PlanetSystemSample: a sun, planets around it, and more of them while    *)
(* the user holds the mouse button.  The sample keeps three things that    *)
(* must agree: the references it was given, the circles it draws them with *)
(* (found by the index of a body's slot) and the belief that the sun is in *)
(* slot 0.  The pull of the sun on a planet is a force, and what Update    *)
(* does with forces is module Dynamics: a frame here is what it creates.   *)
(***************************************************************************)
EXTENDS World, Sequences

CONSTANTS
  StartPlanetNbr,   \* _startPlanetNbr
  MaxPlanets        \* bound on the planets

VARIABLES
  stage,             \* "off"; "started", then "adding" within onInit; "running"
  bodyRefs,          \* _bodyRefs
  graphicCircles     \* _graphicCircles, each given by the body it was made for

sampleVars == <<stage, bodyRefs, graphicCircles>>

\* Where createPlanet looks for the sun.
SunRef == Ref(0, 0)

SampleInit ==
  /\ Init
  /\ stage = "off"
  /\ bodyRefs = <<>> /\ graphicCircles = <<>>

Start ==
  /\ stage = "off"
  /\ \E n \in InitCounts : InitWorld(n)
  /\ stage' = "started"
  /\ UNCHANGED <<bodyRefs, graphicCircles>>

AddBody ==
  /\ CreateBody
  /\ bodyRefs' = Append(bodyRefs, NewRef(bodies))
  /\ graphicCircles' = Append(graphicCircles, NewRef(bodies))

AddSun == stage = "started" /\ AddBody /\ stage' = "adding"

\* createPlanet.  GetBody finds the sun: CirclesAligned.
CreatePlanet == Len(bodyRefs) <= MaxPlanets /\ Valid(bodies, SunRef) /\ AddBody

AddPlanet ==
  /\ stage = "adding" /\ Len(bodyRefs) <= StartPlanetNbr
  /\ CreatePlanet
  /\ UNCHANGED stage

Finish ==
  /\ stage = "adding" /\ Len(bodyRefs) = StartPlanetNbr + 1
  /\ stage' = "running"
  /\ UNCHANGED <<vars, bodyRefs, graphicCircles>>

\* onUpdate while the button is held and the mouse is not on the sun.  In the
\* other frames nothing is created.
CreateAtMouse == stage = "running" /\ CreatePlanet /\ UNCHANGED stage

\* Mutant of Stop: _graphicCircles is not cleared.
StopKeepingCircles ==
  /\ stage = "running"
  /\ DeinitWorld
  /\ bodyRefs' = <<>>
  /\ stage' = "off"
  /\ UNCHANGED graphicCircles

\* Sample::Deinit
Stop ==
  /\ stage = "running"
  /\ DeinitWorld
  /\ bodyRefs' = <<>> /\ graphicCircles' = <<>>
  /\ stage' = "off"

SampleNext ==
  Start \/ AddSun \/ AddPlanet \/ Finish \/ CreateAtMouse \/ Stop

-----------------------------------------------------------------------------
(* Properties.                                                             *)

\* onRender finds a body's circle by the index of its slot, and createPlanet
\* finds the sun in slot 0 ("The sun is always at index 0 in the world",
\* PlanetSystemSample.cpp).  Both hold however the table grew and however often
\* the sample was restarted: each body has the circle made for it, and the body
\* made first is the sun, still alive.
CirclesAligned ==
  /\ bodyRefs # <<>> => bodyRefs[1] = SunRef
  /\ \A k \in 1 .. Len(bodyRefs) :
       /\ bodyRefs[k].Index \in 0 .. Len(graphicCircles) - 1
       /\ graphicCircles[bodyRefs[k].Index + 1] = bodyRefs[k]
       /\ Valid(bodies, bodyRefs[k])
=============================================================================
