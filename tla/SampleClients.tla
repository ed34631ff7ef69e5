--------------------------- MODULE SampleClients ---------------------------
(***************************************************************************)
(* SampleManager switching between two of the samples that use a World:    *)
(* TriggerColliderSample and PlanetSystemSample.  A sample is left only    *)
(* through its Deinit, which returns its World to the state of one just    *)
(* constructed, so one World stands for the Worlds of both.                *)
(***************************************************************************)
EXTENDS TriggerColliders

CONSTANTS StartPlanetNbr, MaxPlanets   \* as in PlanetSystem

VARIABLES
  current,                               \* the sample shown
  planetStage, bodyRefs, graphicCircles  \* PlanetSystem's variables

planetVars == <<planetStage, bodyRefs, graphicCircles>>
clientVars == <<vars, sampleVars, current, planetVars>>

Planets == INSTANCE PlanetSystem WITH stage <- planetStage

ClientInit == SampleInit /\ Planets!SampleInit /\ current = "planets"

TriggerStep ==
  /\ current = "triggers"
  /\ SampleNext
  /\ UNCHANGED <<current, planetVars>>

PlanetStep ==
  /\ current = "planets"
  /\ Planets!SampleNext
  /\ UNCHANGED <<current, sampleVars>>

\* ChangeSample, once the Deinit of the sample that is left has returned.
ChangeSample ==
  /\ stage = "off" /\ planetStage = "off"
  /\ current' \in {"triggers", "planets"} \ {current}
  /\ UNCHANGED <<vars, sampleVars, planetVars>>

ClientNext == TriggerStep \/ PlanetStep \/ ChangeSample

\* The main loop updates the current sample in every frame.
ClientSpec ==
  ClientInit /\ [][ClientNext]_clientVars /\ WF_clientVars(TriggerStep /\ Step)

-----------------------------------------------------------------------------
(* Properties.                                                             *)

\* Each body of PlanetSystemSample keeps the circle made for it and the sun its
\* slot, also when the World before was that of another sample.
CirclesAligned == Planets!CirclesAligned
=============================================================================
