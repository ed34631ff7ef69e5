------------------------------- MODULE Samples -------------------------------
(***************************************************************************)
(* The main loop, SampleManager, the life of a Sample, and the Timer that  *)
(* tells each Sample's World how much time to simulate.                    *)
(*                                                                         *)
(* Time passes between the stages of a frame.  What a sample does in its   *)
(* onInit, onUpdate, onRender and onDeinit is left out.                    *)
(***************************************************************************)
EXTENDS Integers

CONSTANTS
  SampleCount,   \* SampleManager::SampleCount
  MaxTime        \* bound on the clock

ASSUME SamplesAssumption == SampleCount \in Nat \ {0} /\ MaxTime \in Nat

Indices == 0 .. SampleCount - 1

VARIABLES
  now,         \* high_resolution_clock::now()
  stage,       \* the stage of the frame: "start" before the main loop, then
               \* "inputs", "update", "window", "render", and "over"
  quit,
  current,     \* _currentSampleIdx
  startTime,   \* for each sample, its timer's _startTime
  deltaTime,   \* for each sample, its timer's _deltaTime
  running,     \* the samples between their Init and their Deinit
  simulated,   \* history: the time each sample's World has simulated since its
               \* last Init
  initAt       \* history: when each sample was last initialised

timers == <<startTime, deltaTime>>
vars == <<now, stage, quit, current, timers, running, simulated, initAt>>

Init ==
  /\ now = 0
  /\ stage = "start"
  /\ quit = FALSE
  /\ current = 0
  /\ startTime = [i \in Indices |-> 0]
  /\ deltaTime = [i \in Indices |-> 0]
  /\ running = {}
  /\ simulated = [i \in Indices |-> 0]
  /\ initAt = [i \in Indices |-> 0]

Elapse ==
  /\ now < MaxTime /\ stage # "over"
  /\ now' = now + 1
  /\ UNCHANGED <<stage, quit, current, timers, running, simulated, initAt>>

\* Mutant of InitSample: the timer goes on from where it was.
InitSampleUntimed(i) ==
  /\ UNCHANGED timers
  /\ simulated' = [simulated EXCEPT ![i] = 0]
  /\ initAt' = [initAt EXCEPT ![i] = now]

\* Sample::Init
InitSample(i) ==
  /\ startTime' = [startTime EXCEPT ![i] = now]
  /\ simulated' = [simulated EXCEPT ![i] = 0]
  /\ initAt' = [initAt EXCEPT ![i] = now]
  /\ UNCHANGED deltaTime

\* SampleManager::Init
Start ==
  /\ stage = "start"
  /\ InitSample(current)
  /\ running' = {current}
  /\ stage' = "inputs"
  /\ UNCHANGED <<now, quit, current>>

PollEvents ==
  /\ stage = "inputs"
  /\ quit' \in {quit, TRUE}
  /\ stage' = "update"
  /\ UNCHANGED <<now, current, timers, running, simulated, initAt>>

Tick(i) ==
  /\ deltaTime' = [deltaTime EXCEPT ![i] = now - startTime[i]]
  /\ startTime' = [startTime EXCEPT ![i] = now]

\* Sample::Update
UpdateCurrentSample ==
  /\ stage = "update"
  /\ Tick(current)
  /\ simulated' = [simulated EXCEPT ![current] = @ + deltaTime'[current]]
  /\ stage' = "window"
  /\ UNCHANGED <<now, quit, current, running, initAt>>

\* Mutant of ChangeSample: the sample left is not deinitialised.
ChangeSampleOnly(i) ==
  /\ stage = "window" /\ i # current
  /\ InitSample(i)
  /\ running' = running \union {i}
  /\ current' = i
  /\ stage' = "render"
  /\ UNCHANGED <<now, quit>>

ChangeSample(i) ==
  /\ stage = "window" /\ i # current
  /\ InitSample(i)
  /\ running' = (running \ {current}) \union {i}
  /\ current' = i
  /\ stage' = "render"
  /\ UNCHANGED <<now, quit>>

RestartSample ==
  /\ stage = "window"
  /\ InitSample(current)
  /\ stage' = "render"
  /\ UNCHANGED <<now, quit, current, running>>

KeepSample ==
  /\ stage = "window"
  /\ stage' = "render"
  /\ UNCHANGED <<now, quit, current, timers, running, simulated, initAt>>

RenderCurrentSample ==
  /\ stage = "render"
  /\ stage' = IF quit THEN "over" ELSE "inputs"
  /\ UNCHANGED <<now, quit, current, timers, running, simulated, initAt>>

Frame ==
  \/ PollEvents \/ UpdateCurrentSample
  \/ (\E i \in Indices : ChangeSample(i)) \/ RestartSample \/ KeepSample
  \/ RenderCurrentSample

Next == Elapse \/ Start \/ Frame

Spec == Init /\ [][Next]_vars

-----------------------------------------------------------------------------
(* Properties.                                                             *)

TypeOK ==
  /\ now \in Nat
  /\ stage \in {"start", "inputs", "update", "window", "render", "over"}
  /\ quit \in BOOLEAN
  /\ current \in Indices
  /\ startTime \in [Indices -> Nat] /\ deltaTime \in [Indices -> Int]
  /\ running \subseteq Indices
  /\ simulated \in [Indices -> Int] /\ initAt \in [Indices -> Nat]

\* Every World is given the time that passed between its sample's Init and the
\* last frame, whatever switches and restarts went before: no frame is counted
\* twice, and the time a sample was not shown is not counted at all.
TimeSimulated ==
  \A i \in running : simulated[i] = startTime[i] - initAt[i]

\* The sample that is updated and drawn is the only one that is initialised: a
\* sample left behind holds no bodies and is nobody's listener.
OnlyCurrentRuns == stage # "start" => running = {current}
=============================================================================
