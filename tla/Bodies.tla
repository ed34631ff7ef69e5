------------------------------- MODULE Bodies -------------------------------
(***************************************************************************)
(* PhysicsEngine::Body and what World::Update does to it before it looks   *)
(* for contacts.  One frame lasts one unit of time.  All quantities are    *)
(* integers: inverse masses are counted in units of 1 / Scale, so Scale is *)
(* a multiple of every mass.                                               *)
(***************************************************************************)
EXTENDS Shapes

CONSTANTS
  Scale,      \* the inverse of mass 1
  NaN         \* a vector whose components are not numbers

ASSUME ScaleAssumption == Scale \in Nat \ {0}

ASSUME NaNAssumption == NaN \notin Int

Zero == Point(0, 0)

Times(v, k) == Point(v.X * k, v.Y * k)

BodyTypes == {"Dynamic", "Kinematic", "Static"}

InverseOf(mass) == Scale \div mass

\* A body after CreateBody, SetPosition and SetVelocity.
NewBody(position, velocity) ==
  [Position |-> position, Velocity |-> velocity, Forces |-> Zero,
   Mass |-> 1, InverseMass |-> InverseOf(1), Type |-> "Dynamic"]

SetMass(body, mass) ==
  [body EXCEPT !.Mass = mass, !.InverseMass = InverseOf(mass)]

\* A body that becomes dynamic again does not get its inverse mass back.
SetBodyType(body, type) ==
  [body EXCEPT !.Type = type,
               !.InverseMass = IF type \in {"Static", "Kinematic"} THEN 0 ELSE @]

ApplyForce(body, force) == [body EXCEPT !.Forces = Plus(@, force)]

Accelerated(body, gravity) ==
  LET force == Plus(body.Forces, gravity)
  IN  Point((force.X * body.InverseMass) \div Scale, (force.Y * body.InverseMass) \div Scale)

\* A bound of the model: it has no fractions, so that a step is modelled only
\* where all its quotients are whole.
Divides(n, m) == m % n = 0

WholeAcceleration(body, gravity) ==
  LET force == Plus(body.Forces, gravity)
  IN  Divides(Scale, force.X * body.InverseMass) /\ Divides(Scale, force.Y * body.InverseMass)

\* Mutant of Integrated: the forces act again in the next frame.
IntegratedKeepingForces(body, gravity) ==
  LET velocity == Plus(body.Velocity, Accelerated(body, gravity))
  IN  [body EXCEPT !.Velocity = velocity, !.Position = Plus(@, velocity)]

\* Gravity is a force, not an acceleration: heavy bodies fall more slowly.
Integrated(body, gravity) ==
  CASE body.Type = "Dynamic" ->
         LET velocity == Plus(body.Velocity, Accelerated(body, gravity))
         IN  [body EXCEPT !.Velocity = velocity, !.Position = Plus(@, velocity),
                          !.Forces = Zero]
    [] body.Type = "Kinematic" -> [body EXCEPT !.Position = Plus(@, body.Velocity)]
    [] body.Type = "Static" -> body
=============================================================================
