------------------------------ MODULE Dynamics ------------------------------
(***************************************************************************)
(* The frames of World::Update with bodies that move and collide: the loop *)
(* that integrates forces and velocities, the search for overlaps, the     *)
(* loop that resolves the pairs that overlap, the loop that resolves those *)
(* that ceased to.  World.tla has the same loops with references and       *)
(* callbacks but without geometry; here the colliders are no triggers and  *)
(* the listener does nothing.                                              *)
(***************************************************************************)
EXTENDS ContactSolver

CONSTANT
  Worlds   \* the initial worlds: gravity, bodies, the colliders on them, the
           \* forces the client may apply, and a bound on the number of Updates

\* The number of Updates left in a world for which there is no bound.
Unlimited == -1

Vectors == [X : Int, Y : Int]

Bodies == [Position : Vectors, Velocity : Vectors, Forces : Vectors,
           Mass : Nat \ {0}, InverseMass : Nat, Type : BodyTypes]

\* A circle, or a rectangle whose bounds are not exchanged.
IsShape(s) ==
  \/ s \in [Kind : {"Circle"}, Center : Vectors, Radius : Nat]
  \/ /\ s \in [Kind : {"Rectangle"}, Min : Vectors, Max : Vectors]
     /\ s.Min.X <= s.Max.X /\ s.Min.Y <= s.Max.Y

\* Every actor has a body and a collider, without forces on it at first, and the
\* dynamic ones have the inverse of their mass.  A coefficient of restitution is
\* between 0 and 1.
IsWorld(w) ==
  /\ w.frames \in Nat \union {Unlimited}
  /\ w.gravity \in Vectors /\ w.forces \subseteq Vectors
  /\ IsFiniteSet(DOMAIN w.body) /\ DOMAIN w.collider = DOMAIN w.body
  /\ w.body \in [DOMAIN w.body -> Bodies]
  /\ \A a \in DOMAIN w.body :
       /\ w.body[a].Forces = Zero
       /\ w.body[a].Type = "Dynamic" => w.body[a].Mass * w.body[a].InverseMass = Scale
       /\ w.collider[a].Restitution \in 0 .. Unit /\ IsShape(w.collider[a].Shape)

ASSUME WorldsAssumption == \A w \in Worlds : IsWorld(w)

VARIABLES
  gravity,         \* _gravity
  body,            \* _bodies
  collider,        \* _colliders, each on the body of the same number
  colliderPairs,   \* _colliderPairs
  phase,           \* "idle", the loop in progress, or "terminated"
  newPairs,        \* the pairs that overlap in the Update in progress
  todo,            \* those the loop in progress has not come to yet
  forces,          \* the forces the client may apply
  frames,          \* how many Updates are left
  given            \* history: the momentum given to the bodies from outside

setting == <<gravity, collider, forces>>
vars == <<setting, body, colliderPairs, phase, newPairs, todo, frames, given>>

Actors == DOMAIN body

SameActors(p, q) == {p[1], p[2]} = {q[1], q[2]}

Known(p, pairs) == \E q \in pairs : SameActors(p, q)

Momentum(a) == Times(body[a].Velocity, body[a].Mass)

Total(v) == FoldFunction(Plus, Zero, v)

Summed(n) == FoldFunction(+, 0, n)

IsDynamic(a) == body[a].Type = "Dynamic"

AllDynamic == \A a \in Actors : IsDynamic(a)

Init ==
  /\ \E w \in Worlds : /\ gravity = w.gravity /\ frames = w.frames /\ forces = w.forces
                       /\ body = w.body /\ collider = w.collider
  /\ colliderPairs = {} /\ newPairs = {} /\ todo = {}
  /\ phase = "idle"
  /\ given = Total([a \in Actors |-> Momentum(a)])

MayGoOn == frames # 0

\* Body::ApplyForce, between two Updates.
ClientApplyForce(a, force) ==
  /\ phase = "idle" /\ MayGoOn
  /\ body[a].Forces = Zero
  /\ body' = [body EXCEPT ![a] = ApplyForce(@, force)]
  /\ given' = Plus(given, force)
  /\ UNCHANGED <<setting, colliderPairs, phase, newPairs, todo, frames>>

\* The pairs that overlap, each named in one of its orders.
Overlaps(bodies) ==
  {pairs \in SUBSET {p \in Actors \X Actors : p[1] # p[2]} :
     /\ \A a, b \in Actors : a # b =>
          (Known(<<a, b>>, pairs)
             <=> ShapesIntersect(Placed(bodies, collider, a), Placed(bodies, collider, b)))
     /\ \A p, q \in pairs : SameActors(p, q) => p = q}

BeginUpdate ==
  /\ phase = "idle" /\ MayGoOn
  /\ \A a \in Actors : IsDynamic(a) => WholeAcceleration(body[a], gravity)
  /\ body' = [a \in Actors |-> Integrated(body[a], gravity)]
  /\ newPairs' \in Overlaps(body')
  /\ todo' = newPairs'
  /\ phase' = "enter"
  /\ frames' = IF frames = Unlimited THEN frames ELSE frames - 1
  /\ given' = IF AllDynamic THEN Plus(given, Times(gravity, Cardinality(Actors))) ELSE given
  /\ UNCHANGED <<setting, colliderPairs>>

\* Pairs that overlap are resolved in every frame, new or not.
EnterLoopStep(p) ==
  /\ phase = "enter" /\ p \in todo
  /\ ~Throws(body, collider, p[1], p[2])
  /\ WholeContact(body, collider, p[1], p[2])
  /\ body' \in Resolved(body, collider, p[1], p[2])
  /\ todo' = todo \ {p}
  /\ UNCHANGED <<setting, colliderPairs, phase, newPairs, frames, given>>

BeginExitLoop ==
  /\ phase = "enter" /\ todo = {}
  /\ phase' = "exit"
  /\ todo' = colliderPairs
  /\ UNCHANGED <<setting, body, colliderPairs, newPairs, frames, given>>

\* Pairs that ceased to overlap are resolved a last time.
ExitLoopStep(p) ==
  /\ phase = "exit" /\ p \in todo
  /\ IF Known(p, newPairs) THEN UNCHANGED body
     ELSE /\ ~Throws(body, collider, p[1], p[2])
          /\ WholeContact(body, collider, p[1], p[2])
          /\ body' \in Resolved(body, collider, p[1], p[2])
  /\ todo' = todo \ {p}
  /\ UNCHANGED <<setting, colliderPairs, phase, newPairs, frames, given>>

\* The two circles of a pair have one centre: there is no direction between them,
\* the exception of Normalized leaves Update, which World.h:86 declares noexcept, and
\* the program ends.
ResolveThrows(p) ==
  /\ p \in todo
  /\ \/ phase = "enter"
     \/ phase = "exit" /\ ~Known(p, newPairs)
  /\ Throws(body, collider, p[1], p[2])
  /\ phase' = "terminated"
  /\ UNCHANGED <<setting, body, colliderPairs, newPairs, todo, frames, given>>

EndUpdate ==
  /\ phase = "exit" /\ todo = {}
  /\ colliderPairs' = newPairs
  /\ newPairs' = {}
  /\ phase' = "idle"
  /\ UNCHANGED <<setting, body, todo, frames, given>>

UpdateStep ==
  \/ BeginUpdate
  \/ \E p \in todo : EnterLoopStep(p) \/ ExitLoopStep(p) \/ ResolveThrows(p)
  \/ BeginExitLoop
  \/ EndUpdate

Next == UpdateStep \/ \E a \in Actors, force \in forces : ClientApplyForce(a, force)

Spec == Init /\ [][Next]_vars

\* The main loop calls Update in every frame, which says something only of the
\* worlds whose Updates are not bounded.
FairSpec == Spec /\ WF_vars(frames = Unlimited /\ UpdateStep)

-----------------------------------------------------------------------------
(* Properties.                                                             *)

\* A force acts once and on one body, gravity once a frame on each, and the
\* contacts, however many there are in a frame and in whatever order they are
\* resolved, create no momentum.
MomentumAccounted ==
  AllDynamic => Total([a \in Actors |-> Plus(Momentum(a), body[a].Forces)]) = given

\* The bodies of the pair p are resolved in this step.
Resolves(p) ==
  /\ p \in todo /\ p \notin todo'
  /\ phase = "enter" \/ ~Known(p, newPairs)

\* A body is set up as the solver expects: SetMass before SetBodyType.
WellSet(a) == body[a].InverseMass = IF IsDynamic(a) THEN InverseOf(body[a].Mass) ELSE 0

Movable(p) == (IsDynamic(p[1]) \/ IsDynamic(p[2])) /\ WellSet(p[1]) /\ WellSet(p[2])

HasKinematic(p) == \E a \in {p[1], p[2]} : body[a].Type = "Kinematic"

\* A pair that is to collide: README.md:19-24 promises "Physical collision
\* calculations" of dynamic and static bodies, and of kinematic ones "No physical
\* collisions".  The code resolves the contacts of a kinematic body as those of any
\* other, so that a dynamic body is stopped by it and pushed off it.
Collides(p) == Movable(p) /\ ~HasKinematic(p)

ContactOf(p) == CHOOSE c \in ContactProperties(body, collider, p[1], p[2]) : TRUE

\* The depth of a contact, and the direction from p[2] to p[1].
Depth(p) == ContactOf(p).Penetration

Apart(p) ==
  IF ContactOf(p).BodyA = p[1] THEN ContactOf(p).Normal ELSE Times(ContactOf(p).Normal, -1)

Separating(p, velocity) == Dot(Minus(velocity[p[1]], velocity[p[2]]), Apart(p))

Velocities(bodies) == [a \in Actors |-> bodies[a].Velocity]

\* A circle whose centre is in a rectangle is pushed up by its radius only.
Deep(p) ==
  \E a, b \in {p[1], p[2]} :
    LET s == Placed(body, collider, a) t == Placed(body, collider, b)
    IN  s.Kind = "Circle" /\ t.Kind = "Rectangle" /\ RectangleContains(t, s.Center)

Middle(a) ==
  LET s == Placed(body, collider, a) IN IF s.Kind = "Circle" THEN s.Center ELSE Center(s)

\* After a resolution two bodies that are to collide no longer approach each other,
\* in a direction that leads from the one to the other (but in the case Deep),
\* whatever their shapes and masses, whether one of them is static, and whichever
\* of them the tree names first.
ApproachStopped ==
  [][ \A p \in todo :
        Resolves(p) /\ Collides(p)
          => /\ Separating(p, Velocities(body')) >= 0
             /\ ~Deep(p) => Dot(Apart(p), Minus(Middle(p[1]), Middle(p[2]))) >= 0 ]_vars

Overlapping(bodies, p) ==
  ShapesIntersect(Placed(bodies, collider, p[1]), Placed(bodies, collider, p[2]))

\* Bodies that are to collide and overlap are pushed apart exactly until their
\* shapes touch (the case Deep is excepted), and those of a pair that parted on its
\* own before its last resolution are left where they are.  World.cpp:71:
\* "Kinematic bodies are not impacted by forces", and README.md:23 "Don't move" of
\* static ones: no contact changes such a body, even if SetMass gave it an inverse
\* mass after SetBodyType had taken it away.
PushedApart ==
  [][ \A p \in todo :
        Resolves(p)
          => /\ \A a \in Actors : ~IsDynamic(a) => body'[a] = body[a]
             /\ Collides(p) /\ ~Deep(p)
                  => IF Overlapping(body, p) THEN Overlapping(body', p) /\ Depth(p)' <= 0
                     ELSE \A a \in Actors : body'[a].Position = body[a].Position ]_vars

\* ContactSolver.h:37: "colA The collider of the actor A", and its body is body
\* A: the bounce of two dynamic bodies is the mean of the actors' restitutions,
\* each weighted with the mass of its own body.  If one of them is static the code
\* fails this: it then exchanges the bodies and not the colliders.
BounceIsOwn ==
  [][ \A p \in todo :
        Resolves(p) /\ Movable(p) /\ (\A a \in {p[1], p[2]} : IsDynamic(a))
          => LET m(i) == body[p[i]].Mass
                 e(i) == collider[p[i]].Restitution
                 before == Separating(p, Velocities(body))
                 after == Separating(p, Velocities(body'))
             IN  before <= 0 =>
                   (m(1) + m(2)) * Unit * after = - (m(1) * e(1) + m(2) * e(2)) * before ]_vars

Energy == Summed([a \in Actors |-> body[a].Mass * SquareLength(body[a].Velocity)])

\* A world like that of CollisionSample.
Elastic ==
  /\ gravity = Zero /\ AllDynamic
  /\ \A a, b \in Actors : body[a].Mass = body[b].Mass
  /\ forces = {}
  /\ \A a \in Actors : collider[a].Restitution = Unit

\* No contact, in a chain of others or alone, adds to the energy of motion of
\* two bodies that can move, or of one that meets a body at rest.  And in
\* CollisionSample's world none is lost, however the contacts chain: "All shapes
\* have the same mass and restitution. Collisions are therefore completely
\* elastic, with no loss of energy".
EnergyAccounted ==
  [][ /\ \A p \in todo :
           Resolves(p) /\ Movable(p)
               /\ (\A a \in {p[1], p[2]} : IsDynamic(a) \/ body[a].Velocity = Zero)
             => Energy' <= Energy
      /\ Elastic => Energy' = Energy ]_vars

\* In a world that goes on, whatever overlaps, from the start or because gravity
\* presses it, ends up resting apart: from some frame on no Update leaves an
\* overlap behind.
EventuallyApart ==
  <>[]( frames = Unlimited /\ phase = "idle"
          => \A p \in Actors \X Actors : p[1] # p[2] => Depth(p) <= 0 )
=============================================================================
