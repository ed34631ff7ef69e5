--------------------------- MODULE ContactSolver ----------------------------
(***************************************************************************)
(* PhysicsEngine::ContactSolver.  Bodies and colliders are functions of    *)
(* the actors; a contact names them, since the solver exchanges pointers.  *)
(* The contacts modelled are straight ones: the normal is along an axis,   *)
(* so that lengths are whole.                                              *)
(***************************************************************************)
EXTENDS Bodies

CONSTANT Garbage   \* what an uninitialised float may hold: numbers, or NaN

\* The restitution of a collider is counted in units of 1 / Unit.
Unit == 8

\* Of a vector along an axis.
Length(v) == Abs(v.X) + Abs(v.Y)
Sign(n) == IF n > 0 THEN 1 ELSE IF n < 0 THEN -1 ELSE 0
Normalized(v) == Point(Sign(v.X), Sign(v.Y))

Clamp(n, bound) == IF n < -bound THEN -bound ELSE IF n > bound THEN bound ELSE n

ContactBetween(a, b, normal, penetration) ==
  [BodyA |-> a, BodyB |-> b, ColliderA |-> a, ColliderB |-> b,
   Normal |-> normal, Penetration |-> penetration]

Placed(body, collider, a) == Moved(collider[a].Shape, body[a].Position)

Delta(s, t) == Minus(s.Center, t.Center)

CircleCircleContact(a, b, s, t) ==
  ContactBetween(a, b, Normalized(Delta(s, t)), s.Radius + t.Radius - Length(Delta(s, t)))

\* From the closest point of the rectangle to the circle's centre.
ToCircle(s, t) ==
  LET delta == Minus(s.Center, Center(t))
  IN  Minus(delta, Point(Clamp(delta.X, HalfSize(t).X), Clamp(delta.Y, HalfSize(t).Y)))

\* Mutant of CircleRectangleContact: the normal points at the circle's
\* rectangle.
CircleRectangleContactInward(a, b, s, t) ==
  ContactBetween(a, b, Times(Normalized(ToCircle(s, t)), -1), s.Radius - Length(ToCircle(s, t)))

\* A circle whose centre is in the rectangle is pushed up.
CircleRectangleContact(a, b, s, t) ==
  ContactBetween(a, b,
    IF ToCircle(s, t) = Zero THEN Point(0, 1) ELSE Normalized(ToCircle(s, t)),
    s.Radius - Length(ToCircle(s, t)))

RectangleRectangleContact(a, b, s, t) ==
  LET delta == Minus(Center(s), Center(t))
      depth == Point(HalfSize(s).X + HalfSize(t).X - Abs(delta.X),
                     HalfSize(s).Y + HalfSize(t).Y - Abs(delta.Y))
  IN  IF depth.X < depth.Y
      THEN ContactBetween(a, b, Point(IF delta.X > 0 THEN 1 ELSE -1, 0), depth.X)
      ELSE ContactBetween(a, b, Point(0, IF delta.Y > 0 THEN 1 ELSE -1), depth.Y)

\* CalculateContactProperties: the contacts it may compute.  A rectangle and a
\* circle are exchanged, with their colliders; a polygon has no case, so the
\* normal stays zero and the penetration is never written.
ContactProperties(body, collider, a, b) ==
  LET s == Placed(body, collider, a)
      t == Placed(body, collider, b)
  IN  CASE s.Kind = "Circle" /\ t.Kind = "Circle" -> {CircleCircleContact(a, b, s, t)}
        [] s.Kind = "Circle" /\ t.Kind = "Rectangle" -> {CircleRectangleContact(a, b, s, t)}
        [] s.Kind = "Rectangle" /\ t.Kind = "Circle" -> {CircleRectangleContact(b, a, t, s)}
        [] s.Kind = "Rectangle" /\ t.Kind = "Rectangle" ->
             {RectangleRectangleContact(a, b, s, t)}
        [] OTHER -> {ContactBetween(a, b, Zero, p) : p \in Garbage}

\* Two circles with one centre: Normalized throws.
Throws(body, collider, a, b) ==
  LET s == Placed(body, collider, a)
      t == Placed(body, collider, b)
  IN  s.Kind = "Circle" /\ t.Kind = "Circle" /\ Delta(s, t) = Zero

\* A static body becomes body B; the colliders stay where they are.
StaticLast(c, body) ==
  IF body[c.BodyA].Type = "Static"
  THEN [c EXCEPT !.BodyA = c.BodyB, !.BodyB = c.BodyA, !.Normal = Times(@, -1)]
  ELSE c

SeparatingVelocity(c, body) ==
  Dot(Minus(body[c.BodyA].Velocity, body[c.BodyB].Velocity), c.Normal)

\* Mutants of CombinedRestitution: the sum instead of the mean; each collider's
\* restitution weighs with the other's mass.
SummedRestitution(c, body, collider) ==
  collider[c.ColliderA].Restitution + collider[c.ColliderB].Restitution

CrossedRestitution(c, body, collider) ==
  (body[c.BodyB].Mass * collider[c.ColliderA].Restitution
     + body[c.BodyA].Mass * collider[c.ColliderB].Restitution)
  \div (body[c.BodyA].Mass + body[c.BodyB].Mass)

CombinedRestitution(c, body, collider) ==
  (body[c.BodyA].Mass * collider[c.ColliderA].Restitution
     + body[c.BodyB].Mass * collider[c.ColliderB].Restitution)
  \div (body[c.BodyA].Mass + body[c.BodyB].Mass)

TotalInverse(c, body) == body[c.BodyA].InverseMass + body[c.BodyB].InverseMass

\* Mutant of Share: both bodies get the same part, whatever their masses.
EqualShare(c, body, a, amount) ==
  Times(c.Normal, IF a = c.BodyA THEN amount \div 2 ELSE -(amount \div 2))

\* The two dynamic bodies of a contact are changed along the normal, A by its
\* share of the amount, B by its share of the opposite.
Share(c, body, a, amount) ==
  LET part == (amount * body[a].InverseMass) \div TotalInverse(c, body)
  IN  Times(c.Normal, IF a = c.BodyA THEN part ELSE -part)

Moves(c, body, a) == a \in {c.BodyA, c.BodyB} /\ body[a].Type = "Dynamic"

\* deltaVelocity: how much faster the bodies are to separate.
Change(c, body, collider) ==
  LET separating == SeparatingVelocity(c, body)
  IN  - (separating * CombinedRestitution(c, body, collider)) \div Unit - separating

\* ResolvePostCollisionVelocity.  The impulse of two bodies without inverse
\* mass is a division by zero.
PostVelocity(c, body, collider) ==
  IF SeparatingVelocity(c, body) > 0 THEN body
  ELSE [a \in DOMAIN body |->
          IF ~Moves(c, body, a) THEN body[a]
          ELSE IF TotalInverse(c, body) = 0 THEN [body[a] EXCEPT !.Velocity = NaN]
          ELSE [body[a] EXCEPT !.Velocity =
                  Plus(@, Share(c, body, a, Change(c, body, collider)))]]

\* Mutant of PostPosition: a small penetration is not corrected.
PostPositionSlack(c, body) ==
  IF TotalInverse(c, body) <= 0 \/ c.Penetration <= 16 THEN body
  ELSE [a \in DOMAIN body |->
          IF ~Moves(c, body, a) THEN body[a]
          ELSE [body[a] EXCEPT !.Position = Plus(@, Share(c, body, a, c.Penetration))]]

\* ResolvePostCollisionPosition.
PostPosition(c, body) ==
  IF TotalInverse(c, body) <= 0 \/ (c.Penetration # NaN /\ c.Penetration <= 0) THEN body
  ELSE [a \in DOMAIN body |->
          IF ~Moves(c, body, a) THEN body[a]
          ELSE IF c.Penetration = NaN THEN [body[a] EXCEPT !.Position = NaN]
          ELSE [body[a] EXCEPT !.Position = Plus(@, Share(c, body, a, c.Penetration))]]

\* The bound of the model: the contact is straight, and what is divided is divisible.
WholeShares(c, body, amount) ==
  \A a \in {c.BodyA, c.BodyB} :
    Moves(c, body, a) /\ TotalInverse(c, body) # 0
      => Divides(TotalInverse(c, body), amount * body[a].InverseMass)

WholeBounce(c, body, collider) ==
  /\ Divides(body[c.BodyA].Mass + body[c.BodyB].Mass,
             body[c.BodyA].Mass * collider[c.ColliderA].Restitution
               + body[c.BodyB].Mass * collider[c.ColliderB].Restitution)
  /\ Divides(Unit, SeparatingVelocity(c, body) * CombinedRestitution(c, body, collider))
  /\ WholeShares(c, body, Change(c, body, collider))

WholeContact(body, collider, a, b) ==
  \A p \in ContactProperties(body, collider, a, b) :
    LET c == StaticLast(p, body)
    IN  /\ c.Normal.X = 0 \/ c.Normal.Y = 0
        /\ SeparatingVelocity(c, body) <= 0 => WholeBounce(c, body, collider)
        /\ c.Penetration > 0 => WholeShares(c, body, c.Penetration)

\* ResolveContact: the bodies it may leave behind.
Resolved(body, collider, a, b) ==
  { LET c == StaticLast(p, body) IN PostPosition(c, PostVelocity(c, body, collider))
      : p \in ContactProperties(body, collider, a, b) }
=============================================================================
