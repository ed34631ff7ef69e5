----------------------------- MODULE Detection ------------------------------
(***************************************************************************)
(* Which contacts World::Update finds: two trigger colliders on two        *)
(* kinematic bodies, the broad phase on simplified rectangles, the narrow  *)
(* phase on the shapes.  The quad-tree is replaced by what it is shown to  *)
(* do, to name every pair whose rectangles intersect, in either order.     *)
(***************************************************************************)
EXTENDS Shapes

CONSTANTS
  ShapePairs,   \* the pairs of shapes the two colliders may have
  Positions,    \* bound on where the bodies go
  Starts,       \* where they start
  Velocities    \* how far a body moves in a frame

Vectors == [X : Int, Y : Int]

\* The shapes a collider may have.
ColliderShapes ==
  [Kind : {"Circle"}, Center : Vectors, Radius : Nat]
    \union [Kind : {"Rectangle"}, Min : Vectors, Max : Vectors]
    \union [Kind : {"Polygon"}, Vertices : Seq(Vectors)]

ASSUME PositionsAssumption ==
  /\ Positions \union Starts \union Velocities \subseteq Vectors
  /\ ShapePairs \subseteq ColliderShapes \X ColliderShapes

VARIABLES
  shape,        \* the two colliders' shapes
  position,     \* the two bodies' positions
  updated,      \* whether an Update has run
  contact       \* whether the pair is in _colliderPairs

detectionVars == <<shape, position, updated, contact>>

DetectionInit ==
  /\ shape \in ShapePairs
  /\ position \in Starts \X Starts
  /\ updated = FALSE
  /\ contact = FALSE

\* World::detectOverlap with the pair named in the order a, b.
DetectOverlap(a, b, at) ==
  ShapesIntersect(Moved(shape[a], at[a]), Moved(shape[b], at[b]))

\* The pair is among the possible pairs of the quad-tree.
Possible(at) == Intersect(Simplified(shape[1], at[1]), Simplified(shape[2], at[2]))

\* One body has a velocity; Update moves it, then looks for contacts.
Update(b, velocity) ==
  /\ Plus(position[b], velocity) \in Positions
  /\ position' = [position EXCEPT ![b] = Plus(@, velocity)]
  /\ contact' \in {Possible(position') /\ DetectOverlap(1, 2, position'),
                   Possible(position') /\ DetectOverlap(2, 1, position')}
  /\ updated' = TRUE
  /\ UNCHANGED shape

DetectionNext == \E b \in 1 .. 2, velocity \in Velocities : Update(b, velocity)

DetectionSpec == DetectionInit /\ [][DetectionNext]_detectionVars

-----------------------------------------------------------------------------
(* Properties.  Two shapes share a point: a definition that owes nothing   *)
(* to the tests above.  A rectangle is the polygon of its corners, and     *)
(* polygons are convex.                                                    *)

Cross(u, v) == u.X * v.Y - u.Y * v.X

Hull(s) ==
  IF s.Kind = "Polygon" THEN s.Vertices
  ELSE <<s.Min, Point(s.Max.X, s.Min.Y), s.Max, Point(s.Min.X, s.Max.Y)>>

Sides(hull) == {<<hull[i], hull[(i % Len(hull)) + 1]>> : i \in DOMAIN hull}

\* On which side of the line through the ends of e the point p lies.
Side(e, p) == Cross(Minus(e[2], e[1]), Minus(p, e[1]))

Inside(p, hull) ==
  \/ \A e \in Sides(hull) : Side(e, p) >= 0
  \/ \A e \in Sides(hull) : Side(e, p) <= 0

SidesCross(e, f) ==
  /\ Side(e, f[1]) * Side(e, f[2]) < 0
  /\ Side(f, e[1]) * Side(f, e[2]) < 0

HullsShare(h, k) ==
  \/ \E i \in DOMAIN h : Inside(h[i], k)
  \/ \E i \in DOMAIN k : Inside(k[i], h)
  \/ \E e \in Sides(h), f \in Sides(k) : SidesCross(e, f)

\* The circle reaches the side: one of its ends, or a point between them.
Reaches(c, e) ==
  LET u == Minus(e[2], e[1])
      w == Minus(c.Center, e[1])
  IN  \/ \E p \in {e[1], e[2]} : SquareLength(Minus(p, c.Center)) <= c.Radius * c.Radius
      \/ /\ Dot(u, w) \in 0 .. SquareLength(u)
         /\ Cross(u, w) * Cross(u, w) <= c.Radius * c.Radius * SquareLength(u)

CircleShares(c, hull) ==
  Inside(c.Center, hull) \/ \E e \in Sides(hull) : Reaches(c, e)

\* A point that divides the line between the centres by the radii.
CirclesShare(c, d) ==
  LET n == c.Radius + d.Radius
      between == SquareLength(Minus(d.Center, c.Center))
  IN  \E k \in 0 .. n : /\ k * k * between <= c.Radius * c.Radius * n * n
                        /\ (n - k) * (n - k) * between <= d.Radius * d.Radius * n * n

Share(s, t) ==
  CASE s.Kind = "Circle" /\ t.Kind = "Circle" -> CirclesShare(s, t)
    [] s.Kind = "Circle" /\ t.Kind # "Circle" -> CircleShares(s, Hull(t))
    [] s.Kind # "Circle" /\ t.Kind = "Circle" -> CircleShares(t, Hull(s))
    [] s.Kind # "Circle" /\ t.Kind # "Circle" -> HullsShare(Hull(s), Hull(t))

PlacedShape(b) == Moved(shape[b], position[b])

\* The two cases the code does not see: a circle inside a polygon that reaches
\* none of its sides, and a circle with a centre of its own.
CircleWithin(s, t) ==
  s.Kind = "Circle" /\ t.Kind = "Polygon" /\ ~(\E e \in Sides(t.Vertices) : Reaches(s, e))

OffCentre(s) == s.Kind = "Circle" /\ s.Center # Point(0, 0)

Overlooked ==
  \/ CircleWithin(PlacedShape(1), PlacedShape(2)) \/ CircleWithin(PlacedShape(2), PlacedShape(1))
  \/ OffCentre(shape[1]) \/ OffCentre(shape[2])

\* World reports a contact only between shapes that share a point: none of the
\* nine overlap tests, reached in either order, is too generous.
NoFalseContact == updated /\ contact => Share(PlacedShape(1), PlacedShape(2))

\* No contact is lost, neither by the rectangles of the broad phase nor by the
\* tests of the narrow phase, but in the two cases named above.
NoMissedContact ==
  updated /\ Share(PlacedShape(1), PlacedShape(2)) /\ ~Overlooked => contact

\* The quad-tree may name a pair in one order in a frame and in the other in
\* the next, so the answer must not depend on it, or contacts would flicker.
OrderIrrelevant == DetectOverlap(1, 2, position) = DetectOverlap(2, 1, position)
=============================================================================
