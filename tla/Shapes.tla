------------------------------- MODULE Shapes -------------------------------
(***************************************************************************)
(* The shapes of colliders (Math::CircleF, RectangleF and PolygonF, on an  *)
(* integer grid) and the overloads of Math::Intersect for them.            *)
(***************************************************************************)
EXTENDS Quadrants, Sequences, FiniteSetsExt

Abs(n) == IF n < 0 THEN -n ELSE n

Plus(p, q)  == Point(p.X + q.X, p.Y + q.Y)
Minus(p, q) == Point(p.X - q.X, p.Y - q.Y)
Dot(p, q)   == p.X * q.X + p.Y * q.Y
SquareLength(p) == Dot(p, p)

Circle(center, radius) ==
  [Kind |-> "Circle", Center |-> center, Radius |-> Abs(radius)]

Box(minBound, maxBound) ==
  [Kind |-> "Rectangle", Min |-> minBound, Max |-> maxBound]

Polygon(vertices) == [Kind |-> "Polygon", Vertices |-> vertices]

\* operator+ of the three shapes.
Moved(s, v) ==
  CASE s.Kind = "Circle"    -> [s EXCEPT !.Center = Plus(@, v)]
    [] s.Kind = "Rectangle" -> [s EXCEPT !.Min = Plus(@, v), !.Max = Plus(@, v)]
    [] s.Kind = "Polygon"   ->
         [s EXCEPT !.Vertices = [i \in DOMAIN @ |-> Plus(@[i], v)]]

CircleContains(c, p) == SquareLength(Minus(c.Center, p)) <= c.Radius * c.Radius

RectangleContains(r, p) ==
  r.Max.X >= p.X /\ r.Min.X <= p.X /\ r.Max.Y >= p.Y /\ r.Min.Y <= p.Y

CirclesIntersect(c, d) ==
  SquareLength(Minus(c.Center, d.Center)) <= (c.Radius + d.Radius) * (c.Radius + d.Radius)

Corners(r) == {r.Min, r.Max, Point(r.Min.X, r.Max.Y), Point(r.Max.X, r.Min.Y)}

\* Mutant of RectangleCircleIntersect: the rectangle is widened both ways at
\* once, which makes its corners square.
RectangleCircleIntersectSquarely(r, c) ==
  RectangleContains(Box(Minus(r.Min, Point(c.Radius, c.Radius)),
                        Plus(r.Max, Point(c.Radius, c.Radius))), c.Center)

\* The centre lies in the rectangle, in the rectangle widened by the radius in
\* one direction or in the other, or the circle contains a corner.
RectangleCircleIntersect(r, c) ==
  \/ RectangleContains(r, c.Center)
  \/ \E v \in {Point(c.Radius, 0), Point(0, c.Radius)} :
       RectangleContains(Box(Minus(r.Min, v), Plus(r.Max, v)), c.Center)
  \/ \E p \in Corners(r) : CircleContains(c, p)

\* The edges of a polygon, each from a vertex to the one before it.
Edges(p) ==
  {<<p.Vertices[i], p.Vertices[IF i = 1 THEN Len(p.Vertices) ELSE i - 1]>>
     : i \in DOMAIN p.Vertices}

Normal(e) == Point(e[2].Y - e[1].Y, e[1].X - e[2].X)

Projections(p, axis) == {Dot(p.Vertices[i], axis) : i \in DOMAIN p.Vertices}

Separates(axis, p, q) ==
  \/ Max(Projections(p, axis)) < Min(Projections(q, axis))
  \/ Max(Projections(q, axis)) < Min(Projections(p, axis))

\* Mutant of PolygonsIntersect: only the edges of the first are tried.
PolygonsIntersectOneSided(p, q) ==
  \A e \in Edges(p) : ~Separates(Normal(e), p, q)

PolygonsIntersect(p, q) ==
  \A e \in Edges(p) \union Edges(q) : ~Separates(Normal(e), p, q)

\* The closest point of the segment e lies within the distance r of p
\* (ClosestPointOnSegment); it is A, B or A + t * AB with t the quotient of
\* the two products below.
NearSegment(e, p, r) ==
  LET AB == Minus(e[2], e[1])
      AP == Minus(p, e[1])
      along == Dot(AP, AB)
  IN  IF along <= 0 THEN SquareLength(AP) <= r * r
      ELSE IF along >= SquareLength(AB) THEN SquareLength(Minus(p, e[2])) <= r * r
      ELSE SquareLength(AP) * SquareLength(AB) - along * along <= r * r * SquareLength(AB)

PolygonCircleIntersect(p, c) ==
  \/ \E i \in DOMAIN p.Vertices : CircleContains(c, p.Vertices[i])
  \/ \E e \in Edges(p) : NearSegment(e, c.Center, c.Radius)

RectToPolygon(r) ==
  Polygon(<<r.Min, Point(r.Min.X, r.Max.Y), r.Max, Point(r.Max.X, r.Min.Y)>>)

\* The overload of Math::Intersect that World::detectOverlap picks.
ShapesIntersect(s, t) ==
  CASE <<s.Kind, t.Kind>> = <<"Circle", "Circle">>       -> CirclesIntersect(s, t)
    [] <<s.Kind, t.Kind>> = <<"Circle", "Rectangle">>    -> RectangleCircleIntersect(t, s)
    [] <<s.Kind, t.Kind>> = <<"Circle", "Polygon">>      -> PolygonCircleIntersect(t, s)
    [] <<s.Kind, t.Kind>> = <<"Rectangle", "Circle">>    -> RectangleCircleIntersect(s, t)
    [] <<s.Kind, t.Kind>> = <<"Rectangle", "Rectangle">> -> Intersect(s, t)
    [] <<s.Kind, t.Kind>> = <<"Rectangle", "Polygon">>   -> PolygonsIntersect(t, RectToPolygon(s))
    [] <<s.Kind, t.Kind>> = <<"Polygon", "Circle">>      -> PolygonCircleIntersect(s, t)
    [] <<s.Kind, t.Kind>> = <<"Polygon", "Rectangle">>   -> PolygonsIntersect(s, RectToPolygon(t))
    [] <<s.Kind, t.Kind>> = <<"Polygon", "Polygon">>     -> PolygonsIntersect(s, t)

\* Mutant of Simplified: only the position of the body is handed over.
SimplifiedToPoint(s, position) == Rectangle(position, position)

\* The rectangle resolveBroadPhase hands to the quad-tree for a collider.  A
\* circle's is around the body's position, whatever the circle's own centre.
Simplified(s, position) ==
  CASE s.Kind = "Circle" ->
         Rectangle(Minus(position, Point(s.Radius, s.Radius)),
                   Plus(position, Point(s.Radius, s.Radius)))
    [] s.Kind = "Rectangle" -> Rectangle(Plus(s.Min, position), Plus(s.Max, position))
    [] s.Kind = "Polygon" ->
         LET vertices == {Plus(s.Vertices[i], position) : i \in DOMAIN s.Vertices}
         IN  Rectangle(Point(Min({v.X : v \in vertices}), Min({v.Y : v \in vertices})),
                       Point(Max({v.X : v \in vertices}), Max({v.Y : v \in vertices})))
=============================================================================
