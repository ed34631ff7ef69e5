------------------------------ MODULE Quadrants ------------------------------
(***************************************************************************)
(* Axis-aligned rectangles (Math::RectangleF on an integer grid) and the   *)
(* four quadrants the quad-tree divides one into.                          *)
(***************************************************************************)
EXTENDS Integers

Point(x, y) == [X |-> x, Y |-> y]

Rectangle(minBound, maxBound) == [Min |-> minBound, Max |-> maxBound]

Rectangles == [Min : [X : Int, Y : Int], Max : [X : Int, Y : Int]]

\* What the code takes a rectangle to be: no side has a negative length.
Proper(r) == r \in Rectangles /\ r.Min.X <= r.Max.X /\ r.Min.Y <= r.Max.Y

\* Two rectangles that only touch intersect.
Intersect(r, s) ==
  /\ r.Max.X >= s.Min.X /\ r.Min.X <= s.Max.X
  /\ r.Max.Y >= s.Min.Y /\ r.Min.Y <= s.Max.Y

Center(r) == Point((r.Min.X + r.Max.X) \div 2, (r.Min.Y + r.Max.Y) \div 2)

HalfSize(r) == Point((r.Max.X - r.Min.X) \div 2, (r.Max.Y - r.Min.Y) \div 2)

\* The quadrants around a centre: top left, top right, bottom left, bottom
\* right.
QuadrantsAround(c, h) ==
  << Rectangle(Point(c.X - h.X, c.Y), Point(c.X, c.Y + h.Y)),
     Rectangle(c, Point(c.X + h.X, c.Y + h.Y)),
     Rectangle(Point(c.X - h.X, c.Y - h.Y), c),
     Rectangle(Point(c.X, c.Y - h.Y), Point(c.X + h.X, c.Y)) >>

QuadrantsOf(boundary) ==
  QuadrantsAround(Center(boundary), HalfSize(boundary))

\* Mutant of Meeting: only the centre of the rectangle is looked at.
MeetingCenter(boundaries, rect) ==
  {k \in DOMAIN boundaries :
     Intersect(boundaries[k], Rectangle(Center(rect), Center(rect)))}

\* The quadrants a rectangle intersects, by number.
Meeting(boundaries, rect) ==
  {k \in DOMAIN boundaries : Intersect(boundaries[k], rect)}

\* A rectangle goes down only into a quadrant that is the only one it
\* intersects.
GoesDown(boundaries, rect) ==
  \E k \in DOMAIN boundaries : Meeting(boundaries, rect) = {k}

Down(boundaries, rect) ==
  CHOOSE k \in DOMAIN boundaries : Meeting(boundaries, rect) = {k}
=============================================================================
