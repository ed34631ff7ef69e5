---------------------------- MODULE MCDetection -----------------------------
EXTENDS Detection

Origin == Point(0, 0)

Square == Box(Point(-1, -1), Point(1, 1))
Bar == Box(Point(-2, 0), Point(2, 1))
Ball == Circle(Origin, 2)
Marble == Circle(Origin, 1)
Diamond == Polygon(<<Point(-2, 0), Point(0, -2), Point(2, 0), Point(0, 2)>>)
Wedge == Polygon(<<Point(-1, -1), Point(2, 0), Point(-1, 1)>>)
Sail == Polygon(<<Point(0, 0), Point(3, 3), Point(0, 3)>>)
Offset == Circle(Point(1, 0), 1)

MCShapes == {Square, Bar, Ball, Marble, Diamond, Wedge, Sail, Offset}
MCShapePairs == MCShapes \X MCShapes

MCStarts == {Point(-3, 0), Point(1, 0)}
MCPositions == {Point(x, y) : x \in -3 .. 3, y \in -2 .. 2}
MCVelocities == {Point(-1, 0), Point(1, 0), Point(0, 1), Point(0, -1)}
=============================================================================
