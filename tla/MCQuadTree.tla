------------------------------ MODULE MCQuadTree ------------------------------
(* QuadTree for TLC, on the grid 0 .. 8 with its centre at 4, where a node   *)
(* of depth 2 still has quadrants of whole size.                            *)
EXTENDS QuadTree

Rect(x0, y0, x1, y1) == Rectangle(Point(x0, y0), Point(x1, y1))

\* A square, and the degenerate boundary of bodies in one vertical line.
Square == Rect(0, 0, 8, 8)
MCFrames == {Square, Rect(0, 0, 0, 8)}

\* In a corner of the bottom left quadrant, inside of it across its own
\* centre, in the bottom right, across two quadrants with its centre in one,
\* across all four, in the top right reaching out of the root, and touching
\* the middle line.
MCShapes ==
  { Rect(0, 0, 0, 0), Rect(0, 0, 2, 2), Rect(6, 0, 8, 2), Rect(1, 1, 6, 2),
    Rect(2, 2, 6, 6), Rect(6, 6, 12, 12), Rect(0, 6, 4, 8) }
===============================================================================
