--------------------------- MODULE GraphicGeometry ---------------------------
(***************************************************************************)
(* GraphicGeometry: the vertices and the triangle indices every shape of a *)
(* frame is added to, and which the main loop hands to SDL_RenderGeometry. *)
(*                                                                         *)
(* Of a vertex only the shape it was added for is kept.                    *)
(***************************************************************************)
EXTENDS Integers, Sequences

CONSTANTS
  CircleSegmentCount,   \* the segments of a circle, at least one
  PolygonSizes,         \* the numbers of vertices a polygon may have
  MaxVertices           \* bound on the vertices of a frame

VARIABLES
  Vertices,   \* for each vertex, the number of the shape it belongs to
  Indices,    \* three of them for each triangle; the first vertex is number 0
  shapes      \* history: the shapes added in this frame

Init == Vertices = <<>> /\ Indices = <<>> /\ shapes = 0

\* Mutant of Offset: the indices are counted instead of the vertices.
IndexOffset == Len(Indices)

\* indicesOffset: the number of a shape's first vertex.
Offset == Len(Vertices)

\* So many shapes of n vertices each; a shape's triangles are given by the
\* numbers of their corners within the shape.
Add(times, n, triangles) ==
  LET t == 3 * Len(triangles)
      corner(k) == triangles[(k \div 3) + 1][(k % 3) + 1]
  IN
  /\ Len(Vertices) + times * n <= MaxVertices
  /\ shapes' = shapes + times
  /\ Vertices' = Vertices \o [k \in 1 .. times * n |-> shapes + 1 + (k - 1) \div n]
  /\ Indices' = Indices \o
       [k \in 1 .. times * t |->
          Offset + (n * ((k - 1) \div t) + corner((k - 1) % t))]

\* The triangles with a corner in the first vertex and two successive others.
Fan(first, last) == [k \in 1 .. last - first |-> <<0, first + k - 1, first + k>>]

CircleTriangles(n) == Fan(0, n - 1) \o << <<0, n - 1, 0>> >>

RectangleTriangles == Fan(1, 3)

PolygonTriangles(n) == Fan(1, n - 1) \o << <<0, n - 1, 1>> >>

-----------------------------------------------------------------------------
\* Mutant of ClearGeometry: the indices are kept.
ClearVertices == Vertices' = <<>> /\ shapes' = 0 /\ UNCHANGED Indices

ClearGeometry == Vertices' = <<>> /\ Indices' = <<>> /\ shapes' = 0

Circle == Add(1, CircleSegmentCount, CircleTriangles(CircleSegmentCount))

FilledRectangle == Add(1, 4, RectangleTriangles)

\* Less than three vertices are no polygon, and nothing is added.
Polygon(n) == n >= 3 /\ Add(1, n, PolygonTriangles(n))

\* A Line is a rectangle, or nothing if it has no length; an EmptyRectangle is
\* four lines, of which two or all have no length if a size is 0.
EmptyRectangle == \E lines \in {0, 2, 4} : Add(lines, 4, RectangleTriangles)

Shape ==
  \/ Circle \/ FilledRectangle \/ EmptyRectangle
  \/ \E n \in PolygonSizes : Polygon(n)

-----------------------------------------------------------------------------
(* Properties.                                                             *)

VertexOf(k) == Vertices[Indices[k] + 1]

\* What SDL_RenderGeometry is given is whole: every index is that of a vertex of
\* this frame, and the corners of each triangle belong to one shape.
TrianglesWhole ==
  /\ \A k \in 1 .. Len(Indices) : Indices[k] \in 0 .. Len(Vertices) - 1
  /\ Len(Indices) % 3 = 0
  /\ \A k \in 1 .. Len(Indices) \div 3 :
       VertexOf(3 * k - 2) = VertexOf(3 * k - 1) /\ VertexOf(3 * k - 1) = VertexOf(3 * k)

\* No vertex is left out of the picture.
VerticesUsed ==
  \A n \in 0 .. Len(Vertices) - 1 : \E k \in 1 .. Len(Indices) : Indices[k] = n
=============================================================================
