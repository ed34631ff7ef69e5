----------------------------- MODULE MCDynamics -----------------------------
EXTENDS Dynamics

Actor(shape, restitution, x, y, v) ==
  [Collider |-> [Shape |-> shape, Restitution |-> restitution],
   Body |-> NewBody(Point(x, y), Point(v, 0))]

StaticActor(shape) ==
  [Collider |-> [Shape |-> shape, Restitution |-> 0],
   Body |-> SetBodyType(NewBody(Zero, Zero), "Static")]

\* A world of actors in a sequence, with the forces the client may apply and a
\* bound on its Updates.
World(g, actors, pushes, n) ==
  [gravity |-> g, forces |-> pushes, frames |-> n,
   body |-> [i \in DOMAIN actors |-> actors[i].Body],
   collider |-> [i \in DOMAIN actors |-> actors[i].Collider]]

Ball == Circle(Zero, 64)
Crate == Box(Point(-64, -64), Point(64, 64))
Table == Box(Point(-128, -32), Point(128, 32))
Downward == Point(0, -16)

\* One unit of length is 4: masses 1 and 3 share a move of 4k in quarters.
\* Three bodies of mass 1 in a row, in contact or just apart.
RowWorlds ==
  { World(Downward, <<Actor(s, e, -128 - gap, 0, v[1]), Actor(s, e, 0, 0, v[2]),
                      Actor(s, e, 128 + 32, 0, v[3])>>, {Point(64, 0)}, 2)
      : s \in {Ball, Crate}, e \in {0, 8}, gap \in {-32, 32},
        v \in {<<64, 0, -64>>, <<0, 0, -64>>, <<0, 64, -64>>, <<64, 64, -64>>} }

\* The same without gravity and with full restitution, as in CollisionSample, and
\* with a third body that runs into the other two.
ElasticWorlds ==
  { World(Zero, <<Actor(s, 8, -128 - gap, 0, v[1]), Actor(s, 8, 0, 0, v[2]),
                  Actor(s, 8, 128 + 32, IF s = Crate THEN 96 ELSE 0, v[3])>>, {}, 4)
      : s \in {Ball, Crate}, gap \in {-32, 0, 32},
        v \in {<<64, 0, -64>>, <<64, 0, 0>>, <<0, 64, -64>>, <<128, 64, 0>>} }

\* A body without gravity that overlaps a static one, or one that lies on it
\* or falls on it.
FloatingWorlds ==
  { World(Zero, <<Actor(s, 0, x, y, 0), StaticActor(t)>>, {}, Unlimited)
      : s \in {Ball, Crate}, t \in {Table, Crate}, x \in {-64, 0, 32}, y \in {0, -16, 48} }
  \union { World(Zero, <<Actor(Ball, 0, x, 0, 0), StaticActor(Ball)>>, {}, Unlimited) : x \in {-64, 32, 128} }

FallingWorlds ==
  { World(Downward, <<Actor(s, 0, x, y, 0), StaticActor(Table)>>, {}, Unlimited)
      : s \in {Ball, Crate}, x \in {-64, 0, 32}, y \in {48, 144} }

RestWorlds == FloatingWorlds \union FallingWorlds

\* Two bodies of any kind that meet, the second at an offset from the first, in
\* one Update: the masses are set, then the types, and in the last kind of body
\* the other way round.
Kinds == {"light", "heavy", "kinematic", "static", "reset"}

Set(kind, b) ==
  CASE kind = "light"     -> b
    [] kind = "heavy"     -> SetMass(b, 3)
    [] kind = "kinematic" -> SetBodyType(SetMass(b, 3), "Kinematic")
    [] kind = "static"    -> SetBodyType(b, "Static")
    [] kind = "reset"     -> SetMass(SetBodyType(b, "Static"), 3)

Met(kind, at, v) ==
  NewBody(IF kind \in {"static", "reset"} THEN at ELSE Minus(at, v), v)

Small == Circle(Zero, 8)
Block == Box(Point(-8, -8), Point(8, 8))
Plank == Box(Point(-16, -4), Point(16, 4))

Pair(kind, s, e, at, v) ==
  World(Zero, << [Collider |-> [Shape |-> s[1], Restitution |-> e[1]],
                  Body |-> Set(kind[1], Met(kind[1], Zero, v[1]))],
                 [Collider |-> [Shape |-> s[2], Restitution |-> e[2]],
                  Body |-> Set(kind[2], Met(kind[2], at, v[2]))] >>, {}, 1)

Twice(S) == S \X S

PairWorlds ==
  { Pair(kind, s, e, at, v) :
      kind \in {k \in Twice(Kinds) : k[1] \in {"light", "heavy"} \/ k[2] \in {"light", "heavy"}},
      s \in Twice({Small, Block, Plank}), e \in Twice({0, 8}),
      at \in {Point(12, 0), Point(-8, 0), Point(0, 12), Point(0, -4), Point(4, 0)},
      v \in {Zero, Point(32, 0), Point(0, -32)} \X {Zero, Point(32, 0)} }

\* Two circles that are or come on one centre, or, if they move otherwise, do not;
\* and, for comparison, a circle and a crate.
OneCentreWorlds ==
  { World(g, <<Actor(Ball, 8, 0, 0, v), Actor(t, 8, 64, 0, 0)>>, {}, 2)
      : g \in {Zero, Downward}, t \in {Ball, Crate}, v \in {0, 64} }
  \union { World(Zero, <<Actor(Ball, 8, 0, 0, 0), Actor(Ball, 8, 0, 0, v)>>, {}, 2) : v \in {0, 64} }

AllWorlds ==
  RowWorlds \union ElasticWorlds \union RestWorlds \union PairWorlds \union OneCentreWorlds
=============================================================================
