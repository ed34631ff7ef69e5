# A TLA+ model of the physics engine

This directory specifies, model-checks and partly proves the 2D physics engine in
`src/` and the program around it: the generational tables that hand out
references to bodies and colliders, the frame `World::Update` runs with its
callbacks into the client, the quad-tree of the broad phase, the overlap tests,
the contact solver and the motion it leads to, three of the sample programs as
clients of all this, the main loop, and the smart pointers. `PROJECT.json` lists
the runs, the lines each definition models, the hazards, the findings and the
theorems.

## 1. Inventory

The engine is single-threaded. What makes it hard is not threads but control
that leaves and comes back: `World::Update` calls a listener in the middle of
its loops, the listener calls the world, and references to things that may have
gone in the meantime are kept in vectors from frame to frame.

| Part | State | Operations | Correct means |
|---|---|---|---|
| **Tables of World** (`World.cpp` 520-653, `WorldRefTypes.h`) | `_bodies`/`_bodiesGenIndices`, `_colliders`/`_collidersGenIndices` | `Init`, `Deinit`, `Create…`, `Destroy…`, `Get…`, and through `Get…` `SetMass`, `SetEnabled` | a reference is unique, reaches its object until destroyed, and never reaches another one |
| **World::Update** (`World.cpp` 14-518) | `_colliderPairs` (last frame), `newPairs` (this frame), `_contactListener` | integrate, broad phase, overlap tests, narrow phase: an enter/stay loop, an exit loop | no exception out of a `noexcept` function; contacts are found exactly, and begin, stay and end in order, once a frame |
| **ContactListener** (`ContactListener.h`) | the client's | `OnTriggerEnter/Stay/Exit`, `OnCollisionEnter/Exit` | may call World while the frame is in progress |
| **QuadTree** (`QuadTree.cpp`) | a pool `_nodes` with `_nodeIndex`, `_possiblePairs` | `Init`, `Clear`, `SetRootNodeBoundary`, `Insert`, `CalculatePossiblePairs`, `Deinit` | every intersecting pair once; the pool is not overrun |
| **Collider, ColliderPair, Body** | shape, body reference, flags; mass, inverse mass, type, position, velocity, forces | setters; equality of pairs is symmetric | validity decides slot reuse; what must not move does not |
| **ContactSolver** (`ContactSolver.cpp`) | the contact of one pair | normal, penetration, impulse, position correction | momentum is kept, energy is not created, shapes part |
| **Math** (`Shape.h`, `Vec2.h`, …) | none | intersection tests, vector arithmetic | two shapes intersect exactly if they share a point |
| **Allocator, SharedPtr, UniquePtr** | counters, reference counts | make, copy, move, assign, destroy | an object dies with its last owner, once |
| **Timer, Metrics** | time points | `Init`, `Tick`, `DeltaTime`, `TotalTime` | a World is given the time that passed |
| **SampleManager, Sample, `main.cpp`** | the current sample, the stage of the frame | events, update, change, restart, draw | one sample lives at a time |
| **The samples** | lists of references into their World, indexed by slots | create, count contacts, remove what fell, turn round at the window's border | the lists agree with the World |
| **GraphicGeometry** | vertices and indices of a frame | clear, add a shape | triangles are whole |
| **SDL window** | window | open, draw | I/O, not modelled |
| **Tracy** (`externals/`) | | | vendored, not modelled |

How they interact: `main` calls `SampleManager`, that the current sample's
`Update`, that its own `onUpdate` and then `World::Update` with the time since
the last `Tick`. `Update` moves the bodies, fills the quad-tree with the
rectangles of the enabled colliders (following each collider's `BodyRef`), asks
it for possible pairs, keeps those whose shapes overlap (`newPairs`), compares
them with the pairs of the last frame, calls the contact solver for pairs without
trigger and the listener for beginnings and ends. The samples' listeners find
their own objects by the slot indices of the references they are given. After
the update the user may change or restart the sample; the sample that is then
current draws.

The hard behaviours, each a hazard of `PROJECT.json` at its line:

* references that outlive what they name: `Destroy…` does not compare
  generations, the exit loop looks up colliders of the last frame, the broad
  phase follows body references;
* callbacks that change what later iterations of the same loop read;
* the order of contact callbacks across frames, slot reuse and the quad-tree's
  habit of naming a pair in either order;
* a free slot is recognised by its contents (mass not positive, collider not
  enabled), so client state leaks into allocation;
* a node pool of fixed size, a recursion that divides at most to a fixed depth,
  rectangles on the border of quadrants, roots without area;
* overlap tests with touching borders, and in two argument orders;
* several contacts of one body in one frame, resolved one after another in an
  order nobody chose, each from what the one before left; exchanges of the two
  actors; masses and types set in either order;
* per-object counters and slot indices that are right only if no callback is lost
  or doubled and no slot is filled out of order, across restarts too;
* a loop over the vector it erases from;
* what must happen eventually: release of contacts, separation of what
  overlaps, removal of what fell, return into the window.

## 2. Modules

Arrows are EXTENDS or INSTANCE; `=>` is "implements".

```
SlotTable <- HandleTable <- MCHandleTable               HandleTable   => Handles
    ^            ^
    |            +-- HandleTableProofs -> SlotTableProofs
    +-- World <- MCWorld                                World         => ContactProtocol
          ^
          +-- WorldProofs -> SlotTableProofs
          |
          +-- TriggerColliders <-- SampleClients <- MCSampleClients
          +-- PlanetSystem <---------+    ^             SampleClients => World's CarefulSpec
          |                               |
          |                               +-- SampleClientsProofs -> WorldProofs
          |                               |
          +-- BouncingShapes <------------+
                    ^
                    +-- MCBouncingShapes
Quadrants <- QuadTree <- MCQuadTree                     QuadTree      => BroadPhase
    ^            ^
    |            +-- QuadTreeProofs -> Detection
    +-- Shapes <- Detection <- MCDetection
          ^
          +-- Bodies <- ContactSolver <- Dynamics <- MCDynamics
                                            ^
                                            +-- DynamicsProofs
Window <- MCWindow
   ^
   +-- SamplesProofs -> MainLoop
Samples <- MainLoop -> GraphicGeometry
PointerConstants <- SharedPointers, UniquePointers      both          => Ownership
                        ^               ^
                        +--- Pointers --+
                                ^
                                +-- PointersProofs
```

### SlotTable, HandleTable, Handles

`SlotTable` makes one table a value (`size`, the slots in `used`, the
generations `gens`) and World's operations functions of it. `used` stands for
`mass > 0` in the body table and for `_enabled` in the collider table, the test
`Create…` makes to find a free slot. `Create` is the whole of `CreateBody` or
`CreateCollider`: find the first free slot, or double the vectors and take the
first new one; `Destroy` clears the slot the reference names and increments its
generation, without looking at the reference's own generation, as the code does.
`issued` and `destroyed` are history: what the client was given and what it gave
back. No operation reads them.

`HandleTable` is one table with a careful client, from construction through
`Init` and `Deinit` and round again: it preallocates at least one slot, uses what
it owns, and asks for an object only while all its objects are in use. `Handles`
says what a table promises: a handle is never given out twice, lives from its
creation to its destruction, and nothing else ends its life.

### World, ContactProtocol

`World` has two tables, `bodyRef` and `triggers` of the collider slots,
`listener`, `colliderPairs`, and the local state of `Update`: `phase`, `newPairs`
and `todo`, the pairs the loop in progress has not come to. `event` is the
callback in progress.

| Action | Code |
|---|---|
| `BeginUpdate`, `BeginUpdateThrows` | `Update` to the end of the search for overlaps; throws if an enabled collider's body is gone |
| `EnterLoopStep(p)` | one iteration over `newPairs`: look up, resolve unless a trigger, enter or stay |
| `BeginExitLoop`, `ExitLoopStep(p)` | one iteration over `_colliderPairs`: look up, resolve and report if it ended |
| `LoopStepThrows(p)`, `ResolveThrows(p)` | an iteration whose lookup fails; a contact of two circles with one centre |
| `EndUpdate` | `_colliderPairs = newPairs` |
| `InitWorld`, `DeinitWorld`, `SetContactListener`, `CreateBody`, … | the public functions, callable between Updates and while a callback is in progress |

A failed lookup leads to `status = "terminated"`, because the functions its
exception leaves are `noexcept`; so does the exception of a resolution, which has a
status of its own, `"unresolved"`, to tell the two apart; indexing out of bounds and a
call through a null listener lead to `"undefined"`. World has no geometry, so every
resolution is one that may throw: `ResolveThrows` is part of every specification of
World, the careful client's included.

`ContactProtocol` is what a listener may rely on: a frame fixes a set of
touching pairs; each is reported as begun if it was apart, and reported again or
passed over if not; then pairs that ceased are reported; the next frame begins
when the listener knows exactly the pairs of this one. World implements it under
the refinement mapping at the end of `World.tla`: what the listener knows is
`colliderPairs` plus the part of `newPairs` already visited in the first loop,
and `newPairs` plus the part of `colliderPairs` not yet visited in the second.

The careful client of World: it destroys a body after the colliders attached to
it, a collider only while no Update remembers a contact of it (disable it, let
one Update report the exits, destroy it), creates no collider while it owns a
disabled one, leaves masses positive, and changes the listener only between
Updates. These conditions are not in the documentation. They are what the code
needs of a client's references, and the theorems say that they are enough for that:
no lookup fails and no index or listener call goes astray (`NeverAstray`). They do not
keep `Update` from throwing altogether: no care with references keeps two solid circles
from one centre, and their resolution ends the program (`ResolveThrows`). Only a client
all of whose colliders are triggers, so that nothing is resolved, is safe from that too
(`NeverFails`, of the trigger and the planet sample). `world_any` shows what holds
without the conditions, and `world_hasty` what one of them is for.

### Quadrants, QuadTree, BroadPhase

`Quadrants` has rectangles on an integer grid, their intersection (touching
counts), the four quadrants and the rule that a rectangle goes down only into
the one quadrant it intersects. `QuadTree` has the pool, the next free index and
the frame's calls. `insertInNode` recurses, and when it divides a node it
recurses for up to `MaxColliderNbr + 1` colliders; a step of the model is one
activation, and the activations to come are on the stack `calls`, so what a
half-finished subdivision looks like is a state of the model.
`CalculatePossiblePairs` is one action. `BroadPhase` is the naive algorithm: all
intersecting pairs of what was handed in, each once, in any order.

The code divides in floating point. `QuadTreeProofs` proves the fact the tree
rests on (`DivisionKeepsPairs`), that two rectangles which intersect are never sent down into different
quadrants, for any centre and any half size, exact or not. So the grid and its
rounding do not matter to it, nor does rounding in the code as long as the four
quadrants share the rounded centre, which they do.

### Shapes, Detection

`Shapes` has circles, rectangles and polygons and all overloads of
`Math::Intersect`, case by case as in `Shape.h`, with rational comparisons
multiplied out. `Detection` runs two moving trigger colliders through `Update`:
`Possible` is the broad phase on the rectangles `resolveBroadPhase` makes of the
shapes, `DetectOverlap` the dispatch on the two kinds. The reference definition
shares nothing with the code: `Share` says that two shapes have a point in
common, by crossing sides and contained corners.

### Bodies, ContactSolver, Dynamics

`Bodies` has the setters (`SetMass` computes the inverse mass, `SetBodyType`
clears it and does not restore it) and the integration of one frame of one unit
of time. `ContactSolver` has `CalculateContactProperties` for each pair of kinds,
both exchanges of actors, the impulse and the position correction. `Dynamics` has
the loops of `Update` over bodies that really move: forces from the client,
integration, overlaps, resolution of the pairs that overlap, in any order and
each in either orientation, the last resolution of those that ceased to, and the end
of the program (`phase = "terminated"`) when two circles on one centre are to be
resolved. `World` has the same loops with references and callbacks and without geometry.

What is promised of a contact is promised of bodies that are to collide (`Collides`):
the repository's README has "Physical collision calculations" for dynamic and static
bodies and "No physical collisions" for kinematic ones. The code makes no such
difference (section 5); the properties say of kinematic bodies
only what the documentation does, that no contact changes them.

The quantities are integers, so a step of `Dynamics` is modelled only where each of
its quotients is whole and the contact is straight (`WholeAcceleration`,
`WholeContact`, the bound "no fractions"). In the worlds of the run this bound stops
no step: TLC reaches the same states without it. In all other worlds it leaves out the
steps in which integer division would lose a remainder that the code's floats keep.

### TriggerColliders, PlanetSystem, SampleClients, BouncingShapes

Each EXTENDS World and is a client of it: every step is one of World's, called by
the sample or calling it back, with the sample's own lists beside.
`TriggerColliders` is also the listener and counts in each game object the
contacts it is told of, which it finds by the slot index of the collider.
`PlanetSystem` keeps circles by slot index and believes the sun in slot 0.
`SampleClients` lets `SampleManager` switch between the two: a sample is left
through `Deinit`, which returns its World to its first state, so one World stands
for both. `BouncingShapes` has the range-for over `_colliders` that erases from
`_colliders`, one visit a step: the end is computed once, erasing moves later
references down, and the slots behind the vector's end still hold what was there. It
may be left through `Deinit` between two frames (`StopShapes`) and started anew.

### Window

`maintainObjectsInWindow` for one object and the motion between two calls: the
four border tests (for a polygon, each vertex), each correction made from the
position and velocity read before the first, so that the last that applies wins.
Objects are made at least `Margin` inside the window, 1 metre in the code, and are
smaller than that.

### Samples, GraphicGeometry, MainLoop

`Samples` has the stages of the main loop's frame, `SampleManager`'s change and
restart, and one `Timer` per sample, on a clock that runs on between all stages.
`GraphicGeometry` has the two buffers, a vertex standing for the shape it belongs
to, and the triangles each shape adds. `MainLoop` puts them together: the buffers
are cleared before the update, the sample may change after it, and the sample
then current draws.

### SharedPointers, UniquePointers, Ownership

The handles, what they point to, the counts and the heap. `SharedPointers` has
the special members as written: assignment does not let go of the old object,
moved-from and empty handles have no count and destroying or copying them follows
a null pointer (`status = "undefined"`). Its careful client assigns only to handles
that share nothing, and is otherwise free: it destroys and copies empty and moved-from
handles too, as C++ does at every end of a scope, after which nothing is promised.
`UniquePointers` needs no care. `Ownership` is the promise of both: an object is deleted in the
step in which its last owner lets go of it, and only then.

## 3. Runs

| Run | Checks | Instance and why it is enough | States |
|---|---|---|---|
| `table_careful` | `TypeOK`, `TableConsistent`, `AbstractSpec` (=> `Handles`) | 4 slots, 2 reuses each, `Init` counts -1…3: growth 1→2→4, reuse before and after growth | 6 k |
| `world_careful` | `TypeOK`, `NeverAstray`, `StoredRefsReach`, `ProtocolSpec` (=> `ContactProtocol`), `DisabledReleased` | 2 bodies, 2 colliders, 1 reuse, starting with one slot: growth, reuse, re-attachment, all calls from callbacks; one contact at a time (the proofs and `samples` have several); it ends where a resolution throws, hence no deadlock check | 56 k |
| `world_any` | `ProtocolSpec`, `StaleForever` | 1 body, 2 colliders, any client, until the program ends, hence no deadlock check | 165 k |
| `world_hasty` | `NeverAstray`: violated | a careful client that may destroy a collider in contact, on the instance of `world_careful` | ends at the violation |
| `tree_deep` | `TypeOK`, `PoolSuffices`, `LeavesFit`, `FindsMeetingPairs` (=> `BroadPhase`) | 1 collider a node, depth 2, 4 colliders of 7 shapes on a grid of 0..8, frames with a square and with a degenerate root: recursive division, borders, outside the root, equal rectangles at the greatest depth, several frames in a row | 208 k |
| `detect_all` | `NoFalseContact`, `NoMissedContact`, `OrderIrrelevant` | all 64 pairs of 8 shapes (square, bar, two circles, three polygons, an off-centre circle) and every relative position in which they can touch | 79 k |
| `frames` | `MomentumAccounted`, `ApproachStopped`, `PushedApart`, `BounceIsOwn`, `EnergyAccounted`, `EventuallyApart` | worlds of five kinds: three bodies in a row with gravity and a push, 2 frames; chains of elastic contacts, 4 frames; bodies that overlap, lie on or fall on a static one, without bound; every pair of kinds, shapes, restitutions, offsets and velocities, 1 frame; circles that come on one centre, or nearly. Worlds of bounded frames end, hence no deadlock check | 533 k |
| `samples` | `NeverFails`, `IndicesAligned`, `CounterExact`, `CirclesAligned`, `IsCarefulClient` (=> World's `CarefulSpec`), `TurnsRed` | 3 objects with up to 3 contacts, 6 planets, tables that start with 1 to 3 slots, switches at will | 19 k |
| `shapes_any` | `ListExact`, `FallenRemoved` | 4 shapes, up to 3 below the screen at once; it ends where a visit or a resolution throws, hence no deadlock check | 87 k |
| `pointers` | `CountExact`, `IsOwnership`, `UniqueIsOwnership` (=> `Ownership`) | 3 handles and 2 objects of each kind: an object shared, moved, assigned and let go while another lives; it ends when all objects are used, or behaviour is undefined, hence no deadlock check | 92 k |
| `main_loop` | `TimeSimulated`, `PictureWhole`, `PictureIsCurrent`, `OnlyCurrentRuns` | 3 samples, a clock to 3, up to 16 vertices: the largest shape, the four lines of an empty rectangle, alone, and the smaller ones after each other as far as they fit (the theorem `PictureStaysWhole` has no such bound); ends after the user quits, hence no deadlock check | 2.4 M |
| `window_all` | `StaysNear`, `ComesBack` | a disk, a box and the sample's triangle, from every position inside the margin and diagonal direction, in frames of 1 or 2 units of time; an object is two frames beyond a border in the corners, one frame is not enough | 1.6 k |

All bounds: `MaxSlots`, `MaxBodies`, `MaxColliders` on the size of a table
(a table grows by doubling, so 4 means two growths), `MaxGen` on generations,
`InitCounts` on the arguments of `Init`; in the tree `MaxColliderNbr`, `MaxDepth`
(parameters of the code: 8 and 5 there), `MaxColliders` inserted in a frame,
`Boundaries` and `Shapes`; `Positions` in `Detection`; the number of frames of a
world, and no fractions, in `Dynamics`; `MaxShapes`, `MaxFallen`, `MaxPairs` in `BouncingShapes`;
`ObjectCount` and `MaxPlanets`; `MaxCount` on a shared count; `MaxTime`,
`MaxVertices`. A call that would pass a bound is not taken; the theorems do not
depend on the bounds, which are arbitrary naturals in them; but those of
`DynamicsProofs` speak of the steps without fractions.

### Fairness

The main loop calls `Update` in every frame, and an `Update` that began runs on
after each callback returns; a callback that never returned would keep the whole
program from going on. All fairness is this and no more: weak fairness of
`UpdateStep` in `World` (`DisabledReleased`) and in the unbounded worlds of
`Dynamics` (`EventuallyApart`), of the sample's own part of it in `SampleClients`
(while its sample is the current one), of the steps of a frame in
`BouncingShapes`, and of the frame in `Window`. `BouncingShapes` also asks that
`MakeCollider` follow `MakeBody`, two consecutive calls of one function. The
client is not fair: it never has to call anything. `DisabledReleased` assumes
that the collider stays disabled and a listener stays set, because without a
listener `Update` does not look at contacts at all.

## 4. Proofs

Checked by TLAPS for every value of the constants (any number of slots, objects,
handles, samples, any bounds):

* `HandleTableProofs`: `CarefulTypeOK`, `CarefulConsistent`,
  `CarefulCreateIsDefined`, and `CarefulImplements`, that the table is an
  allocator of unique handles. The invariant is `TypeOK`, `Consistent(table)`
  and "running means at least one slot". `Consistent` has three parts that need
  each other: a reference is valid iff not destroyed; no reference is ahead of
  its slot's generation (otherwise `Destroy` could bring one back to life); a
  slot in use has an owner (otherwise a slot could be taken from under one).
* `WorldProofs`: `CarefulTypeOK`, `CarefulNeverAstray`, `CarefulStoredRefsReach`
  and `CarefulProtocol` of the careful client; `AnyProtocol` and `AnyStaleForever` of
  any client whatever.
  `NeverAstray` is far from inductive. `IInv` adds: both tables are consistent;
  every live body is in use (so `CreateBody` never takes its slot; for
  colliders, which may be disabled, the client sees to it); every live collider
  is attached to a live body; every remembered pair names live colliders; no
  Update is in progress without a listener. A lookup then succeeds because pairs
  are over live colliders, those on live bodies, and live references are valid.
* `SampleClientsProofs`, of the trigger and the planet sample under `SampleManager`,
  switched and restarted at will, with any number of objects and planets:
  `ClientsAreCareful`, that both are careful clients, so that World's theorems hold
  of them; `ClientsNeverFail`, that nothing ends the program, which needs in addition
  that all their colliders are triggers, so that no contact is ever resolved; `ClientCirclesAligned`, `ClientIndicesAligned` and
  `ClientCounterExact`. The invariant adds to World's that the slots in use are the
  first ones, as many as colliders (bodies) were made, all of generation 0, and that
  none is ever destroyed or disabled; the next free slot is then the number of the
  next game object (planet), whether the table grows or not. The counters are exact
  because every callback tells of a contact the listener did not know, or ends one
  it did (the protocol), and the two objects it counts for are those the pair's
  slots name. A change of sample is safe because `Deinit` leaves a World like one
  just constructed.
* `SampleClientsProofs`, last part, of `BouncingShapes`: `ListStaysExact`, for any
  number of shapes however many
  fall at once. The invariant says that both tables stay consistent, although this
  client is not a careful one (`TablesHold`); that every collider has a body of its
  own, except the one being dropped, whose body goes first (`OwnBodies`); and that
  the vector holds the live colliders once each up to its end, and behind the end
  references that World handed out at some time (`Listed`). The loop reads those, and
  since a reference is never valid again once it was destroyed, a visit to one either
  finds a shape of the list or throws; it never drops a shape twice.
* `QuadTreeProofs`, for every depth, every capacity of the nodes and any number of
  colliders: `PoolAlwaysSuffices`, `LeavesAlwaysFit`, `TypeCorrect`, and `FindsEveryPair`,
  that the tree implements the naive broad phase. `PoolSuffices` is not inductive:
  the invariant (`InvariantHolds`) gives every node in use a place in a complete tree
  of the greatest depth, and the nodes on the way to it. An entry that went on into a
  child intersects that child's quadrant only (`Routed`); a leaf holds at most what a
  subdivision copies (`Fit`); every collider of the frame is in one node, or in one
  activation still to come (`Once`). Pool: the nodes in use are fewer than the places.
  Pairs: where the ways of two intersecting rectangles part, both would have gone into
  the same quadrant (`DivisionKeepsPairs`), so one is at a node on the way to the
  other, and there they are compared, once. What the recursive functions over the tree
  compute is proved too: the library's induction takes an operator, which the provers
  cannot instantiate, so induction is the choice of a least counterexample, and a
  lemma shows that a function with the recursive equation exists. `EitherOrder`
  adds, for `Detection` and all kinds of shapes, that the narrow phase
  (`OrderIrrelevant`) does not mind in which order the tree names a pair, and
  `ContactsAreExact`, that for two circles, two rectangles or one of each the contacts
  are those of shapes that share a point, neither more nor fewer. Its lemmas take the
  tests of `Shape.h` one by one against the reference definition of `Detection`
  (`CirclesExact`, `BoxesExact`, `CircleAndBoxExact`), and show that the rectangles of
  the broad phase meet whenever the shapes do (`BoxesIntersect`). It asks that a circle
  has a radius and a rectangle an area, and leaves out the circle off its body's
  centre as `NoMissedContact` does.
* `DynamicsProofs`, for any number of bodies that are circles and rectangles, of any
  masses, types and restitutions between 0 and 1, in any gravity and under any forces:
  `MomentumIsAccounted`, `ApproachIsStopped`, `PushesExactly`, `BounceIsItsOwn` and
  `EnergyIsAccounted`. The inductive invariant (`InvariantHolds`) is `Typed`, `Paired`
  (the pairs of this frame and of the last are pairs of two bodies, so there is a
  contact to compute), `Unforced` (where the client applies no
  forces none are left to act, which energy needs) and `MomentumAccounted`. The contact of two shapes is computed once and for all kinds
  (`Solvable`); what its resolution does to each body is one formula (`Result`), in which
  the two shares of an amount are a whole part and the rest of it. Momentum is then a
  sum over the actors of which two terms change by opposite amounts; energy is a
  square completed; the push is exact because the depth of the same two shapes is
  computed again where they have been moved to, rectangles along either axis and
  circles at the side, the corner or the middle, and their shapes still touch; and
  shapes that do not overlap are not deep (`NotDeep`), so they stay where they are.
* `PointersProofs`: whatever the client does with SharedPtr no handle outlives its
  object (`NothingDangles`, from: a count is at least the number of handles); if
  only handles that share nothing are assigned to, counts are exact (`CountsExact`),
  and it implements `Ownership` (`SharedOwnership`), both up to the undefined behaviour
  of the first empty handle that is destroyed or copied. UniquePtr
  does in any hands (`UniquelyOwned`, `UniqueOwnership`), and so do both side by side
  (`BothOwn`). The lemmas say for each operation how the set of an object's handles,
  and its cardinality, change.
* `SamplesProofs`: `TimeIsSimulatedOnce`, `OneSampleRuns` and `PictureOfCurrent`,
  for any number of samples: the buffers hold shapes of the sample that is current
  when they are drawn, because they are cleared before and filled after every
  change of the current sample. `PictureStaysWhole`: whatever shapes are drawn, with
  any number of segments to a circle and of vertices to a polygon, the buffers
  handed to `SDL_RenderGeometry` are whole. `PictureWhole` is inductive once the
  types are added; the work is in one lemma, that a whole picture put behind another
  one, its indices moved by `Offset`, leaves a whole picture, and in showing that
  the triangles of each shape leave out no vertex of it. `ObjectsStayNear`, for any
  circle or rectangle, window, speeds and frame times: `StaysNear`. It is not inductive
  (an object two frames beyond a border could go on to a third): `Kept` adds that an
  object at a border is on its way out, so that the correction turns it inwards, and
  that one which is two frames beyond a border of the X axis is at none of the Y axis,
  whose corrections would otherwise take precedence once more.
* `SlotTableProofs`: the lemmas on `Create`, `Destroy`, `SetUsed`, `Resize` that
  the table's and World's proofs rest on.

Assumptions, all on constants:

* `BoundsAssumption`, `SampleAssumption`, `PointerAssumption`, `CountAssumption`,
  `SamplesAssumption`, `SizesAssumption`: naturals, integers, finite sets of handles,
  preallocation of at least one slot.
* `ProperAssumption`: rectangles handed to the tree have no negative size. A shape
  has none. The code turns the root boundary inside out in one case only, a frame
  without enabled colliders, in which nothing is inserted.
* `GeometryAssumption`: a circle has at least one segment (40 in the code), and the
  sizes of polygons are naturals.
* `WorldsAssumption` (`IsWorld`): in `Dynamics` the colliders are circles and
  rectangles, for the solver has no case for a polygon; masses are positive, and the
  dynamic bodies have the inverse of theirs, as `SetMass` leaves them; no force acts
  at first, and restitutions are between 0 and 1 (the samples use 0.75 and 1).
  `ScaleAssumption`, `NaNAssumption`: the unit of inverse masses is positive, and NaN
  is no number.
* `WindowAssumption`: objects are smaller than the margin in which they are made, speeds
  are symmetric and bounded, and the window is wider than two margins and the way of
  one frame.
* `PositionsAssumption`: colliders have one of the
  three shapes, and integer coordinates.

Only model-checked: `NoFalseContact` and `NoMissedContact` where a polygon takes part,
which is the theorem of the separating axis, in non-linear arithmetic over sequences
of any length; `StaysNear` for polygons, whose vertices are extents with signs; and
liveness under fairness (`DisabledReleased`, `TurnsRed`, `EventuallyApart`,
`FallenRemoved`, `ComesBack`), which, like ENABLED, is out of the prover's reach.

## 5. Findings

Shown by a run that TLC ends with a violation:

* `world_hasty`: destroying a collider that was in contact in the last frame makes
  the next `Update`, which is `noexcept`, end the program (`World.cpp:310`).
  `BouncingShapesSample` destroys colliders that way.

Met while modelling, kept in the models as the code has them, and excepted by
name in the properties or in the conditions of the careful clients:

* Two circles that come on one centre end the program: `Normalized` throws
  (`ContactSolver.cpp:36`, `Vec2.h:220`) out of `Update`, which is `noexcept`. It is
  the action `ResolveThrows` of `World` and of `Dynamics`, and `frames` reaches it.
* "Kinematic bodies [...] No physical collisions" (the repository's `README.md:19-21`);
  the code resolves their contacts like any other (`World.cpp:297`), so a dynamic body
  is stopped by a kinematic one and pushed off it. The properties of `Dynamics` about
  bounces and pushes leave contacts with kinematic bodies out.
* `SharedPtr` "is a naive implementation of the std::shared_ptr standard library
  class" (`SharedPtr.h:14`), but destroying or copying an empty or moved-from handle
  follows a null pointer (`SharedPtr.h:43`): the action `Undefined`, which `pointers`
  reaches and after which nothing is promised.
* `SharedCount` "gives the count of shared pointer pointing to the pointer inside"
  (`SharedPtr.h:97`), but an assignment does not let go of the object held before
  (`SharedPtr.h:59`), so the count is then one too many, for ever. Hence the
  condition of the careful client; what is left without it is `NeverDangling`
  (theorem `NothingDangles`).
* `DestroyBody`/`DestroyCollider` with a stale reference destroys the slot's next
  tenant (`World.cpp:584`); after `Init` with a count of 0 or less the first
  `Create…` doubles 0 and writes past the end (`World.cpp:574`); `CreateCollider`
  returns the reference of a collider that its owner merely disabled
  (`World.cpp:612`).
* A circle wholly inside a polygon does not intersect it (`Shape.h:338`), and a
  circle with a centre of its own is inserted in the quad-tree without it
  (`World.cpp:166`): `Overlooked` in `Detection`.
* A static body A exchanges the bodies but not the colliders
  (`ContactSolver.cpp:222`), so each restitution is weighted with the other's
  mass: `BounceIsOwn` leaves out static bodies.
* A body made static and dynamic again has no inverse mass (`Body.h:138`), and
  with a like body the impulse divides zero by zero (`ContactSolver.cpp:181`);
  a contact with a polygon has a zero normal and an uninitialised penetration
  (`ContactSolver.cpp:146`, `ContactSolver.h:30`). The worlds of `Dynamics` begin
  with none of these.
* A static body whose mass is set after its type has an inverse mass, and takes a
  part of the push without moving, so that its partner is not pushed out: `WellSet`
  leaves it out.
* The exit loop resolves a pair that has ceased to overlap once more
  (`World.cpp:331`), so bodies that approach each other again bounce at a distance.
* A circle whose centre is in a rectangle is pushed out by its radius only, not
  out of the rectangle: `Deep` in `Dynamics`.
* `BouncingShapesSample.cpp:223` erases from the vector the range-for is over:
  with several fallen shapes it visits destroyed references, and `GetCollider`
  throws out of a `noexcept` function.
* `HeapAllocator::Allocate` counts nothing (`Allocator.cpp:13`);
  `Timer::TotalTime` is the time since the last `Tick`, not since `Init`
  (`Timer.cpp:14`).

## 6. Abstractions

* In `World`, positions, shapes and the outcome of the overlap test:
  `BeginUpdate` takes any set of pairs of distinct enabled colliders, each pair in
  either order. This allows more frames than geometry does, and every property
  checked of World holds all the same. That the tree delivers each pair at most
  once is `FindsMeetingPairs`; that the narrow phase therefore has no doubles is
  assumed by `PossiblePairs`.
* Coordinates are integers: rectangles and shapes on a grid, where the tests of
  the code need no rounding. `Dynamics` counts lengths, restitutions and inverse
  masses in units, takes the steps in which every division is exact, and has only
  straight contacts: the normal of a circle's contact at an angle is irrational.
* The order of `newPairs` in a loop is arbitrary (`p \in todo`); the code's
  order is one of them.
* A reference is passed to `Get…` only if World handed it out since the last
  `Deinit`; forged references index out of bounds in the code and say nothing.
* Which shapes are below the screen in a frame is arbitrary in `BouncingShapes`;
  which pairs overlap is arbitrary in the samples.
* Left out: `Init` twice without `Deinit`; `Update`, `Init` or `Deinit` called
  from a callback (the vectors being iterated would change under the loop; the
  repository does neither); `Update` before `Init`; C++ references kept across a
  `Create…` that reallocates; allocation failure; `delete` of memory from
  `std::malloc` in `UniquePtr`; overflow of a generation after 2^64 destroys.

## 7. Not modelled, and why

* Tracy (`src/externals`), four fifths of the repository's lines: vendored
  instrumentation without effect on the engine.
* The SDL window and the drawing calls: input and output.
* The arithmetic of `Vec2`, `Vec3`, matrices, angles, random numbers and the
  SIMD types: no state; unit tests compare them value by value.
* `calculatePlanetMovements`: a formula; the force it ends in is one of
  `Dynamics`. `CollisionSample`'s set-up and colours; its motion is in `Window`,
  its claim of elastic collisions in `Dynamics`.
* `StandardAllocator` and `Deallocate`, which only forward; the hash and order of
  `ColliderPair`, which no container uses; friction, which nothing reads.

What would come next: the exactness of contacts with polygons, one test at a time as
for circles and rectangles, and the border of `Window` for the samples' triangle.
