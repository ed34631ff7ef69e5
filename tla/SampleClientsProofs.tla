------------------------- MODULE SampleClientsProofs -------------------------
(***************************************************************************)
(* The theorems about three of the samples as clients of World: first      *)
(* TriggerColliderSample alone, then it and PlanetSystemSample under       *)
(* SampleManager, and at last BouncingShapesSample.  For any number of     *)
(* game objects, planets and shapes and any growth of the tables: the      *)
(* first two keep the discipline WorldProofs asks of a client and have no  *)
(* contact to resolve, so nothing ends their World, they find their        *)
(* objects by the right index, and the counters of the trigger objects are *)
(* right.  The third erases from the vector it runs over, which leaves a   *)
(* list of exactly the colliders that remain.                              *)
(***************************************************************************)
EXTENDS SampleClients, BouncingShapes, WorldProofs, FiniteSetTheorems

ObjectRecords == [BodyRef : Refs, ColRef : Refs, CollisionNbr : Int]

\* Where onInit is, and what it holds in its hands.  Outside of "ready" no
\* Update is in progress.
Making ==
  /\ stage \in {"off", "started", "adding", "body", "collider", "ready"}
  /\ stage # "ready" => phase = "idle"
  /\ stage = "off" => status = "constructed" /\ gameObjects = <<>>
  /\ stage = "started" => gameObjects = <<>> /\ colliders.used = {}
  /\ stage = "body" => bodyMade \in Live(bodies)
  /\ stage = "collider" => /\ bodyMade \in Live(bodies)
                           /\ colliderMade \in Live(colliders)
                           /\ colliderMade.Index = Len(gameObjects)
                           /\ BodyOf(colliderMade) = bodyMade

\* How many colliders have been made.
Made == IF stage = "collider" THEN Len(gameObjects) + 1 ELSE Len(gameObjects)

\* The colliders fill the table from the front, one for each game object.
Filled ==
  /\ gameObjects \in Seq(ObjectRecords)
  /\ LiveUsed(colliders)
  /\ colliders.used = 0 .. Made - 1
  /\ \A n \in DOMAIN gameObjects :
       /\ gameObjects[n].ColRef \in Live(colliders)
       /\ gameObjects[n].ColRef.Index = n - 1
       /\ BodyOf(gameObjects[n].ColRef) = gameObjects[n].BodyRef

SampleIInv == IInv /\ Making /\ Filled

-----------------------------------------------------------------------------
(* Every step of the sample is a step of a careful client.                 *)

LEMMA StepIsCareful ==
  SampleIInv /\ [SampleNext]_<<vars, sampleVars>> => [CarefulNext]_vars
<1> SUFFICES ASSUME SampleIInv, [SampleNext]_<<vars, sampleVars>>
             PROVE  CarefulNext \/ UNCHANGED vars
  OBVIOUS
<1>1. CASE Start
  <2>1. PICK n \in InitCounts : InitWorld(n)
    BY <1>1 DEF Start
  <2>2. Preallocated(n) > 0
    BY SampleAssumption
  <2> QED
    BY <2>1, <2>2 DEF CarefulNext, CarefulCalls
<1>2. CASE Listen
  <2>1. phase = "idle" /\ SetContactListener(TRUE)
    BY <1>2 DEF Listen, SampleIInv, Making
  <2> QED
    BY <2>1 DEF CarefulNext, CarefulCalls
<1>3. CASE AddBody
  BY <1>3 DEF AddBody, CarefulNext, CarefulCalls
<1>4. CASE AddCollider
  <2>1. bodyMade \in Live(bodies) /\ LiveUsed(colliders) /\ CreateCollider(bodyMade)
    BY <1>4 DEF AddCollider, SampleIInv, Making, Filled
  <2> QED
    BY <2>1 DEF CarefulNext, CarefulCalls
<1>5. CASE AddObject
  <2>1. colliderMade \in Live(colliders) /\ SetIsTrigger(colliderMade, TRUE)
    BY <1>5 DEF AddObject, SampleIInv, Making
  <2> QED
    BY <2>1 DEF CarefulNext, CarefulCalls
<1>6. CASE Finish \/ UNCHANGED <<vars, sampleVars>>
  BY <1>6 DEF Finish
<1>7. CASE Step
  BY <1>7 DEF Step, CarefulNext
<1>8. CASE Stop
  BY <1>8 DEF Stop, CarefulNext, CarefulCalls
<1> QED
  BY <1>1, <1>2, <1>3, <1>4, <1>5, <1>6, <1>7, <1>8 DEF SampleNext

-----------------------------------------------------------------------------
(* The invariant of the sample.                                            *)

LEMMA SampleInitHolds == SampleInit => SampleIInv
<1> SUFFICES ASSUME SampleInit PROVE SampleIInv
  OBVIOUS
<1>1. IInv
  BY InitEstablishes DEF SampleInit
<1>2. stage = "off" /\ gameObjects = <<>> /\ phase = "idle" /\ status = "constructed"
  BY DEF SampleInit, Init
<1>3. LiveUsed(colliders) /\ colliders.used = {}
  BY EmptyTableFacts DEF SampleInit, Init
<1>4. Making
  BY <1>2, <1>3 DEF Making
<1>5. Filled
  BY <1>2, <1>3 DEF Filled, Made
<1> QED
  BY <1>1, <1>4, <1>5 DEF SampleIInv

\* A table filled from the front is filled on: the slot Create... takes is the
\* next one.
LEMMA NextSlot ==
  ASSUME NEW t, IsTable(t), NEW m \in Nat, t.used = 0 .. m - 1, t.size > 0
  PROVE  TargetSlot(t) = m
<1>1. t.size \in Nat /\ t.used \subseteq Slots(t.size) /\ Slots(t.size) = 0 .. t.size - 1
  BY DEF IsTable, Slots
<1>2. m <= t.size
  <2>1. CASE m = 0
    BY <1>1, <2>1
  <2>2. CASE m > 0
    BY <1>1, <2>2
  <2> QED
    BY <2>1, <2>2
<1>3. FreeSlots(t) = m .. t.size - 1
  BY <1>1, <1>2 DEF FreeSlots
<1>4. CASE IsFull(t)
  BY <1>1, <1>2, <1>3, <1>4 DEF IsFull, TargetSlot
<1>5. CASE ~IsFull(t)
  <2>1. m \in FreeSlots(t) /\ \A j \in FreeSlots(t) : m <= j
    BY <1>1, <1>2, <1>3, <1>5 DEF IsFull
  <2>2. \A i \in FreeSlots(t) : (\A j \in FreeSlots(t) : i <= j) => i = m
    BY <1>3, <2>1
  <2>3. FirstFree(t) = m
    BY <2>1, <2>2 DEF FirstFree
  <2> QED
    BY <1>5, <2>3 DEF TargetSlot
<1> QED
  BY <1>4, <1>5

\* A step that leaves the colliders alone leaves the game objects' in place.
LEMMA FilledUnchanged ==
  ASSUME Filled, UNCHANGED <<colliders, bodyRef>>, Made' = Made,
         gameObjects' \in Seq(ObjectRecords), Len(gameObjects') = Len(gameObjects),
         \A n \in DOMAIN gameObjects :
           /\ gameObjects'[n].ColRef = gameObjects[n].ColRef
           /\ gameObjects'[n].BodyRef = gameObjects[n].BodyRef
  PROVE  Filled'
<1>1. DOMAIN gameObjects' = DOMAIN gameObjects
  BY DEF Filled
<1> QED
  BY <1>1 DEF Filled, BodyOf

LEMMA AddColliderHolds ==
  ASSUME SampleIInv, IInv', AddCollider
  PROVE  Making' /\ Filled'
<1> DEFINE r == NewRef(colliders)
<1>1. /\ status = "running" /\ phase = "idle"
      /\ stage = "body" /\ stage' = "collider" /\ bodyMade \in Live(bodies)
      /\ CreateCollider(bodyMade) /\ colliderMade' = r
      /\ UNCHANGED <<bodyMade, gameObjects>>
  BY DEF AddCollider, CreateCollider, MayCall, SampleIInv, Making
<1>2. /\ colliders' = Create(colliders)
      /\ bodyRef' = [ResizedTo(bodyRef, colliders'.size, Ref(0, 0))
                       EXCEPT ![TargetSlot(colliders)] = bodyMade]
      /\ UNCHANGED <<bodies, triggers, listener, updateVars>>
  BY <1>1, TablesRunning DEF CreateCollider, SampleIInv
<1>3. /\ gameObjects \in Seq(ObjectRecords) /\ Len(gameObjects) \in Nat
      /\ LiveUsed(colliders) /\ colliders.used = 0 .. Len(gameObjects) - 1
  BY <1>1 DEF SampleIInv, Filled, Made
<1>4. /\ IsTable(colliders) /\ Consistent(colliders) /\ CanCreate(colliders)
      /\ colliders.size > 0 /\ bodyRef \in [Slots(colliders.size) -> Refs]
  BY <1>1, TablesRunning DEF SampleIInv
<1>5. TargetSlot(colliders) = Len(gameObjects) /\ r.Index = Len(gameObjects)
  BY <1>3, <1>4, NextSlot DEF NewRef, Ref
<1>6. /\ colliders'.used = colliders.used \union {Len(gameObjects)}
      /\ r.Index \in Slots(colliders'.size) /\ IsTable(colliders')
      /\ colliders.size <= colliders'.size
  BY <1>2, <1>4, <1>5, CreateTable
<1>7. LiveUsed(colliders') /\ Live(colliders') = Live(colliders) \union {r}
  BY <1>2, <1>3, <1>4, CreateConsistent
<1>8. /\ colliders.size \in Nat /\ colliders'.size \in Nat
      /\ Slots(colliders.size) = 0 .. colliders.size - 1
      /\ Slots(colliders'.size) = 0 .. colliders'.size - 1
  BY <1>4, <1>6 DEF IsTable, Slots
<1>9. bodyRef'[Len(gameObjects)] = bodyMade
  BY <1>2, <1>4, <1>5, <1>6 DEF ResizedTo
<1>10. ASSUME NEW i \in 0 .. Len(gameObjects) - 1
       PROVE  bodyRef'[i] = bodyRef[i]
  <2>0. colliders.used \subseteq Slots(colliders.size)
    BY <1>4 DEF IsTable
  <2>1. /\ i \in Slots(colliders.size) /\ i \in DOMAIN bodyRef
        /\ i \in Slots(colliders'.size) /\ i # Len(gameObjects)
    <3>1. i \in Slots(colliders.size) /\ i # Len(gameObjects)
      BY <1>3, <2>0
    <3>2. i \in Slots(colliders'.size)
      BY <1>6, <1>8, <3>1
    <3> QED
      BY <1>4, <3>1, <3>2
  <2> QED
    BY <1>2, <1>5, <2>1 DEF ResizedTo
<1>11. Making'
  BY <1>1, <1>2, <1>5, <1>7, <1>9 DEF Making, BodyOf, updateVars
<1>12. Filled'
  <2>1. ASSUME NEW n \in DOMAIN gameObjects
        PROVE  /\ gameObjects[n].ColRef \in Live(colliders')
               /\ gameObjects[n].ColRef.Index = n - 1
               /\ bodyRef'[gameObjects[n].ColRef.Index] = gameObjects[n].BodyRef
    <3>1. /\ gameObjects[n].ColRef \in Live(colliders)
          /\ gameObjects[n].ColRef.Index = n - 1 /\ n \in 1 .. Len(gameObjects)
          /\ bodyRef[gameObjects[n].ColRef.Index] = gameObjects[n].BodyRef
      BY <1>3 DEF SampleIInv, Filled, BodyOf
    <3>2. n - 1 \in 0 .. Len(gameObjects) - 1
      BY <1>3, <3>1
    <3> QED
      BY <1>7, <1>10, <3>1, <3>2
  <2>2. colliders'.used = 0 .. Made' - 1
    BY <1>1, <1>3, <1>6 DEF Made
  <2> QED
    BY <1>1, <1>3, <1>7, <2>1, <2>2 DEF Filled, BodyOf
<1> QED
  BY <1>11, <1>12

\* The other calls onInit makes leave the colliders alone.
LEMMA CallHolds ==
  ASSUME SampleIInv, IInv', Start \/ Listen \/ AddBody \/ AddObject \/ Finish
  PROVE  Making' /\ Filled'
<1>0. /\ gameObjects \in Seq(ObjectRecords) /\ Len(gameObjects) \in Nat
      /\ DOMAIN gameObjects = 1 .. Len(gameObjects)
  BY DEF SampleIInv, Filled
<1>1. CASE Start
  <2>1. PICK n \in InitCounts : InitWorld(n)
    BY <1>1 DEF Start
  <2>2. /\ stage = "off" /\ stage' = "started" /\ gameObjects = <<>> /\ phase = "idle"
        /\ UNCHANGED <<bodyMade, colliderMade, gameObjects>> /\ status = "constructed"
    BY <1>1 DEF Start, SampleIInv, Making
  <2>3. colliders' = Resize(EmptyTable, Preallocated(n)) /\ phase' = "idle"
        /\ Preallocated(n) \in Nat
    BY <2>1, <2>2, SampleAssumption, BoundsAssumption
    DEF InitWorld, updateVars, SampleIInv, IInv, Lifecycle, Preallocated
  <2>4. LiveUsed(colliders') /\ colliders'.used = {}
    BY <2>3, PreallocateConsistent
  <2>5. Making'
    BY <2>2, <2>3, <2>4 DEF Making
  <2>6. Filled'
    BY <2>2, <2>4 DEF Filled, Made
  <2> QED
    BY <2>5, <2>6
<1>2. CASE Listen
  <2>1. /\ stage = "started" /\ stage' = "adding" /\ phase' = phase /\ phase = "idle"
        /\ UNCHANGED <<bodyMade, colliderMade, gameObjects, colliders, bodyRef>>
    BY <1>2 DEF Listen, SetContactListener, tableVars, updateVars, SampleIInv, Making
  <2>2. Made' = Made
    BY <2>1 DEF Made
  <2>3. Filled'
    BY <1>0, <2>1, <2>2, FilledUnchanged DEF SampleIInv
  <2> QED
    BY <2>1, <2>3 DEF Making
<1>3. CASE AddBody
  <2>1. /\ stage = "adding" /\ stage' = "body" /\ phase' = phase /\ phase = "idle"
        /\ UNCHANGED <<colliderMade, gameObjects, colliders, bodyRef>>
        /\ bodyMade' = NewRef(bodies) /\ CreateBody /\ status = "running"
    BY <1>3 DEF AddBody, CreateBody, MayCall, updateVars, SampleIInv, Making
  <2>2. bodies' = Create(bodies)
    BY <2>1, TablesRunning DEF CreateBody, SampleIInv
  <2>3. bodyMade' \in Live(bodies')
    BY <2>1, <2>2, TablesRunning, CreateConsistent DEF SampleIInv
  <2>4. Made' = Made
    BY <2>1 DEF Made
  <2>5. Filled'
    BY <1>0, <2>1, <2>4, FilledUnchanged DEF SampleIInv
  <2> QED
    BY <2>1, <2>3, <2>5 DEF Making
<1>4. CASE AddObject
  <2> DEFINE o == GameObject(bodyMade, colliderMade, 0)
  <2>1. /\ stage = "collider" /\ stage' = "adding" /\ phase' = phase /\ phase = "idle"
        /\ UNCHANGED <<bodyMade, colliderMade, colliders, bodyRef, bodies>>
        /\ gameObjects' = Append(gameObjects, o) /\ status = "running"
    BY <1>4 DEF AddObject, SetIsTrigger, MayCall, updateVars, SampleIInv, Making
  <2>2. /\ bodyMade \in Live(bodies) /\ colliderMade \in Live(colliders)
        /\ colliderMade.Index = Len(gameObjects) /\ BodyOf(colliderMade) = bodyMade
    BY <2>1 DEF SampleIInv, Making
  <2>3. o \in ObjectRecords
    BY <2>1, <2>2, TablesRunning, RefsOfTable DEF ObjectRecords, GameObject, SampleIInv
  <2>4. /\ gameObjects' \in Seq(ObjectRecords) /\ Len(gameObjects') = Len(gameObjects) + 1
        /\ \A n \in 1 .. Len(gameObjects) : gameObjects'[n] = gameObjects[n]
        /\ gameObjects'[Len(gameObjects) + 1] = o
    BY <1>0, <2>1, <2>3
  <2>5. Made' = Made
    BY <2>1, <2>4 DEF Made
  <2>6. ASSUME NEW n \in DOMAIN gameObjects'
        PROVE  /\ gameObjects'[n].ColRef \in Live(colliders)
               /\ gameObjects'[n].ColRef.Index = n - 1
               /\ bodyRef[gameObjects'[n].ColRef.Index] = gameObjects'[n].BodyRef
    <3>1. n \in 1 .. Len(gameObjects) + 1
      BY <2>4
    <3>2. CASE n = Len(gameObjects) + 1
      BY <1>0, <2>2, <2>4, <3>2 DEF GameObject, BodyOf
    <3>3. CASE n \in 1 .. Len(gameObjects)
      BY <1>0, <2>4, <3>3 DEF SampleIInv, Filled, BodyOf
    <3> QED
      BY <1>0, <3>1, <3>2, <3>3
  <2>7. Filled'
    BY <2>1, <2>4, <2>5, <2>6 DEF SampleIInv, Filled, BodyOf
  <2> QED
    BY <2>1, <2>7 DEF Making
<1>5. CASE Finish
  <2>1. /\ stage = "adding" /\ stage' = "ready"
        /\ UNCHANGED <<colliders, bodyRef, gameObjects>>
    BY <1>5 DEF Finish, vars, tableVars
  <2>2. Made' = Made
    BY <2>1 DEF Made
  <2>3. Filled'
    BY <1>0, <2>1, <2>2, FilledUnchanged DEF SampleIInv
  <2> QED
    BY <2>1, <2>3 DEF Making
<1> QED
  BY <1>1, <1>2, <1>3, <1>4, <1>5

LEMMA CountedKeeps ==
  ASSUME NEW objects \in Seq(ObjectRecords), NEW told
  PROVE  /\ Counted(objects, told) \in Seq(ObjectRecords)
         /\ Len(Counted(objects, told)) = Len(objects)
         /\ \A n \in DOMAIN objects :
              /\ Counted(objects, told)[n].ColRef = objects[n].ColRef
              /\ Counted(objects, told)[n].BodyRef = objects[n].BodyRef
<1>1. Change(told) \in Int
  BY DEF Change
<1>2. DOMAIN objects = 1 .. Len(objects) /\ Len(objects) \in Nat
  OBVIOUS
<1>3. ASSUME NEW n \in DOMAIN objects
      PROVE  /\ Counted(objects, told)[n] \in ObjectRecords
             /\ Counted(objects, told)[n].ColRef = objects[n].ColRef
             /\ Counted(objects, told)[n].BodyRef = objects[n].BodyRef
  <2>1. objects[n] \in ObjectRecords
    OBVIOUS
  <2>2. Counted(objects, told)[n]
          \in {objects[n], [objects[n] EXCEPT !.CollisionNbr = @ + Change(told)]}
    BY DEF Counted
  <2> QED
    BY <1>1, <2>1, <2>2 DEF ObjectRecords
<1>4. DOMAIN Counted(objects, told) = 1 .. Len(objects)
  BY <1>2 DEF Counted
<1>5. Counted(objects, told) \in [1 .. Len(objects) -> ObjectRecords]
  BY <1>2, <1>3, <1>4 DEF Counted
<1> QED
  BY <1>2, <1>3, <1>4, <1>5

\* An Update touches no collider, and its callbacks only counts.
LEMMA StepHolds ==
  ASSUME SampleIInv, Step
  PROVE  Making' /\ Filled'
<1>1. /\ stage = "ready" /\ stage' = "ready" /\ UpdateStep
      /\ UNCHANGED <<bodyMade, colliderMade>>
      /\ gameObjects' = IF event' # event /\ event' # NoEvent
                        THEN Counted(gameObjects, event') ELSE gameObjects
  BY DEF Step
<1>2. UNCHANGED <<colliders, bodyRef>>
  BY <1>1 DEF UpdateStep, BeginUpdate, BeginUpdateThrows, EnterLoopStep, ExitLoopStep,
       LoopStepThrows, ResolveThrows, BeginExitLoop, EndUpdate, Terminate, tableVars
<1>3. gameObjects \in Seq(ObjectRecords)
  BY DEF SampleIInv, Filled
<1>4. /\ gameObjects' \in Seq(ObjectRecords) /\ Len(gameObjects') = Len(gameObjects)
      /\ \A n \in DOMAIN gameObjects :
           /\ gameObjects'[n].ColRef = gameObjects[n].ColRef
           /\ gameObjects'[n].BodyRef = gameObjects[n].BodyRef
  BY <1>1, <1>3, CountedKeeps
<1>5. Made' = Made
  BY <1>1, <1>4 DEF Made
<1>6. Filled'
  BY <1>2, <1>4, <1>5, FilledUnchanged DEF SampleIInv
<1> QED
  BY <1>1, <1>6 DEF Making

LEMMA StopHolds ==
  ASSUME SampleIInv, Stop
  PROVE  Making' /\ Filled'
<1>1. /\ stage' = "off" /\ gameObjects' = <<>>
      /\ colliders' = EmptyTable /\ status' = "constructed" /\ phase' = "idle"
  BY DEF Stop, DeinitWorld
<1>2. LiveUsed(colliders') /\ colliders'.used = {}
  BY <1>1, EmptyTableFacts
<1>3. Making'
  BY <1>1 DEF Making
<1>4. Filled'
  BY <1>1, <1>2 DEF Filled, Made
<1> QED
  BY <1>3, <1>4

LEMMA SampleStepHolds ==
  SampleIInv /\ [SampleNext]_<<vars, sampleVars>> => SampleIInv'
<1> SUFFICES ASSUME SampleIInv, [SampleNext]_<<vars, sampleVars>>
             PROVE  SampleIInv'
  OBVIOUS
<1>1. IInv'
  BY StepIsCareful, StepPreserves DEF SampleIInv
<1>2. CASE Start \/ Listen \/ AddBody \/ AddObject \/ Finish
  BY <1>1, <1>2, CallHolds DEF SampleIInv
<1>3. CASE AddCollider
  BY <1>1, <1>3, AddColliderHolds DEF SampleIInv
<1>4. CASE Step
  BY <1>1, <1>4, StepHolds DEF SampleIInv
<1>5. CASE Stop
  BY <1>1, <1>5, StopHolds DEF SampleIInv
<1>6. CASE UNCHANGED <<vars, sampleVars>>
  <2>1. UNCHANGED <<stage, bodyMade, colliderMade, gameObjects, status, phase, bodies,
                    colliders, bodyRef>>
    BY <1>6 DEF vars, tableVars, updateVars, sampleVars
  <2> QED
    BY <1>1, <2>1 DEF SampleIInv, Making, Filled, Made, BodyOf
<1> QED
  BY <1>2, <1>3, <1>4, <1>5, <1>6 DEF SampleNext

-----------------------------------------------------------------------------
\* TriggerColliderSample is a careful client of World.
THEOREM SampleIsCareful == SampleSpec => IsCarefulClient
<1>1. SampleInit => Init
  BY DEF SampleInit
<1> QED
  BY <1>1, SampleInitHolds, SampleStepHolds, StepIsCareful, PTL
  DEF SampleSpec, IsCarefulClient, CarefulSpec

\* What it holds of its objects is what its callbacks rely on.
LEMMA FilledIsAligned == SampleIInv => IndicesAligned
<1> SUFFICES ASSUME SampleIInv, NEW n \in DOMAIN gameObjects
             PROVE  LET c == gameObjects[n].ColRef IN
                    /\ c.Index = n - 1 /\ c.Index \in Slots(colliders.size)
                    /\ Valid(colliders, c)
                    /\ BodyOf(c) = gameObjects[n].BodyRef
  BY DEF IndicesAligned
<1>1. /\ gameObjects[n].ColRef \in Live(colliders)
      /\ gameObjects[n].ColRef.Index = n - 1
      /\ BodyOf(gameObjects[n].ColRef) = gameObjects[n].BodyRef
  BY DEF SampleIInv, Filled
<1>2. IsTable(colliders) /\ Consistent(colliders)
  BY DEF SampleIInv, IInv, TypeOK, TablesInv
<1> QED
  BY <1>1, <1>2, RefsOfTable, LiveIsValid

\* Its callbacks find the game objects of the colliders they are told of.
THEOREM SampleIndicesAligned == SampleSpec => []IndicesAligned
  BY FilledIsAligned, SampleInitHolds, SampleStepHolds, PTL DEF SampleSpec

-----------------------------------------------------------------------------
(* The counters.  What the sample counts is what the listener is told, and *)
(* ContactProtocol says what that is.                                      *)

ContactsOf(ref) == {pair \in KnownContacts : ref \in pair}

AllTriggers == \A n \in DOMAIN gameObjects : n - 1 \in triggers

\* A callback is not made twice in succession: what it told is known.
ToldOnce ==
  \A pair : /\ ToldContact = <<"Enter", pair>> => pair \in KnownContacts
            /\ ToldContact = <<"Exit", pair>> => pair \notin KnownContacts

\* Before onInit has returned no Update was called.
QuietBefore == stage # "ready" => Remembered = {}

CountInv ==
  /\ SampleIInv /\ AnyInv
  /\ AllTriggers /\ ToldOnce /\ QuietBefore
  /\ IsFiniteSet(KnownContacts) /\ CounterExact

LEMMA NothingKnown ==
  ASSUME SampleIInv, Remembered = {}, stage # "ready" PROVE KnownContacts = {}
<1>1. phase = "idle" /\ colliderPairs = {}
  BY DEF SampleIInv, Making, Remembered
<1> QED
  BY <1>1, UnorderedUnion DEF KnownContacts

LEMMA ContactsGrow ==
  ASSUME NEW K, IsFiniteSet(K), NEW x, NEW r, x \notin K,
         NEW A, \A y : y \in A <=> y \in K /\ r \in y,
         NEW B, \A y : y \in B <=> y \in K \union {x} /\ r \in y
  PROVE  Cardinality(B) = Cardinality(A) + (IF r \in x THEN 1 ELSE 0)
<1>1. IsFiniteSet(A) /\ Cardinality(A) \in Nat
  BY FS_Subset, FS_CardinalityType
<1>2. CASE r \in x
  <2>1. B = A \union {x} /\ x \notin A
    BY <1>2
  <2> QED
    BY <1>1, <1>2, <2>1, FS_AddElement
<1>3. CASE r \notin x
  <2>1. B = A
    BY <1>3
  <2> QED
    BY <1>1, <1>3, <2>1
<1> QED
  BY <1>2, <1>3

LEMMA ContactsShrink ==
  ASSUME NEW K, IsFiniteSet(K), NEW x \in K, NEW r,
         NEW A, \A y : y \in A <=> y \in K /\ r \in y,
         NEW B, \A y : y \in B <=> y \in K \ {x} /\ r \in y
  PROVE  Cardinality(B) = Cardinality(A) - (IF r \in x THEN 1 ELSE 0)
<1>1. IsFiniteSet(A) /\ Cardinality(A) \in Nat
  BY FS_Subset, FS_CardinalityType
<1>2. CASE r \in x
  <2>1. B = A \ {x} /\ x \in A
    BY <1>2
  <2> QED
    BY <1>1, <1>2, <2>1, FS_RemoveElement
<1>3. CASE r \notin x
  <2>1. B = A
    BY <1>3
  <2> QED
    BY <1>1, <1>3, <2>1
<1> QED
  BY <1>2, <1>3

\* The colliders of a remembered pair are those of two game objects, and both
\* are triggers.
LEMMA PairOfObjects ==
  ASSUME CountInv, stage = "ready", NEW p \in Remembered
  PROVE  /\ Triggered(p)
         /\ \A n \in DOMAIN gameObjects :
              gameObjects[n].ColRef \in Both(p) <=> \E c \in Both(p) : c.Index + 1 = n
<1>1. Both(p) \subseteq Live(colliders)
  BY DEF CountInv, SampleIInv, IInv, PairsLive
<1>2. /\ IsTable(colliders) /\ Consistent(colliders)
      /\ \A r, q \in Live(colliders) : r.Index = q.Index => r = q
      /\ \A r \in Live(colliders) : r.Index \in Nat
  BY RefsOfTable DEF CountInv, SampleIInv, IInv, TypeOK, TablesInv, Refs
<1>3. /\ colliders.used = 0 .. Len(gameObjects) - 1
      /\ gameObjects \in Seq(ObjectRecords)
      /\ \A n \in DOMAIN gameObjects :
           gameObjects[n].ColRef \in Live(colliders) /\ gameObjects[n].ColRef.Index = n - 1
      /\ LiveUsed(colliders)
  BY DEF CountInv, SampleIInv, Filled, Made
<1>4. DOMAIN gameObjects = 1 .. Len(gameObjects) /\ Len(gameObjects) \in Nat
  BY <1>3
<1>5. \A c \in Both(p) : c.Index \in 0 .. Len(gameObjects) - 1
  BY <1>1, <1>3 DEF LiveUsed
<1>6. ColliderA(p) \in Both(p)
  BY DEF Both
<1>7. ColliderA(p).Index \in triggers
  <2>1. ColliderA(p).Index + 1 \in DOMAIN gameObjects
    BY <1>4, <1>5, <1>6
  <2>2. (ColliderA(p).Index + 1) - 1 \in triggers
    BY <2>1 DEF CountInv, AllTriggers
  <2> QED
    BY <1>4, <1>5, <1>6, <2>2
<1>8. ASSUME NEW n \in DOMAIN gameObjects
      PROVE  gameObjects[n].ColRef \in Both(p) <=> \E c \in Both(p) : c.Index + 1 = n
  <2>1. n \in Int /\ (n - 1) + 1 = n
    BY <1>4
  <2>2. \A c \in Both(p) : c.Index \in Nat /\ c \in Live(colliders)
    BY <1>1, <1>2
  <2>3. \A c \in Both(p) : c.Index + 1 = n => c.Index = n - 1
    BY <2>1, <2>2
  <2> QED
    BY <1>2, <1>3, <2>1, <2>2, <2>3
<1> QED
  BY <1>6, <1>7, <1>8 DEF Triggered

\* So no contact is ever resolved.
LEMMA TriggersResolveNothing ==
  ASSUME CountInv, NEW p \in todo PROVE Triggered(p)
<1>1. p \in Remembered
  BY TodoIsRemembered DEF CountInv, SampleIInv
<1>2. stage = "ready"
  BY DEF CountInv, SampleIInv, Making, IInv, TypeOK
<1> QED
  BY <1>1, <1>2, PairOfObjects

\* Where no contact is resolved, a careful client's steps end nothing.
LEMMA NothingUnresolved ==
  ASSUME IInv', [CarefulNext]_vars, NeverFails, \A p \in todo : Triggered(p)
  PROVE  NeverFails'
<1>1. NeverAstray'
  BY DEF IInv
<1>2. \A p \in todo : ~ResolveThrows(p)
  BY DEF ResolveThrows
<1>3. CASE UpdateStep
  BY <1>1, <1>2, <1>3
  DEF UpdateStep, BeginUpdate, BeginUpdateThrows, EnterLoopStep, ExitLoopStep, Notify,
      PassOver, LoopStepThrows, Terminate, BeginExitLoop, EndUpdate, NeverFails, NeverAstray
<1>4. CASE CarefulCalls
  BY <1>1, <1>4
  DEF CarefulCalls, InitWorld, DeinitWorld, SetContactListener, CreateBody, DestroyBody,
      CreateCollider, DestroyCollider, SetEnabled, SetIsTrigger, SetBodyRef, NeverFails,
      NeverAstray
<1>5. CASE UNCHANGED vars
  BY <1>5 DEF vars, NeverFails
<1> QED
  BY <1>3, <1>4, <1>5 DEF CarefulNext

\* Counting a callback for both of its objects adds to a count what the
\* callback adds to the contacts.
LEMMA CountingFollows ==
  ASSUME CountInv, stage = "ready", NEW p \in Remembered, NEW told, told[2] = p,
         gameObjects' = Counted(gameObjects, told),
         \/ /\ Change(told) = 1 /\ Both(p) \notin KnownContacts
            /\ KnownContacts' = KnownContacts \union {Both(p)}
         \/ /\ Change(told) = -1 /\ Both(p) \in KnownContacts
            /\ KnownContacts' = KnownContacts \ {Both(p)}
         \/ Change(told) = 0 /\ UNCHANGED KnownContacts
  PROVE  CounterExact' /\ IsFiniteSet(KnownContacts')
<1>1. IsFiniteSet(KnownContacts) /\ gameObjects \in Seq(ObjectRecords)
  BY DEF CountInv, SampleIInv, Filled
<1>2. IsFiniteSet(KnownContacts')
  BY <1>1, FS_AddElement, FS_RemoveElement
<1>3. DOMAIN gameObjects' = DOMAIN gameObjects
  BY DEF Counted
<1>4. ASSUME NEW n \in DOMAIN gameObjects
      PROVE  gameObjects'[n].CollisionNbr =
               Cardinality({pair \in KnownContacts' : gameObjects'[n].ColRef \in pair})
  <2> DEFINE r == gameObjects[n].ColRef
             d == IF r \in Both(p) THEN Change(told) ELSE 0
             old == {pair \in KnownContacts : r \in pair}
             new == {pair \in KnownContacts' : r \in pair}
  <2>1. gameObjects[n] \in ObjectRecords
    BY <1>1
  <2>2. gameObjects'[n] = IF r \in Both(p)
                          THEN [gameObjects[n] EXCEPT !.CollisionNbr = @ + Change(told)]
                          ELSE gameObjects[n]
    BY PairOfObjects DEF Counted
  <2>3. gameObjects'[n].ColRef = r
    BY <2>1, <2>2 DEF ObjectRecords
  <2>4. gameObjects[n].CollisionNbr \in Int
    BY <2>1 DEF ObjectRecords
  <2>5. gameObjects'[n].CollisionNbr = gameObjects[n].CollisionNbr + d
    BY <2>1, <2>2, <2>4 DEF ObjectRecords
  <2>6. gameObjects[n].CollisionNbr = Cardinality(old)
    BY DEF CountInv, CounterExact
  <2>7. Cardinality(new) = Cardinality(old) + d
    <3>1. /\ \A y : y \in old <=> y \in KnownContacts /\ r \in y
          /\ \A y : y \in new <=> y \in KnownContacts' /\ r \in y
      OBVIOUS
    <3> HIDE DEF old, new
    <3>2. CASE /\ Change(told) = 1 /\ Both(p) \notin KnownContacts
               /\ KnownContacts' = KnownContacts \union {Both(p)}
      <4>1. Cardinality(new) = Cardinality(old) + (IF r \in Both(p) THEN 1 ELSE 0)
        BY <1>1, <3>1, <3>2, ContactsGrow
      <4> QED
        BY <3>2, <4>1
    <3>3. CASE /\ Change(told) = -1 /\ Both(p) \in KnownContacts
               /\ KnownContacts' = KnownContacts \ {Both(p)}
      <4>1. Cardinality(new) = Cardinality(old) - (IF r \in Both(p) THEN 1 ELSE 0)
        BY <1>1, <3>1, <3>3, ContactsShrink
      <4>2. Cardinality(old) \in Int
        BY <2>4, <2>6
      <4> QED
        BY <3>3, <4>1, <4>2
    <3>4. CASE Change(told) = 0 /\ UNCHANGED KnownContacts
      <4>1. new = old
        BY <3>1, <3>4
      <4>2. d = 0 /\ Cardinality(old) \in Int
        BY <2>4, <2>6, <3>4
      <4> QED
        BY <4>1, <4>2
    <3> QED
      BY <3>2, <3>3, <3>4
  <2> QED
    BY <2>3, <2>5, <2>6, <2>7
<1> QED
  BY <1>2, <1>3, <1>4 DEF CounterExact

\* A callback is made, for a trigger, and the listener's knowledge changes
\* with it.
LEMMA EnterCallback ==
  ASSUME CountInv, stage = "ready", NEW p \in todo, EnterLoopStep(p)
  PROVE  /\ event' # NoEvent /\ event'[2] = p
         /\ \/ event'[1] = "OnTriggerEnter" /\ Protocol!Enter(Both(p))
            \/ event'[1] = "OnTriggerStay" /\ Protocol!Stay(Both(p))
<1>1. p \in Remembered
  BY TodoIsRemembered DEF CountInv, SampleIInv
<1>2. phase = "enter" /\ listener /\ Triggered(p)
  BY <1>1, PairOfObjects DEF EnterLoopStep, CountInv, SampleIInv, IInv, Lifecycle
<1>3. /\ event' = <<"OnTriggerEnter", p>> \/ event' = <<"OnTriggerStay", p>>
      /\ todo' = todo \ {p}
  BY <1>2 DEF EnterLoopStep, Notify
<1>4. event' # NoEvent /\ event'[2] = p /\ event'[1] \in {"OnTriggerEnter", "OnTriggerStay"}
  BY <1>3 DEF NoEvent
<1>5. ToldContact' = <<KindOf(event'[1]), Both(p)>>
  BY <1>4 DEF ToldContact, KindOf, Both, ColliderA, ColliderB
<1>6. ~UNCHANGED updateVars
  BY <1>3 DEF updateVars
<1>7. Protocol!Enter(Both(p)) \/ Protocol!Stay(Both(p))
  BY <1>6, EnterLoopStepTells DEF CountInv
<1>8. CASE event'[1] = "OnTriggerEnter"
  <2>1. ToldContact' = <<"Enter", Both(p)>>
    BY <1>5, <1>8 DEF KindOf
  <2>2. ~Protocol!Stay(Both(p))
    BY <2>1 DEF Protocol!Stay
  <2> QED
    BY <1>4, <1>7, <1>8, <2>2
<1>9. CASE event'[1] = "OnTriggerStay"
  <2>1. event'[1] \notin {"OnTriggerEnter", "OnCollisionEnter"}
    BY <1>9
  <2>2. KindOf(event'[1]) = "Stay"
    BY <1>9, <2>1 DEF KindOf
  <2>3. ToldContact' = <<"Stay", Both(p)>>
    BY <1>5, <2>2
  <2>4. ~Protocol!Enter(Both(p))
    BY <2>3 DEF Protocol!Enter
  <2> QED
    BY <1>4, <1>7, <1>9, <2>4
<1> QED
  BY <1>4, <1>8, <1>9

LEMMA ExitCallback ==
  ASSUME CountInv, stage = "ready", NEW p \in todo, ExitLoopStep(p)
  PROVE  \/ /\ event' # NoEvent /\ event'[2] = p
            /\ event'[1] = "OnTriggerExit" /\ Protocol!Exit(Both(p))
         \/ event' = NoEvent /\ Protocol!Return
<1>1. p \in Remembered
  BY TodoIsRemembered DEF CountInv, SampleIInv
<1>2. phase = "exit" /\ listener /\ Triggered(p)
  BY <1>1, PairOfObjects DEF ExitLoopStep, CountInv, SampleIInv, IInv, Lifecycle
<1>3. /\ event' = <<"OnTriggerExit", p>> \/ event' = NoEvent
      /\ todo' = todo \ {p}
  BY <1>2 DEF ExitLoopStep, Notify, PassOver
<1>4. ~UNCHANGED updateVars
  BY <1>3 DEF updateVars
<1>5. Protocol!Exit(Both(p)) \/ Protocol!Return
  BY <1>4, ExitLoopStepTells DEF CountInv
<1>6. CASE event' = <<"OnTriggerExit", p>>
  <2>1. event' # NoEvent /\ event'[2] = p /\ event'[1] = "OnTriggerExit"
    BY <1>6 DEF NoEvent
  <2>2. ToldContact' = <<KindOf(event'[1]), Both(p)>>
    BY <2>1 DEF ToldContact, KindOf, Both, ColliderA, ColliderB
  <2>3. ~Protocol!Return
    BY <2>2 DEF Protocol!Return
  <2> QED
    BY <1>5, <2>1, <2>3
<1>7. CASE event' = NoEvent
  <2>1. ToldContact' = <<>>
    BY <1>7 DEF ToldContact
  <2>2. ~Protocol!Exit(Both(p))
    BY <2>1 DEF Protocol!Exit
  <2> QED
    BY <1>5, <1>7, <2>2
<1> QED
  BY <1>3, <1>6, <1>7

\* A callback that is made tells something new, so the sample sees it.
LEMMA CallbackIsNew ==
  ASSUME CountInv, NEW p, event' # NoEvent, event'[2] = p,
         \/ event'[1] = "OnTriggerEnter" /\ Both(p) \notin KnownContacts
         \/ event'[1] = "OnTriggerExit" /\ Both(p) \in KnownContacts
  PROVE  event' # event
<1> SUFFICES ASSUME event' = event PROVE FALSE
  OBVIOUS
<1>1. ToldContact = <<KindOf(event'[1]), Both(p)>>
  BY DEF ToldContact
<1>2. CASE event'[1] = "OnTriggerEnter" /\ Both(p) \notin KnownContacts
  <2>1. KindOf(event'[1]) = "Enter"
    BY <1>2 DEF KindOf
  <2> QED
    BY <1>1, <1>2, <2>1 DEF CountInv, ToldOnce
<1>3. CASE event'[1] = "OnTriggerExit" /\ Both(p) \in KnownContacts
  <2>1. event'[1] \notin {"OnTriggerEnter", "OnCollisionEnter"} /\ event'[1] # "OnTriggerStay"
    BY <1>3
  <2>2. KindOf(event'[1]) = "Exit"
    BY <2>1 DEF KindOf
  <2> QED
    BY <1>1, <1>3, <2>2 DEF CountInv, ToldOnce
<1> QED
  BY <1>2, <1>3

LEMMA ToldOnceKept ==
  ASSUME ToldOnce, [Protocol!Next]_Protocol!vars PROVE ToldOnce'
<1>1. CASE \E x \in Unordered(ProperPairs) : Protocol!Enter(x)
  <2>1. PICK x : Protocol!Enter(x)
    BY <1>1
  <2>2. ToldContact' = <<"Enter", x>> /\ x \in KnownContacts'
    BY <2>1 DEF Protocol!Enter
  <2> QED
    BY <2>2 DEF ToldOnce
<1>2. CASE \E x \in Unordered(ProperPairs) : Protocol!Exit(x)
  <2>1. PICK x : Protocol!Exit(x)
    BY <1>2
  <2>2. ToldContact' = <<"Exit", x>> /\ x \notin KnownContacts'
    BY <2>1 DEF Protocol!Exit
  <2> QED
    BY <2>2 DEF ToldOnce
<1>3. CASE \E x \in Unordered(ProperPairs) : Protocol!Stay(x)
  <2>1. PICK x : ToldContact' \in {<<"Stay", x>>, <<>>}
    BY <1>3 DEF Protocol!Stay
  <2> QED
    BY <2>1 DEF ToldOnce
<1>4. CASE Protocol!Return
  BY <1>4 DEF Protocol!Return, ToldOnce
<1>5. CASE Protocol!BeginFrame
  BY <1>5 DEF Protocol!BeginFrame, ToldOnce
<1>6. CASE Protocol!Forget
  BY <1>6 DEF Protocol!Forget, ToldOnce
<1>7. CASE UNCHANGED Protocol!vars
  BY <1>7 DEF Protocol!vars, ToldOnce
<1> QED
  BY <1>1, <1>2, <1>3, <1>4, <1>5, <1>6, <1>7 DEF Protocol!Next

LEMMA CountsKept ==
  ASSUME CountInv, UNCHANGED <<gameObjects, KnownContacts>>
  PROVE  CounterExact' /\ IsFiniteSet(KnownContacts')
BY DEF CountInv, CounterExact

LEMMA StepCounts ==
  ASSUME CountInv, Step PROVE CounterExact' /\ IsFiniteSet(KnownContacts')
<1>1. /\ stage = "ready" /\ UpdateStep
      /\ gameObjects' = IF event' # event /\ event' # NoEvent
                        THEN Counted(gameObjects, event') ELSE gameObjects
  BY DEF Step
<1>2. CASE BeginUpdate
  <2>1. UNCHANGED KnownContacts
    BY <1>2, BeginUpdateTells DEF CountInv, Protocol!BeginFrame
  <2>2. UNCHANGED gameObjects
    BY <1>1, <1>2 DEF BeginUpdate
  <2> QED
    BY <2>1, <2>2, CountsKept
<1>3. ~BeginUpdateThrows /\ \A p \in todo : ~LoopStepThrows(p) /\ ~ResolveThrows(p)
  BY BeginUpdateNeverThrows, LoopStepNeverThrows, TriggersResolveNothing
  DEF CountInv, SampleIInv, ResolveThrows
<1>4. ASSUME NEW p \in todo, EnterLoopStep(p)
      PROVE  CounterExact' /\ IsFiniteSet(KnownContacts')
  <2>1. p \in Remembered
    BY TodoIsRemembered DEF CountInv, SampleIInv
  <2>2. event' # NoEvent /\ event'[2] = p
    BY <1>1, <1>4, EnterCallback
  <2>3. CASE event'[1] = "OnTriggerEnter" /\ Protocol!Enter(Both(p))
    <3>1. /\ Both(p) \notin KnownContacts
          /\ KnownContacts' = KnownContacts \union {Both(p)}
      BY <2>3 DEF Protocol!Enter
    <3>2. event' # event
      BY <2>2, <2>3, <3>1, CallbackIsNew
    <3>3. Change(event') = 1
      BY <2>3 DEF Change
    <3> QED
      BY <1>1, <2>1, <2>2, <3>1, <3>2, <3>3, CountingFollows
  <2>4. CASE event'[1] = "OnTriggerStay" /\ Protocol!Stay(Both(p))
    <3>1. UNCHANGED KnownContacts
      BY <2>4 DEF Protocol!Stay
    <3>2. Change(event') = 0
      BY <2>4 DEF Change
    <3> QED
      BY <1>1, <2>1, <2>2, <3>1, <3>2, CountingFollows, CountsKept
  <2> QED
    BY <1>1, <1>4, <2>3, <2>4, EnterCallback
<1>5. ASSUME NEW p \in todo, ExitLoopStep(p)
      PROVE  CounterExact' /\ IsFiniteSet(KnownContacts')
  <2>1. p \in Remembered
    BY TodoIsRemembered DEF CountInv, SampleIInv
  <2>2. CASE /\ event' # NoEvent /\ event'[2] = p
             /\ event'[1] = "OnTriggerExit" /\ Protocol!Exit(Both(p))
    <3>1. /\ Both(p) \in KnownContacts
          /\ KnownContacts' = KnownContacts \ {Both(p)}
      BY <2>2 DEF Protocol!Exit
    <3>2. event' # event
      BY <2>2, <3>1, CallbackIsNew
    <3>3. Change(event') = -1
      BY <2>2 DEF Change
    <3> QED
      BY <1>1, <2>1, <2>2, <3>1, <3>2, <3>3, CountingFollows
  <2>3. CASE event' = NoEvent /\ Protocol!Return
    <3>1. UNCHANGED KnownContacts
      BY <2>3 DEF Protocol!Return
    <3> QED
      BY <1>1, <2>3, <3>1, CountsKept
  <2> QED
    BY <1>1, <1>5, <2>2, <2>3, ExitCallback
<1>6. CASE BeginExitLoop
  <2>1. UNCHANGED KnownContacts
    BY <1>6, BeginExitLoopTells DEF CountInv
  <2>2. UNCHANGED gameObjects
    BY <1>1, <1>6 DEF BeginExitLoop
  <2> QED
    BY <2>1, <2>2, CountsKept
<1>7. CASE EndUpdate
  <2>1. UNCHANGED KnownContacts
    BY <1>7, EndUpdateTells DEF CountInv, Protocol!Return
  <2>2. UNCHANGED gameObjects
    BY <1>1, <1>7 DEF EndUpdate
  <2> QED
    BY <2>1, <2>2, CountsKept
<1> QED
  BY <1>1, <1>2, <1>3, <1>4, <1>5, <1>6, <1>7 DEF UpdateStep

\* While nothing is known to be in contact, the counts are zero.
LEMMA CountsZero ==
  KnownContacts = {} =>
    (CounterExact <=> \A n \in DOMAIN gameObjects : gameObjects[n].CollisionNbr = 0)
<1> SUFFICES ASSUME KnownContacts = {}
             PROVE  CounterExact <=>
                      \A n \in DOMAIN gameObjects : gameObjects[n].CollisionNbr = 0
  OBVIOUS
<1>1. \A r : {pair \in KnownContacts : r \in pair} = {}
  OBVIOUS
<1>2. Cardinality({}) = 0
  BY FS_EmptySet
<1> QED
  BY <1>1, <1>2 DEF CounterExact

\* Before the first Update onInit adds objects whose count is zero.
LEMMA InitCalls ==
  ASSUME CountInv, SampleIInv', Start \/ Listen \/ AddBody \/ AddCollider \/ AddObject
  PROVE  (AllTriggers /\ QuietBefore /\ IsFiniteSet(KnownContacts) /\ CounterExact)'
<1>1. stage # "ready" /\ UNCHANGED updateVars /\ stage' # "ready"
  BY DEF Start, Listen, AddBody, AddCollider, AddObject, InitWorld, SetContactListener,
         CreateBody, CreateCollider, SetIsTrigger
<1>2. Remembered = {} /\ KnownContacts = {}
  BY <1>1, NothingKnown DEF CountInv, QuietBefore
<1>3. UNCHANGED <<KnownContacts, Remembered>>
  BY <1>1, UpdateVarsStutter DEF CountInv, AnyInv, updateVars, Remembered
<1>4. QuietBefore' /\ IsFiniteSet(KnownContacts')
  BY <1>2, <1>3, FS_EmptySet DEF QuietBefore
<1>5. \A n \in DOMAIN gameObjects : gameObjects[n].CollisionNbr = 0
  BY <1>2, CountsZero DEF CountInv
<1>6. CASE AddObject
  <2>1. /\ gameObjects' = Append(gameObjects, GameObject(bodyMade, colliderMade, 0))
        /\ triggers' = triggers \union {colliderMade.Index}
    BY <1>6 DEF AddObject, SetIsTrigger
  <2>2. /\ gameObjects \in Seq(ObjectRecords) /\ Len(gameObjects) \in Nat
        /\ DOMAIN gameObjects = 1 .. Len(gameObjects)
    BY DEF CountInv, SampleIInv, Filled
  <2>3. colliderMade.Index = Len(gameObjects)
    BY <1>6 DEF AddObject, CountInv, SampleIInv, Making
  <2>4. /\ DOMAIN gameObjects' = 1 .. Len(gameObjects) + 1
        /\ \A n \in DOMAIN gameObjects : gameObjects'[n] = gameObjects[n]
        /\ gameObjects'[Len(gameObjects) + 1] = GameObject(bodyMade, colliderMade, 0)
    BY <2>1, <2>2
  <2>5. ASSUME NEW n \in DOMAIN gameObjects'
        PROVE  n - 1 \in triggers' /\ gameObjects'[n].CollisionNbr = 0
    <3>1. CASE n = Len(gameObjects) + 1
      <4>1. n - 1 = colliderMade.Index
        BY <2>2, <2>3, <3>1
      <4> QED
        BY <2>1, <2>4, <3>1, <4>1 DEF GameObject
    <3>2. CASE n \in DOMAIN gameObjects
      BY <1>5, <2>1, <2>4, <3>2 DEF CountInv, AllTriggers
    <3> QED
      BY <2>2, <2>4, <3>1, <3>2
  <2>6. AllTriggers'
    BY <2>5 DEF AllTriggers
  <2>7. CounterExact'
    <3>1. \A r : {pair \in KnownContacts' : r \in pair} = {}
      BY <1>2, <1>3
    <3>2. Cardinality({}) = 0
      BY FS_EmptySet
    <3> QED
      BY <2>5, <3>1, <3>2 DEF CounterExact
  <2> QED
    BY <1>4, <2>6, <2>7
<1>7. CASE Start \/ Listen \/ AddBody \/ AddCollider
  <2>1. UNCHANGED <<gameObjects, triggers>>
    BY <1>7 DEF Start, Listen, AddBody, AddCollider, InitWorld, SetContactListener,
                CreateBody, CreateCollider, tableVars
  <2>2. CounterExact' /\ AllTriggers'
    BY <1>3, <2>1, CountsKept DEF CountInv, AllTriggers
  <2> QED
    BY <1>4, <2>2
<1> QED
  BY <1>6, <1>7

LEMMA CountStep ==
  CountInv /\ [SampleNext]_<<vars, sampleVars>> => CountInv'
<1> SUFFICES ASSUME CountInv, [SampleNext]_<<vars, sampleVars>>
             PROVE  CountInv'
  OBVIOUS
<1>1. SampleIInv /\ SampleIInv'
  BY SampleStepHolds DEF CountInv
<1>2. [AnyNext]_vars
  <2>1. [CarefulNext]_vars
    BY <1>1, StepIsCareful
  <2> QED
    BY <2>1, CarefulIsAny
<1>3. AnyInv' /\ [Protocol!Next]_Protocol!vars
  BY <1>2, AnyStep DEF CountInv
<1>4. ToldOnce'
  BY <1>3, ToldOnceKept DEF CountInv
<1>5. CASE Start \/ Listen \/ AddBody \/ AddCollider \/ AddObject
  BY <1>1, <1>3, <1>4, <1>5, InitCalls DEF CountInv
<1>6. CASE Step
  <2>1. CounterExact' /\ IsFiniteSet(KnownContacts')
    BY <1>6, StepCounts
  <2>2. /\ stage' = "ready" /\ UNCHANGED triggers
        /\ gameObjects' \in {gameObjects, Counted(gameObjects, event')}
    BY <1>6 DEF Step, UpdateStep, BeginUpdate, BeginUpdateThrows, EnterLoopStep,
         ExitLoopStep, LoopStepThrows, ResolveThrows, BeginExitLoop, EndUpdate, Terminate,
         tableVars
  <2>3. DOMAIN gameObjects' = DOMAIN gameObjects
    BY <2>2 DEF Counted
  <2>4. AllTriggers' /\ QuietBefore'
    BY <2>2, <2>3 DEF CountInv, AllTriggers, QuietBefore
  <2> QED
    BY <1>1, <1>3, <1>4, <2>1, <2>4 DEF CountInv
<1>7. CASE Stop
  <2>1. KnownContacts' = {} /\ gameObjects' = <<>>
    BY <1>7, DeinitWorldTells DEF Stop, CountInv, Protocol!Forget
  <2>2. Remembered' = {}
    BY <1>7 DEF Stop, DeinitWorld, CountInv, AnyInv, LoopInv, Remembered
  <2>3. AllTriggers' /\ QuietBefore' /\ CounterExact' /\ IsFiniteSet(KnownContacts')
    BY <2>1, <2>2, FS_EmptySet DEF AllTriggers, QuietBefore, CounterExact
  <2> QED
    BY <1>1, <1>3, <1>4, <2>3 DEF CountInv
<1>8. CASE Finish \/ UNCHANGED <<vars, sampleVars>>
  <2>1. UNCHANGED <<updateVars, triggers, gameObjects>> /\ stage' \in {stage, "ready"}
    BY <1>8 DEF Finish, vars, tableVars, sampleVars
  <2>2. UNCHANGED <<KnownContacts, Remembered>>
    BY <2>1, UpdateVarsStutter DEF CountInv, AnyInv, updateVars, Remembered
  <2>3. CounterExact' /\ IsFiniteSet(KnownContacts')
    BY <2>1, <2>2, CountsKept
  <2>4. AllTriggers' /\ QuietBefore'
    BY <2>1, <2>2 DEF CountInv, AllTriggers, QuietBefore
  <2> QED
    BY <1>1, <1>3, <1>4, <2>3, <2>4 DEF CountInv
<1> QED
  BY <1>5, <1>6, <1>7, <1>8 DEF SampleNext

LEMMA CountInit == SampleInit => CountInv
<1> SUFFICES ASSUME SampleInit PROVE CountInv
  OBVIOUS
<1>1. Init /\ gameObjects = <<>> /\ stage = "off"
  BY DEF SampleInit
<1>2. SampleIInv /\ AnyInv /\ Protocol!Init
  BY <1>1, SampleInitHolds, AnyInit
<1>3. KnownContacts = {} /\ ToldContact = <<>>
  BY <1>2 DEF Protocol!Init
<1>4. Remembered = {}
  BY <1>1 DEF Init, Remembered
<1>5. AllTriggers /\ ToldOnce /\ QuietBefore
  BY <1>1, <1>3, <1>4 DEF AllTriggers, ToldOnce, QuietBefore
<1>6. CounterExact /\ IsFiniteSet(KnownContacts)
  BY <1>1, <1>3, FS_EmptySet DEF CounterExact
<1> QED
  BY <1>2, <1>5, <1>6 DEF CountInv

\* An object's count is the number of the contacts it is in, at every point of
\* every Update, for any number of objects and through any restarts: the
\* callbacks count it neither up nor down too often.
THEOREM SampleCounterExact == SampleSpec => []CounterExact
<1>1. CountInv => CounterExact
  BY DEF CountInv
<1> QED
  BY <1>1, CountInit, CountStep, PTL DEF SampleSpec

\* No call the sample makes and no Update fails: what was proved of careful
\* clients holds for it, and as its colliders are triggers, no contact of
\* theirs is resolved.
THEOREM SampleNeverFails == SampleSpec => []NeverFails
<1>1. SampleInit => NeverFails
  BY DEF SampleInit, Init, NeverFails
<1>2. CountInv /\ NeverFails /\ [SampleNext]_<<vars, sampleVars>> => NeverFails'
  BY StepIsCareful, CountStep, TriggersResolveNothing, NothingUnresolved
  DEF CountInv, SampleIInv
<1> QED
  BY <1>1, <1>2, CountInit, CountStep, PTL DEF SampleSpec

-----------------------------------------------------------------------------
(* PlanetSystemSample.  It calls the same World, by names of its own.      *)

\* Its tables are World's, operation by operation.
LEMMA PlanetTables ==
  ASSUME NEW t
  PROVE  /\ \A n : Planets!Slots(n) = Slots(n)
         /\ \A i, g : Planets!Ref(i, g) = Ref(i, g)
         /\ Planets!EmptyTable = EmptyTable
         /\ \A n : Planets!Resize(t, n) = Resize(t, n)
         /\ Planets!NewRef(t) = NewRef(t)
         /\ Planets!CanCreate(t) <=> CanCreate(t)
         /\ Planets!Create(t) = Create(t)
<1>1. /\ \A n : Planets!Slots(n) = Slots(n)
      /\ \A i, g : Planets!Ref(i, g) = Ref(i, g)
      /\ \A a, b, c, d, e : Planets!Table(a, b, c, d, e) = Table(a, b, c, d, e)
      /\ Planets!ResizeFactor = ResizeFactor
  BY DEF Planets!Slots, Slots, Planets!Ref, Ref, Planets!Table, Table,
         Planets!ResizeFactor, ResizeFactor
<1>2. \A f, n, x : Planets!ResizedTo(f, n, x) = ResizedTo(f, n, x)
  BY <1>1 DEF Planets!ResizedTo, ResizedTo
<1>3. Planets!EmptyTable = EmptyTable
  BY <1>1 DEF Planets!EmptyTable, EmptyTable
<1>4. \A n : Planets!Resize(t, n) = Resize(t, n)
  BY <1>1, <1>2 DEF Planets!Resize, Resize
<1>5. Planets!FreeSlots(t) = FreeSlots(t)
  BY <1>1 DEF Planets!FreeSlots, FreeSlots
<1>6. Planets!IsFull(t) <=> IsFull(t)
  BY <1>5 DEF Planets!IsFull, IsFull
<1>7. Planets!FirstFree(t) = FirstFree(t)
  BY <1>5 DEF Planets!FirstFree, FirstFree
<1>8. Planets!Grown(t) = Grown(t)
  BY <1>1, <1>4, <1>6 DEF Planets!Grown, Grown
<1>9. Planets!TargetSlot(t) = TargetSlot(t)
  BY <1>6, <1>7 DEF Planets!TargetSlot, TargetSlot
<1>10. Planets!NewRef(t) = NewRef(t)
  BY <1>1, <1>8, <1>9 DEF Planets!NewRef, NewRef
<1>11. Planets!CanCreate(t) <=> CanCreate(t)
  BY <1>1, <1>8, <1>9 DEF Planets!CanCreate, CanCreate
<1>12. Planets!Create(t) = Create(t)
  BY <1>1, <1>8, <1>9, <1>10 DEF Planets!Create, Create
<1> QED
  BY <1>1, <1>3, <1>4, <1>10, <1>11, <1>12

\* The calls it makes are World's.
LEMMA PlanetCalls ==
  /\ Planets!Init => Init
  /\ \A n : Planets!InitWorld(n) => InitWorld(n)
  /\ Planets!CreateBody => CreateBody
  /\ Planets!DeinitWorld => DeinitWorld
<1>1. \A t, n : Planets!Bounded(t, n) <=> Bounded(t, n)
  BY PlanetTables DEF Planets!Bounded, Bounded
<1>2. \A n : Planets!Preallocated(n) = Preallocated(n)
  BY DEF Planets!Preallocated, Preallocated
<1>3. /\ Planets!NoEvent = NoEvent
      /\ Planets!tableVars = tableVars /\ Planets!updateVars = updateVars
  BY DEF Planets!NoEvent, NoEvent, Planets!tableVars, tableVars, Planets!updateVars, updateVars
<1>4. Planets!MayCall <=> MayCall
  BY <1>3 DEF Planets!MayCall, MayCall
<1>5. Planets!Init => Init
  BY <1>3, PlanetTables DEF Planets!Init, Init
<1>6. \A f, n, x : Planets!ResizedTo(f, n, x) = ResizedTo(f, n, x)
  BY PlanetTables DEF Planets!ResizedTo, ResizedTo
<1>7. ASSUME NEW n, Planets!InitWorld(n) PROVE InitWorld(n)
  BY <1>1, <1>2, <1>3, <1>6, <1>7, PlanetTables
  DEF Planets!InitWorld, InitWorld, Planets!updateVars, updateVars
<1>8. Planets!CreateBody => CreateBody
  BY <1>1, <1>3, <1>4, PlanetTables
  DEF Planets!CreateBody, CreateBody, Planets!updateVars, updateVars
<1>9. Planets!DeinitWorld => DeinitWorld
  BY PlanetTables DEF Planets!DeinitWorld, DeinitWorld
<1> QED
  BY <1>5, <1>7, <1>8, <1>9

\* No body was ever destroyed: all slots are of the first generation.
Young(t) == \A i \in Slots(t.size) : t.gens[i] = 0

LEMMA CreateYoung ==
  ASSUME NEW t, IsTable(t), CanCreate(t), Young(t), NEW u, u = Create(t)
  PROVE  Young(u)
<1>1. u.gens = Grown(t).gens /\ u.size = Grown(t).size
  BY DEF Create, Table
<1>2. CASE IsFull(t)
  <2>1. /\ Grown(t).gens = ResizedTo(t.gens, ResizeFactor * t.size, 0)
        /\ Grown(t).size = ResizeFactor * t.size
    BY <1>2 DEF Grown, Resize, Table
  <2>2. DOMAIN t.gens = Slots(t.size)
    BY DEF IsTable
  <2> QED
    BY <1>1, <2>1, <2>2 DEF Young, ResizedTo
<1>3. CASE ~IsFull(t)
  BY <1>1, <1>3 DEF Grown, Young
<1> QED
  BY <1>2, <1>3

\* What PlanetSystemSample knows: the bodies fill the table from the front, the
\* sun first, and the circles are made for the same bodies in the same order.
PlanetInv ==
  /\ planetStage \in {"off", "started", "adding", "running"}
  /\ phase = "idle"
  /\ planetStage = "off" => status = "constructed"
  /\ planetStage \in {"off", "started"} => bodyRefs = <<>>
  /\ bodyRefs \in Seq(Refs) /\ graphicCircles = bodyRefs
  /\ Young(bodies)
  /\ bodies.used = 0 .. Len(bodyRefs) - 1
  /\ \A k \in 1 .. Len(bodyRefs) :
       bodyRefs[k] \in Live(bodies) /\ bodyRefs[k] = Ref(k - 1, 0)

PlanetIInv == IInv /\ PlanetInv

\* Before its Init PlanetSystemSample holds nothing.
LEMMA PlanetsNotStarted ==
  ASSUME IInv, status = "constructed",
         planetStage = "off", bodyRefs = <<>>, graphicCircles = <<>>
  PROVE  PlanetIInv
<1>1. bodies = EmptyTable /\ phase = "idle"
  BY DEF IInv, Lifecycle
<1>2. bodies.used = {} /\ Slots(bodies.size) = {}
  BY <1>1, EmptyTableFacts DEF Slots
<1> QED
  BY <1>1, <1>2 DEF PlanetIInv, PlanetInv, Young

\* A new body, the sun or a planet: its reference is that of the next slot.
LEMMA AddBodyHolds ==
  ASSUME PlanetIInv, IInv', Planets!AddBody, planetStage' \in {"adding", "running"}
  PROVE  PlanetInv'
<1> DEFINE m == Len(bodyRefs)
           r == NewRef(bodies)
<1>1. /\ bodyRefs \in Seq(Refs) /\ m \in Nat /\ graphicCircles = bodyRefs
      /\ Young(bodies) /\ bodies.used = 0 .. m - 1 /\ phase = "idle"
      /\ \A k \in 1 .. m : bodyRefs[k] \in Live(bodies) /\ bodyRefs[k] = Ref(k - 1, 0)
  BY DEF PlanetIInv, PlanetInv
<1>2. /\ CreateBody
      /\ bodyRefs' = Append(bodyRefs, r) /\ graphicCircles' = Append(graphicCircles, r)
  BY PlanetCalls, PlanetTables DEF Planets!AddBody
<1>3. status = "running" /\ phase' = phase
  BY <1>2 DEF CreateBody, MayCall, updateVars
<1>4. /\ IsTable(bodies) /\ Consistent(bodies) /\ LiveUsed(bodies)
      /\ bodies.size > 0 /\ CanCreate(bodies)
  BY <1>3, TablesRunning DEF PlanetIInv
<1>5. bodies' = Create(bodies)
  BY <1>2, <1>4 DEF CreateBody
<1>6. /\ r.Index = m /\ Valid(bodies', r) /\ bodies'.used = bodies.used \union {m}
      /\ r \in [Index : Slots(bodies'.size), GenerationIdx : Nat]
  <2>1. TargetSlot(bodies) = m
    BY <1>1, <1>4, NextSlot
  <2>2. r.Index = m
    BY <2>1 DEF NewRef, Ref
  <2> QED
    BY <1>4, <1>5, <2>2, CreateTable
<1>7. Young(bodies')
  BY <1>1, <1>4, <1>5, CreateYoung
<1>8. r = Ref(m, 0)
  BY <1>6, <1>7 DEF Valid, Young, Ref
<1>9. Live(bodies') = Live(bodies) \union {r}
  BY <1>4, <1>5, CreateConsistent
<1>10. /\ r \in Refs /\ bodyRefs' \in Seq(Refs) /\ Len(bodyRefs') = m + 1
       /\ \A k \in 1 .. m : bodyRefs'[k] = bodyRefs[k]
       /\ bodyRefs'[m + 1] = r
  BY <1>1, <1>2, <1>8 DEF Ref, Refs
<1>11. ASSUME NEW k \in 1 .. m + 1
       PROVE  bodyRefs'[k] \in Live(bodies') /\ bodyRefs'[k] = Ref(k - 1, 0)
  <2>1. CASE k = m + 1
    BY <1>1, <1>8, <1>9, <1>10, <2>1
  <2>2. CASE k \in 1 .. m
    BY <1>1, <1>9, <1>10, <2>2
  <2> QED
    BY <1>1, <2>1, <2>2
<1>12. bodies'.used = 0 .. m
  BY <1>1, <1>6
<1> QED
  BY <1>1, <1>2, <1>3, <1>7, <1>10, <1>11, <1>12 DEF PlanetInv

\* PlanetSystemSample is a careful client.
LEMMA PlanetStepIsCareful ==
  ASSUME PlanetIInv, Planets!SampleNext PROVE CarefulNext \/ UNCHANGED vars
<1>1. CASE Planets!Start
  <2>1. PICK n \in InitCounts : InitWorld(n)
    BY <1>1, PlanetCalls DEF Planets!Start
  <2>2. Preallocated(n) > 0
    BY SampleAssumption
  <2> QED
    BY <2>1, <2>2 DEF CarefulNext, CarefulCalls
<1>2. CASE Planets!AddSun \/ Planets!AddPlanet \/ Planets!CreateAtMouse
  <2>1. CreateBody
    BY <1>2, PlanetCalls DEF Planets!AddSun, Planets!AddPlanet, Planets!CreateAtMouse,
         Planets!CreatePlanet, Planets!AddBody
  <2> QED
    BY <2>1 DEF CarefulNext, CarefulCalls
<1>3. CASE Planets!Finish
  BY <1>3 DEF Planets!Finish, Planets!vars, vars, Planets!tableVars, tableVars,
              Planets!updateVars, updateVars
<1>4. CASE Planets!Stop
  BY <1>4, PlanetCalls DEF Planets!Stop, CarefulNext, CarefulCalls
<1> QED
  BY <1>1, <1>2, <1>3, <1>4 DEF Planets!SampleNext

LEMMA PlanetStepHolds ==
  ASSUME PlanetIInv, Planets!SampleNext PROVE PlanetIInv'
<1>1. IInv'
  BY PlanetStepIsCareful, StepPreserves DEF PlanetIInv
<1>2. CASE Planets!Start
  <2>1. PICK n \in InitCounts : InitWorld(n)
    BY <1>2, PlanetCalls DEF Planets!Start
  <2>2. /\ planetStage = "off" /\ planetStage' = "started"
        /\ UNCHANGED <<bodyRefs, graphicCircles>>
    BY <1>2 DEF Planets!Start
  <2>3. /\ bodies' = Resize(EmptyTable, Preallocated(n)) /\ phase' = phase
        /\ Preallocated(n) \in Nat
    BY <2>1, SampleAssumption, BoundsAssumption
    DEF InitWorld, updateVars, PlanetIInv, IInv, Lifecycle, Preallocated
  <2>4. bodies'.used = {} /\ bodies'.size = Preallocated(n)
    BY <2>3, PreallocateConsistent
  <2>5. Young(bodies')
    BY <2>3, <2>4 DEF Young, Resize, EmptyTable, Table, ResizedTo, Slots
  <2> QED
    BY <1>1, <2>2, <2>3, <2>4, <2>5 DEF PlanetIInv, PlanetInv
<1>3. CASE Planets!AddSun \/ Planets!AddPlanet \/ Planets!CreateAtMouse
  <2>1. Planets!AddBody /\ planetStage' \in {"adding", "running"}
    BY <1>3 DEF Planets!AddSun, Planets!AddPlanet, Planets!CreateAtMouse,
         Planets!CreatePlanet
  <2> QED
    BY <1>1, <2>1, AddBodyHolds DEF PlanetIInv
<1>4. CASE Planets!Finish
  <2>1. /\ planetStage = "adding" /\ planetStage' = "running"
        /\ UNCHANGED <<phase, bodies, bodyRefs, graphicCircles>>
    BY <1>4 DEF Planets!Finish, Planets!vars, Planets!tableVars, Planets!updateVars
  <2> QED
    BY <1>1, <2>1 DEF PlanetIInv, PlanetInv, Young
<1>5. CASE Planets!Stop
  <2>1. /\ DeinitWorld /\ planetStage' = "off"
        /\ bodyRefs' = <<>> /\ graphicCircles' = <<>>
    BY <1>5, PlanetCalls DEF Planets!Stop
  <2>2. bodies' = EmptyTable /\ status' = "constructed" /\ phase' = "idle"
    BY <2>1 DEF DeinitWorld
  <2>3. bodies'.used = {} /\ Slots(bodies'.size) = {}
    BY <2>2, EmptyTableFacts DEF Slots
  <2> QED
    BY <1>1, <2>1, <2>2, <2>3 DEF PlanetIInv, PlanetInv, Young
<1> QED
  BY <1>2, <1>3, <1>4, <1>5 DEF Planets!SampleNext

-----------------------------------------------------------------------------
(* SampleManager: of the two samples the one that is not shown holds       *)
(* nothing, and the World is as the sample shown left it.                  *)

ClientIInv ==
  /\ current \in {"triggers", "planets"}
  /\ AnyInv
  /\ current = "triggers" =>
       CountInv /\ planetStage = "off" /\ bodyRefs = <<>> /\ graphicCircles = <<>>
  /\ current = "planets" => PlanetIInv /\ stage = "off" /\ gameObjects = <<>>

\* A World just constructed is one TriggerColliderSample may start with.
LEMMA TriggersNotStarted ==
  ASSUME IInv, AnyInv, status = "constructed", stage = "off", gameObjects = <<>>
  PROVE  CountInv
<1>1. /\ colliders = EmptyTable /\ phase = "idle" /\ Remembered = {}
      /\ colliderPairs = {} /\ event = NoEvent
  BY DEF IInv, Lifecycle, Remembered, TypeOK
<1>2. Making
  BY <1>1 DEF Making
<1>3. LiveUsed(colliders) /\ colliders.used = {}
  BY <1>1, EmptyTableFacts
<1>4. Filled
  BY <1>3 DEF Filled, Made
<1>5. SampleIInv
  BY <1>2, <1>4 DEF SampleIInv
<1>6. KnownContacts = {} /\ ToldContact = <<>>
  BY <1>1, <1>5, NothingKnown DEF ToldContact
<1>7. AllTriggers /\ ToldOnce /\ QuietBefore
  BY <1>1, <1>6 DEF AllTriggers, ToldOnce, QuietBefore
<1>8. CounterExact /\ IsFiniteSet(KnownContacts)
  BY <1>6, FS_EmptySet DEF CounterExact
<1> QED
  BY <1>5, <1>7, <1>8 DEF CountInv

LEMMA ClientInitHolds == ClientInit => Init /\ ClientIInv
<1> SUFFICES ASSUME ClientInit PROVE Init /\ ClientIInv
  OBVIOUS
<1>1. Init /\ stage = "off" /\ gameObjects = <<>>
  BY DEF ClientInit, SampleInit
<1>2. planetStage = "off" /\ bodyRefs = <<>> /\ graphicCircles = <<>> /\ current = "planets"
  BY DEF ClientInit, Planets!SampleInit
<1>3. AnyInv /\ IInv /\ status = "constructed"
  BY <1>1, AnyInit, InitEstablishes DEF Init
<1> QED
  BY <1>1, <1>2, <1>3, PlanetsNotStarted DEF ClientIInv

LEMMA ClientStepHolds ==
  ClientIInv /\ [ClientNext]_clientVars => ClientIInv' /\ [CarefulNext]_vars
<1> SUFFICES ASSUME ClientIInv, [ClientNext]_clientVars
             PROVE  ClientIInv' /\ [CarefulNext]_vars
  OBVIOUS
<1>1. [CarefulNext]_vars => AnyInv'
  BY CarefulIsAny, AnyStep DEF ClientIInv
<1>2. CASE TriggerStep
  <2>1. /\ CountInv /\ SampleNext /\ current = "triggers"
        /\ UNCHANGED <<current, planetStage, bodyRefs, graphicCircles>>
        /\ planetStage = "off" /\ bodyRefs = <<>> /\ graphicCircles = <<>>
    BY <1>2 DEF TriggerStep, ClientIInv, planetVars
  <2>2. CountInv' /\ [CarefulNext]_vars
    BY <2>1, CountStep, StepIsCareful DEF CountInv
  <2> QED
    BY <1>1, <2>1, <2>2 DEF ClientIInv
<1>3. CASE PlanetStep
  <2>1. /\ PlanetIInv /\ Planets!SampleNext /\ current = "planets"
        /\ UNCHANGED <<current, stage, gameObjects>>
        /\ stage = "off" /\ gameObjects = <<>>
    BY <1>3 DEF PlanetStep, ClientIInv, sampleVars
  <2>2. PlanetIInv' /\ [CarefulNext]_vars
    BY <2>1, PlanetStepHolds, PlanetStepIsCareful
  <2> QED
    BY <1>1, <2>1, <2>2 DEF ClientIInv
<1>4. CASE ChangeSample
  <2>1. /\ stage = "off" /\ planetStage = "off" /\ current' \in {"triggers", "planets"}
        /\ UNCHANGED <<vars, sampleVars, planetVars>>
    BY <1>4 DEF ChangeSample
  <2>2. /\ IInv /\ status = "constructed" /\ gameObjects = <<>>
        /\ bodyRefs = <<>> /\ graphicCircles = <<>>
    BY <2>1 DEF ClientIInv, CountInv, SampleIInv, Making, PlanetIInv, PlanetInv
  <2>3. [CarefulNext]_vars
    BY <2>1
  <2>4. IInv' /\ AnyInv'
    BY <1>1, <2>2, <2>3, StepPreserves
  <2>5. /\ status' = "constructed" /\ stage' = "off" /\ gameObjects' = <<>>
        /\ planetStage' = "off" /\ bodyRefs' = <<>> /\ graphicCircles' = <<>>
    BY <2>1, <2>2 DEF vars, sampleVars, planetVars
  <2>6. PlanetIInv /\ CountInv
    BY <2>1, <2>2, PlanetsNotStarted, TriggersNotStarted DEF ClientIInv
  <2>7. CountInv'
    BY <2>1, <2>6, CountStep
  <2>8. PlanetInv'
    BY <2>1, <2>6 DEF PlanetIInv, PlanetInv, vars, tableVars, updateVars, planetVars, Young
  <2> QED
    BY <2>1, <2>3, <2>4, <2>5, <2>7, <2>8 DEF ClientIInv, PlanetIInv
<1>5. CASE UNCHANGED clientVars
  <2>1. UNCHANGED <<vars, sampleVars, current, planetStage, bodyRefs, graphicCircles>>
    BY <1>5 DEF clientVars, planetVars
  <2>2. AnyInv'
    BY <1>1, <2>1
  <2>3. CASE current = "triggers"
    <3>1. CountInv'
      BY <2>1, <2>3, CountStep DEF ClientIInv
    <3> QED
      BY <2>1, <2>2, <2>3, <3>1 DEF ClientIInv
  <2>4. CASE current = "planets"
    <3>1. IInv'
      BY <2>1, <2>4, StepPreserves DEF ClientIInv, PlanetIInv
    <3>2. PlanetInv'
      BY <2>1, <2>4 DEF ClientIInv, PlanetIInv, PlanetInv, vars, tableVars, updateVars,
                        Young
    <3> QED
      BY <2>1, <2>2, <2>4, <3>1, <3>2 DEF ClientIInv, PlanetIInv, sampleVars
  <2> QED
    BY <2>1, <2>3, <2>4 DEF ClientIInv
<1> QED
  BY <1>2, <1>3, <1>4, <1>5 DEF ClientNext

\* Whichever of the two samples is shown, and however often SampleManager
\* changes them, a World is used with the discipline WorldProofs asks for.
THEOREM ClientsAreCareful == ClientSpec => IsCarefulClient
<1>1. ClientInit => Init /\ ClientIInv
  BY ClientInitHolds
<1>2. ClientIInv /\ [ClientNext]_clientVars => ClientIInv' /\ [CarefulNext]_vars
  BY ClientStepHolds
<1> QED
  BY <1>1, <1>2, PTL DEF ClientSpec, IsCarefulClient, CarefulSpec

\* What the samples hold is right in every state, also after changes of sample.
LEMMA ClientInvariant == ClientSpec => []ClientIInv
  BY ClientInitHolds, ClientStepHolds, PTL DEF ClientSpec

\* So under SampleManager no call of the two samples fails: PlanetSystemSample has
\* no colliders, and those of TriggerColliderSample are triggers.
THEOREM ClientsNeverFail == ClientSpec => []NeverFails
<1>1. ClientInit => NeverFails
  BY DEF ClientInit, SampleInit, Init, NeverFails
<1>2. ASSUME ClientIInv, NEW p \in todo PROVE Triggered(p)
  BY <1>2, TriggersResolveNothing
  DEF ClientIInv, PlanetIInv, PlanetInv, IInv, TypeOK
<1>3. ClientIInv' => IInv'
  BY DEF ClientIInv, CountInv, SampleIInv, PlanetIInv
<1>4. ClientIInv /\ NeverFails /\ [ClientNext]_clientVars => NeverFails'
  BY <1>2, <1>3, ClientStepHolds, NothingUnresolved
<1> QED
  BY <1>1, <1>4, ClientInvariant, ClientInitHolds, ClientStepHolds, PTL DEF ClientSpec

\* PlanetSystemSample draws each body with the circle made for it, and its sun is
\* the body of slot 0, whichever sample used the World before.
THEOREM ClientCirclesAligned == ClientSpec => []CirclesAligned
<1>1. ClientIInv => CirclesAligned
  <2> SUFFICES ASSUME ClientIInv PROVE CirclesAligned
    OBVIOUS
  <2>1. CASE current = "planets"
    <3>1. /\ Young(bodies) /\ bodyRefs \in Seq(Refs) /\ graphicCircles = bodyRefs
          /\ \A k \in 1 .. Len(bodyRefs) :
               bodyRefs[k] \in Live(bodies) /\ bodyRefs[k] = Ref(k - 1, 0)
      BY <2>1 DEF ClientIInv, PlanetIInv, PlanetInv
    <3>2. IsTable(bodies) /\ Consistent(bodies)
      BY <2>1 DEF ClientIInv, PlanetIInv, IInv, TypeOK, TablesInv
    <3>3. ASSUME NEW k \in 1 .. Len(bodyRefs)
          PROVE  /\ bodyRefs[k].Index = k - 1
                 /\ bodyRefs[k].Index \in 0 .. Len(graphicCircles) - 1
                 /\ graphicCircles[bodyRefs[k].Index + 1] = bodyRefs[k]
                 /\ Planets!Valid(bodies, bodyRefs[k])
      <4>1. bodyRefs[k] = Ref(k - 1, 0) /\ bodyRefs[k] \in Live(bodies)
        BY <3>1
      <4>2. bodyRefs[k].Index = k - 1
        BY <4>1 DEF Ref
      <4>3. Len(bodyRefs) \in Nat /\ k - 1 + 1 = k /\ k - 1 \in 0 .. Len(bodyRefs) - 1
        BY <3>1
      <4>4. Planets!Valid(bodies, bodyRefs[k])
        BY <3>2, <4>1, RefsOfTable, LiveIsValid DEF Planets!Valid, Valid
      <4> QED
        BY <3>1, <4>2, <4>3, <4>4
    <3>4. bodyRefs # <<>> => bodyRefs[1] = Planets!SunRef
      BY <3>1 DEF Planets!SunRef, Planets!Ref, Ref
    <3> QED
      BY <3>3, <3>4 DEF CirclesAligned, Planets!CirclesAligned
  <2>2. CASE current = "triggers"
    BY <2>2 DEF ClientIInv, CirclesAligned, Planets!CirclesAligned
  <2> QED
    BY <2>1, <2>2 DEF ClientIInv
<1> QED
  BY <1>1, ClientInvariant, PTL

\* TriggerColliderSample finds the object of a contact by the collider's slot, also
\* when PlanetSystemSample was shown before.
THEOREM ClientIndicesAligned == ClientSpec => []IndicesAligned
<1>1. ClientIInv => IndicesAligned
  <2>1. CASE current = "triggers"
    BY <2>1, FilledIsAligned DEF ClientIInv, CountInv
  <2>2. CASE current = "planets"
    BY <2>2 DEF ClientIInv, IndicesAligned
  <2> QED
    BY <2>1, <2>2 DEF ClientIInv
<1> QED
  BY <1>1, ClientInvariant, PTL

\* And its counters are right.
THEOREM ClientCounterExact == ClientSpec => []CounterExact
<1>1. ClientIInv => CounterExact
  BY DEF ClientIInv, CountInv, CounterExact
<1> QED
  BY <1>1, ClientInvariant, PTL

-----------------------------------------------------------------------------
(* BouncingShapesSample.  The loop that removes shapes reads stale slots on *)
(* the way; that each of them still holds a reference World once returned,  *)
(* which GetCollider recognises as dead unless it is in the list, is what   *)
(* keeps it from dropping a shape twice.                                    *)

\* What the first n slots of a vector hold, and that they hold it once each.
Held(s, n) == {s[k] : k \in 1 .. n}
HeldOnce(s, n) == \A i, j \in 1 .. n : s[i] = s[j] => i = j

-----------------------------------------------------------------------------
(* The inductive invariant.                                                *)

\* Nothing is ever taken out of use but by destroying it, so both tables stay
\* consistent, and where there is a body slot there is a collider slot.
TablesHold ==
  /\ IsTable(bodies) /\ Consistent(bodies) /\ LiveUsed(bodies)
  /\ IsTable(colliders) /\ Consistent(colliders) /\ LiveUsed(colliders)
  /\ bodyRef \in [Slots(colliders.size) -> Refs]
  /\ bodies.size > 0 => colliders.size > 0

\* Each collider has a body of its own, but for the one being dropped, whose
\* body went first.
OwnBodies ==
  /\ \A c \in Live(colliders) :
       BodyOf(c) \in Live(bodies) \/ (shapesStage = "drop" /\ c = refs[visited])
  /\ \A c, d \in Live(colliders) : BodyOf(c) = BodyOf(d) => c = d

\* The vector lists the colliders, once each; the slots behind its end hold
\* references that World returned at some time.
Listed ==
  /\ refs \in Seq(colliders.issued)
  /\ length \in 0 .. Len(refs)
  /\ Held(refs, length) = Live(colliders) /\ HeldOnce(refs, length)

ShapeInHand ==
  status = "running" =>
    shapeBody \in Live(bodies) /\ \A c \in Live(colliders) : BodyOf(c) # shapeBody

Dropping == visited <= Len(refs) /\ refs[visited] \in Live(colliders)

NotStarted ==
  /\ bodies = EmptyTable /\ colliders = EmptyTable
  /\ bodyRef = [i \in Slots(0) |-> Ref(0, 0)]
  /\ refs = <<>> /\ length = 0

Stages ==
  /\ shapesStage \in {"off", "started", "idle", "body", "visit", "drop", "update"}
  /\ shapesStage = "off" => NotStarted
  /\ shapesStage = "body" => ShapeInHand
  /\ shapesStage \in {"visit", "drop"} => visited \in Nat \ {0}
  /\ shapesStage = "drop" => Dropping
  /\ shapesStage \notin {"visit", "drop"} => length = Len(refs)

ShapesInv == TablesHold /\ OwnBodies /\ Listed /\ Stages

-----------------------------------------------------------------------------
(* Steps that leave the tables and the vector alone.                       *)

LEMMA InitHolds == ShapesInit => ShapesInv
<1> SUFFICES ASSUME ShapesInit PROVE ShapesInv
  OBVIOUS
<1>1. /\ bodies = EmptyTable /\ colliders = EmptyTable
      /\ bodyRef = [i \in Slots(0) |-> Ref(0, 0)]
      /\ shapesStage = "off" /\ refs = <<>> /\ length = 0
  BY DEF ShapesInit, Init
<1>2. Live(bodies) = {} /\ Live(colliders) = {}
  BY <1>1, EmptyTableFacts DEF Live
<1>3. TablesHold
  BY <1>1, EmptyTableFacts DEF TablesHold, Refs, Ref
<1>4. OwnBodies
  BY <1>2 DEF OwnBodies
<1>5. Listed
  BY <1>1, <1>2 DEF Listed, Held, HeldOnce
<1>6. Stages
  BY <1>1 DEF Stages, NotStarted
<1> QED
  BY <1>3, <1>4, <1>5, <1>6 DEF ShapesInv

\* Deinit leaves what a sample not yet started has.
LEMMA StopShapesHolds == ASSUME StopShapes PROVE ShapesInv'
<1>1. /\ bodies' = EmptyTable /\ colliders' = EmptyTable
      /\ bodyRef' = [i \in Slots(0) |-> Ref(0, 0)]
      /\ shapesStage' = "off" /\ refs' = <<>> /\ length' = 0
  BY DEF StopShapes, DeinitWorld
<1>2. Live(bodies') = {} /\ Live(colliders') = {}
  BY <1>1, EmptyTableFacts DEF Live
<1>3. TablesHold'
  BY <1>1, EmptyTableFacts DEF TablesHold, Refs, Ref
<1>4. OwnBodies'
  BY <1>2 DEF OwnBodies
<1>5. Listed'
  BY <1>1, <1>2 DEF Listed, Held, HeldOnce
<1>6. Stages'
  BY <1>1 DEF Stages, NotStarted
<1> QED
  BY <1>3, <1>4, <1>5, <1>6 DEF ShapesInv

\* The World and the vector stand still, and no shape is made or dropped.
LEMMA StillHolds ==
  ASSUME ShapesInv, UNCHANGED <<bodies, colliders, bodyRef, refs, length>>,
         shapesStage \notin {"off", "drop"},
         shapesStage' \in {"started", "idle", "visit", "update"},
         shapesStage' = "visit" => visited' \in Nat \ {0},
         shapesStage' # "visit" => length = Len(refs)
  PROVE  ShapesInv'
<1>1. TablesHold' /\ Listed'
  BY DEF ShapesInv, TablesHold, Listed
<1>2. OwnBodies'
  BY DEF ShapesInv, OwnBodies, BodyOf
<1>3. Stages'
  BY DEF ShapesInv, Stages
<1> QED
  BY <1>1, <1>2, <1>3 DEF ShapesInv

LEMMA StutterHolds == ASSUME ShapesInv, UNCHANGED allShapesVars PROVE ShapesInv'
<1>1. UNCHANGED <<bodies, colliders, bodyRef, refs, length, shapesStage, status, shapeBody,
                  visited>>
  BY DEF allShapesVars, shapesVars, vars, tableVars
<1>2. TablesHold' /\ Listed'
  BY <1>1 DEF ShapesInv, TablesHold, Listed
<1>3. OwnBodies'
  BY <1>1 DEF ShapesInv, OwnBodies, BodyOf
<1>4. Stages'
  BY <1>1 DEF ShapesInv, Stages, NotStarted, ShapeInHand, Dropping, BodyOf
<1> QED
  BY <1>2, <1>3, <1>4 DEF ShapesInv

\* A visit that throws ends the program with everything as it was.
LEMMA VisitThrowsHolds == ASSUME ShapesInv, VisitThrows PROVE ShapesInv'
<1>1. /\ UNCHANGED <<bodies, colliders, bodyRef, refs, length, shapesStage, visited>>
      /\ shapesStage = "visit"
  BY DEF VisitThrows, Visiting, Terminate, tableVars, shapesVars
<1>2. visited' \in Nat \ {0}
  BY <1>1 DEF ShapesInv, Stages
<1> QED
  BY <1>1, <1>2, StillHolds

\* Whatever happens in an Update, its callbacks do nothing.
LEMMA UpdateShapesHolds == ASSUME ShapesInv, UpdateShapes PROVE ShapesInv'
<1>1. UNCHANGED <<bodies, colliders, bodyRef>>
  BY DEF UpdateShapes, UpdateStep, BeginUpdate, BeginUpdateThrows, EnterLoopStep, ExitLoopStep,
         LoopStepThrows, ResolveThrows, BeginExitLoop, EndUpdate, Terminate, tableVars
<1>2. shapesStage = "update" /\ shapesStage' \in {"idle", "update"} /\ UNCHANGED <<refs, length>>
  BY DEF UpdateShapes
<1>3. length = Len(refs)
  BY <1>2 DEF ShapesInv, Stages
<1> QED
  BY <1>1, <1>2, <1>3, StillHolds

LEMMA BeginVisitsHolds == ASSUME ShapesInv, BeginVisits PROVE ShapesInv'
<1>1. /\ UNCHANGED <<bodies, colliders, bodyRef, refs, length>>
      /\ shapesStage = "idle" /\ shapesStage' = "visit" /\ visited' = 1
  BY DEF BeginVisits, vars, tableVars
<1> QED
  BY <1>1, StillHolds

LEMMA VisitAboveHolds == ASSUME ShapesInv, VisitAbove PROVE ShapesInv'
<1>1. /\ UNCHANGED <<bodies, colliders, bodyRef, refs, length>>
      /\ shapesStage = "visit" /\ shapesStage' = "visit" /\ visited' = visited + 1
  BY DEF VisitAbove, Visiting, vars, tableVars
<1>2. visited' \in Nat \ {0}
  BY <1>1 DEF ShapesInv, Stages
<1> QED
  BY <1>1, <1>2, StillHolds

LEMMA ListenHolds == ASSUME ShapesInv, ListenShapes PROVE ShapesInv'
<1>1. /\ UNCHANGED <<bodies, colliders, bodyRef, refs, length>>
      /\ shapesStage = "started" /\ shapesStage' = "started"
  BY DEF ListenShapes, SetContactListener, tableVars, shapesVars
<1>2. length = Len(refs)
  BY <1>1 DEF ShapesInv, Stages
<1> QED
  BY <1>1, <1>2, StillHolds

\* Init preallocates slots for both tables or for neither.
LEMMA StartHolds == ASSUME ShapesInv, StartShapes PROVE ShapesInv'
<1>1. PICK n \in InitCounts : InitWorld(n)
  BY DEF StartShapes
<1> DEFINE m == Preallocated(n)
<1>2. m \in Nat
  BY BoundsAssumption DEF Preallocated
<1>3. /\ bodies = EmptyTable /\ colliders = EmptyTable
      /\ bodyRef = [i \in Slots(0) |-> Ref(0, 0)]
      /\ refs = <<>> /\ length = 0
  BY DEF StartShapes, ShapesInv, Stages, NotStarted
<1>4. /\ bodies' = Resize(EmptyTable, m) /\ colliders' = Resize(EmptyTable, m)
      /\ bodyRef' = ResizedTo(bodyRef, m, Ref(0, 0))
  BY <1>1, <1>3 DEF InitWorld
<1>5. shapesStage' = "started" /\ refs' = <<>> /\ length' = 0
  BY <1>3 DEF StartShapes
<1>6. /\ IsTable(bodies') /\ Consistent(bodies') /\ LiveUsed(bodies')
      /\ bodies'.size = m /\ bodies'.issued = {}
  BY <1>2, <1>4, PreallocateConsistent
<1>7. bodyRef' = [i \in Slots(m) |-> Ref(0, 0)]
  BY <1>3, <1>4 DEF ResizedTo, Slots
<1>8. bodyRef' \in [Slots(m) -> Refs]
  BY <1>7 DEF Refs, Ref
<1>9. TablesHold'
  BY <1>4, <1>6, <1>8 DEF TablesHold
<1>10. Live(colliders') = {}
  BY <1>4, <1>6 DEF Live
<1>11. OwnBodies'
  BY <1>10 DEF OwnBodies
<1>12. Listed'
  BY <1>5, <1>10 DEF Listed, Held, HeldOnce
<1>13. Stages'
  BY <1>5 DEF Stages
<1> QED
  BY <1>9, <1>11, <1>12, <1>13 DEF ShapesInv

\* u has the first n elements of s, and is like s in them.
FirstOf(S, s, n, u) == s \in Seq(S) /\ n \in 0 .. Len(s) /\ u = SubSeq(s, 1, n)

FirstKept(S, s, n, u) ==
  /\ u \in Seq(S) /\ Len(u) = n
  /\ Held(u, n) = Held(s, n) /\ (HeldOnce(s, n) => HeldOnce(u, n))

\* The first elements of a sequence.
LEMMA FrontOfList ==
  ASSUME NEW S, NEW s, NEW n, NEW u, FirstOf(S, s, n, u)
  PROVE  FirstKept(S, s, n, u)
<1>0. s \in Seq(S) /\ n \in 0 .. Len(s) /\ u = SubSeq(s, 1, n)
  BY DEF FirstOf
<1>1. n \in Nat /\ Len(s) \in Nat /\ n <= Len(s)
  BY <1>0
<1>2. u = [k \in 1 .. n |-> s[k]]
  BY <1>0, <1>1 DEF SubSeq
<1>3. \A k \in 1 .. n : s[k] \in S
  BY <1>0, <1>1
<1>4. u \in Seq(S) /\ Len(u) = n
  BY <1>1, <1>2, <1>3
<1>5. \A k \in 1 .. n : u[k] = s[k]
  BY <1>2
<1>6. Held(u, n) = Held(s, n)
  BY <1>5 DEF Held
<1>7. HeldOnce(s, n) => HeldOnce(u, n)
  BY <1>5 DEF HeldOnce
<1> QED
  BY <1>4, <1>6, <1>7 DEF FirstKept

\* The end of the loop shortens the memory to what the vector holds.
LEMMA EndVisitsHolds == ASSUME ShapesInv, EndVisits PROVE ShapesInv'
<1>1. /\ UNCHANGED <<bodies, colliders, bodyRef, length>>
      /\ shapesStage = "visit" /\ shapesStage' = "update" /\ refs' = SubSeq(refs, 1, length)
  BY DEF EndVisits, vars, tableVars
<1>2. refs \in Seq(colliders.issued) /\ length \in 0 .. Len(refs)
  BY DEF ShapesInv, Listed
<1>3. /\ refs' \in Seq(colliders.issued) /\ Len(refs') = length
      /\ Held(refs', length) = Held(refs, length)
      /\ HeldOnce(refs, length) => HeldOnce(refs', length)
  <2>1. FirstOf(colliders.issued, refs, length, refs')
    BY <1>1, <1>2 DEF FirstOf
  <2>2. FirstKept(colliders.issued, refs, length, refs')
    BY <2>1, FrontOfList
  <2> QED
    BY <2>2 DEF FirstKept
<1>4. Listed'
  <2>1. Held(refs, length) = Live(colliders) /\ HeldOnce(refs, length)
    BY DEF ShapesInv, Listed
  <2>3. length \in 0 .. Len(refs')
    BY <1>2, <1>3
  <2> QED
    BY <1>1, <1>3, <2>1, <2>3 DEF Listed
<1>5. TablesHold'
  BY <1>1 DEF ShapesInv, TablesHold
<1>6. OwnBodies'
  BY <1>1 DEF ShapesInv, OwnBodies, BodyOf
<1>7. Stages'
  BY <1>1, <1>3 DEF Stages
<1> QED
  BY <1>4, <1>5, <1>6, <1>7 DEF ShapesInv

-----------------------------------------------------------------------------
(* A shape is made.                                                        *)

\* The new body belongs to no collider yet.
LEMMA MakeBodyHolds == ASSUME ShapesInv, MakeBody PROVE ShapesInv'
<1>1. /\ UNCHANGED <<colliders, bodyRef, refs, length>>
      /\ shapesStage \in {"idle", "started"} /\ shapesStage' = "body" /\ shapeBody' = NewRef(bodies)
  BY DEF MakeBody, CreateBody
<1>2. length = Len(refs)
  BY <1>1 DEF ShapesInv, Stages
<1>3. Listed'
  BY <1>1 DEF ShapesInv, Listed
<1>4. \A c \in Live(colliders) : BodyOf(c) \in Live(bodies)
  BY <1>1 DEF ShapesInv, OwnBodies
<1>5. CASE CanCreate(bodies)
  <2>1. bodies' = Create(bodies)
    BY <1>5 DEF MakeBody, CreateBody
  <2>2. /\ NewRef(bodies) \notin bodies.issued
        /\ Consistent(bodies') /\ LiveUsed(bodies')
        /\ Live(bodies') = Live(bodies) \union {NewRef(bodies)}
    BY <1>5, <2>1, CreateConsistent DEF ShapesInv, TablesHold
  <2>3. IsTable(bodies')
    BY <1>5, <2>1, CreateTable DEF ShapesInv, TablesHold
  <2>4. bodies.size > 0
    <3>1. bodies.size \in Nat
      BY DEF ShapesInv, TablesHold, IsTable
    <3>2. ASSUME bodies.size = 0 PROVE FALSE
      <4>1. FreeSlots(bodies) = {}
        BY <3>2 DEF FreeSlots, Slots
      <4>2. Grown(bodies).size = 2 * bodies.size
        BY <4>1 DEF Grown, IsFull, ResizeFactor, Resize, Table
      <4>3. Slots(Grown(bodies).size) = {}
        BY <3>2, <4>2 DEF Slots
      <4> QED
        BY <1>5, <4>3 DEF CanCreate
    <3> QED
      BY <3>1, <3>2
  <2>5. TablesHold'
    BY <1>1, <2>2, <2>3, <2>4 DEF ShapesInv, TablesHold
  <2>6. \A c \in Live(colliders) : BodyOf(c)' = BodyOf(c)
    BY <1>1 DEF BodyOf
  <2>7. OwnBodies'
    BY <1>1, <1>4, <2>2, <2>6 DEF ShapesInv, OwnBodies
  <2>8. ShapeInHand'
    BY <1>1, <1>4, <2>2, <2>6 DEF ShapeInHand, Live
  <2>9. Stages'
    BY <1>1, <1>2, <2>8 DEF Stages
  <2> QED
    BY <1>3, <2>5, <2>7, <2>9 DEF ShapesInv
<1>6. CASE ~CanCreate(bodies)
  <2>1. bodies' = bodies /\ status' = "undefined"
    BY <1>6 DEF MakeBody, CreateBody
  <2>2. TablesHold'
    BY <1>1, <2>1 DEF ShapesInv, TablesHold
  <2>3. OwnBodies'
    BY <1>1, <1>4, <2>1 DEF ShapesInv, OwnBodies, BodyOf
  <2>4. Stages'
    BY <1>1, <1>2, <2>1 DEF Stages, ShapeInHand
  <2> QED
    BY <1>3, <2>2, <2>3, <2>4 DEF ShapesInv
<1> QED
  BY <1>5, <1>6

\* The new collider is the only one of that body, and is appended to the list.
LEMMA MakeColliderHolds == ASSUME ShapesInv, MakeCollider PROVE ShapesInv'
<1> DEFINE r == NewRef(colliders)
           k == TargetSlot(colliders)
<1>1. /\ status = "running" /\ shapesStage = "body" /\ shapesStage' = "idle"
      /\ refs' = Append(refs, r) /\ length' = length + 1
      /\ bodies' = bodies
  BY DEF MakeCollider, CreateCollider, MayCall
<1>2. /\ shapeBody \in Live(bodies) /\ \A c \in Live(colliders) : BodyOf(c) # shapeBody
      /\ length = Len(refs)
  BY <1>1 DEF ShapesInv, Stages, ShapeInHand
<1>3. /\ IsTable(bodies) /\ IsTable(colliders)
      /\ Consistent(colliders) /\ LiveUsed(colliders)
      /\ bodyRef \in [Slots(colliders.size) -> Refs]
      /\ bodies.size > 0 => colliders.size > 0
  BY DEF ShapesInv, TablesHold
<1>4. shapeBody \in Refs /\ shapeBody.Index \in Slots(bodies.size)
  BY <1>2, <1>3, RefsOfTable
<1>5. bodies.size > 0 /\ bodies.size \in Nat /\ colliders.size \in Nat
  BY <1>3, <1>4 DEF IsTable, Slots
<1>6. CanCreate(colliders)
  BY <1>3, <1>5, CreateAlwaysPossible
<1>7. /\ colliders' = Create(colliders)
      /\ bodyRef' = [ResizedTo(bodyRef, colliders'.size, Ref(0, 0)) EXCEPT ![k] = shapeBody]
  BY <1>6 DEF MakeCollider, CreateCollider
<1>8. /\ r \notin colliders.issued
      /\ Consistent(colliders') /\ LiveUsed(colliders')
      /\ Live(colliders') = Live(colliders) \union {r}
  BY <1>3, <1>6, <1>7, CreateConsistent
<1>9. /\ IsTable(colliders') /\ colliders.size <= colliders'.size
      /\ r \in [Index : Slots(colliders'.size), GenerationIdx : Nat]
      /\ colliders'.issued = colliders.issued \union {r}
      /\ r.Index \notin colliders.used
  BY <1>3, <1>6, <1>7, CreateTable
<1>10. r.Index = k
  BY DEF NewRef, Ref
<1>11. /\ colliders'.size \in Nat /\ colliders'.size > 0
       /\ Slots(colliders.size) \subseteq Slots(colliders'.size)
  BY <1>3, <1>5, <1>9 DEF IsTable, Slots
<1>12. ResizedTo(bodyRef, colliders'.size, Ref(0, 0)) \in [Slots(colliders'.size) -> Refs]
  BY <1>3 DEF ResizedTo, Refs, Ref
<1>13. bodyRef' \in [Slots(colliders'.size) -> Refs]
  BY <1>4, <1>7, <1>12
<1>14. bodyRef'[r.Index] = shapeBody
  BY <1>7, <1>9, <1>10, <1>12
<1>15. ASSUME NEW c \in Live(colliders) PROVE bodyRef'[c.Index] = bodyRef[c.Index]
  <2>1. c.Index \in Slots(colliders.size) /\ c.Index # k
    BY <1>3, <1>9, <1>10, RefsOfTable DEF LiveUsed
  <2> QED
    BY <1>3, <1>7, <1>11, <2>1 DEF ResizedTo
<1>16. TablesHold'
  BY <1>1, <1>8, <1>9, <1>11, <1>13 DEF ShapesInv, TablesHold
<1>17. OwnBodies'
  <2>1. \A c \in Live(colliders) : bodyRef[c.Index] \in Live(bodies)
    BY <1>1 DEF ShapesInv, OwnBodies, BodyOf
  <2>2. \A c, d \in Live(colliders) : bodyRef[c.Index] = bodyRef[d.Index] => c = d
    BY DEF ShapesInv, OwnBodies, BodyOf
  <2>3. \A c \in Live(colliders) : bodyRef[c.Index] # shapeBody
    BY <1>2 DEF BodyOf
  <2>4. \A c \in Live(colliders') : bodyRef'[c.Index] \in Live(bodies')
    BY <1>1, <1>2, <1>8, <1>14, <1>15, <2>1
  <2>5. \A c, d \in Live(colliders') : bodyRef'[c.Index] = bodyRef'[d.Index] => c = d
    BY <1>8, <1>14, <1>15, <2>2, <2>3
  <2> QED
    BY <2>4, <2>5 DEF OwnBodies, BodyOf
<1>18. Listed'
  <2>1. refs \in Seq(colliders.issued) /\ length \in Nat
    BY DEF ShapesInv, Listed
  <2>2. refs \in Seq(colliders'.issued) /\ r \in colliders'.issued
    BY <1>9, <2>1
  <2>3. /\ refs' \in Seq(colliders'.issued) /\ Len(refs') = length + 1
        /\ refs'[length + 1] = r /\ \A j \in 1 .. length : refs'[j] = refs[j]
    BY <1>1, <1>2, <2>1, <2>2
  <2>4. Held(refs, length) = Live(colliders) /\ HeldOnce(refs, length)
    BY DEF ShapesInv, Listed
  <2>5. 1 .. length + 1 = (1 .. length) \union {length + 1}
    BY <2>1
  <2>6. Held(refs', length + 1) = Live(colliders')
    BY <1>8, <2>3, <2>4, <2>5 DEF Held
  <2>7. \A j \in 1 .. length : refs[j] # r
    BY <1>8, <2>4 DEF Live, Held
  <2>8. HeldOnce(refs', length + 1)
    BY <2>3, <2>4, <2>5, <2>7 DEF HeldOnce
  <2>9. length' \in 0 .. Len(refs')
    BY <1>1, <2>1, <2>3
  <2> QED
    BY <1>1, <2>3, <2>6, <2>8, <2>9 DEF Listed
<1>19. Stages'
  <2>1. Len(refs') = length'
    BY <1>1, <1>2 DEF ShapesInv, Listed
  <2> QED
    BY <1>1, <2>1 DEF Stages
<1> QED
  BY <1>16, <1>17, <1>18, <1>19 DEF ShapesInv

-----------------------------------------------------------------------------
(* A shape is dropped.                                                     *)

\* A reference in the memory that GetCollider still accepts is in the list.
LEMMA ReachedIsLive ==
  ASSUME ShapesInv, NEW k \in 1 .. Len(refs), Valid(colliders, refs[k])
  PROVE  refs[k] \in Live(colliders)
<1>1. refs[k] \in colliders.issued
  BY DEF ShapesInv, Listed
<1> QED
  BY <1>1 DEF ShapesInv, TablesHold, Consistent, RefsExact, Live

\* The body destroyed first is that of the shape being dropped and of no other.
LEMMA DropBodyHolds == ASSUME ShapesInv, DropBody PROVE ShapesInv'
<1> DEFINE c == refs[visited]
           b == BodyOf(c)
<1>1. /\ shapesStage = "visit" /\ shapesStage' = "drop" /\ visited <= Len(refs)
      /\ Valid(colliders, c)
      /\ bodies' = Destroy(bodies, b)
      /\ UNCHANGED <<colliders, bodyRef, refs, length, visited>>
  BY DEF DropBody, Visiting, Reached, DestroyBody
<1>2. visited \in Nat \ {0} /\ Len(refs) \in Nat
  BY <1>1 DEF ShapesInv, Stages, Listed
<1>3. c \in Live(colliders)
  BY <1>1, <1>2, ReachedIsLive
<1>4. b \in Live(bodies)
  BY <1>1, <1>3 DEF ShapesInv, OwnBodies
<1>5. /\ IsTable(bodies') /\ Consistent(bodies') /\ LiveUsed(bodies')
      /\ bodies'.size = bodies.size
      /\ Live(bodies') = Live(bodies) \ {b}
  BY <1>1, <1>4, DestroyConsistent DEF ShapesInv, TablesHold
<1>6. TablesHold'
  BY <1>1, <1>5 DEF ShapesInv, TablesHold
<1>7. OwnBodies'
  BY <1>1, <1>3, <1>5 DEF ShapesInv, OwnBodies, BodyOf
<1>8. Listed'
  BY <1>1 DEF ShapesInv, Listed
<1>9. Stages'
  BY <1>1, <1>2, <1>3 DEF Stages, Dropping
<1> QED
  BY <1>6, <1>7, <1>8, <1>9 DEF ShapesInv

\* u is what std::vector::erase makes of s, whose first n slots are in use, when
\* it takes the k-th out.
ErasedFrom(S, s, n, k, u) ==
  /\ s \in Seq(S) /\ n \in 0 .. Len(s) /\ k \in 1 .. n
  /\ HeldOnce(s, n)
  /\ u = [j \in DOMAIN s |-> IF k <= j /\ j < n THEN s[j + 1] ELSE s[j]]

OthersKept(S, s, n, k, u) ==
  /\ u \in Seq(S) /\ Len(u) = Len(s)
  /\ Held(u, n - 1) = Held(s, n) \ {s[k]} /\ HeldOnce(u, n - 1)

\* Erasing takes one element out of the first n, and no other.
LEMMA ErasedList ==
  ASSUME NEW S, NEW s, NEW n, NEW k, NEW u, ErasedFrom(S, s, n, k, u)
  PROVE  OthersKept(S, s, n, k, u)
<1>0. /\ s \in Seq(S) /\ n \in 0 .. Len(s) /\ k \in 1 .. n /\ HeldOnce(s, n)
      /\ u = [j \in DOMAIN s |-> IF k <= j /\ j < n THEN s[j + 1] ELSE s[j]]
  BY DEF ErasedFrom
<1>1. /\ DOMAIN s = 1 .. Len(s) /\ Len(s) \in Nat /\ n \in Nat
      /\ \A j \in 1 .. Len(s) : s[j] \in S
  BY <1>0
<1>2. u \in [1 .. Len(s) -> S]
  BY <1>0, <1>1
<1>3. u \in Seq(S) /\ Len(u) = Len(s)
  BY <1>1, <1>2
<1>4. \A j \in 1 .. n - 1 : u[j] = IF k <= j THEN s[j + 1] ELSE s[j]
  BY <1>0, <1>1
<1>5. ASSUME NEW j \in 1 .. n - 1 PROVE u[j] \in Held(s, n) /\ u[j] # s[k]
  <2>1. CASE k <= j
    <3>1. u[j] = s[j + 1] /\ j + 1 \in 1 .. n /\ j + 1 # k
      BY <1>0, <1>1, <1>4, <2>1
    <3> QED
      BY <1>0, <3>1 DEF Held, HeldOnce
  <2>2. CASE ~(k <= j)
    <3>1. u[j] = s[j] /\ j \in 1 .. n /\ j # k
      BY <1>0, <1>1, <1>4, <2>2
    <3> QED
      BY <1>0, <3>1 DEF Held, HeldOnce
  <2> QED
    BY <2>1, <2>2
<1>6. ASSUME NEW i \in 1 .. n, s[i] # s[k] PROVE \E j \in 1 .. n - 1 : u[j] = s[i]
  <2>1. CASE i < k
    <3>1. i \in 1 .. n - 1 /\ ~(k <= i)
      BY <1>0, <1>1, <2>1
    <3> QED
      BY <1>4, <3>1
  <2>2. CASE i > k
    <3>1. i - 1 \in 1 .. n - 1 /\ k <= i - 1 /\ i - 1 + 1 = i
      BY <1>0, <1>1, <2>2
    <3> QED
      BY <1>4, <3>1
  <2>3. i < k \/ i > k
    BY <1>0, <1>1, <1>6
  <2> QED
    BY <2>1, <2>2, <2>3
<1>7. Held(u, n - 1) = Held(s, n) \ {s[k]}
  <2>1. Held(u, n - 1) \subseteq Held(s, n) \ {s[k]}
    BY <1>5 DEF Held
  <2>2. Held(s, n) \ {s[k]} \subseteq Held(u, n - 1)
    BY <1>6 DEF Held
  <2> QED
    BY <2>1, <2>2
<1>8. ASSUME NEW i \in 1 .. n - 1, NEW j \in 1 .. n - 1, u[i] = u[j] PROVE i = j
  <2> DEFINE at(m) == IF k <= m THEN m + 1 ELSE m
  <2>1. at(i) \in 1 .. n /\ at(j) \in 1 .. n
    BY <1>0, <1>1
  <2>2. u[i] = s[at(i)] /\ u[j] = s[at(j)]
    BY <1>0, <1>1, <1>4
  <2>3. at(i) = at(j)
    BY <1>0, <1>8, <2>1, <2>2 DEF HeldOnce
  <2> QED
    BY <1>0, <1>1, <2>3
<1> QED
  BY <1>3, <1>7, <1>8 DEF OthersKept, HeldOnce

\* With its collider the shape leaves the list, and no other does.
LEMMA DropColliderHolds == ASSUME ShapesInv, DropCollider PROVE ShapesInv'
<1> DEFINE c == refs[visited]
<1>1. /\ shapesStage = "drop" /\ shapesStage' = "visit"
      /\ colliders' = Destroy(colliders, c)
      /\ bodyRef' = [bodyRef EXCEPT ![c.Index] = Ref(0, 0)]
      /\ length' = length - 1 /\ visited' = visited + 1
      /\ bodies' = bodies
  BY DEF DropCollider, DestroyCollider
<1>2. PICK k \in Found(c) : refs' = Erased(k)
  BY DEF DropCollider
<1>3. k \in 1 .. length /\ refs[k] = c
  BY <1>2 DEF Found
<1>4. c \in Live(colliders) /\ visited \in Nat \ {0}
  BY <1>1 DEF ShapesInv, Stages, Dropping
<1>5. /\ IsTable(colliders) /\ Consistent(colliders) /\ LiveUsed(colliders)
      /\ bodyRef \in [Slots(colliders.size) -> Refs]
  BY DEF ShapesInv, TablesHold
<1>6. /\ IsTable(colliders') /\ Consistent(colliders') /\ LiveUsed(colliders')
      /\ colliders'.size = colliders.size /\ colliders'.issued = colliders.issued
      /\ Live(colliders') = Live(colliders) \ {c}
  BY <1>1, <1>4, <1>5, DestroyConsistent
<1>7. bodyRef' \in [Slots(colliders.size) -> Refs]
  BY <1>1, <1>5 DEF Refs, Ref
<1>8. TablesHold'
  BY <1>1, <1>6, <1>7 DEF ShapesInv, TablesHold
<1>9. ASSUME NEW d \in Live(colliders') PROVE bodyRef'[d.Index] = bodyRef[d.Index]
  <2>1. d.Index # c.Index /\ d.Index \in Slots(colliders.size)
    BY <1>4, <1>5, <1>6, RefsOfTable
  <2> QED
    BY <1>1, <1>5, <2>1
<1>10. OwnBodies'
  <2>1. \A d \in Live(colliders) : d # c => bodyRef[d.Index] \in Live(bodies)
    BY DEF ShapesInv, OwnBodies, BodyOf
  <2>2. \A d, e \in Live(colliders) : bodyRef[d.Index] = bodyRef[e.Index] => d = e
    BY DEF ShapesInv, OwnBodies, BodyOf
  <2>3. \A d \in Live(colliders') : bodyRef'[d.Index] \in Live(bodies')
    BY <1>1, <1>6, <1>9, <2>1
  <2>4. \A d, e \in Live(colliders') : bodyRef'[d.Index] = bodyRef'[e.Index] => d = e
    BY <1>6, <1>9, <2>2
  <2> QED
    BY <2>3, <2>4 DEF OwnBodies, BodyOf
<1>11. Listed'
  <2>1. /\ refs \in Seq(colliders.issued) /\ length \in 0 .. Len(refs)
        /\ Held(refs, length) = Live(colliders) /\ HeldOnce(refs, length)
    BY DEF ShapesInv, Listed
  <2>2. refs' = [j \in DOMAIN refs |->
                   IF k <= j /\ j < length THEN refs[j + 1] ELSE refs[j]]
    BY <1>2 DEF Erased
  <2>3. /\ refs' \in Seq(colliders.issued) /\ Len(refs') = Len(refs)
        /\ Held(refs', length - 1) = Held(refs, length) \ {refs[k]}
        /\ HeldOnce(refs', length - 1)
    <3>1. ErasedFrom(colliders.issued, refs, length, k, refs')
      BY <1>3, <2>1, <2>2 DEF ErasedFrom
    <3>2. OthersKept(colliders.issued, refs, length, k, refs')
      BY <3>1, ErasedList
    <3> QED
      BY <3>2 DEF OthersKept
  <2>4. length - 1 \in 0 .. Len(refs')
    BY <1>3, <2>1, <2>3
  <2> QED
    BY <1>1, <1>3, <1>6, <2>1, <2>3, <2>4 DEF Listed
<1>12. Stages'
  BY <1>1, <1>4 DEF Stages
<1> QED
  BY <1>8, <1>10, <1>11, <1>12 DEF ShapesInv

-----------------------------------------------------------------------------
(* The theorem.                                                            *)

LEMMA ShapesStepHolds == ShapesInv /\ [ShapesNext]_allShapesVars => ShapesInv'
<1> SUFFICES ASSUME ShapesInv, [ShapesNext]_allShapesVars PROVE ShapesInv'
  OBVIOUS
<1>1. CASE StartShapes
  BY <1>1, StartHolds
<1>2. CASE ListenShapes
  BY <1>2, ListenHolds
<1>3. CASE MakeBody
  BY <1>3, MakeBodyHolds
<1>4. CASE MakeCollider
  BY <1>4, MakeColliderHolds
<1>5. CASE BeginVisits
  BY <1>5, BeginVisitsHolds
<1>6. CASE VisitThrows
  BY <1>6, VisitThrowsHolds
<1>7. CASE VisitAbove
  BY <1>7, VisitAboveHolds
<1>8. CASE DropBody
  BY <1>8, DropBodyHolds
<1>9. CASE DropCollider
  BY <1>9, DropColliderHolds
<1>10. CASE EndVisits
  BY <1>10, EndVisitsHolds
<1>11. CASE UpdateShapes
  BY <1>11, UpdateShapesHolds
<1>12. CASE StopShapes
  BY <1>12, StopShapesHolds
<1>13. CASE UNCHANGED allShapesVars
  BY <1>13, StutterHolds
<1> QED
  BY <1>1, <1>2, <1>3, <1>4, <1>5, <1>6, <1>7, <1>8, <1>9, <1>10, <1>11, <1>12, <1>13
  DEF ShapesNext, Frame

\* A list without repetition is as long as the set of its elements is large.
LEMMA OnceEach ==
  ASSUME NEW s, NEW n \in Nat, HeldOnce(s, n), NEW T, T = Held(s, n)
  PROVE  Cardinality(T) = n
<1> DEFINE N == 1 .. n
           f == [j \in N |-> s[j]]
<1>1. IsFiniteSet(N) /\ Cardinality(N) = n
  BY FS_Interval
<1> HIDE DEF N
<1>2. \A i, j \in N : s[i] = s[j] => i = j
  BY DEF N, HeldOnce
<1>3. T = {s[j] : j \in N}
  BY DEF N, Held
<1>4. f \in [N -> T]
  BY <1>3
<1>5. \A i, j \in N : f[i] = f[j] => i = j
  BY <1>2
<1>6. \A t \in T : \E j \in N : f[j] = t
  BY <1>3
<1>7. f \in Bijection(N, T)
  BY <1>4, <1>5, <1>6 DEF Bijection, Injection, Surjection, IsInjective
<1>8. ExistsBijection(N, T)
  BY <1>7 DEF ExistsBijection
<1> QED
  BY <1>1, <1>8, FS_Bijection

LEMMA ShapesInvIsExact == ShapesInv => ListExact
<1> SUFFICES ASSUME ShapesInv, shapesStage \in {"idle", "update"}
             PROVE  /\ length = Len(refs)
                    /\ {refs[k] : k \in 1 .. length} = Live(colliders)
                    /\ Cardinality(Live(colliders)) = length
                    /\ \A k \in 1 .. length : Reached(refs[k])
  BY DEF ListExact
<1>1. length = Len(refs)
  BY DEF ShapesInv, Stages
<1>2. /\ refs \in Seq(colliders.issued)
      /\ Held(refs, length) = Live(colliders) /\ HeldOnce(refs, length)
  BY DEF ShapesInv, Listed
<1>3. length \in Nat
  BY <1>1, <1>2
<1>4. Cardinality(Live(colliders)) = length
  BY <1>2, <1>3, OnceEach
<1>5. ASSUME NEW k \in 1 .. length PROVE Reached(refs[k])
  <2>1. refs[k] \in Live(colliders)
    BY <1>2 DEF Held
  <2>2. BodyOf(refs[k]) \in Live(bodies)
    BY <2>1 DEF ShapesInv, OwnBodies
  <2> QED
    BY <2>1, <2>2, LiveIsValid DEF ShapesInv, TablesHold, Reached
<1> QED
  BY <1>1, <1>2, <1>4, <1>5 DEF Held

\* However many shapes fall in a frame, and whatever the loop over the vector it
\* erases from skips or visits twice, _colliders afterwards lists every collider
\* that is left, once, and each can be drawn.
THEOREM ListStaysExact == ShapesSpec => []ListExact
BY InitHolds, ShapesStepHolds, ShapesInvIsExact, PTL DEF ShapesSpec
=============================================================================
