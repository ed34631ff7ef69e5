-------------------------- MODULE TriggerColliders --------------------------
(***************************************************************************)
(* TriggerColliderSample: a client of World that is also its contact       *)
(* listener.  It creates a body and a trigger collider for each of its     *)
(* game objects, finds a game object again by the slot index of its        *)
(* collider, and counts in it the contacts it is told of: an object with a *)
(* positive count is drawn green, the others red.                          *)
(*                                                                         *)
(* Every step is one step of World, which the sample calls or which calls  *)
(* the sample back.  Positions, shapes, and therefore onUpdate and         *)
(* onRender, are left out.                                                 *)
(***************************************************************************)
EXTENDS World, Sequences, FiniteSets

CONSTANT ObjectCount   \* _totalObjectCount

ASSUME SampleAssumption ==
  ObjectCount \in Nat /\ \A n \in InitCounts : Preallocated(n) > 0

VARIABLES
  stage,         \* "off" until Init; within onInit "started", "adding", "body",
                 \* "collider"; "ready" when onInit has returned
  bodyMade,      \* the BodyRef of the game object being added
  colliderMade,  \* its ColRef
  gameObjects    \* _gameObjects

sampleVars == <<stage, bodyMade, colliderMade, gameObjects>>

GameObject(b, c, n) == [BodyRef |-> b, ColRef |-> c, CollisionNbr |-> n]

SampleInit ==
  /\ Init
  /\ stage = "off"
  /\ bodyMade = Ref(0, 0) /\ colliderMade = Ref(0, 0)
  /\ gameObjects = <<>>

\* Sample::Init, up to the call of onInit.
Start ==
  /\ stage = "off"
  /\ \E n \in InitCounts : InitWorld(n)
  /\ stage' = "started"
  /\ UNCHANGED <<bodyMade, colliderMade, gameObjects>>

Listen ==
  /\ stage = "started"
  /\ SetContactListener(TRUE)
  /\ stage' = "adding"
  /\ UNCHANGED <<bodyMade, colliderMade, gameObjects>>

\* The body assigned to GetBody(bodyMade) has mass 1, as a new one has.
AddBody ==
  /\ stage = "adding" /\ Len(gameObjects) < ObjectCount
  /\ CreateBody
  /\ bodyMade' = NewRef(bodies)
  /\ stage' = "body"
  /\ UNCHANGED <<colliderMade, gameObjects>>

\* Mutant of AddCollider: the collider is attached to the slot after its body's.
AddColliderToNext ==
  /\ stage = "body"
  /\ CreateCollider(Ref(bodyMade.Index + 1, 0))
  /\ colliderMade' = NewRef(colliders)
  /\ stage' = "collider"
  /\ UNCHANGED <<bodyMade, gameObjects>>

AddCollider ==
  /\ stage = "body"
  /\ CreateCollider(bodyMade)
  /\ colliderMade' = NewRef(colliders)
  /\ stage' = "collider"
  /\ UNCHANGED <<bodyMade, gameObjects>>

\* Mutant of AddObject: the collider is left solid.
AddObjectSolid ==
  /\ stage = "collider"
  /\ SetIsTrigger(colliderMade, FALSE)
  /\ gameObjects' = Append(gameObjects, GameObject(bodyMade, colliderMade, 0))
  /\ stage' = "adding"
  /\ UNCHANGED <<bodyMade, colliderMade>>

AddObject ==
  /\ stage = "collider"
  /\ SetIsTrigger(colliderMade, TRUE)
  /\ gameObjects' = Append(gameObjects, GameObject(bodyMade, colliderMade, 0))
  /\ stage' = "adding"
  /\ UNCHANGED <<bodyMade, colliderMade>>

\* onInit returns.
Finish ==
  /\ stage = "adding" /\ Len(gameObjects) = ObjectCount
  /\ stage' = "ready"
  /\ UNCHANGED <<vars, bodyMade, colliderMade, gameObjects>>

\* What a callback adds to the CollisionNbr of the two game objects.
Change(told) ==
  CASE told[1] = "OnTriggerEnter" -> 1
    [] told[1] = "OnTriggerExit"  -> -1
    [] OTHER -> 0

\* Mutant of Counted: only the first collider's object is counted for.
CountedForFirst(objects, told) ==
  [objects EXCEPT ![ColliderA(told[2]).Index + 1].CollisionNbr = @ + Change(told)]

Counted(objects, told) ==
  [ n \in DOMAIN objects |->
      IF \E c \in Both(told[2]) : c.Index + 1 = n
      THEN [objects[n] EXCEPT !.CollisionNbr = @ + Change(told)]
      ELSE objects[n] ]

\* Sample::Update: a step of World::Update, and the callback it makes.
Step ==
  /\ stage = "ready"
  /\ UpdateStep
  /\ gameObjects' = IF event' # event /\ event' # NoEvent
                    THEN Counted(gameObjects, event') ELSE gameObjects
  /\ UNCHANGED <<stage, bodyMade, colliderMade>>

\* Mutant of Stop: onDeinit does not clear _gameObjects.
StopUncleared ==
  /\ stage = "ready"
  /\ DeinitWorld
  /\ stage' = "off"
  /\ UNCHANGED <<bodyMade, colliderMade, gameObjects>>

\* Sample::Deinit: another sample is chosen, or this one is restarted.
Stop ==
  /\ stage = "ready"
  /\ DeinitWorld
  /\ gameObjects' = <<>>
  /\ stage' = "off"
  /\ UNCHANGED <<bodyMade, colliderMade>>

SampleNext ==
  \/ Start \/ Listen \/ AddBody \/ AddCollider \/ AddObject \/ Finish
  \/ Step \/ Stop

SampleSpec == SampleInit /\ [][SampleNext]_<<vars, sampleVars>>

-----------------------------------------------------------------------------
(* Properties.                                                             *)

\* A callback finds its game objects by the slot index of their colliders:
\* the collider of the n-th object lies in the slot n - 1, is not stale, and is
\* attached to the object's body.
IndicesAligned ==
  \A n \in DOMAIN gameObjects :
    LET c == gameObjects[n].ColRef IN
    /\ c.Index = n - 1 /\ c.Index \in Slots(colliders.size)
    /\ Valid(colliders, c)
    /\ BodyOf(c) = gameObjects[n].BodyRef

\* The count of an object is the number of contacts it is in, as far as the
\* listener has been told, at every point of an Update: no enter and no exit
\* is lost or counted twice, so the colour is right ("As soon as two trigger
\* colliders intersect, they turn green", TriggerColliderSample.cpp).
CounterExact ==
  \A n \in DOMAIN gameObjects :
    gameObjects[n].CollisionNbr =
      Cardinality({pair \in KnownContacts : gameObjects[n].ColRef \in pair})

\* The sample is a careful client of World, so what holds for every careful
\* client (no lookup throws, no listener call goes astray) holds for it.  And as
\* its colliders are triggers, World never resolves a contact of theirs and can
\* not throw there: NeverFails.
IsCarefulClient == CarefulSpec

\* "as soon as they no longer intersect, they turn red again"
\* (TriggerColliderSample.cpp): an object that stays out of all new contacts
\* turns red and stays red.
TurnsRed ==
  \A n \in 1 .. ObjectCount :
    <>[](stage = "ready" /\ \A p \in newPairs : gameObjects[n].ColRef \notin Both(p))
      => <>[](n \in DOMAIN gameObjects /\ gameObjects[n].CollisionNbr = 0)
=============================================================================
