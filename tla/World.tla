-------------------------------- MODULE World --------------------------------
(***************************************************************************)
(* PhysicsEngine::World with its client: the body and collider tables, the *)
(* contact listener, and Update, whose callbacks hand control back to the  *)
(* client in the middle of a frame.                                        *)
(*                                                                         *)
(* Update is one call of one thread.  It is one action up to the point     *)
(* where it has found the pairs that overlap, and then one action per      *)
(* iteration of the enter/stay loop and of the exit loop.  While an        *)
(* iteration's callback is in progress (event # NoEvent) the client may    *)
(* call World again; outside of Update it always may.  An exception that   *)
(* leaves a noexcept function ends the program.                            *)
(*                                                                         *)
(* Where the colliders are is left out: which enabled colliders overlap in *)
(* a frame, and in which order the quad-tree names a pair, is arbitrary.   *)
(***************************************************************************)
EXTENDS SlotTable

CONSTANTS
  MaxBodies,      \* bound on the size of the body table
  MaxColliders,   \* bound on the size of the collider table
  MaxGen,         \* bound on every generation index
  InitCounts      \* the preallocation counts Init is called with

ASSUME BoundsAssumption ==
  /\ MaxBodies \in Nat /\ MaxColliders \in Nat /\ MaxGen \in Nat
  /\ InitCounts \subseteq Int

VARIABLES
  status,          \* "constructed" until Init, then "running"; "terminated"
                   \* by the exception of a lookup, "unresolved" by that of a
                   \* contact's resolution, "undefined" by undefined behaviour
  bodies,          \* _bodies and _bodiesGenIndices
  colliders,       \* _colliders and _collidersGenIndices
  bodyRef,         \* for each collider slot, the collider's _bodyRef
  triggers,        \* the collider slots whose collider's _triggers is set
  listener,        \* whether _contactListener is set
  colliderPairs,   \* _colliderPairs: the pairs found by the last Update
  phase,           \* "idle", or the loop of resolveNarrowPhase in progress
  newPairs,        \* newPairs: the pairs found by the Update in progress
  todo,            \* the pairs the loop in progress has not come to yet
  event            \* the callback in progress, <<name, pair>>, or NoEvent

tableVars  == <<bodies, colliders, bodyRef, triggers>>
updateVars == <<colliderPairs, phase, newPairs, todo, event>>
vars == <<status, tableVars, listener, updateVars>>

NoEvent == <<>>

\* ColliderPair: an ordered pair of references, compared as an unordered one.
ColliderA(p) == p[1]
ColliderB(p) == p[2]
Both(p) == {ColliderA(p), ColliderB(p)}

\* Mutant of SamePair: the order counts.
SameOrderedPair(p, q) ==
  ColliderA(p) = ColliderA(q) /\ ColliderB(p) = ColliderB(q)

SamePair(p, q) ==
  \/ ColliderA(p) = ColliderA(q) /\ ColliderB(p) = ColliderB(q)
  \/ ColliderA(p) = ColliderB(q) /\ ColliderB(p) = ColliderA(q)

Contains(pairs, p) == \E q \in pairs : SamePair(p, q)

Init ==
  /\ status = "constructed"
  /\ bodies = EmptyTable
  /\ colliders = EmptyTable
  /\ bodyRef = [i \in Slots(0) |-> Ref(0, 0)]
  /\ triggers = {}
  /\ listener = FALSE
  /\ colliderPairs = {}
  /\ phase = "idle"
  /\ newPairs = {}
  /\ todo = {}
  /\ event = NoEvent

Bounded(t, slots) ==
  t.size <= slots /\ \A i \in Slots(t.size) : t.gens[i] <= MaxGen

-----------------------------------------------------------------------------
(* Calls of the client.                                                    *)

MayCall == status = "running" /\ (phase = "idle" \/ event # NoEvent)

InitWorld(count) ==
  /\ status = "constructed"
  /\ status' = "running"
  /\ bodies' = Resize(bodies, Preallocated(count))
  /\ colliders' = Resize(colliders, Preallocated(count))
  /\ bodyRef' = ResizedTo(bodyRef, Preallocated(count), Ref(0, 0))
  /\ Bounded(bodies', MaxBodies) /\ Bounded(colliders', MaxColliders)
  /\ UNCHANGED <<triggers, listener, updateVars>>

\* World::Deinit, called between two Updates.
DeinitWorld ==
  /\ status = "running" /\ phase = "idle"
  /\ status' = "constructed"
  /\ bodies' = EmptyTable
  /\ colliders' = EmptyTable
  /\ bodyRef' = [i \in Slots(0) |-> Ref(0, 0)]
  /\ triggers' = {}
  /\ colliderPairs' = {}
  /\ listener' = FALSE
  /\ UNCHANGED <<phase, newPairs, todo, event>>

SetContactListener(set) ==
  /\ MayCall
  /\ listener' = set
  /\ UNCHANGED <<status, tableVars, updateVars>>

CreateBody ==
  /\ MayCall
  /\ \/ /\ CanCreate(bodies)
        /\ bodies' = Create(bodies)
        /\ Bounded(bodies', MaxBodies)
        /\ UNCHANGED status
     \/ /\ ~CanCreate(bodies)
        /\ status' = "undefined"
        /\ UNCHANGED bodies
  /\ UNCHANGED <<colliders, bodyRef, triggers, listener, updateVars>>

DestroyBody(b) ==
  /\ MayCall
  /\ bodies' = Destroy(bodies, b)
  /\ Bounded(bodies', MaxBodies)
  /\ UNCHANGED <<status, colliders, bodyRef, triggers, listener, updateVars>>

\* GetBody(b).SetMass(m), or an assignment to GetBody(b).
SetBodyValid(b, valid) ==
  /\ MayCall
  /\ Valid(bodies, b)
  /\ bodies' = SetUsed(bodies, b, valid)
  /\ UNCHANGED <<status, colliders, bodyRef, triggers, listener, updateVars>>

\* Mutant of CreateCollider: a reused slot keeps its body reference.
CreateColliderUnattached(b) ==
  /\ MayCall /\ CanCreate(colliders)
  /\ colliders' = Create(colliders)
  /\ Bounded(colliders', MaxColliders)
  /\ bodyRef' = ResizedTo(bodyRef, colliders'.size, b)
  /\ UNCHANGED <<status, bodies, triggers, listener, updateVars>>

CreateCollider(b) ==
  /\ MayCall
  /\ \/ /\ CanCreate(colliders)
        /\ colliders' = Create(colliders)
        /\ Bounded(colliders', MaxColliders)
        /\ bodyRef' = [ResizedTo(bodyRef, colliders'.size, Ref(0, 0))
                         EXCEPT ![TargetSlot(colliders)] = b]
        /\ UNCHANGED status
     \/ /\ ~CanCreate(colliders)
        /\ status' = "undefined"
        /\ UNCHANGED <<colliders, bodyRef>>
  /\ UNCHANGED <<bodies, triggers, listener, updateVars>>

DestroyCollider(c) ==
  /\ MayCall
  /\ colliders' = Destroy(colliders, c)
  /\ Bounded(colliders', MaxColliders)
  /\ bodyRef' = [bodyRef EXCEPT ![c.Index] = Ref(0, 0)]
  /\ triggers' = triggers \ {c.Index}
  /\ UNCHANGED <<status, bodies, listener, updateVars>>

SetEnabled(c, enabled) ==
  /\ MayCall
  /\ Valid(colliders, c)
  /\ colliders' = SetUsed(colliders, c, enabled)
  /\ UNCHANGED <<status, bodies, bodyRef, triggers, listener, updateVars>>

SetIsTrigger(c, trigger) ==
  /\ MayCall
  /\ Valid(colliders, c)
  /\ triggers' = IF trigger THEN triggers \union {c.Index} ELSE triggers \ {c.Index}
  /\ UNCHANGED <<status, bodies, colliders, bodyRef, listener, updateVars>>

SetBodyRef(c, b) ==
  /\ MayCall
  /\ Valid(colliders, c)
  /\ bodyRef' = [bodyRef EXCEPT ![c.Index] = b]
  /\ UNCHANGED <<status, bodies, colliders, triggers, listener, updateVars>>

-----------------------------------------------------------------------------
(* Update.                                                                 *)

Terminate == status' = "terminated" /\ UNCHANGED <<tableVars, listener, updateVars>>

\* Mutant of EnabledRefs: disabled colliders are not skipped.
AllSlotRefs == {Ref(i, colliders.gens[i]) : i \in Slots(colliders.size)}

\* The references resolveBroadPhase inserts: the enabled colliders'.
EnabledRefs ==
  {Ref(i, colliders.gens[i]) : i \in colliders.used}

BodyOf(c) == bodyRef[c.Index]

\* The quad-tree names each pair of enabled colliders once, in either order.
PossiblePairs ==
  { pairs \in SUBSET {p \in EnabledRefs \X EnabledRefs : ColliderA(p) # ColliderB(p)} :
      \A p, q \in pairs : SamePair(p, q) => p = q }

\* Integration, the broad phase and the narrow phase's search for overlaps.
\* GetBody is called for every enabled collider.  Without a listener Update
\* only moves the bodies.
BeginUpdate ==
  /\ status = "running" /\ phase = "idle" /\ listener
  /\ \A c \in EnabledRefs : Valid(bodies, BodyOf(c))
  /\ newPairs' \in PossiblePairs
  /\ todo' = newPairs'
  /\ phase' = "enter"
  /\ UNCHANGED <<status, tableVars, listener, colliderPairs, event>>

BeginUpdateThrows ==
  /\ status = "running" /\ phase = "idle" /\ listener
  /\ \E c \in EnabledRefs : ~Valid(bodies, BodyOf(c))
  /\ Terminate

\* The four lookups an iteration may make.
CollidersFound(p) == \A c \in Both(p) : Valid(colliders, c)
BodiesFound(p) == \A c \in Both(p) : Valid(bodies, BodyOf(c))

Triggered(p) == \E c \in Both(p) : c.Index \in triggers

\* An iteration's end: one callback, or none.  _contactListener is not tested
\* again once Update began.
Notify(name, p) ==
  \/ listener /\ event' = <<name, p>> /\ todo' = todo \ {p} /\ UNCHANGED status
  \/ ~listener /\ status' = "undefined" /\ UNCHANGED <<event, todo>>

PassOver(p) == event' = NoEvent /\ todo' = todo \ {p} /\ UNCHANGED status

\* An iteration that throws: a collider is gone, or its body when a contact
\* has to be resolved.
LookupThrows(p, resolves) ==
  \/ ~CollidersFound(p)
  \/ resolves /\ CollidersFound(p) /\ ~Triggered(p) /\ ~BodiesFound(p)

Begun(p) == ~Contains(colliderPairs, p)
Ended(p) == ~Contains(newPairs, p)

EnterLoopStep(p) ==
  /\ status = "running" /\ phase = "enter" /\ p \in todo
  /\ ~LookupThrows(p, TRUE)
  /\ \/ Begun(p) /\ Triggered(p) /\ Notify("OnTriggerEnter", p)
     \/ Begun(p) /\ ~Triggered(p) /\ Notify("OnCollisionEnter", p)
     \/ ~Begun(p) /\ Triggered(p) /\ Notify("OnTriggerStay", p)
     \/ ~Begun(p) /\ ~Triggered(p) /\ PassOver(p)
  /\ UNCHANGED <<tableVars, listener, colliderPairs, phase, newPairs>>

\* Mutant of BeginExitLoop: the second loop runs over newPairs again.
BeginExitLoopOverNew ==
  /\ status = "running" /\ phase = "enter" /\ todo = {}
  /\ phase' = "exit"
  /\ todo' = newPairs
  /\ UNCHANGED <<status, tableVars, listener, colliderPairs, newPairs, event>>

\* From the first loop, over newPairs, to the second, over _colliderPairs.
BeginExitLoop ==
  /\ status = "running" /\ phase = "enter" /\ todo = {}
  /\ phase' = "exit"
  /\ todo' = colliderPairs
  /\ UNCHANGED <<status, tableVars, listener, colliderPairs, newPairs, event>>

\* Both colliders are looked up whether or not the pair still overlaps.
ExitLoopStep(p) ==
  /\ status = "running" /\ phase = "exit" /\ p \in todo
  /\ ~LookupThrows(p, Ended(p))
  /\ \/ Ended(p) /\ Triggered(p) /\ Notify("OnTriggerExit", p)
     \/ Ended(p) /\ ~Triggered(p) /\ Notify("OnCollisionExit", p)
     \/ ~Ended(p) /\ PassOver(p)
  /\ UNCHANGED <<tableVars, listener, colliderPairs, phase, newPairs>>

LoopStepThrows(p) ==
  /\ status = "running" /\ p \in todo
  /\ \/ phase = "enter" /\ LookupThrows(p, TRUE)
     \/ phase = "exit" /\ LookupThrows(p, Ended(p))
  /\ Terminate

\* Resolving a contact of two circles with one centre normalises the zero
\* vector, which throws.  As positions are left out, any contact may be one.
ResolveThrows(p) ==
  /\ status = "running" /\ p \in todo
  /\ phase = "enter" \/ (phase = "exit" /\ Ended(p))
  /\ CollidersFound(p) /\ ~Triggered(p) /\ BodiesFound(p)
  /\ status' = "unresolved"
  /\ UNCHANGED <<tableVars, listener, updateVars>>

\* Mutant of EndUpdate: the new pairs are added to the old ones.
EndUpdateAccumulates ==
  /\ status = "running" /\ phase = "exit" /\ todo = {}
  /\ colliderPairs' = colliderPairs \union newPairs
  /\ newPairs' = {}
  /\ phase' = "idle"
  /\ event' = NoEvent
  /\ UNCHANGED <<status, tableVars, listener, todo>>

EndUpdate ==
  /\ status = "running" /\ phase = "exit" /\ todo = {}
  /\ colliderPairs' = newPairs
  /\ newPairs' = {}
  /\ phase' = "idle"
  /\ event' = NoEvent
  /\ UNCHANGED <<status, tableVars, listener, todo>>

UpdateStep ==
  \/ BeginUpdate
  \/ BeginUpdateThrows
  \/ \E p \in todo :
       EnterLoopStep(p) \/ ExitLoopStep(p) \/ LoopStepThrows(p) \/ ResolveThrows(p)
  \/ BeginExitLoop
  \/ EndUpdate

-----------------------------------------------------------------------------
(* Clients.                                                                *)

Remembered == colliderPairs \union newPairs

InContact(c) == \E p \in Remembered : c \in Both(p)

\* A client that keeps the discipline the code relies on.  It preallocates
\* something; it passes only references it owns; it leaves the masses of its
\* bodies positive; it destroys a body after the colliders attached to it,
\* and a collider only while no Update remembers a contact of it (after
\* taking it out of use and letting an Update report the exits); it creates
\* no collider while it owns one that is disabled; and it changes the
\* listener between Updates only.
CarefulCalls ==
  \/ \E n \in InitCounts : Preallocated(n) > 0 /\ InitWorld(n)
  \/ DeinitWorld
  \/ phase = "idle" /\ \E set \in BOOLEAN : SetContactListener(set)
  \/ CreateBody
  \/ \E b \in Live(bodies) :
       \/ (\A c \in Live(colliders) : BodyOf(c) # b) /\ DestroyBody(b)
       \/ LiveUsed(colliders) /\ CreateCollider(b)
  \/ \E c \in Live(colliders) :
       \/ ~InContact(c) /\ DestroyCollider(c)
       \/ \E on \in BOOLEAN : SetEnabled(c, on) \/ SetIsTrigger(c, on)
       \/ \E b \in Live(bodies) : SetBodyRef(c, b)

\* Any client of the interface that passes references World gave it.
AnyCalls ==
  \/ \E n \in InitCounts : InitWorld(n)
  \/ DeinitWorld
  \/ \E set \in BOOLEAN : SetContactListener(set)
  \/ CreateBody
  \/ \E b \in bodies.issued :
       \/ DestroyBody(b)
       \/ \E valid \in BOOLEAN : SetBodyValid(b, valid)
       \/ CreateCollider(b)
  \/ \E c \in colliders.issued :
       \/ DestroyCollider(c)
       \/ \E on \in BOOLEAN : SetEnabled(c, on) \/ SetIsTrigger(c, on)
       \/ \E b \in bodies.issued : SetBodyRef(c, b)

\* A careful client but for one thing: it may destroy any collider it owns,
\* as BouncingShapesSample does with those that fell off the screen.
HastyCalls == CarefulCalls \/ \E c \in Live(colliders) : DestroyCollider(c)

CarefulNext == UpdateStep \/ CarefulCalls

HastyNext == UpdateStep \/ HastyCalls

AnyNext == UpdateStep \/ AnyCalls

CarefulSpec == Init /\ [][CarefulNext]_vars

HastySpec == Init /\ [][HastyNext]_vars

AnySpec == Init /\ [][AnyNext]_vars

\* The program's main loop calls Update in every frame, and an Update that
\* began runs on whatever its callbacks do.
FairCarefulSpec == CarefulSpec /\ WF_vars(UpdateStep)

-----------------------------------------------------------------------------
(* Properties.                                                             *)

PairsOver(refs) == refs \X refs

TypeOK ==
  /\ status \in {"constructed", "running", "terminated", "unresolved", "undefined"}
  /\ IsTable(bodies) /\ IsTable(colliders)
  /\ bodyRef \in [Slots(colliders.size) -> Refs]
  /\ triggers \subseteq Slots(colliders.size)
  /\ listener \in BOOLEAN
  /\ phase \in {"idle", "enter", "exit"}
  /\ Remembered \subseteq PairsOver(colliders.issued)
  /\ phase = "idle" => newPairs = {} /\ todo = {} /\ event = NoEvent
  /\ phase = "enter" => todo \subseteq newPairs
  /\ phase = "exit" => todo \subseteq colliderPairs

\* With a careful client, whose calls come from outside or from a callback, no
\* reference, slot or listener World uses is missing: no lookup of Update throws,
\* no vector is indexed out of bounds, no null listener is called.  One exception
\* is left for which no care with references is enough, that of the resolution
\* of two circles with one centre (ResolveThrows).
NeverAstray == status \notin {"terminated", "undefined"}

\* World::Update, CreateBody and CreateCollider are noexcept (World.h): nothing
\* ends the program.  This holds of careful clients all of whose colliders are
\* triggers, so that no contact is resolved.
NeverFails == status \in {"constructed", "running"}

\* Every reference World stores for later use reaches its object: the
\* colliders of the remembered pairs, and the bodies of all colliders in the
\* client's hands, enabled or not.
StoredRefsReach ==
  /\ \A p \in Remembered : Both(p) \subseteq Live(colliders)
  /\ \A c \in Live(colliders) : Valid(colliders, c) /\ Valid(bodies, BodyOf(c))

\* A body or collider reference that has gone stale never becomes valid again
\* while the table lives, whatever is called and from wherever: not when its
\* slot is reused, and not when the vectors grow.
StaleForever ==
  [][ /\ \A r \in bodies.issued :
           ~Valid(bodies, r) /\ r \in bodies'.issued => ~Valid(bodies', r)
      /\ \A r \in colliders.issued :
           ~Valid(colliders, r) /\ r \in colliders'.issued => ~Valid(colliders', r) ]_vars

\* The pairs the listener has been told are in contact.
Unordered(pairs) == {Both(p) : p \in pairs}

KnownContacts ==
  CASE phase = "idle"  -> Unordered(colliderPairs)
    [] phase = "enter" -> Unordered(colliderPairs) \union Unordered(newPairs \ todo)
    [] OTHER           -> Unordered(newPairs) \union Unordered(todo)

KindOf(name) ==
  CASE name \in {"OnTriggerEnter", "OnCollisionEnter"} -> "Enter"
    [] name = "OnTriggerStay" -> "Stay"
    [] OTHER -> "Exit"

ColliderRefs == [Index : 0 .. MaxColliders - 1, GenerationIdx : 0 .. MaxGen]

ProperPairs == {p \in PairsOver(ColliderRefs) : ColliderA(p) # ColliderB(p)}

\* The contacts of the frame in progress, or of the last one; those of them
\* the first loop has not come to; and what the listener is being told.
FrameContacts == Unordered(IF phase = "idle" THEN colliderPairs ELSE newPairs)

PendingContacts == IF phase = "enter" THEN Unordered(todo) ELSE {}

ToldContact ==
  IF event = NoEvent THEN <<>> ELSE <<KindOf(event[1]), Both(event[2])>>

Protocol ==
  INSTANCE ContactProtocol WITH
    Pair     <- Unordered(ProperPairs),
    contacts <- KnownContacts,
    frame    <- FrameContacts,
    pending  <- PendingContacts,
    told     <- ToldContact

\* The listener learns of every contact's beginning and end, in order and
\* once a frame (ContactListener.h: OnTriggerEnter "is called when two
\* colliders begin intersecting", OnTriggerExit "when two colliders stop").
ProtocolSpec == Protocol!Spec

\* A collider that stays out of use is not remembered for ever: while Updates
\* run with a listener, the exits of all its contacts are reported, and the
\* client may then destroy it.
DisabledReleased ==
  \A c \in ColliderRefs :
    <>[]( /\ status = "running" /\ listener
          /\ c \in Live(colliders) /\ c.Index \notin colliders.used )
      => <>[](~InContact(c))
=============================================================================
