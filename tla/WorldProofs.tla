----------------------------- MODULE WorldProofs -----------------------------
(***************************************************************************)
(* For worlds of every size: with a careful client no lookup throws, and   *)
(* every reference World stores reaches its object.  The invariants        *)
(* checked by TLC are not inductive.  A lookup succeeds because the tables *)
(* are consistent; they stay so because Create... never takes a slot that  *)
(* a live reference names; for bodies that is an invariant (LiveUsed), for *)
(* colliders the client sees to it.  A body outlives the colliders that    *)
(* refer to it, and a collider the pairs that remember it.                 *)
(***************************************************************************)
EXTENDS World, SlotTableProofs

\* Every collider in the client's hands is attached to a body it owns.
BodiesLive == \A c \in Live(colliders) : BodyOf(c) \in Live(bodies)

PairsLive == \A p \in Remembered : Both(p) \subseteq Live(colliders)

\* What the status of the World and the phase of Update say of the rest.
Lifecycle ==
  /\ status = "running" => bodies.size > 0 /\ colliders.size > 0
  /\ status = "constructed" =>
       /\ bodies = EmptyTable /\ colliders = EmptyTable
       /\ bodyRef = [i \in Slots(0) |-> Ref(0, 0)]
       /\ triggers = {} /\ Remembered = {} /\ phase = "idle"
  /\ phase # "idle" => listener

TablesInv ==
  /\ Consistent(bodies) /\ LiveUsed(bodies)
  /\ Consistent(colliders)

IInv ==
  TypeOK /\ NeverAstray /\ TablesInv /\ BodiesLive /\ PairsLive /\ Lifecycle

LEMMA InitEstablishes == Init => IInv
<1> SUFFICES ASSUME Init PROVE IInv
  OBVIOUS
<1>1. bodyRef \in [Slots(0) -> Refs] /\ triggers \subseteq Slots(0)
  BY DEF Init, Refs, Ref
<1>2. Live(colliders) = {}
  BY EmptyTableFacts DEF Init, Live
<1>3. Remembered = {}
  BY DEF Init, Remembered
<1>4. TypeOK
  BY <1>1, <1>3, EmptyTableFacts DEF Init, TypeOK
<1>5. TablesInv /\ BodiesLive /\ PairsLive
  BY <1>2, <1>3, EmptyTableFacts DEF Init, TablesInv, BodiesLive, PairsLive
<1>6. NeverAstray /\ Lifecycle
  BY <1>3 DEF Init, NeverAstray, Lifecycle
<1> QED
  BY <1>4, <1>5, <1>6 DEF IInv

-----------------------------------------------------------------------------
(* What the invariant says of the lookups.                                 *)

LEMMA LiveIsValid ==
  ASSUME NEW t, Consistent(t), NEW r \in Live(t)
  PROVE  Valid(t, r)
BY DEF Consistent, RefsExact, Live

\* The references of the enabled colliders are in the client's hands.
LEMMA EnabledAreLive ==
  ASSUME IInv PROVE EnabledRefs \subseteq Live(colliders)
BY DEF IInv, TablesInv, Consistent, NoOrphan, EnabledRefs

\* No iteration over remembered pairs throws.
LEMMA LookupsSucceed ==
  ASSUME IInv, NEW p \in Remembered, NEW resolves \in BOOLEAN
  PROVE  ~LookupThrows(p, resolves)
<1>1. \A c \in Both(p) : c \in Live(colliders)
  BY DEF IInv, PairsLive
<1>2. CollidersFound(p)
  BY <1>1, LiveIsValid DEF IInv, TablesInv, CollidersFound
<1>3. BodiesFound(p)
  BY <1>1, LiveIsValid DEF IInv, TablesInv, BodiesLive, BodiesFound
<1> QED
  BY <1>2, <1>3 DEF LookupThrows

LEMMA TodoIsRemembered ==
  ASSUME IInv, NEW p \in todo PROVE p \in Remembered
BY DEF IInv, TypeOK, Remembered

-----------------------------------------------------------------------------
(* The steps of Update.                                                    *)

\* A step of Update that leaves the tables and the listener alone keeps the
\* invariant if it remembers only pairs of live colliders.
LEMMA UpdateKeepsTables ==
  ASSUME IInv, status = "running",
         status' \in {"running", "unresolved"}, UNCHANGED <<tableVars, listener>>,
         Remembered' \subseteq Live(colliders) \X Live(colliders),
         phase' \in {"idle", "enter", "exit"},
         phase' # "idle" => listener,
         phase' = "idle" => newPairs' = {} /\ todo' = {} /\ event' = NoEvent,
         phase' = "enter" => todo' \subseteq newPairs',
         phase' = "exit" => todo' \subseteq colliderPairs'
  PROVE  IInv'
<1>1. UNCHANGED <<bodies, colliders, bodyRef, triggers, listener>>
  BY DEF tableVars
<1>2. Live(colliders) \subseteq colliders.issued
  BY DEF Live
<1>3. Remembered' \subseteq PairsOver(colliders'.issued)
  BY <1>1, <1>2 DEF PairsOver
<1>4. TypeOK'
  BY <1>1, <1>3 DEF IInv, TypeOK
<1>5. PairsLive'
  BY <1>1 DEF PairsLive, Both, ColliderA, ColliderB
<1>6. (NeverAstray /\ TablesInv /\ BodiesLive /\ Lifecycle)'
  BY <1>1 DEF IInv, NeverAstray, TablesInv, BodiesLive, BodyOf, Lifecycle
<1> QED
  BY <1>4, <1>5, <1>6 DEF IInv

LEMMA RememberedLive ==
  ASSUME IInv PROVE Remembered \subseteq Live(colliders) \X Live(colliders)
BY DEF IInv, TypeOK, PairsLive, PairsOver, Both, ColliderA, ColliderB

LEMMA BeginUpdatePreserves == ASSUME IInv, BeginUpdate PROVE IInv'
<1>1. newPairs' \subseteq EnabledRefs \X EnabledRefs
  BY DEF BeginUpdate, PossiblePairs
<1>2. Remembered' \subseteq Live(colliders) \X Live(colliders)
  BY <1>1, EnabledAreLive, RememberedLive DEF BeginUpdate, Remembered
<1> QED
  BY <1>2, UpdateKeepsTables DEF BeginUpdate

LEMMA BeginUpdateNeverThrows == ASSUME IInv, BeginUpdateThrows PROVE FALSE
<1>1. PICK c \in EnabledRefs : ~Valid(bodies, BodyOf(c))
  BY DEF BeginUpdateThrows
<1>2. BodyOf(c) \in Live(bodies)
  BY EnabledAreLive DEF IInv, BodiesLive
<1> QED
  BY <1>1, <1>2, LiveIsValid DEF IInv, TablesInv

\* While Update is in progress there is a listener to notify.
LEMMA NotifyRuns ==
  ASSUME IInv, phase # "idle", NEW name, NEW p, Notify(name, p)
  PROVE  UNCHANGED status /\ todo' = todo \ {p}
BY DEF IInv, Lifecycle, Notify

LEMMA EnterLoopStepPreserves ==
  ASSUME IInv, NEW p \in todo, EnterLoopStep(p) PROVE IInv'
<1>1. status = "running" /\ phase = "enter" /\ listener
  BY DEF EnterLoopStep, IInv, Lifecycle
<1>2. UNCHANGED status /\ todo' = todo \ {p}
  BY <1>1, NotifyRuns DEF EnterLoopStep, PassOver
<1>3. UNCHANGED <<tableVars, listener, colliderPairs, phase, newPairs>>
  BY DEF EnterLoopStep
<1>4. Remembered' \subseteq Live(colliders) \X Live(colliders)
  BY <1>3, RememberedLive DEF Remembered
<1>5. todo' \subseteq newPairs'
  BY <1>1, <1>2, <1>3 DEF IInv, TypeOK
<1> QED
  BY <1>1, <1>2, <1>3, <1>4, <1>5, UpdateKeepsTables

LEMMA ExitLoopStepPreserves ==
  ASSUME IInv, NEW p \in todo, ExitLoopStep(p) PROVE IInv'
<1>1. status = "running" /\ phase = "exit" /\ listener
  BY DEF ExitLoopStep, IInv, Lifecycle
<1>2. UNCHANGED status /\ todo' = todo \ {p}
  BY <1>1, NotifyRuns DEF ExitLoopStep, PassOver
<1>3. UNCHANGED <<tableVars, listener, colliderPairs, phase, newPairs>>
  BY DEF ExitLoopStep
<1>4. Remembered' \subseteq Live(colliders) \X Live(colliders)
  BY <1>3, RememberedLive DEF Remembered
<1>5. todo' \subseteq colliderPairs'
  BY <1>1, <1>2, <1>3 DEF IInv, TypeOK
<1> QED
  BY <1>1, <1>2, <1>3, <1>4, <1>5, UpdateKeepsTables

LEMMA LoopStepNeverThrows ==
  ASSUME IInv, NEW p \in todo, LoopStepThrows(p) PROVE FALSE
<1>1. p \in Remembered
  BY TodoIsRemembered
<1>2. Ended(p) \in BOOLEAN
  BY DEF Ended
<1> QED
  BY <1>1, <1>2, LookupsSucceed DEF LoopStepThrows

\* The exception of a contact's resolution leaves everything as it is.
LEMMA ResolveThrowsPreserves ==
  ASSUME IInv, NEW p \in todo, ResolveThrows(p) PROVE IInv'
<1>1. /\ status = "running" /\ status' = "unresolved"
      /\ UNCHANGED <<tableVars, listener, colliderPairs, phase, newPairs, todo, event>>
  BY DEF ResolveThrows, updateVars
<1>2. Remembered' \subseteq Live(colliders) \X Live(colliders)
  BY <1>1, RememberedLive DEF Remembered
<1>3. /\ phase' \in {"idle", "enter", "exit"} /\ (phase' # "idle" => listener')
      /\ phase' = "idle" => newPairs' = {} /\ todo' = {} /\ event' = NoEvent
      /\ phase' = "enter" => todo' \subseteq newPairs'
      /\ phase' = "exit" => todo' \subseteq colliderPairs'
  BY <1>1 DEF IInv, TypeOK, Lifecycle
<1> QED
  BY <1>1, <1>2, <1>3, UpdateKeepsTables

LEMMA UpdateStepPreserves == ASSUME IInv, UpdateStep PROVE IInv'
<1>1. CASE BeginUpdate
  BY <1>1, BeginUpdatePreserves
<1>2. CASE BeginUpdateThrows
  BY <1>2, BeginUpdateNeverThrows
<1>3. ASSUME NEW p \in todo,
             \/ EnterLoopStep(p) \/ ExitLoopStep(p)
             \/ LoopStepThrows(p) \/ ResolveThrows(p)
      PROVE  IInv'
  BY <1>3, EnterLoopStepPreserves, ExitLoopStepPreserves, LoopStepNeverThrows,
     ResolveThrowsPreserves
<1>4. CASE BeginExitLoop
  <2>1. Remembered' = Remembered
    BY <1>4 DEF BeginExitLoop, Remembered
  <2>2. listener
    BY <1>4 DEF BeginExitLoop, IInv, Lifecycle
  <2> QED
    BY <1>4, <2>1, <2>2, RememberedLive, UpdateKeepsTables DEF BeginExitLoop
<1>5. CASE EndUpdate
  <2>1. Remembered' \subseteq Remembered
    BY <1>5 DEF EndUpdate, Remembered
  <2> QED
    BY <1>5, <2>1, RememberedLive, UpdateKeepsTables DEF EndUpdate
<1> QED
  BY <1>1, <1>2, <1>3, <1>4, <1>5 DEF UpdateStep

-----------------------------------------------------------------------------
(* The calls of a careful client.                                          *)

\* A call that leaves Update's own state alone keeps the invariant if it
\* leaves consistent tables, no collider without its body, and no remembered
\* pair without its colliders.
LEMMA CallKeepsUpdate ==
  ASSUME IInv, status = "running", status' = "running", UNCHANGED updateVars,
         listener' \in BOOLEAN, phase # "idle" => listener',
         IsTable(bodies'), Consistent(bodies'), LiveUsed(bodies'),
         bodies'.size > 0,
         IsTable(colliders'), Consistent(colliders'), colliders'.size > 0,
         bodyRef' \in [Slots(colliders'.size) -> Refs],
         triggers' \subseteq Slots(colliders'.size),
         colliders.issued \subseteq colliders'.issued,
         BodiesLive',
         \A p \in Remembered : Both(p) \subseteq Live(colliders')
  PROVE  IInv'
<1>1. UNCHANGED <<colliderPairs, phase, newPairs, todo, event>>
  BY DEF updateVars
<1>2. Remembered' = Remembered
  BY <1>1 DEF Remembered
<1>3. Remembered' \subseteq PairsOver(colliders'.issued)
  BY <1>2 DEF IInv, TypeOK, PairsOver
<1>4. TypeOK'
  BY <1>1, <1>3 DEF IInv, TypeOK
<1>5. PairsLive'
  BY <1>2 DEF PairsLive, Both, ColliderA, ColliderB
<1>6. (NeverAstray /\ TablesInv /\ Lifecycle)'
  BY <1>1 DEF IInv, NeverAstray, TablesInv, Lifecycle
<1> QED
  BY <1>4, <1>5, <1>6 DEF IInv

LEMMA TablesRunning ==
  ASSUME IInv, status = "running"
  PROVE  /\ IsTable(bodies) /\ Consistent(bodies) /\ LiveUsed(bodies)
         /\ bodies.size > 0 /\ CanCreate(bodies)
         /\ IsTable(colliders) /\ Consistent(colliders)
         /\ colliders.size > 0 /\ CanCreate(colliders)
         /\ bodyRef \in [Slots(colliders.size) -> Refs]
         /\ triggers \subseteq Slots(colliders.size)
         /\ listener \in BOOLEAN /\ (phase # "idle" => listener)
         /\ \A p \in Remembered : Both(p) \subseteq Live(colliders)
BY CreateAlwaysPossible DEF IInv, TypeOK, TablesInv, Lifecycle, PairsLive

\* The references of a table name its slots, one live reference each.
LEMMA RefsOfTable ==
  ASSUME NEW t, IsTable(t)
  PROVE  /\ \A r \in Live(t) : r \in Refs /\ r.Index \in Slots(t.size)
         /\ Consistent(t) =>
              \A r, q \in Live(t) : r.Index = q.Index => r = q
<1>1. \A r \in Live(t) : r \in [Index : Slots(t.size), GenerationIdx : Nat]
  BY DEF IsTable, Live
<1>2. Slots(t.size) \subseteq Nat
  BY DEF Slots
<1>3. \A r \in Live(t) : r \in Refs /\ r.Index \in Slots(t.size)
  BY <1>1, <1>2 DEF Refs
<1>4. ASSUME Consistent(t), NEW r \in Live(t), NEW q \in Live(t), r.Index = q.Index
      PROVE  r = q
  <2>1. r.GenerationIdx = q.GenerationIdx
    BY <1>4, LiveIsValid DEF Valid
  <2> QED
    BY <1>1, <1>4, <2>1, RefOfFields
<1> QED
  BY <1>3, <1>4

LEMMA InitWorldPreserves ==
  ASSUME IInv, NEW n \in InitCounts, Preallocated(n) > 0, InitWorld(n)
  PROVE  IInv'
<1> DEFINE m == Preallocated(n)
<1>1. m \in Nat /\ m > 0
  BY BoundsAssumption DEF Preallocated
<1>2. /\ bodies = EmptyTable /\ colliders = EmptyTable
      /\ bodyRef = [i \in Slots(0) |-> Ref(0, 0)]
      /\ triggers = {} /\ Remembered = {} /\ phase = "idle"
  BY DEF InitWorld, IInv, Lifecycle
<1>3. /\ IsTable(bodies') /\ Consistent(bodies') /\ LiveUsed(bodies')
      /\ bodies'.size = m
  BY <1>1, <1>2, PreallocateConsistent DEF InitWorld
<1>4. /\ IsTable(colliders') /\ Consistent(colliders')
      /\ colliders'.size = m /\ colliders'.issued = {}
  BY <1>1, <1>2, PreallocateConsistent DEF InitWorld
<1>5. bodyRef' \in [Slots(m) -> Refs]
  <2>1. bodyRef' = [i \in Slots(m) |-> Ref(0, 0)]
    BY <1>2 DEF InitWorld, ResizedTo, Slots
  <2> QED
    BY <2>1 DEF Refs, Ref
<1>6. UNCHANGED <<triggers, listener, colliderPairs, phase, newPairs, todo, event>>
  BY DEF InitWorld, updateVars
<1>7. Remembered' = {} /\ triggers' = {}
  BY <1>2, <1>6 DEF Remembered
<1>8. TypeOK'
  BY <1>2, <1>3, <1>4, <1>5, <1>6, <1>7 DEF InitWorld, IInv, TypeOK
<1>9. (TablesInv /\ BodiesLive /\ PairsLive)'
  BY <1>3, <1>4, <1>7 DEF TablesInv, BodiesLive, PairsLive, Live
<1>10. (NeverAstray /\ Lifecycle)'
  BY <1>1, <1>2, <1>3, <1>4, <1>6 DEF InitWorld, NeverAstray, Lifecycle
<1> QED
  BY <1>8, <1>9, <1>10 DEF IInv

LEMMA DeinitWorldPreserves == ASSUME IInv, DeinitWorld PROVE IInv'
<1>1. /\ phase' = "idle" /\ newPairs' = {} /\ todo' = {} /\ event' = NoEvent
      /\ colliderPairs' = {}
  BY DEF DeinitWorld, IInv, TypeOK
<1>2. Remembered' = {} /\ Live(colliders') = {}
  BY <1>1, EmptyTableFacts DEF DeinitWorld, Remembered, Live
<1>3. bodyRef' \in [Slots(0) -> Refs]
  BY DEF DeinitWorld, Refs, Ref
<1>4. TypeOK'
  BY <1>1, <1>2, <1>3, EmptyTableFacts DEF DeinitWorld, TypeOK
<1>5. (TablesInv /\ BodiesLive /\ PairsLive)'
  BY <1>2, EmptyTableFacts DEF DeinitWorld, TablesInv, BodiesLive, PairsLive
<1>6. (NeverAstray /\ Lifecycle)'
  BY <1>1, <1>2 DEF DeinitWorld, NeverAstray, Lifecycle
<1> QED
  BY <1>4, <1>5, <1>6 DEF IInv

LEMMA SetContactListenerPreserves ==
  ASSUME IInv, phase = "idle", NEW set \in BOOLEAN, SetContactListener(set)
  PROVE  IInv'
<1>1. /\ status = "running" /\ status' = "running"
      /\ UNCHANGED <<bodies, colliders, bodyRef, triggers>>
      /\ UNCHANGED updateVars /\ listener' = set
  BY DEF SetContactListener, MayCall, tableVars
<1>2. BodiesLive'
  BY <1>1 DEF IInv, BodiesLive, BodyOf
<1> QED
  BY <1>1, <1>2, TablesRunning, CallKeepsUpdate

LEMMA CreateBodyPreserves == ASSUME IInv, CreateBody PROVE IInv'
<1>1. status = "running"
  BY DEF CreateBody, MayCall
<1>2. /\ bodies' = Create(bodies) /\ status' = "running"
      /\ UNCHANGED <<colliders, bodyRef, triggers, listener, updateVars>>
  BY <1>1, TablesRunning DEF CreateBody
<1>3. /\ Consistent(bodies') /\ LiveUsed(bodies')
      /\ Live(bodies') = Live(bodies) \union {NewRef(bodies)}
  BY <1>1, <1>2, TablesRunning, CreateConsistent
<1>4. IsTable(bodies') /\ bodies.size <= bodies'.size
  BY <1>1, <1>2, TablesRunning, CreateTable
<1>5. bodies'.size > 0
  BY <1>1, <1>4, TablesRunning DEF IsTable
<1>6. BodiesLive'
  BY <1>2, <1>3 DEF IInv, BodiesLive, BodyOf
<1> QED
  BY <1>1, <1>2, <1>3, <1>4, <1>5, <1>6, TablesRunning, CallKeepsUpdate

LEMMA DestroyBodyPreserves ==
  ASSUME IInv, NEW b \in Live(bodies),
         \A c \in Live(colliders) : BodyOf(c) # b, DestroyBody(b)
  PROVE  IInv'
<1>1. /\ status = "running" /\ status' = "running"
      /\ bodies' = Destroy(bodies, b)
      /\ UNCHANGED <<colliders, bodyRef, triggers, listener, updateVars>>
  BY DEF DestroyBody, MayCall
<1>2. /\ IsTable(bodies') /\ Consistent(bodies') /\ LiveUsed(bodies')
      /\ bodies'.size = bodies.size
      /\ Live(bodies') = Live(bodies) \ {b}
  BY <1>1, TablesRunning, DestroyConsistent
<1>3. BodiesLive'
  BY <1>1, <1>2 DEF IInv, BodiesLive, BodyOf
<1> QED
  BY <1>1, <1>2, <1>3, TablesRunning, CallKeepsUpdate

LEMMA CreateColliderPreserves ==
  ASSUME IInv, NEW b \in Live(bodies), LiveUsed(colliders), CreateCollider(b)
  PROVE  IInv'
<1> DEFINE r == NewRef(colliders)
           k == TargetSlot(colliders)
<1>1. status = "running"
  BY DEF CreateCollider, MayCall
<1>2. /\ colliders' = Create(colliders) /\ status' = "running"
      /\ bodyRef' = [ResizedTo(bodyRef, colliders'.size, Ref(0, 0))
                       EXCEPT ![TargetSlot(colliders)] = b]
      /\ UNCHANGED <<bodies, triggers, listener, updateVars>>
  BY <1>1, TablesRunning DEF CreateCollider
<1>3. /\ r \notin colliders.issued /\ Consistent(colliders')
      /\ Live(colliders') = Live(colliders) \union {r}
  BY <1>1, <1>2, TablesRunning, CreateConsistent
<1>4. /\ IsTable(colliders') /\ colliders.size <= colliders'.size
      /\ r \in [Index : Slots(colliders'.size), GenerationIdx : Nat]
      /\ colliders'.issued = colliders.issued \union {r}
      /\ r.Index \notin colliders.used
  BY <1>1, <1>2, TablesRunning, CreateTable
<1>5. r.Index = k
  BY DEF NewRef, Ref
<1>6. /\ colliders.size \in Nat /\ colliders'.size \in Nat /\ colliders'.size > 0
      /\ Slots(colliders.size) \subseteq Slots(colliders'.size)
  BY <1>1, <1>4, TablesRunning DEF IsTable, Slots
<1>7. b \in Refs
  BY <1>1, TablesRunning, RefsOfTable
<1>8. DOMAIN bodyRef = Slots(colliders.size)
  BY <1>1, TablesRunning
<1>9. ResizedTo(bodyRef, colliders'.size, Ref(0, 0)) \in [Slots(colliders'.size) -> Refs]
  BY <1>1, <1>8, TablesRunning DEF ResizedTo, Refs, Ref
<1>10. bodyRef' \in [Slots(colliders'.size) -> Refs]
  BY <1>2, <1>7, <1>9
<1>11. triggers' \subseteq Slots(colliders'.size)
  BY <1>1, <1>2, <1>6, TablesRunning
<1>12. bodyRef'[k] = b
  BY <1>2, <1>4, <1>5, <1>9
<1>13. ASSUME NEW c \in Live(colliders) PROVE bodyRef'[c.Index] = bodyRef[c.Index]
  <2>1. c.Index \in Slots(colliders.size) /\ c.Index # k
    BY <1>1, <1>4, <1>5, TablesRunning, RefsOfTable DEF LiveUsed
  <2> QED
    BY <1>2, <1>6, <1>8, <2>1 DEF ResizedTo
<1>14. BodiesLive'
  BY <1>2, <1>3, <1>5, <1>12, <1>13 DEF IInv, BodiesLive, BodyOf
<1>15. \A p \in Remembered : Both(p) \subseteq Live(colliders')
  BY <1>1, <1>3, TablesRunning
<1> QED
  BY <1>1, <1>2, <1>3, <1>4, <1>6, <1>10, <1>11, <1>14, <1>15, TablesRunning,
     CallKeepsUpdate

LEMMA DestroyColliderPreserves ==
  ASSUME IInv, NEW c \in Live(colliders), ~InContact(c), DestroyCollider(c)
  PROVE  IInv'
<1>1. /\ status = "running" /\ status' = "running"
      /\ colliders' = Destroy(colliders, c)
      /\ bodyRef' = [bodyRef EXCEPT ![c.Index] = Ref(0, 0)]
      /\ triggers' = triggers \ {c.Index}
      /\ UNCHANGED <<bodies, listener, updateVars>>
  BY DEF DestroyCollider, MayCall
<1>2. /\ IsTable(colliders') /\ Consistent(colliders')
      /\ colliders'.size = colliders.size /\ colliders'.issued = colliders.issued
      /\ Live(colliders') = Live(colliders) \ {c}
  BY <1>1, TablesRunning, DestroyConsistent
<1>3. bodyRef' \in [Slots(colliders'.size) -> Refs]
  BY <1>1, <1>2, TablesRunning DEF Refs, Ref
<1>4. triggers' \subseteq Slots(colliders'.size)
  BY <1>1, <1>2, TablesRunning
<1>5. ASSUME NEW d \in Live(colliders), d # c PROVE bodyRef'[d.Index] = bodyRef[d.Index]
  BY <1>1, <1>5, TablesRunning, RefsOfTable
<1>6. BodiesLive'
  BY <1>1, <1>2, <1>5 DEF IInv, BodiesLive, BodyOf
<1>7. \A p \in Remembered : Both(p) \subseteq Live(colliders')
  BY <1>1, <1>2, TablesRunning DEF InContact
<1> QED
  BY <1>1, <1>2, <1>3, <1>4, <1>6, <1>7, TablesRunning, CallKeepsUpdate

LEMMA SetEnabledPreserves ==
  ASSUME IInv, NEW c \in Live(colliders), NEW on \in BOOLEAN, SetEnabled(c, on)
  PROVE  IInv'
<1>1. /\ status = "running" /\ status' = "running"
      /\ colliders' = SetUsed(colliders, c, on)
      /\ UNCHANGED <<bodies, bodyRef, triggers, listener, updateVars>>
  BY DEF SetEnabled, MayCall
<1>2. /\ IsTable(colliders') /\ Consistent(colliders')
      /\ colliders'.size = colliders.size /\ colliders'.issued = colliders.issued
      /\ Live(colliders') = Live(colliders)
  BY <1>1, TablesRunning, SetUsedConsistent
<1>3. BodiesLive'
  BY <1>1, <1>2 DEF IInv, BodiesLive, BodyOf
<1> QED
  BY <1>1, <1>2, <1>3, TablesRunning, CallKeepsUpdate

LEMMA SetIsTriggerPreserves ==
  ASSUME IInv, NEW c \in Live(colliders), NEW on \in BOOLEAN, SetIsTrigger(c, on)
  PROVE  IInv'
<1>1. /\ status = "running" /\ status' = "running"
      /\ UNCHANGED <<bodies, colliders, bodyRef, listener, updateVars>>
  BY DEF SetIsTrigger, MayCall
<1>2. triggers' \subseteq Slots(colliders'.size)
  BY <1>1, TablesRunning, RefsOfTable DEF SetIsTrigger
<1>3. BodiesLive'
  BY <1>1 DEF IInv, BodiesLive, BodyOf
<1> QED
  BY <1>1, <1>2, <1>3, TablesRunning, CallKeepsUpdate

LEMMA SetBodyRefPreserves ==
  ASSUME IInv, NEW c \in Live(colliders), NEW b \in Live(bodies), SetBodyRef(c, b)
  PROVE  IInv'
<1>1. /\ status = "running" /\ status' = "running"
      /\ bodyRef' = [bodyRef EXCEPT ![c.Index] = b]
      /\ UNCHANGED <<bodies, colliders, triggers, listener, updateVars>>
  BY DEF SetBodyRef, MayCall
<1>2. b \in Refs /\ \A d \in Live(colliders) : d.Index \in Slots(colliders.size)
  BY <1>1, TablesRunning, RefsOfTable
<1>3. bodyRef' \in [Slots(colliders'.size) -> Refs]
  BY <1>1, <1>2, TablesRunning
<1>4. \A d \in Live(colliders) : bodyRef'[d.Index] \in {bodyRef[d.Index], b}
  BY <1>1, <1>2, TablesRunning
<1>5. BodiesLive'
  BY <1>1, <1>4 DEF IInv, BodiesLive, BodyOf
<1> QED
  BY <1>1, <1>3, <1>5, TablesRunning, CallKeepsUpdate

LEMMA CarefulCallPreserves == ASSUME IInv, CarefulCalls PROVE IInv'
<1>1. ASSUME NEW n \in InitCounts, Preallocated(n) > 0 /\ InitWorld(n) PROVE IInv'
  BY <1>1, InitWorldPreserves
<1>2. ASSUME NEW set \in BOOLEAN, phase = "idle", SetContactListener(set) PROVE IInv'
  BY <1>2, SetContactListenerPreserves
<1>3. ASSUME NEW b \in Live(bodies),
             \/ (\A c \in Live(colliders) : BodyOf(c) # b) /\ DestroyBody(b)
             \/ LiveUsed(colliders) /\ CreateCollider(b)
      PROVE  IInv'
  BY <1>3, DestroyBodyPreserves, CreateColliderPreserves
<1>4. ASSUME NEW c \in Live(colliders),
             \/ ~InContact(c) /\ DestroyCollider(c)
             \/ \E on \in BOOLEAN : SetEnabled(c, on) \/ SetIsTrigger(c, on)
             \/ \E b \in Live(bodies) : SetBodyRef(c, b)
      PROVE  IInv'
  BY <1>4, DestroyColliderPreserves, SetEnabledPreserves, SetIsTriggerPreserves,
     SetBodyRefPreserves
<1> QED
  BY <1>1, <1>2, <1>3, <1>4, DeinitWorldPreserves, CreateBodyPreserves
     DEF CarefulCalls

-----------------------------------------------------------------------------
LEMMA StepPreserves == IInv /\ [CarefulNext]_vars => IInv'
<1> SUFFICES ASSUME IInv, [CarefulNext]_vars PROVE IInv'
  OBVIOUS
<1>1. CASE UpdateStep
  BY <1>1, UpdateStepPreserves
<1>2. CASE CarefulCalls
  BY <1>2, CarefulCallPreserves
<1>3. CASE UNCHANGED vars
  <2>1. UNCHANGED <<status, bodies, colliders, bodyRef, triggers, listener,
                    colliderPairs, phase, newPairs, todo, event>>
    BY <1>3 DEF vars, tableVars, updateVars
  <2>2. (TypeOK /\ NeverAstray /\ TablesInv)'
    BY <2>1 DEF IInv, TypeOK, NeverAstray, TablesInv, Remembered
  <2>3. (BodiesLive /\ PairsLive /\ Lifecycle)'
    BY <2>1 DEF IInv, BodiesLive, BodyOf, PairsLive, Lifecycle, Remembered, Both,
                ColliderA, ColliderB
  <2> QED
    BY <2>2, <2>3 DEF IInv
<1> QED
  BY <1>1, <1>2, <1>3 DEF CarefulNext

\* The state of a World stays well formed: the vectors keep their lengths in
\* step and the loops of Update walk over pairs that are remembered.
THEOREM CarefulTypeOK == CarefulSpec => []TypeOK
<1>1. IInv => TypeOK
  BY DEF IInv
<1> QED
  BY <1>1, InitEstablishes, StepPreserves, PTL DEF CarefulSpec

\* No lookup made by Update throws, no call indexes a vector out of bounds and
\* no missing listener is called, whatever a careful client does outside of
\* Update and in its callbacks: nothing World has kept is astray.  What is left
\* of the promise of noexcept is the exception of a contact's resolution.
THEOREM CarefulNeverAstray == CarefulSpec => []NeverAstray
<1>1. IInv => NeverAstray
  BY DEF IInv
<1> QED
  BY <1>1, InitEstablishes, StepPreserves, PTL DEF CarefulSpec

\* The colliders of every remembered pair and the body of every collider the
\* client owns are reached by the references World stores.
THEOREM CarefulStoredRefsReach == CarefulSpec => []StoredRefsReach
<1>1. IInv => StoredRefsReach
  <2> SUFFICES ASSUME IInv PROVE StoredRefsReach
    OBVIOUS
  <2> QED
    BY LiveIsValid DEF IInv, TablesInv, BodiesLive, PairsLive, StoredRefsReach
<1> QED
  BY <1>1, InitEstablishes, StepPreserves, PTL DEF CarefulSpec

-----------------------------------------------------------------------------
(* Any client at all.  A careless client can end the program, but not make *)
(* World report a contact twice or out of order, nor make a stale          *)
(* reference valid again.  What this needs of the state is less than what  *)
(* the lookups of a careful client need.                                   *)

\* A set of pairs names each contact once.
NamedOnce(pairs) ==
  /\ pairs \subseteq ProperPairs
  /\ \A p, q \in pairs : SamePair(p, q) => p = q

LoopInv ==
  /\ phase \in {"idle", "enter", "exit"}
  /\ phase = "idle" => newPairs = {} /\ todo = {} /\ event = NoEvent
  /\ phase = "enter" => todo \subseteq newPairs
  /\ phase = "exit" => todo \subseteq colliderPairs
  /\ NamedOnce(colliderPairs) /\ NamedOnce(newPairs)

AgeInv ==
  /\ GoodTable(bodies) /\ GoodTable(colliders)
  /\ Bounded(colliders, MaxColliders)
  /\ status = "constructed" => bodies = EmptyTable /\ colliders = EmptyTable

AnyInv == LoopInv /\ AgeInv

TablesAged == Aged(bodies, bodies') /\ Aged(colliders, colliders')

-----------------------------------------------------------------------------
(* Sets of pairs and sets of contacts.                                     *)

LEMMA BothSame ==
  ASSUME NEW p \in ProperPairs, NEW q \in ProperPairs
  PROVE  Both(p) = Both(q) <=> SamePair(p, q)
BY DEF ProperPairs, PairsOver, Both, SamePair, ColliderA, ColliderB

LEMMA ContainsContact ==
  ASSUME NEW S \in SUBSET ProperPairs, NEW p \in ProperPairs
  PROVE  Contains(S, p) <=> Both(p) \in Unordered(S)
<1>1. \A q \in S : SamePair(q, p) <=> Both(p) = Both(q)
  BY BothSame
<1>2. \A q \in S : SamePair(p, q) <=> Both(p) = Both(q)
  BY BothSame
<1> QED
  BY <1>1, <1>2 DEF Contains, Unordered

\* Taking a pair out of a set that names each contact once takes its contact
\* out.
LEMMA WithoutPair ==
  ASSUME NEW S, NamedOnce(S), NEW T \in SUBSET S, NEW p \in T
  PROVE  Unordered(T \ {p}) = Unordered(T) \ {Both(p)}
<1>1. ASSUME NEW q \in T, Both(q) = Both(p) PROVE q = p
  BY <1>1, BothSame DEF NamedOnce
<1> QED
  BY <1>1 DEF Unordered

LEMMA UnorderedUnion ==
  ASSUME NEW S, NEW T
  PROVE  /\ Unordered(S \union T) = Unordered(S) \union Unordered(T)
         /\ Unordered({}) = {}
BY DEF Unordered

-----------------------------------------------------------------------------
(* The steps of Update, and what the listener learns from them.            *)

LEMMA EnabledInTable ==
  ASSUME AgeInv PROVE EnabledRefs \subseteq ColliderRefs
<1>1. /\ colliders.size \in Nat /\ colliders.used \subseteq Slots(colliders.size)
      /\ colliders.gens \in [Slots(colliders.size) -> Nat]
  BY DEF AgeInv, GoodTable, IsTable
<1>2. /\ colliders.size <= MaxColliders
      /\ \A i \in Slots(colliders.size) : colliders.gens[i] <= MaxGen
  BY DEF AgeInv, Bounded
<1> SUFFICES ASSUME NEW i \in colliders.used
             PROVE  Ref(i, colliders.gens[i]) \in ColliderRefs
  BY DEF EnabledRefs
<1>3. i \in 0 .. MaxColliders - 1
  BY <1>1, <1>2, BoundsAssumption DEF Slots
<1>4. colliders.gens[i] \in 0 .. MaxGen
  BY <1>1, <1>2, BoundsAssumption
<1> QED
  BY <1>3, <1>4 DEF ColliderRefs, Ref

LEMMA FramePairsNamedOnce ==
  ASSUME AgeInv, NEW pairs \in PossiblePairs PROVE NamedOnce(pairs)
<1>1. pairs \subseteq {p \in EnabledRefs \X EnabledRefs : ColliderA(p) # ColliderB(p)}
  BY DEF PossiblePairs
<1>2. pairs \subseteq ProperPairs
  BY <1>1, EnabledInTable DEF ProperPairs, PairsOver
<1>3. \A p, q \in pairs : SamePair(p, q) => p = q
  BY DEF PossiblePairs
<1> QED
  BY <1>2, <1>3 DEF NamedOnce

\* A step that leaves Update's own state alone tells the listener nothing.
LEMMA UpdateVarsStutter ==
  ASSUME LoopInv, UNCHANGED updateVars
  PROVE  /\ LoopInv'
         /\ UNCHANGED <<KnownContacts, FrameContacts, PendingContacts, ToldContact>>
<1>1. UNCHANGED <<colliderPairs, phase, newPairs, todo, event>>
  BY DEF updateVars
<1>2. LoopInv'
  BY <1>1 DEF LoopInv, NamedOnce
<1>3. UNCHANGED <<Unordered(colliderPairs), Unordered(newPairs), Unordered(todo),
                  Unordered(newPairs \ todo)>>
  BY <1>1 DEF Unordered, Both, ColliderA, ColliderB
<1>4. UNCHANGED <<KnownContacts, FrameContacts, PendingContacts>>
  BY <1>1, <1>3 DEF KnownContacts, FrameContacts, PendingContacts
<1>5. UNCHANGED ToldContact
  BY <1>1 DEF ToldContact, KindOf, Both, ColliderA, ColliderB
<1> QED
  BY <1>2, <1>4, <1>5

LEMMA BeginUpdateTells ==
  ASSUME AnyInv, BeginUpdate PROVE LoopInv' /\ Protocol!BeginFrame
<1>1. /\ phase = "idle" /\ newPairs = {} /\ todo = {} /\ event = NoEvent
      /\ NamedOnce(colliderPairs)
  BY DEF AnyInv, LoopInv, BeginUpdate
<1>2. /\ phase' = "enter" /\ newPairs' \in PossiblePairs /\ todo' = newPairs'
      /\ UNCHANGED <<colliderPairs, event>>
  BY DEF BeginUpdate
<1>3. NamedOnce(newPairs')
  BY <1>2, FramePairsNamedOnce DEF AnyInv
<1>4. LoopInv'
  BY <1>1, <1>2, <1>3 DEF LoopInv, NamedOnce
<1>5. /\ KnownContacts = Unordered(colliderPairs)
      /\ FrameContacts = Unordered(colliderPairs)
      /\ PendingContacts = {} /\ ToldContact = <<>>
  BY <1>1 DEF KnownContacts, FrameContacts, PendingContacts, ToldContact
<1>6. newPairs' \ todo' = {}
  BY <1>2
<1>7. KnownContacts' = Unordered(colliderPairs)
  BY <1>2, <1>6, UnorderedUnion DEF KnownContacts
<1>8. FrameContacts' = Unordered(newPairs') /\ PendingContacts' = Unordered(newPairs')
  BY <1>2 DEF FrameContacts, PendingContacts
<1>9. ToldContact' = <<>>
  BY <1>1, <1>2 DEF ToldContact
<1>10. Unordered(newPairs') \in SUBSET Unordered(ProperPairs)
  BY <1>3 DEF NamedOnce, Unordered
<1> QED
  BY <1>4, <1>5, <1>7, <1>8, <1>9, <1>10 DEF Protocol!BeginFrame

\* A pair of either loop is a contact the listener has yet to be told of.
LEMMA EnterLoopStepTells ==
  ASSUME AnyInv, NEW p \in todo, EnterLoopStep(p)
  PROVE  /\ LoopInv'
         /\ \/ Protocol!Enter(Both(p)) \/ Protocol!Stay(Both(p))
            \/ UNCHANGED updateVars
<1>1. /\ phase = "enter" /\ todo \subseteq newPairs /\ p \in newPairs
      /\ NamedOnce(colliderPairs) /\ NamedOnce(newPairs)
  BY DEF AnyInv, LoopInv, EnterLoopStep
<1>2. UNCHANGED <<colliderPairs, phase, newPairs>>
  BY DEF EnterLoopStep
<1>3. CASE UNCHANGED <<event, todo>>
  <2>1. UNCHANGED updateVars
    BY <1>2, <1>3 DEF updateVars
  <2> QED
    BY <2>1, UpdateVarsStutter DEF AnyInv
<1>4. CASE todo' = todo \ {p}
  <2>1. LoopInv'
    BY <1>1, <1>2, <1>4 DEF LoopInv, NamedOnce
  <2>2. /\ KnownContacts = Unordered(colliderPairs) \union Unordered(newPairs \ todo)
        /\ FrameContacts = Unordered(newPairs) /\ PendingContacts = Unordered(todo)
    BY <1>1 DEF KnownContacts, FrameContacts, PendingContacts
  <2>3. /\ KnownContacts' =
             Unordered(colliderPairs) \union Unordered(newPairs \ (todo \ {p}))
        /\ FrameContacts' = Unordered(newPairs)
        /\ PendingContacts' = Unordered(todo \ {p})
    BY <1>1, <1>2, <1>4 DEF KnownContacts, FrameContacts, PendingContacts
  <2>4. Unordered(todo \ {p}) = Unordered(todo) \ {Both(p)}
    BY <1>1, WithoutPair
  <2>5. Both(p) \in Unordered(todo) /\ Unordered({p}) = {Both(p)}
    BY DEF Unordered
  <2>6. newPairs \ (todo \ {p}) = (newPairs \ todo) \union {p}
    BY <1>1
  <2>7. Unordered(newPairs \ (todo \ {p})) = Unordered(newPairs \ todo) \union {Both(p)}
    BY <2>5, <2>6, UnorderedUnion
  <2>8. Both(p) \notin Unordered(newPairs \ todo)
    <3>1. ASSUME NEW q \in newPairs, Both(p) = Both(q) PROVE q = p
      BY <1>1, <3>1, BothSame DEF NamedOnce
    <3> QED
      BY <3>1 DEF Unordered
  <2>9. Begun(p) <=> Both(p) \notin Unordered(colliderPairs)
    BY <1>1, ContainsContact DEF Begun, NamedOnce
  <2>10. KnownContacts' = KnownContacts \union {Both(p)}
    BY <2>2, <2>3, <2>7
  <2>11. CASE Begun(p)
    <3>1. \/ Notify("OnTriggerEnter", p) \/ Notify("OnCollisionEnter", p)
      BY <2>11 DEF EnterLoopStep
    <3>2. CASE UNCHANGED event /\ UNCHANGED todo
      BY <1>3, <3>2
    <3>3. CASE event' = <<"OnTriggerEnter", p>> \/ event' = <<"OnCollisionEnter", p>>
      <4>1. ToldContact' = <<"Enter", Both(p)>>
        <5>1. event' # NoEvent /\ event'[2] = p
              /\ event'[1] \in {"OnTriggerEnter", "OnCollisionEnter"}
          BY <3>3 DEF NoEvent
        <5>2. KindOf(event'[1]) = "Enter"
          BY <5>1 DEF KindOf
        <5>3. ToldContact' = <<KindOf(event'[1]), Both(event'[2])>>
          BY <5>1 DEF ToldContact, KindOf, Both, ColliderA, ColliderB
        <5> QED
          BY <5>1, <5>2, <5>3
      <4>2. Both(p) \in PendingContacts \ KnownContacts
        BY <2>2, <2>5, <2>8, <2>9, <2>11
      <4>3. Protocol!Enter(Both(p))
        BY <2>2, <2>3, <2>4, <2>10, <4>1, <4>2 DEF Protocol!Enter
      <4> QED
        BY <2>1, <4>3
    <3> QED
      BY <3>1, <3>2, <3>3 DEF Notify
  <2>12. CASE ~Begun(p)
    <3>1. Notify("OnTriggerStay", p) \/ PassOver(p)
      BY <2>12 DEF EnterLoopStep
    <3>2. CASE UNCHANGED event /\ UNCHANGED todo
      BY <1>3, <3>2
    <3>3. Both(p) \in PendingContacts \intersect KnownContacts
      BY <2>2, <2>5, <2>9, <2>12
    <3>4. CASE event' = <<"OnTriggerStay", p>> \/ event' = NoEvent
      <4>1. ToldContact' \in {<<"Stay", Both(p)>>, <<>>}
        <5>1. CASE event' = NoEvent
          BY <5>1 DEF ToldContact
        <5>2. CASE event' = <<"OnTriggerStay", p>>
          <6>1. event' # NoEvent /\ event'[2] = p /\ event'[1] = "OnTriggerStay"
            BY <5>2 DEF NoEvent
          <6>2. event'[1] \notin {"OnTriggerEnter", "OnCollisionEnter"}
            BY <6>1
          <6>3. KindOf(event'[1]) = "Stay"
            BY <6>1, <6>2 DEF KindOf
          <6>4. ToldContact' = <<KindOf(event'[1]), Both(event'[2])>>
            BY <6>1 DEF ToldContact, KindOf, Both, ColliderA, ColliderB
          <6> QED
            BY <6>1, <6>3, <6>4
        <5> QED
          BY <3>4, <5>1, <5>2
      <4>2. KnownContacts' = KnownContacts
        BY <2>10, <3>3
      <4>3. Protocol!Stay(Both(p))
        BY <2>2, <2>3, <2>4, <3>3, <4>1, <4>2 DEF Protocol!Stay
      <4> QED
        BY <2>1, <4>3
    <3> QED
      BY <3>1, <3>2, <3>4 DEF Notify, PassOver
  <2> QED
    BY <2>11, <2>12
<1> QED
  BY <1>3, <1>4 DEF EnterLoopStep, Notify, PassOver

LEMMA ExitLoopStepTells ==
  ASSUME AnyInv, NEW p \in todo, ExitLoopStep(p)
  PROVE  /\ LoopInv'
         /\ \/ Protocol!Exit(Both(p)) \/ Protocol!Return
            \/ UNCHANGED updateVars
<1>1. /\ phase = "exit" /\ todo \subseteq colliderPairs /\ p \in colliderPairs
      /\ NamedOnce(colliderPairs) /\ NamedOnce(newPairs)
  BY DEF AnyInv, LoopInv, ExitLoopStep
<1>2. UNCHANGED <<colliderPairs, phase, newPairs>>
  BY DEF ExitLoopStep
<1>3. CASE UNCHANGED <<event, todo>>
  <2>1. UNCHANGED updateVars
    BY <1>2, <1>3 DEF updateVars
  <2> QED
    BY <2>1, UpdateVarsStutter DEF AnyInv
<1>4. CASE todo' = todo \ {p}
  <2>1. LoopInv'
    BY <1>1, <1>2, <1>4 DEF LoopInv, NamedOnce
  <2>2. /\ KnownContacts = Unordered(newPairs) \union Unordered(todo)
        /\ FrameContacts = Unordered(newPairs) /\ PendingContacts = {}
    BY <1>1 DEF KnownContacts, FrameContacts, PendingContacts
  <2>3. /\ KnownContacts' = Unordered(newPairs) \union Unordered(todo \ {p})
        /\ FrameContacts' = Unordered(newPairs) /\ PendingContacts' = {}
    BY <1>1, <1>2, <1>4 DEF KnownContacts, FrameContacts, PendingContacts
  <2>4. Unordered(todo \ {p}) = Unordered(todo) \ {Both(p)}
    BY <1>1, WithoutPair
  <2>5. Both(p) \in Unordered(todo)
    BY DEF Unordered
  <2>6. Ended(p) <=> Both(p) \notin Unordered(newPairs)
    BY <1>1, ContainsContact DEF Ended, NamedOnce
  <2>7. CASE Ended(p)
    <3>1. \/ Notify("OnTriggerExit", p) \/ Notify("OnCollisionExit", p)
      BY <2>7 DEF ExitLoopStep
    <3>2. CASE UNCHANGED event /\ UNCHANGED todo
      BY <1>3, <3>2
    <3>3. CASE event' = <<"OnTriggerExit", p>> \/ event' = <<"OnCollisionExit", p>>
      <4>1. ToldContact' = <<"Exit", Both(p)>>
        <5>1. event' # NoEvent /\ event'[2] = p
              /\ event'[1] \in {"OnTriggerExit", "OnCollisionExit"}
          BY <3>3 DEF NoEvent
        <5>2. /\ event'[1] \notin {"OnTriggerEnter", "OnCollisionEnter"}
              /\ event'[1] # "OnTriggerStay"
          BY <5>1
        <5>3. KindOf(event'[1]) = "Exit"
          BY <5>2 DEF KindOf
        <5>4. ToldContact' = <<KindOf(event'[1]), Both(event'[2])>>
          BY <5>1 DEF ToldContact, KindOf, Both, ColliderA, ColliderB
        <5> QED
          BY <5>1, <5>3, <5>4
      <4>2. Both(p) \in KnownContacts \ FrameContacts
        BY <2>2, <2>5, <2>6, <2>7
      <4>3. KnownContacts' = KnownContacts \ {Both(p)}
        BY <2>2, <2>3, <2>4, <2>6, <2>7
      <4>4. Protocol!Exit(Both(p))
        BY <2>2, <2>3, <4>1, <4>2, <4>3 DEF Protocol!Exit
      <4> QED
        BY <2>1, <4>4
    <3> QED
      BY <3>1, <3>2, <3>3 DEF Notify
  <2>8. CASE ~Ended(p)
    <3>1. ToldContact' = <<>>
      BY <2>8 DEF ExitLoopStep, PassOver, ToldContact
    <3>2. KnownContacts' = KnownContacts
      BY <2>2, <2>3, <2>4, <2>6, <2>8
    <3>3. Protocol!Return
      BY <2>2, <2>3, <3>1, <3>2 DEF Protocol!Return
    <3> QED
      BY <2>1, <3>3
  <2> QED
    BY <2>7, <2>8
<1> QED
  BY <1>3, <1>4 DEF ExitLoopStep, Notify, PassOver

\* Between the loops the listener learns nothing.
LEMMA BeginExitLoopTells ==
  ASSUME AnyInv, BeginExitLoop
  PROVE  /\ LoopInv'
         /\ UNCHANGED <<KnownContacts, FrameContacts, PendingContacts, ToldContact>>
<1>1. /\ phase = "enter" /\ todo = {} /\ phase' = "exit" /\ todo' = colliderPairs
      /\ UNCHANGED <<colliderPairs, newPairs, event>>
  BY DEF BeginExitLoop
<1>2. LoopInv'
  BY <1>1 DEF AnyInv, LoopInv, NamedOnce
<1>3. newPairs \ todo = newPairs
  BY <1>1
<1>4. /\ KnownContacts = Unordered(colliderPairs) \union Unordered(newPairs)
      /\ FrameContacts = Unordered(newPairs) /\ PendingContacts = {}
  BY <1>1, <1>3, UnorderedUnion DEF KnownContacts, FrameContacts, PendingContacts
<1>5. /\ KnownContacts' = Unordered(newPairs) \union Unordered(colliderPairs)
      /\ FrameContacts' = Unordered(newPairs) /\ PendingContacts' = {}
  BY <1>1 DEF KnownContacts, FrameContacts, PendingContacts
<1>6. UNCHANGED ToldContact
  BY <1>1 DEF ToldContact, KindOf, Both, ColliderA, ColliderB
<1>7. KnownContacts' = KnownContacts
  BY <1>4, <1>5
<1> QED
  BY <1>2, <1>4, <1>5, <1>6, <1>7

LEMMA EndUpdateTells ==
  ASSUME AnyInv, EndUpdate PROVE LoopInv' /\ Protocol!Return
<1>1. /\ phase = "exit" /\ todo = {} /\ phase' = "idle" /\ todo' = {}
      /\ colliderPairs' = newPairs /\ newPairs' = {} /\ event' = NoEvent
  BY DEF EndUpdate
<1>2. LoopInv'
  BY <1>1 DEF AnyInv, LoopInv, NamedOnce
<1>3. /\ KnownContacts = Unordered(newPairs)
      /\ FrameContacts = Unordered(newPairs) /\ PendingContacts = {}
  BY <1>1, UnorderedUnion DEF KnownContacts, FrameContacts, PendingContacts
<1>4. /\ KnownContacts' = Unordered(newPairs)
      /\ FrameContacts' = Unordered(newPairs) /\ PendingContacts' = {}
  BY <1>1 DEF KnownContacts, FrameContacts, PendingContacts
<1>5. ToldContact' = <<>>
  BY <1>1 DEF ToldContact
<1> QED
  BY <1>2, <1>3, <1>4, <1>5 DEF Protocol!Return

LEMMA DeinitWorldTells ==
  ASSUME AnyInv, DeinitWorld PROVE LoopInv' /\ Protocol!Forget
<1>1. /\ phase = "idle" /\ todo = {} /\ newPairs = {} /\ event = NoEvent
      /\ colliderPairs' = {} /\ UNCHANGED <<phase, newPairs, todo, event>>
  BY DEF DeinitWorld, AnyInv, LoopInv
<1>2. LoopInv'
  BY <1>1 DEF AnyInv, LoopInv, NamedOnce
<1>3. /\ KnownContacts = FrameContacts /\ PendingContacts = {} /\ ToldContact = <<>>
  BY <1>1 DEF KnownContacts, FrameContacts, PendingContacts, ToldContact
<1>4. /\ KnownContacts' = {} /\ FrameContacts' = {}
      /\ PendingContacts' = {} /\ ToldContact' = <<>>
  BY <1>1, UnorderedUnion DEF KnownContacts, FrameContacts, PendingContacts, ToldContact
<1> QED
  BY <1>2, <1>3, <1>4 DEF Protocol!Forget

-----------------------------------------------------------------------------
(* The tables under any call.                                              *)

\* The client's calls leave Update's own state alone, Deinit excepted.
LEMMA TablesKept ==
  ASSUME AgeInv, UNCHANGED <<bodies, colliders>>,
         status' = "constructed" => status = "constructed"
  PROVE  AgeInv' /\ TablesAged
BY UnchangedAged DEF AgeInv, Bounded, TablesAged

LEMMA UpdateStepAges ==
  ASSUME AgeInv, UpdateStep
  PROVE  AgeInv' /\ TablesAged
<1>1. UNCHANGED <<bodies, colliders>>
  BY DEF UpdateStep, BeginUpdate, BeginUpdateThrows, EnterLoopStep, ExitLoopStep,
         LoopStepThrows, BeginExitLoop, EndUpdate, ResolveThrows, Terminate, tableVars
<1>2. status' = "constructed" => status = "constructed"
  BY DEF UpdateStep, BeginUpdate, BeginUpdateThrows, EnterLoopStep, ExitLoopStep,
         LoopStepThrows, BeginExitLoop, EndUpdate, ResolveThrows, Terminate,
         Notify, PassOver
<1> QED
  BY <1>1, <1>2, TablesKept

\* A step that leaves the collider table bounded and ages both tables.
LEMMA TablesChanged ==
  ASSUME AgeInv, status' # "constructed",
         \/ UNCHANGED bodies
         \/ GoodTable(bodies') /\ Aged(bodies, bodies'),
         \/ UNCHANGED colliders
         \/ /\ GoodTable(colliders') /\ Aged(colliders, colliders')
            /\ Bounded(colliders', MaxColliders)
  PROVE  AgeInv' /\ TablesAged
<1>1. GoodTable(bodies') /\ Aged(bodies, bodies')
  BY UnchangedAged DEF AgeInv
<1>2. /\ GoodTable(colliders') /\ Aged(colliders, colliders')
      /\ Bounded(colliders', MaxColliders)
  BY UnchangedAged DEF AgeInv
<1> QED
  BY <1>1, <1>2 DEF AgeInv, TablesAged, Bounded

LEMMA InitWorldAges ==
  ASSUME AgeInv, NEW n \in InitCounts, InitWorld(n)
  PROVE  AgeInv' /\ TablesAged
<1>1. Preallocated(n) \in Nat
  BY BoundsAssumption DEF Preallocated
<1>2. /\ bodies' = Resize(EmptyTable, Preallocated(n))
      /\ colliders' = Resize(EmptyTable, Preallocated(n))
      /\ status' = "running" /\ Bounded(colliders', MaxColliders)
  BY DEF InitWorld, AgeInv
<1>3. /\ IsTable(bodies') /\ bodies'.issued = {}
      /\ IsTable(colliders') /\ colliders'.issued = {}
  BY <1>1, <1>2, PreallocateConsistent
<1>4. GoodTable(bodies') /\ GoodTable(colliders')
  BY <1>3 DEF GoodTable, NoFutureRef
<1>5. TablesAged
  BY <1>3 DEF TablesAged, Aged
<1> QED
  BY <1>2, <1>4, <1>5, TablesChanged DEF TablesAged

LEMMA DeinitWorldAges == ASSUME AgeInv, DeinitWorld PROVE AgeInv' /\ TablesAged
<1>1. bodies' = EmptyTable /\ colliders' = EmptyTable
  BY DEF DeinitWorld
<1>2. GoodTable(EmptyTable)
  BY EmptyTableFacts DEF GoodTable, Consistent
<1>3. Bounded(EmptyTable, MaxColliders)
  BY EmptyTableFacts, BoundsAssumption DEF Bounded, Slots
<1>4. TablesAged
  BY <1>1, EmptyTableFacts DEF TablesAged, Aged
<1> QED
  BY <1>1, <1>2, <1>3, <1>4 DEF AgeInv, Bounded

LEMMA CreateAndDestroyAge ==
  ASSUME AgeInv, NEW r,
         \/ CreateBody \/ (r \in bodies.issued /\ DestroyBody(r))
         \/ CreateCollider(r) \/ (r \in colliders.issued /\ DestroyCollider(r))
  PROVE  AgeInv' /\ TablesAged
<1>1. status' # "constructed" /\ GoodTable(bodies) /\ GoodTable(colliders)
  BY DEF AgeInv, CreateBody, DestroyBody, CreateCollider, DestroyCollider, MayCall
<1>2. CASE CreateBody
  <2>1. UNCHANGED colliders
    BY <1>2 DEF CreateBody
  <2>2. CASE CanCreate(bodies) /\ bodies' = Create(bodies)
    <3>1. GoodTable(bodies') /\ Aged(bodies, bodies')
      BY <1>1, <2>2, CreateAges
    <3> QED
      BY <1>1, <2>1, <3>1, TablesChanged
  <2>3. CASE UNCHANGED bodies
    BY <1>1, <2>1, <2>3, TablesKept
  <2> QED
    BY <1>2, <2>2, <2>3 DEF CreateBody
<1>3. CASE r \in bodies.issued /\ DestroyBody(r)
  <2>1. UNCHANGED colliders /\ bodies' = Destroy(bodies, r)
    BY <1>3 DEF DestroyBody
  <2>2. GoodTable(bodies') /\ Aged(bodies, bodies')
    BY <1>1, <1>3, <2>1, DestroyAges
  <2> QED
    BY <1>1, <2>1, <2>2, TablesChanged
<1>4. CASE CreateCollider(r)
  <2>1. UNCHANGED bodies
    BY <1>4 DEF CreateCollider
  <2>2. CASE /\ CanCreate(colliders) /\ colliders' = Create(colliders)
             /\ Bounded(colliders', MaxColliders)
    <3>1. GoodTable(colliders') /\ Aged(colliders, colliders')
      BY <1>1, <2>2, CreateAges
    <3> QED
      BY <1>1, <2>1, <2>2, <3>1, TablesChanged
  <2>3. CASE UNCHANGED colliders
    BY <1>1, <2>1, <2>3, TablesKept
  <2> QED
    BY <1>4, <2>2, <2>3 DEF CreateCollider
<1>5. CASE r \in colliders.issued /\ DestroyCollider(r)
  <2>1. /\ UNCHANGED bodies /\ colliders' = Destroy(colliders, r)
        /\ Bounded(colliders', MaxColliders)
    BY <1>5 DEF DestroyCollider
  <2>2. GoodTable(colliders') /\ Aged(colliders, colliders')
    BY <1>1, <1>5, <2>1, DestroyAges
  <2> QED
    BY <1>1, <2>1, <2>2, TablesChanged
<1> QED
  BY <1>2, <1>3, <1>4, <1>5

LEMMA SetUseAges ==
  ASSUME AgeInv, NEW r, NEW on \in BOOLEAN,
         \/ r \in bodies.issued /\ SetBodyValid(r, on)
         \/ r \in colliders.issued /\ SetEnabled(r, on)
  PROVE  AgeInv' /\ TablesAged
<1>1. status' # "constructed" /\ GoodTable(bodies) /\ GoodTable(colliders)
  BY DEF AgeInv, SetBodyValid, SetEnabled, MayCall
<1>2. CASE r \in bodies.issued /\ SetBodyValid(r, on)
  <2>1. UNCHANGED colliders /\ bodies' = SetUsed(bodies, r, on)
    BY <1>2 DEF SetBodyValid
  <2>2. GoodTable(bodies') /\ Aged(bodies, bodies')
    BY <1>1, <1>2, <2>1, SetUsedAges
  <2> QED
    BY <1>1, <2>1, <2>2, TablesChanged
<1>3. CASE r \in colliders.issued /\ SetEnabled(r, on)
  <2>1. /\ GoodTable(colliders') /\ Aged(colliders, colliders')
        /\ colliders'.size = colliders.size /\ colliders'.gens = colliders.gens
    BY <1>1, <1>3, SetUsedAges DEF SetEnabled
  <2>2. Bounded(colliders', MaxColliders)
    BY <2>1 DEF AgeInv, Bounded
  <2>3. UNCHANGED bodies
    BY <1>3 DEF SetEnabled
  <2> QED
    BY <1>1, <2>1, <2>2, <2>3, TablesChanged
<1> QED
  BY <1>2, <1>3

\* Every call of any client but Deinit leaves Update's own state alone.
LEMMA AnyCallKeeps ==
  ASSUME AnyInv, AnyCalls
  PROVE  AgeInv' /\ TablesAged /\ (UNCHANGED updateVars \/ DeinitWorld)
<1>1. ASSUME NEW n \in InitCounts, InitWorld(n)
      PROVE  AgeInv' /\ TablesAged /\ UNCHANGED updateVars
  BY <1>1, InitWorldAges DEF AnyInv, InitWorld
<1>2. ASSUME NEW set \in BOOLEAN, SetContactListener(set)
      PROVE  AgeInv' /\ TablesAged /\ UNCHANGED updateVars
  BY <1>2, TablesKept DEF AnyInv, SetContactListener, tableVars
<1>3. CASE CreateBody
  BY <1>3, CreateAndDestroyAge DEF AnyInv, CreateBody
<1>4. ASSUME NEW b \in bodies.issued, DestroyBody(b) \/ CreateCollider(b)
      PROVE  AgeInv' /\ TablesAged /\ UNCHANGED updateVars
  BY <1>4, CreateAndDestroyAge DEF AnyInv, DestroyBody, CreateCollider
<1>5. ASSUME NEW b \in bodies.issued, NEW valid \in BOOLEAN, SetBodyValid(b, valid)
      PROVE  AgeInv' /\ TablesAged /\ UNCHANGED updateVars
  BY <1>5, SetUseAges DEF AnyInv, SetBodyValid
<1>6. ASSUME NEW c \in colliders.issued, DestroyCollider(c)
      PROVE  AgeInv' /\ TablesAged /\ UNCHANGED updateVars
  BY <1>6, CreateAndDestroyAge DEF AnyInv, DestroyCollider
<1>7. ASSUME NEW c \in colliders.issued, NEW on \in BOOLEAN,
             SetEnabled(c, on) \/ SetIsTrigger(c, on)
      PROVE  AgeInv' /\ TablesAged /\ UNCHANGED updateVars
  BY <1>7, SetUseAges, TablesKept DEF AnyInv, SetEnabled, SetIsTrigger
<1>8. ASSUME NEW c \in colliders.issued, NEW b \in bodies.issued, SetBodyRef(c, b)
      PROVE  AgeInv' /\ TablesAged /\ UNCHANGED updateVars
  BY <1>8, TablesKept DEF AnyInv, SetBodyRef
<1> QED
  BY <1>1, <1>2, <1>3, <1>4, <1>5, <1>6, <1>7, <1>8, DeinitWorldAges
     DEF AnyCalls, AnyInv

-----------------------------------------------------------------------------
LEMMA AnyInit == Init => AnyInv /\ Protocol!Init
<1> SUFFICES ASSUME Init PROVE AnyInv /\ Protocol!Init
  OBVIOUS
<1>1. /\ phase = "idle" /\ colliderPairs = {} /\ newPairs = {} /\ todo = {}
      /\ event = NoEvent /\ bodies = EmptyTable /\ colliders = EmptyTable
  BY DEF Init
<1>2. LoopInv
  BY <1>1 DEF LoopInv, NamedOnce
<1>3. GoodTable(EmptyTable)
  BY EmptyTableFacts DEF GoodTable, Consistent
<1>4. Bounded(EmptyTable, MaxColliders)
  BY EmptyTableFacts, BoundsAssumption DEF Bounded, Slots
<1>5. AgeInv
  BY <1>1, <1>3, <1>4 DEF AgeInv
<1>6. /\ KnownContacts = {} /\ FrameContacts = {}
      /\ PendingContacts = {} /\ ToldContact = <<>>
  BY <1>1, UnorderedUnion DEF KnownContacts, FrameContacts, PendingContacts, ToldContact
<1> QED
  BY <1>2, <1>5, <1>6 DEF AnyInv, Protocol!Init

\* The pairs of a loop are pairs of the abstract specification.
LEMMA TodoProper ==
  ASSUME LoopInv, NEW p \in todo PROVE Both(p) \in Unordered(ProperPairs)
<1>1. p \in ProperPairs
  BY DEF LoopInv, NamedOnce
<1> QED
  BY <1>1 DEF Unordered

LEMMA UpdateStepTells ==
  ASSUME AnyInv, UpdateStep
  PROVE  /\ LoopInv'
         /\ \/ Protocol!Next
            \/ UNCHANGED <<KnownContacts, FrameContacts, PendingContacts, ToldContact>>
<1> USE DEF AnyInv
<1>1. CASE BeginUpdate
  BY <1>1, BeginUpdateTells DEF Protocol!Next
<1>2. ASSUME UNCHANGED updateVars
      PROVE  /\ LoopInv'
             /\ UNCHANGED <<KnownContacts, FrameContacts, PendingContacts, ToldContact>>
  BY <1>2, UpdateVarsStutter
<1>3. CASE BeginUpdateThrows
  BY <1>2, <1>3 DEF BeginUpdateThrows, Terminate
<1>4. ASSUME NEW p \in todo, LoopStepThrows(p) \/ ResolveThrows(p)
      PROVE  UNCHANGED updateVars
  BY <1>4 DEF LoopStepThrows, ResolveThrows, Terminate
<1>5. ASSUME NEW p \in todo, EnterLoopStep(p)
      PROVE  LoopInv' /\ (Protocol!Next \/ UNCHANGED updateVars)
  <2>1. Both(p) \in Unordered(ProperPairs)
    BY TodoProper
  <2> QED
    BY <1>5, <2>1, EnterLoopStepTells DEF Protocol!Next
<1>6. ASSUME NEW p \in todo, ExitLoopStep(p)
      PROVE  LoopInv' /\ (Protocol!Next \/ UNCHANGED updateVars)
  <2>1. Both(p) \in Unordered(ProperPairs)
    BY TodoProper
  <2> QED
    BY <1>6, <2>1, ExitLoopStepTells DEF Protocol!Next
<1>7. CASE BeginExitLoop
  BY <1>7, BeginExitLoopTells
<1>8. CASE EndUpdate
  BY <1>8, EndUpdateTells DEF Protocol!Next
<1> QED
  BY <1>1, <1>2, <1>3, <1>4, <1>5, <1>6, <1>7, <1>8 DEF UpdateStep

LEMMA AnyStep ==
  AnyInv /\ [AnyNext]_vars => AnyInv' /\ [Protocol!Next]_Protocol!vars /\ TablesAged
<1> SUFFICES ASSUME AnyInv, [AnyNext]_vars
             PROVE  AnyInv' /\ [Protocol!Next]_Protocol!vars /\ TablesAged
  OBVIOUS
<1>1. CASE UpdateStep
  BY <1>1, UpdateStepTells, UpdateStepAges DEF AnyInv, Protocol!vars
<1>2. CASE AnyCalls
  <2>1. AgeInv' /\ TablesAged /\ (UNCHANGED updateVars \/ DeinitWorld)
    BY <1>2, AnyCallKeeps
  <2>2. CASE UNCHANGED updateVars
    BY <2>1, <2>2, UpdateVarsStutter DEF AnyInv, Protocol!vars
  <2>3. CASE DeinitWorld
    BY <2>1, <2>3, DeinitWorldTells DEF AnyInv, Protocol!Next
  <2> QED
    BY <2>1, <2>2, <2>3
<1>3. CASE UNCHANGED vars
  <2>1. UNCHANGED <<bodies, colliders, status, updateVars>>
    BY <1>3 DEF vars, tableVars
  <2> QED
    BY <2>1, TablesKept, UpdateVarsStutter DEF AnyInv, Protocol!vars
<1> QED
  BY <1>1, <1>2, <1>3 DEF AnyNext

\* World implements ContactProtocol whatever its client does, in callbacks or
\* between Updates, and however many pairs are in contact: no contact is
\* entered twice, exited without having been entered, or forgotten.
THEOREM AnyProtocol == AnySpec => ProtocolSpec
<1> QED
  BY AnyInit, AnyStep, PTL DEF AnySpec, ProtocolSpec, Protocol!Spec

\* A stale reference stays stale for as long as the table lives, even with a
\* client that destroys objects twice or through stale references.
THEOREM AnyStaleForever == AnySpec => StaleForever
<1> DEFINE Stays ==
      /\ \A r \in bodies.issued :
           ~Valid(bodies, r) /\ r \in bodies'.issued => ~Valid(bodies', r)
      /\ \A r \in colliders.issued :
           ~Valid(colliders, r) /\ r \in colliders'.issued => ~Valid(colliders', r)
<1>1. AnyInv /\ AnyInv' /\ TablesAged => Stays
  BY AgedStaysStale DEF AnyInv, AgeInv, TablesAged, GoodTable
<1>2. AnyInv /\ [AnyNext]_vars => AnyInv' /\ [Stays]_vars
  BY <1>1, AnyStep
<1> QED
  BY <1>2, AnyInit, PTL DEF AnySpec, StaleForever

\* A careful client is a client.
LEMMA CarefulIsAny == CarefulNext => AnyNext
<1>1. Live(bodies) \subseteq bodies.issued /\ Live(colliders) \subseteq colliders.issued
  BY DEF Live
<1> QED
  BY <1>1 DEF CarefulNext, AnyNext, CarefulCalls, AnyCalls

\* So what holds of any client holds of a careful one.
THEOREM CarefulProtocol == CarefulSpec => ProtocolSpec
<1>1. CarefulSpec => AnySpec
  BY CarefulIsAny, PTL DEF CarefulSpec, AnySpec
<1> QED
  BY <1>1, AnyProtocol
=============================================================================
