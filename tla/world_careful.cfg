SPECIFICATION FairCarefulSpec
CONSTANTS
  MaxBodies = 2
  MaxColliders = 2
  MaxGen = 1
  InitCounts <- OneSlot
INVARIANTS
  TypeOK
  NeverAstray
  StoredRefsReach
PROPERTIES
  ProtocolSpec
  DisabledReleased
CHECK_DEADLOCK FALSE
