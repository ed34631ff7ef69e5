SPECIFICATION HastySpec
CONSTANTS
  MaxBodies = 2
  MaxColliders = 2
  MaxGen = 1
  InitCounts <- OneSlot
INVARIANT
  NeverAstray
CHECK_DEADLOCK FALSE
