SPECIFICATION AnySpec
CONSTANTS
  MaxBodies = 1
  MaxColliders = 2
  MaxGen = 1
  InitCounts <- AnyCount
PROPERTIES
  ProtocolSpec
  StaleForever
CHECK_DEADLOCK FALSE
