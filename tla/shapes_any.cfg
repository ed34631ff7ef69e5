SPECIFICATION FairShapesSpec
CONSTANTS
  MaxBodies = 4
  MaxColliders = 4
  MaxGen = 2
  InitCounts <- Counts
  MaxShapes = 4
  MaxFallen = 3
  MaxPairs = 1
INVARIANT ListExact
PROPERTY FallenRemoved
CHECK_DEADLOCK FALSE
