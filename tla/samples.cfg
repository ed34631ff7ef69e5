SPECIFICATION ClientSpec
CONSTANTS
  MaxBodies = 8
  MaxColliders = 4
  MaxGen = 0
  InitCounts <- Counts
  ObjectCount = 3
  StartPlanetNbr = 2
  MaxPlanets = 6
INVARIANTS
  NeverFails
  IndicesAligned
  CounterExact
  CirclesAligned
PROPERTIES
  IsCarefulClient
  TurnsRed
