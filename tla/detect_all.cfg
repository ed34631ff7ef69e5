SPECIFICATION DetectionSpec
CONSTANTS
  ShapePairs <- MCShapePairs
  Positions <- MCPositions
  Starts <- MCStarts
  Velocities <- MCVelocities
INVARIANTS
  NoFalseContact
  NoMissedContact
  OrderIrrelevant
