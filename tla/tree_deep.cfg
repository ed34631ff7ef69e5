SPECIFICATION Spec
CONSTANTS
  MaxColliderNbr = 1
  MaxDepth = 2
  MaxColliders = 4
  Boundaries <- MCFrames
  Shapes <- MCShapes
INVARIANTS
  TypeOK
  PoolSuffices
  LeavesFit
PROPERTY
  FindsMeetingPairs
