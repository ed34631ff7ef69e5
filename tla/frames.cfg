SPECIFICATION FairSpec
CONSTANTS
  Scale = 3
  NaN = NaN
  Garbage = {0}
  Worlds <- AllWorlds
INVARIANT MomentumAccounted
PROPERTIES
  ApproachStopped
  PushedApart
  BounceIsOwn
  EnergyAccounted
  EventuallyApart
CHECK_DEADLOCK FALSE
