SPECIFICATION BothSpec
CONSTANTS
  Handles = {h1, h2, h3}
  Objects = {o1, o2}
  Null = null
  MaxCount = 3
INVARIANT CountExact
PROPERTIES
  IsOwnership
  UniqueIsOwnership
CHECK_DEADLOCK FALSE
