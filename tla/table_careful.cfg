SPECIFICATION CarefulSpec
CONSTANTS
  MaxSlots = 4
  MaxGen = 2
  InitCounts <- MCInitCounts
INVARIANTS
  TypeOK
  TableConsistent
PROPERTY
  AbstractSpec
