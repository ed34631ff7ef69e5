SPECIFICATION FairWindowSpec
CONSTANTS
  Width = 14
  Height <- Down
  Shapes <- SomeShapes
  Margin = 3
  Speeds <- Slow
  Steps <- OneTwo
  MaxSpeed = 1
  MaxStep = 2
INVARIANT StaysNear
PROPERTY ComesBack
