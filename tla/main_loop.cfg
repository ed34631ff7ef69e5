SPECIFICATION LoopSpec
CONSTANTS
  SampleCount = 3
  MaxTime = 3
  CircleSegmentCount = 5
  PolygonSizes = {2, 3, 4}
  MaxVertices = 16
INVARIANTS
  TimeSimulated
  PictureWhole
  PictureIsCurrent
  OnlyCurrentRuns
CHECK_DEADLOCK FALSE
