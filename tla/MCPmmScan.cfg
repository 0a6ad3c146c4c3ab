CONSTANTS
  FrameCounts <- MCFrameCounts
  StartBitmaps <- MCStartBitmaps
  Counts <- MCCounts
SPECIFICATION ScanSpec
INVARIANTS
  ReturnsLowestRun
  PanicsOnlyWhenExhausted
PROPERTY CallEnds
