CONSTANTS
  PAGE_SIZE = 32
  BYTE = 8
  W = 2
  Top = 64
  Bases <- MCBases
  BssSizes <- MCBssSizes
  KeptWord = 57
  U32 = 8
  CHANNEL = 2
  Width = 3
  Height = 2
  Pitch = 24
  Words <- MCWords
  Garbage = 15
  Coords = {0, 1, 2, 4}
  Sizes = {0, 1, 2, 4}
  Colors <- MCColors
  Images <- MCImages
  Responses <- MCResponses
  StackDepth = 2
SPECIFICATION Spec
INVARIANTS
  StaticsCleared
  SegmentsValid
  DrawsOnlyMapped
  DrawnExactly
PROPERTY BootHalts
