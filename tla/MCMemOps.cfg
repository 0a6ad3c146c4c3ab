CONSTANTS
  BYTE = 8
  WORD = 2
  Size <- MCSize
  Contents <- MCContents
  Values <- MCValues
SPECIFICATION MemSpec
INVARIANTS
  CopiesSource
  FillsExactly
  ComparesFirst
