CONSTANTS
  BUFFER = 4
  CharBits = 2
  ShortBits = 3
  IntBits = 4
  LongBits = 8
  Calls <- MCCalls
SPECIFICATION Spec
INVARIANTS
  SnprintfContract
  IntegersFollowC
