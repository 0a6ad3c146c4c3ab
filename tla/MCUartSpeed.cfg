CONSTANTS
  BYTE = 8
  Test = 5
  Chars = {4, 5}
  Divisors = {1, 12}
  MaxWrites = 0
  MaxInits = 1
SPECIFICATION Spec
INVARIANT SpeedAsAsked
