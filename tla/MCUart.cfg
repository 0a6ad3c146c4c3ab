CONSTANTS
  BYTE = 8
  Test = 5
  Chars = {4, 5}
  Divisors = {1, 6}
  MaxWrites = 3
  MaxInits = 3
SPECIFICATION Spec
INVARIANTS
  LineInOrder
  TestIsGenuine
PROPERTY AllSent
