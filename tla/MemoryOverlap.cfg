CONSTANTS
  HeapStart = 64
  HeapEnd = 320
  Word = 1048576
  Requests = {16, 64}
  Fill = 6148
  MaxAllocs = 3
SPECIFICATION Spec
CHECK_DEADLOCK FALSE
INVARIANT
  BlocksDisjoint
