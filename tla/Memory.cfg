CONSTANTS
  HeapStart = 64
  HeapEnd = 320
  Word = 1048576
  Requests = {16, 64, 100}
  Fill = 6148
  MaxAllocs = 3
SPECIFICATION FairSpec
CHECK_DEADLOCK FALSE
INVARIANTS
  FreshDisjoint
  FreshAccounting
PROPERTIES
  OnlyLiveReleased
  ImplementsAllocator
  FreshCallsReturn
