CONSTANTS
  MaxProcesses = 64
  PriorityLevels = 4
  TimeSliceBase = 10
  Word = 2147483647
  Ample = 1000
SPECIFICATION Spec
CHECK_DEADLOCK FALSE
INVARIANTS
  TimeAccounted
PROPERTIES
  TerminatesItsOwn
  DemosReturn
