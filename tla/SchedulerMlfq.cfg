CONSTANTS
  MaxProcesses = 3
  PriorityLevels = 3
  TimeSliceBase = 1
  SchedType = "MLFQ"
  Preemption = TRUE
  MlfqLevels = 2
  BoostInterval = 2
  Priorities <- MCPriorities
  Word = 1000
  MaxPid = 3
  MaxTicks = 3
  MaxSwitches = 4
  MaxCount = 4
SPECIFICATION FairSpec
CHECK_DEADLOCK FALSE
INVARIANTS
  RunningIsCurrent
  CurrentAlive
PROPERTIES
  BoostKeepsOrder
  BoostReturns
