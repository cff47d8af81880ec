CONSTANTS
  MaxProcesses = 2
  PriorityLevels = 2
  TimeSliceBase = 1
  SchedType = "FIFO"
  Preemption = FALSE
  MlfqLevels = 2
  BoostInterval = 2
  Priorities = {0}
  Word = 1000
  MaxPid = 3
  MaxTicks = 2
  MaxSwitches = 4
  MaxCount = 4
SPECIFICATION Spec
CHECK_DEADLOCK FALSE
INVARIANT
  ReadyIsSchedulable
