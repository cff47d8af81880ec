CONSTANTS
  MaxProcesses <- MCTables
  PriorityLevels = 2
  Preemption = TRUE
  TimeSlice = 1
  DemotionThreshold = 2
  Word = 3
  Priorities = {0, 1}
  SleepTimes = {1, 2}
  MaxPid = 3
  MaxNodes = 2
SPECIFICATION FairSpec
INVARIANTS
  RunningIsCurrent
  WaitersFindable
  QueuesMatchStates
PROPERTIES
  OrderlyLife
  SleepersWake
