CONSTANTS
  MaxProcesses <- MCTableRr
  PriorityLevels = 2
  Preemption = TRUE
  TimeSlice = 1
  DemotionThreshold = 2
  Word = 4
  Priorities = {0}
  SleepTimes = {1}
  MaxPid = 3
  MaxNodes = 3
SPECIFICATION Spec
PROPERTY
  ZombieIsFinal
