CONSTANTS
  RequestCount = 2
  Calls = 5
  Unknown = {3}
SPECIFICATION FairSpec
CHECK_DEADLOCK FALSE
INVARIANT
  MutexFreeWhenDestroyed
PROPERTY
  ImplementsCalls
