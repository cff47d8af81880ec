CONSTANTS
  Timeout = 1
  MaxSends = 2
  MaxPieces = 3
SPECIFICATION FairSpec
CHECK_DEADLOCK FALSE
INVARIANTS
  NoLostWakeup
PROPERTIES
  ConnectedWasJoined
  ImplementsService
