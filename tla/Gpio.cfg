CONSTANTS
  Pins = {17, 27}
  ButtonPin = 27
  PinParams <- MCPinParams
  MaxFiles = 2
  Cpus = {1, 2}
  Duties = {50, 150}
  Readers = {r1, r2}
  ButtonPins <- MCButtonPins
  MaxEvents = 3
SPECIFICATION MCSpec
CHECK_DEADLOCK FALSE
INVARIANTS
  NothingLeftBehind
  OwnsItsLine
  DutyInRange
  UnloadedQuiet
  ButtonReleased
PROPERTIES
  OnlySelfDeadlocks
  SleeperWoken
