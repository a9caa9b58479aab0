CONSTANTS
  Channels = {"command"}
  MaxEvents = 3
  Stops = TRUE
SPECIFICATION Spec
INVARIANTS CrashesAreAtTheStop ConnectionIsServed ClosedAtStop NoOtherDeadlock
CHECK_DEADLOCK FALSE
