CONSTANTS
  MaxInputs = 1
  MaxBeats = 1
  MaxFaults = 1
SPECIFICATION Spec
INVARIANTS TypeOK StatusIsReported ThreadsAreAlone TransportStopped StopIsHeard
PROPERTY ImplementsService
CHECK_DEADLOCK FALSE
