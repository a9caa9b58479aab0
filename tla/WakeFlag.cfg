SPECIFICATION FairSpec
CONSTANTS
  Requesters = {r1, r2}
  MaxRequests = 4
  MaxStops = 3
INVARIANT NoThreadLeftBehind
PROPERTIES StopReturns RequestServed
CHECK_DEADLOCK FALSE
