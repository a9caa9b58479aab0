CONSTANTS
  Channels = {"command"}
  MaxEvents = 3
  Stops = FALSE
SPECIFICATION FairSpec
PROPERTY SleepThreadSleepsAgain
CHECK_DEADLOCK FALSE
