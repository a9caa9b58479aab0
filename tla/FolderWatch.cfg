CONSTANTS
  Folders = {"A", "B"}
  InitFolder = "A"
  None = "none"
  Empty = "empty"
  MaxMoves = 2
  MaxFiles = 1
  MaxFaults = 1
SPECIFICATION FairSpec
INVARIANTS CrashesAreNamed TreeOfFolder NoDeafWatcher FilesAreWhereSought
PROPERTIES RestartReturns
CHECK_DEADLOCK FALSE
