CONSTANTS
  Folders = {A, B}
  NoFolder = "none"
  Dir = "dir"
  Inner = {"in"}
  Outer = {"wide"}
  Wide = {"wide"}
  MaxRequests = 2
  MaxIgnores = 1
  MaxSyncs = 1
  MaxSwitches = 1
SPECIFICATION SyncSpec
SYMMETRY Symmetry
INVARIANTS SyncTypeOK NothingElseIsSent SyncIsWhole
CHECK_DEADLOCK FALSE
