CONSTANTS
  MaxMembers = 3
  MaxBlocks = 2
  MaxFailures = 2
SPECIFICATION ReaderSpec
INVARIANTS ReaderTypeOK FilesAreWhole NothingIsMissed
