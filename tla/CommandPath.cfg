CONSTANTS
  Names = {"modify-folder"}
  Folders = {"A", "B"}
  Existing = {"A", "B"}
  InitFolder = "A"
  None = None
  Torn = Torn
  MaxCommands = 2
  MaxBeats = 1
  MaxControls = 1
SPECIFICATION Spec
INVARIANTS TypeOK NoCommandRunsTwice FoldersAgree PauseIsTakenBack
CHECK_DEADLOCK FALSE
