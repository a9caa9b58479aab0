CONSTANTS
  Controllers = {"c1", "c2"}
  MaxClicks = 3
  MaxFaults = 1
SPECIFICATION Spec
INVARIANTS TypeOK ButtonsMatch TextHolds InstalledIsWhole
CHECK_DEADLOCK FALSE
