SPECIFICATION Spec
CONSTANTS
  Jobs = {"j1", "j2", "j3", "j4"}
  Runners = {r1, r2}
  Drives = {"d1", "d2"}
  DriveOf <- OwnDrive
  ModeOf <- Modes
  Timed = {"j2"}
  Starts <- SomeStarts
INVARIANTS
  WorkArrives
  HolderDecides
PROPERTIES
  CancelStops
CHECK_DEADLOCK FALSE
