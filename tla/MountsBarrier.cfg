SPECIFICATION Spec
CONSTANTS
  Bindings = {"b1", "b2"}
  Drives = {"d1", "d2"}
  DriveOf <- OwnDrive
  ModeOf <- BothModes
  Handlers = {h1, h2}
  Quota = 2
  BarrierCap = 2
  MountedTries = 2
  ErrorTries = 1
  ForceRemount = FALSE
  Starts <- SyncOnly
  Budgets <- SmallBudget
INVARIANTS
  BarrierAfterFlush
CHECK_DEADLOCK FALSE
