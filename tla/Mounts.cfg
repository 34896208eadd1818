SPECIFICATION Spec
CONSTANTS
  Bindings = {"b1", "b2"}
  Drives = {"d1", "d2"}
  DriveOf <- OwnDrive
  ModeOf <- BothModes
  Handlers = {h1, h2}
  Quota = 2
  BarrierCap = 1
  MountedTries = 2
  ErrorTries = 1
  ForceRemount = FALSE
  Starts <- OneOfEach
  Budgets <- SomeBudgets
INVARIANTS
  TypeOK
  DesiredHonoured
  NoneLeft
  WorkKept
PROPERTIES
  KeptWhileWanted
  Converges
  ActualFollows
CHECK_DEADLOCK FALSE
