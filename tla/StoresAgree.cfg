SPECIFICATION Spec
CONSTANTS
  Tables <- AllTables
  Backends <- AllBackends
  NUsers = 2
  NKeys = 2
  Limits <- OneOrTwo
  AuditCap = 2
  Timelines <- BothLengths
  MaxNow = 4
  MaxRows <- TwoOrThree
INVARIANTS TenantsApart StoresAgree UniqueKept PagesJoin ListsNewestFirst
PROPERTY RevocationSticks
CHECK_DEADLOCK FALSE
