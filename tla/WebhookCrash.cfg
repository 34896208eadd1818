\* Two replicas, two crashes.
SPECIFICATION FairSpec
CONSTANTS
  g1 = g1
  g2 = g2
  p1 = p1
  p2 = p2
  Events = {e1}
  Processes <- Replicas
  Goroutines = {g1, g2}
  Clerks = {}
  ProcessOf <- OneEach
  MaxAttempts = 2
  Backoff <- ShortBackoff
  Parallel = FALSE
  PurgeAges = {}
  Cascades = FALSE
  MaxCrashes = 2
  MaxAge = 2
INVARIANTS BudgetKept DeliveredWasAccepted
PROPERTIES AtLeastOnce
