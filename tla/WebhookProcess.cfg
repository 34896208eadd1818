\* One process with two goroutines, parallel posts, an admin and purges.
SPECIFICATION Spec
CONSTANTS
  g1 = g1
  g2 = g2
  p1 = p1
  p2 = p2
  Events = {e1, e2}
  Processes <- OneProcess
  Goroutines = {g1, g2}
  Clerks = {c1}
  ProcessOf <- AllOnOne
  MaxAttempts = 2
  Backoff <- ShortBackoff
  Parallel = TRUE
  PurgeAges = {1}
  Cascades = TRUE
  MaxCrashes = 0
  MaxAge = 2
INVARIANTS TypeOK AnsweredOnce
PROPERTIES BackoffRespected
SYMMETRY Symmetry
