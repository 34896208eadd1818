\* Two jobs, one goroutine: operations do not overlap.
SPECIFICATION FairSpec
CONSTANTS
  Jobs <- TwoJobs
  Handlers = {w}
  Workers = {w}
  Runners = {r1}
  NoRunner = NoRunner
  TimeoutSec <- TwoTimeout
  MaxAttempts <- TwoBudget
  Priority <- TwoPriority
  Lease = 1
  DefaultTimeout = 0
  Retain = 1
  Requests <- AllRequests
  Silent = {}
  Crashes = FALSE
  MaxAge = 2
  MaxClaims = 2
INVARIANTS AttemptsExact
PROPERTIES ImplementsLifecycle ReclaimOnlyExpired RequeuedWithinBudget
