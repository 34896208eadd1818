\* One job, two request handlers and the maintenance worker, crashes.
SPECIFICATION Spec
CONSTANTS
  Jobs <- OneJob
  Handlers = {h1, h2}
  Workers = {w}
  Runners = {r1}
  NoRunner = NoRunner
  TimeoutSec <- NoTimeout
  MaxAttempts <- OneBudget
  Priority <- OnePriority
  Lease = 1
  DefaultTimeout = 0
  Retain = 1
  Requests = {"heartbeat", "claimNext", "deny", "purge", "cancelAll"}
  Silent = {}
  Crashes = TRUE
  MaxAge = 2
  MaxClaims = 2
SYMMETRY Symmetry
INVARIANTS TypeOK LeaseStamps AttemptsNeverOvercount
PROPERTIES PurgeIsFinal OnlyPurgeForgets
