\* Two jobs, with a timeout and with a silent runner.
SPECIFICATION FairSpec
CONSTANTS
  Jobs <- TwoJobs
  Handlers = {h}
  Workers = {w}
  Runners = {r1}
  NoRunner = NoRunner
  TimeoutSec <- TwoTimeout
  MaxAttempts <- TwoBudget
  Priority <- TwoPriority
  Lease = 1
  DefaultTimeout = 0
  Retain = 1
  Requests = {"heartbeat", "complete", "claimNext"}
  Silent = {2}
  Crashes = FALSE
  MaxAge = 2
  MaxClaims = 2
INVARIANTS NotifiedOrNotifying
PROPERTIES RunningJobsLeave
