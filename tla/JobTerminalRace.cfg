\* A completion races a cancellation.
SPECIFICATION Spec
CONSTANTS
  Jobs <- OneJob
  Handlers = {h1, h2}
  Workers = {w}
  Runners = {r1}
  NoRunner = NoRunner
  TimeoutSec <- NoTimeout
  MaxAttempts <- OneBudget
  Priority <- OnePriority
  Lease = 1
  DefaultTimeout = 0
  Retain = 0
  Requests = {"complete", "cancel"}
  Silent = {}
  Crashes = FALSE
  MaxAge = 2
  MaxClaims = 1
PROPERTIES TerminalIsFinal
