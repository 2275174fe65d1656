\* -timeouts-fail together with -pass.
SPECIFICATION Spec
CONSTANTS
  Parallelism = 1
  MaxPasses = 0
  MaxFails = 0
  MaxRuns = 0
  MaxTotalRuns = 2
  MaxInt = 100
  TimeoutsFail = TRUE
  HasPassRe = TRUE
  HasFailRe = FALSE
  Exits = {"ok", "c125", "bad"}
  OldLogs = {}
INVARIANTS
  TimeoutsCountAsFailures
CHECK_DEADLOCK FALSE
