\* Two runners, three runs in all, an old log, no regexps.
SPECIFICATION FairSpec
CONSTANTS
  Parallelism = 2
  MaxPasses = 1
  MaxFails = 2
  MaxRuns = 2
  MaxTotalRuns = 3
  MaxInt = 100
  TimeoutsFail = FALSE
  HasPassRe = FALSE
  HasFailRe = FALSE
  Exits = {"ok", "c125", "bad"}
  OldLogs <- MCOldLogs
INVARIANTS
  SendsNeverBlock
  TokensConserved
  ActiveIsOutstanding
  LogsExact
  LimitsExact
  VerdictSound
CHECK_DEADLOCK FALSE
PROPERTIES
  RunEnds
