\* No crash and no failure: only a setup command and a second process.
SPECIFICATION Spec
CONSTANTS
  Procs = {p1, p2}
  Names = {n1, n2}
  None = None
  MaxBuildlets = 2
  MaxCreateTries = 2
  HasSetup = TRUE
  CreateMayFail = FALSE
  Commands = {"run"}
  MaxCrashes = 0
INVARIANT ReapedIsAbandoned
CHECK_DEADLOCK FALSE
