\* One crash.
SPECIFICATION Spec
CONSTANTS
  Procs = {p1, p2}
  Names = {n1, n2}
  None = None
  MaxBuildlets = 2
  MaxCreateTries = 2
  HasSetup = TRUE
  CreateMayFail = FALSE
  Commands = {"run"}
  MaxCrashes = 1
INVARIANT InUseIsReapable
CHECK_DEADLOCK FALSE
