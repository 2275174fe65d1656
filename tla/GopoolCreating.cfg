\* The coordinator fails once and then succeeds.
SPECIFICATION Spec
CONSTANTS
  Procs = {p1, p2}
  Names = {n1, n2}
  None = None
  MaxBuildlets = 2
  MaxCreateTries = 2
  HasSetup = FALSE
  CreateMayFail = TRUE
  Commands = {"run"}
  MaxCrashes = 0
INVARIANT DroppedFromCreating
CHECK_DEADLOCK FALSE
