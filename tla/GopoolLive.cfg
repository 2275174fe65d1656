\* Two processes that share two buildlets; creation and setup may fail.
SPECIFICATION FairSpec
CONSTANTS
  Procs = {p1, p2}
  Names = {n1, n2}
  None = None
  MaxBuildlets = 2
  MaxCreateTries = 2
  HasSetup = TRUE
  CreateMayFail = TRUE
  Commands = {"run", "destroy"}
  MaxCrashes = 1
PROPERTY ProcessesEnd
CHECK_DEADLOCK FALSE
