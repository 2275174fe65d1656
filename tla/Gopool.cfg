\* Three processes, a pool of at most two of three buildlets, two crashes.
SPECIFICATION Spec
SYMMETRY Symmetry
CONSTANTS
  Procs = {p1, p2, p3}
  Names = {n1, n2, n3}
  None = None
  MaxBuildlets = 2
  MaxCreateTries = 2
  HasSetup = TRUE
  CreateMayFail = TRUE
  Commands = {"run", "destroy"}
  MaxCrashes = 2
INVARIANTS
  PoolExact
PROPERTIES
  InUseProtected
CHECK_DEADLOCK FALSE
