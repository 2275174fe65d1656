\* Three threads, each with up to two operations in its deferred functions.
SPECIFICATION FairSpec
CONSTANTS
  MaxThreads = 3
  MaxDefers = 2
INVARIANTS
  OneActive
  IndexCorrect
  ListedOnce
PROPERTIES
  AbortCompletes
CHECK_DEADLOCK FALSE
