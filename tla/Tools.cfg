\* One module per behaviour, with the instances MCTools gives.
SPECIFICATION FairSpec
CONSTANTS
  Signals <- KillSignals
  MaxChunks = 2
  MaxStatus = 4
  Confs <- Directories
  Workers = {1, 2}
INVARIANTS
  OutputExact
  LastStatusKept
  
  ShownInOrder
PROPERTIES
  OutputStopsAtDone
  NewestShown
  ToolsEnd
CHECK_DEADLOCK FALSE
