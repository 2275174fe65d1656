\* One module per behaviour or input, with the instances MCAnalyses gives.
SPECIFICATION Spec
CONSTANTS
  p1 = p1
  p2 = p2
  h1 = h1
  h2 = h2
  d1 = d1
  d2 = d2
  n1 = n1
  None = None
  k1 = k1
  k2 = k2
INVARIANTS
  ModelsAgree
  GraphsExact
  Persistent
  EdgesComplete
  
  ColorsMean
  QueriesTyped
  LookupsAgree
  FailuresSound
CHECK_DEADLOCK FALSE
