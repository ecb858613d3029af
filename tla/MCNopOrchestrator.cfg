SPECIFICATION FairSpec
CONSTANTS
  a = a
  b = b
  c = c
  d = d
  Nodes <- MCNodes
  Dags <- AllDags
  MaxConcurrent = 2
  MaxRetries = 1
  FatalErrors = TRUE
  WorkerRaises = TRUE
  CallbackTries = 3
INVARIANTS DependenciesMet  ToleratesFailures
PROPERTIES CancelStopsDispatch 
