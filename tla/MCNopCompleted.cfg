SPECIFICATION Spec
CONSTANTS
  a = a
  b = b
  c = c
  d = d
  Nodes <- MCNodes
  Dags <- DeepDags
  MaxConcurrent = 2
  MaxRetries = 1
  FatalErrors = FALSE
  WorkerRaises = FALSE
  CallbackTries = 3
INVARIANT CompletedMeansDone
