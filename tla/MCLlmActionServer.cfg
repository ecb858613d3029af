SPECIFICATION Spec
CONSTANTS
  o = o
  k1 = k1
  k2 = k2
  c1 = c1
  c2 = c2
  c3 = c3
  x1 = x1
  x2 = x2
  x3 = x3
  b = b
  None = None
  Owners = {o}
  Keys = {k1, k2}
  ContextIds = {c1, c2, c3}
  Bindings = {b}
  BaseVersions = {1}
  TtlRequests = {0}
  SupportedOps <- AllOps
  MaxContexts = 2
  DefaultTtl = 1
  MaxTtl = 1
  Tombstone = 1
  IdemTtl = 1
  MaxTime = 1
  Calls = {x1, x2, x3}
  Workload <- MCWorkload
  Kinds = {"unary", "async", "stream"}
  CacheTtl = 1
  OwnTask = FALSE
SYMMETRY CallSymmetry
INVARIANTS HeldWhileRunning  
PROPERTIES CancelledNeverCommits TaskStatusFinal
