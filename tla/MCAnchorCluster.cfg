SPECIFICATION Spec
CONSTANTS
  a1 = a1
  a2 = a2
  t1 = t1
  None = None
  Nodes = {a1, a2}
  Threads = {t1}
  Kinds = {"profile", "local-dev", "memory"}
  MaxTime = 1
  Ttl = 1
  Skew = 0
  MaxEpoch = 3
  MaxSent = 2
SYMMETRY NodeSymmetry
INVARIANTS ResolutionTrue 
PROPERTIES NoRollback
