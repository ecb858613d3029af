SPECIFICATION Spec
CONSTANTS
  agt = agt
  grp = grp
  s1 = s1
  s2 = s2
  k1 = k1
  k2 = k2
  tok = tok
  x1 = x1
  x2 = x2
  x3 = x3
  x4 = x4
  None = None
  Agents = {agt}
  Groups = {grp}
  Sessions = {s1}
  Keys = {k1, k2}
  Tokens = {tok}
  Calls = {x1, x2, x3, x4}
  Stores = {"memory", "sql"}
  Tiers = {"allowlist", "token", "pending"}
  QueueMax = 1
  AgentDays = 1
  GroupDays = 1
  SessionDays = 1
  WindowDays = 1
  TokenDays = 0
  PendingDays = 0
  MaxTime = 1
  MaxSqlCalls = 3
  MaxTokenCalls = 2
SYMMETRY CallSymmetry
CHECK_DEADLOCK FALSE
INVARIANTS SerialsUnique  KeyBound 
PROPERTY DeadStaysDead
