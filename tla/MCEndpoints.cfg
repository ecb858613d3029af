SPECIFICATION MCSpec
CONSTANTS
  a1 = a1
  x1 = x1
  x2 = x2
  s1 = s1
  None = None
  Agents = {a1}
  Policies <- MCPolicies
  Incidents = {"fraud", "spam"}
  MaxTime = 2
  MaxLog = 1
  Requests = {x1, x2}
  Actions <- MCActions
  CgnLimit = 2
  Budgets = {0, 1}
  Clients <- MCClients
  Capacity = 1
  Streams = {s1}
  MaxEpoch = 2
  MaxFeed = 2
  k1 = k1
  k2 = k2
  y1 = y1
  y2 = y2
  y3 = y3
  m1 = m1
  NoValue = None
  Keys = {k1, k2}
  AcmeClients = {k1}
  Calls = {y1, y2}
  Manual = {m1}
  h1 = h1
  p1 = p1
  p2 = p2
  Holders = {h1}
  PubKeys = {p1, p2}
  Forms = {y1, y2, y3}
  Earlier = {0, 8}
  AgentLife = 1
  NodeLife = 2
  RenewalDays = 0
  MaxDay = 1
  Vacant = None
SYMMETRY CallSymmetry
CHECK_DEADLOCK FALSE
INVARIANTS SlotsReturned StreamFaithful  ServerSound
PROPERTY PassesOnReputation
