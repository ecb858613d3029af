SPECIFICATION ServerSpec
CONSTANTS
  h1 = h1
  p1 = p1
  y1 = y1
  y2 = y2
  Holders = {h1}
  PubKeys = {p1}
  Forms = {y1, y2}
  Earlier = {9}
  AgentLife = 1
  NodeLife = 2
  RenewalDays = 0
  MaxDay = 1
  Vacant = Vacant
CHECK_DEADLOCK FALSE
INVARIANT UndisturbedIssues
