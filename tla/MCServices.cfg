SPECIFICATION MCSpec
CONSTANTS
  n1 = n1
  n2 = n2
  ca = ca
  other = other
  kca = kca
  kroot = kroot
  kmid = kmid
  kleaf = kleaf
  Nid = n1
  Malformed = Malformed
  None = None
  Frames <- MCFrames
  Contexts <- MCContexts
  Options <- MCOptions
  Trusted <- MCTrusted
  Roots <- MCRoots
  Marks = {"last", "all"}
  Life = 2
  Window = 1
  MaxRows = 2
  MaxTime = 3
  TrustFrames <- MCTrustFrames
  TrustContexts <- MCTrustContexts
  r1 = r1
  Readers = {r1}
  Subjects = {n1}
  Incidents = {"scraping"}
  Later = "later"
  MaxTree = 5
  Nothing = None
  r2 = r2
  MaxDepth = 2
  MaxNodes = 3
  Tasks <- MCTasks
  Values <- MCValues
  Atoms <- MCAtoms
  Sample <- MCSample
  MaxEdges = 3
  Unset = None
  Runners = {r1, r2}
  TaskIds = {"t"}
  DedupKeys = {"d"}
  Seconds = {0, 9}
  MinLease = 1
  MaxLease = 2
  MaxClock = 4
  Nobody = None
  Base = 3
  Outgoing <- MCOutgoing
  Registered = {3}
  Limits = {8, 80}
  MaxSent = 2
  Huge = Huge
  Text = Text
  Absent = None
  Schemas <- MCSchemas
  Short = Short
  Ttls = {1, 2}
  MaxMoment = 3
  Missing = None
  q1 = q1
  q2 = q2
  Inbound = {q1, q2}
  Sites <- MCSites
  Orders <- MCOrders
  Segment <- MCSegment
  Codes = {401, 403, 422, 429}
  Unknown = None
  Unasked = Unasked
  Hooks = {q1, q2}
  Signals = {r1, r2}
INVARIANTS  VerifiedSoundly   
