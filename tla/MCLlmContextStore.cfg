SPECIFICATION Spec
CONSTANTS
  o1 = o1  o2 = o2  k1 = k1  k2 = k2  c1 = c1  c2 = c2
  r1 = r1  r2 = r2  r3 = r3  b1 = b1  b2 = b2
  None = None
  Owners = {o1, o2}
  Keys = {k1, k2}
  ContextIds = {c1, c2}
  ReservationIds = {r1, r2, r3}
  Bindings = {b1, b2}
  BaseVersions = {1, 2}
  TtlRequests = {0}
  SupportedOps <- AllOps
  MaxContexts = 2
  DefaultTtl = 3
  MaxTtl = 2
  Tombstone = 1
  IdemTtl = 1
  MaxTime = 3
SYMMETRY Symmetry
INVARIANTS TypeOK QuotaRespected OwnTurnsOnly LocksHeld ReceiptResolvable
PROPERTIES TerminalIsFinal VersionedChange RetainedOutcomeIsStable
