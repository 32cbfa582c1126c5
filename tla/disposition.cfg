SPECIFICATION Spec
CONSTANTS
  p1 = p1
  p2 = p2
  v1 = v1
  w1 = w1
  d1 = d1
  d2 = d2
  Portfolios = {p1, p2}
  Versions = {v1}
  LWorkers = {w1}
  DWorkers = {d1, d2}
  NoPortfolio = NoPortfolio
  NoOwner = NoOwner
  InitRefs <- OneShared
  MaxOps = 2
  MaxAttempts = 1
  Retention = 1
  MaxTime = 2
  MaxFaults = 1
  MaxRequests = 2
  ConnectionLoss = FALSE
SYMMETRY Symmetry
INVARIANTS
  HoldOffNeedsDisposition
  ProtectedProjectionIsHeld
  ConsumedByOneReceipt
PROPERTIES
  ReleaseIsUnblocked
  KeepsRetentionPolicy
CHECK_DEADLOCK FALSE
