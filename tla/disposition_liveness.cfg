SPECIFICATION FairSpec
CONSTANTS
  p1 = p1
  p2 = p2
  v1 = v1
  w1 = w1
  d1 = d1
  d2 = d2
  Portfolios = {p1}
  Versions = {v1}
  LWorkers = {w1}
  DWorkers = {d1}
  NoPortfolio = NoPortfolio
  NoOwner = NoOwner
  InitRefs <- OneShared
  MaxOps = 2
  MaxAttempts = 2
  Retention = 1
  MaxTime = 1
  MaxFaults = 1
  MaxRequests = 1
  ConnectionLoss = TRUE
PROPERTIES
  TransitionsSettle
  ApprovalsConverge
  LegalHoldIsRestored
CHECK_DEADLOCK FALSE
