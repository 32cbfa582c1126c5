SPECIFICATION LifecycleSpec
CONSTANTS
  p1 = p1
  p2 = p2
  v1 = v1
  v2 = v2
  w1 = w1
  w2 = w2
  Portfolios = {p1}
  Versions = {v1}
  LWorkers = {w1}
  NoPortfolio = NoPortfolio
  InitRefs <- OneShared
  MaxOps = 1
  MaxAttempts = 2
  Retention = 1
  MaxTime = 1
  MaxFaults = 0
INVARIANTS
  ExpiredReviewIsEligible
CHECK_DEADLOCK FALSE
