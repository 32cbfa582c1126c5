SPECIFICATION LifecycleSpec
CONSTANTS
  p1 = p1
  p2 = p2
  v1 = v1
  v2 = v2
  w1 = w1
  w2 = w2
  Portfolios = {p1, p2}
  Versions = {v1, v2}
  LWorkers = {w1, w2}
  NoPortfolio = NoPortfolio
  InitRefs <- TwoVersions
  MaxOps = 1
  MaxAttempts = 2
  Retention = 1
  MaxTime = 1
  MaxFaults = 1
SYMMETRY Symmetry
INVARIANTS
  TimeNeverReleases
  ActiveReferencesInCustody
  RetentionCoversReferences
  CompletionIsVerified
  AggregateIsCurrent
CHECK_DEADLOCK FALSE
