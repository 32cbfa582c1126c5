SPECIFICATION NumberingSpec
CONSTANTS
  r1 = r1
  r2 = r2
  r3 = r3
  Registries = {r1, r2}
  Prefix <- OnePrefix
  Start <- FromOne
  Supplied <- Nothing
  NoRegistry = NoRegistry
  Clerks = {c1}
  Editors = {}
  MaxBatch = 2
  MaxYear = 2
  MaxDocs = 2
INVARIANTS ReservedNumberIsFree
CHECK_DEADLOCK FALSE
