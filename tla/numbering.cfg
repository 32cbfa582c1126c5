SPECIFICATION NumberingSpec
CONSTANTS
  r1 = r1
  r2 = r2
  r3 = r3
  Registries = {r1, r2, r3}
  Prefix <- AloneAndShared
  Start <- FromTwo
  Supplied <- AnyYearOrNone
  NoRegistry = NoRegistry
  Clerks = {c1, c2}
  Editors = {e1}
  MaxBatch = 2
  MaxYear = 2
  MaxDocs = 3
INVARIANTS NumbersConsecutive UneditedNumberIsFree
PROPERTY KeepsNumberRegister
CHECK_DEADLOCK FALSE
