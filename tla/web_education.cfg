SPECIFICATION FairEducationSpec
CONSTANTS
  Records = {p1}
  Relations = {x1, x2}
  Filters = {f1, f2}
  Orders = {o1, o2}
  Sizes = {n1}
  MaxPage = 2
  Loads = {l1, l2}
  Details = {s1}
  PanelLoads = {a1, a2}
  Writes = {w1}
  MaxRevision = 1
  MaxActs = 3
  NoRecord = NoRecord
  NoTimer = NoTimer
  NoLoad = NoLoad
  NoKey = NoKey
INVARIANTS ListShowsControls SavedIsListed
PROPERTIES FilterIsApplied EducationSettles
CHECK_DEADLOCK FALSE
