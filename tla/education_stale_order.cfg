SPECIFICATION EducationSpec
CONSTANTS
  Records = {p1, p2}
  Relations = {x1}
  Filters = {f1, f2}
  Orders = {o1, o2}
  Sizes = {n1}
  MaxPage = 1
  Loads = {l1}
  Details = {s1}
  PanelLoads = {a1, a2}
  Writes = {w1}
  MaxRevision = 1
  MaxActs = 6
  NoRecord = NoRecord
  NoTimer = NoTimer
  NoLoad = NoLoad
  NoKey = NoKey
INVARIANT ListShowsOrder
CHECK_DEADLOCK FALSE
