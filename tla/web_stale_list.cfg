SPECIFICATION RegistrySpec
CONSTANTS
  Docs = {d1}
  Registered = {d1}
  Queries = {q1, q2}
  Loads = {l1, l2}
  Details = {s1}
  OpenedViews = {"workflow"}
  MaxRevision = 2
  MaxActs = 3
  NoDoc = NoDoc
  NoQuery = NoQuery
  NoRequest = NoRequest
INVARIANTS RowsAnswerControls
CHECK_DEADLOCK FALSE
