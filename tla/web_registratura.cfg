SPECIFICATION FairRegistrySpec
CONSTANTS
  Docs = {d1, d2}
  Registered = {d1}
  Queries = {q1, q2}
  Loads = {l1, l2}
  Details = {s1, s2}
  OpenedViews = {"edit", "workflow"}
  MaxRevision = 2
  MaxActs = 3
  NoDoc = NoDoc
  NoQuery = NoQuery
  NoRequest = NoRequest
INVARIANTS SavedIsShown RegisteredOnce
PROPERTIES RowsFollowControls ScreenSettles
CHECK_DEADLOCK FALSE
