SPECIFICATION RegistrySpec
CONSTANTS
  Docs = {d1, d2}
  Registered = {d1, d2}
  Queries = {q1}
  Loads = {l1}
  Details = {s1, s2}
  OpenedViews = {"edit", "workflow"}
  MaxRevision = 1
  MaxActs = 3
  NoDoc = NoDoc
  NoQuery = NoQuery
  NoRequest = NoRequest
INVARIANTS FormBelongsToDocument
CHECK_DEADLOCK FALSE
