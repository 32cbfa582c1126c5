SPECIFICATION Spec
CONSTANTS
  Keys = {k1, k2}
  Requests = {u1}
  Workers = {w1}
  Operations = {o1}
  Data = {a, b}
  MaxAttempts = 1
  NoData = NoData
  NoKey = NoKey
  NoRequest = NoRequest
  NoWorker = NoWorker
  NoOperation = NoOperation
INVARIANT ConflictMeansOtherData
