SPECIFICATION FairSpec
CONSTANTS
  Keys = {k1}
  Requests = {u1}
  Workers = {w1, w2}
  Operations = {o1}
  Data = {a}
  MaxAttempts = 2
  NoData = NoData
  NoKey = NoKey
  NoRequest = NoRequest
  NoWorker = NoWorker
  NoOperation = NoOperation
PROPERTIES
  KeepsCustodyPromise
