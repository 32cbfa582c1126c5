SPECIFICATION FairSpec
CONSTANTS
  Keys = {k1}
  Requests = {u1}
  Workers = {w1}
  Operations = {o1}
  Data = {a}
  MaxAttempts = 1
  NoData = NoData
  NoKey = NoKey
  NoRequest = NoRequest
  NoWorker = NoWorker
  NoOperation = NoOperation
PROPERTY RetryWithSameFileSucceeds
