SPECIFICATION FairSpec
CONSTANTS
  Keys = {k1}
  Requests = {u1, u2}
  Workers = {w1, w2}
  Operations = {o1}
  Data = {a}
  MaxAttempts = 1
  NoData = NoData
  NoKey = NoKey
  NoRequest = NoRequest
  NoWorker = NoWorker
  NoOperation = NoOperation
PROPERTIES
  HeldFileIsAdopted
  KeepsCustodyPromise
INVARIANTS
  ReceivedIsAdopted
  AdoptedAsDisposed
  LostProvenanceWasAdopted
  ConflictIsAdopted
