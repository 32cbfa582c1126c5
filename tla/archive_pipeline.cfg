SPECIFICATION FairPipelineSpec
CONSTANTS
  d1 = d1
  u1 = u1
  u2 = u2
  dep = dep
  Docs = {d1}
  Users = {u1, u2}
  Depts = {dep}
  Members <- OneMember
  NoUser = NoUser
  NoDept = NoDept
  NoDoc = NoDoc
  CreateStatuses = {"INCOMING"}
  RejectionLimit = 1
  MaxVersion = 5
  Editors = {e1}
  OWorkers = {o1, o2}
  IWorkers = {i1, i2}
  MaxAttempts = 2
  SlowWorkers = FALSE
  MaxFaults = 1
INVARIANT FourEyes
PROPERTIES ReadyUnlessOvertaken KeepsArchivePromise ApprovalSettles
\* A document that nobody touches any more ends the bounded behaviour.
CHECK_DEADLOCK FALSE
