SPECIFICATION PipelineSpec
CONSTANTS
  d1 = d1
  u1 = u1
  u2 = u2
  dep = dep
  Docs = {d1}
  Users = {u1, u2}
  Depts = {dep}
  Members <- OneMember
  NoUser = NoUser
  NoDept = NoDept
  NoDoc = NoDoc
  CreateStatuses = {"INCOMING"}
  RejectionLimit = 1
  MaxVersion = 5
  Editors = {}
  OWorkers = {o1}
  IWorkers = {i1, i2}
  MaxAttempts = 2
  SlowWorkers = TRUE
  MaxFaults = 2
PROPERTIES ReadyUnlessOvertaken
\* A document that nobody touches any more ends the bounded behaviour.
CHECK_DEADLOCK FALSE
