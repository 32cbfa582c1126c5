SPECIFICATION FlowSpec
CONSTANTS
  d1 = d1
  u1 = u1
  u2 = u2
  dep = dep
  Docs = {d1}
  Users = {u1, u2}
  Depts = {dep}
  Members <- AllMembers
  NoUser = NoUser
  NoDept = NoDept
  NoDoc = NoDoc
  CreateStatuses = {"INCOMING"}
  RejectionLimit = 3
  MaxVersion = 3
  Editors = {e1}
INVARIANT CancellationIsFinal
CHECK_DEADLOCK FALSE
