SPECIFICATION FlowSpec
CONSTANTS
  d1 = d1
  u1 = u1
  u2 = u2
  dep = dep
  Docs = {d1}
  Users = {u1, u2}
  Depts = {dep}
  Members <- AllMembers
  NoUser = NoUser
  NoDept = NoDept
  NoDoc = NoDoc
  CreateStatuses = {"INCOMING"}
  RejectionLimit = 3
  MaxVersion = 5
  Editors = {}
INVARIANT RejectedCanBeResent
CHECK_DEADLOCK FALSE
