SPECIFICATION WebSpec
CONSTANTS
  Calls = {c1}
  Refreshers = {r1}
  MaxTokens = 2
  MaxRevision = 0
PROPERTIES WorkspaceStaysMounted
CHECK_DEADLOCK FALSE
