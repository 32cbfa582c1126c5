SPECIFICATION FairWebSpec
CONSTANTS
  Calls = {c1}
  Refreshers = {r1, r2}
  MaxTokens = 2
  MaxRevision = 1
INVARIANTS GrantsOfDisplayedSession SessionHasItsToken
PROPERTIES RevalidationsNeverRegress PageBecomesReady AuthorizationSettles RevocationReachesScreen
CHECK_DEADLOCK FALSE
