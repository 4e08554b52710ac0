SPECIFICATION Spec
CHECK_DEADLOCK FALSE
CONSTANTS
  Requests = {"r1", "r2", "r3", "r4", "r5"}
  Bodies <- MCBodies
  TokenConfigured = TRUE
  OauthEnabled = TRUE
  SignedRequired = TRUE
  TokenGrants = {"patch"}
  OauthGrants = {"patch"}
  Capabilities = {"patch", "deploy"}
  MaxFailures = 2
  CrashBound = 1
INVARIANTS
  FilesFollow
  LoginServesOnce
  EntryIsCurrent
