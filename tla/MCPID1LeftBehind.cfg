SPECIFICATION Spec
CHECK_DEADLOCK FALSE
CONSTANTS
  Specs <- MCSpecs
  Web = "web"
  OnFailure = {"web", "oracle"}
  MaxRestarts = 1
  Pids = {1, 2, 3, 4}
  PidsRecycled = FALSE
  FaultBound = 1
INVARIANTS
  NobodyIsLeftBehind
