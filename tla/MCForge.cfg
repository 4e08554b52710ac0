SPECIFICATION Spec
CHECK_DEADLOCK FALSE
CONSTANTS
  Requests = {"r1", "r2"}
  Bodies <- MCBodies
  CrashBound = 1
INVARIANTS
  SuccessIsReal
  LatestIsWhole
PROPERTIES
  EndedJobsStayEnded
  AnsweredJobsEnd
