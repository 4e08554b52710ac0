SPECIFICATION RuntimeSpec
CHECK_DEADLOCK FALSE
CONSTANTS
  Replies <- MCRecordReplies
  Calibrated <- Doubted
  SinkReliable = FALSE
  MaxUnits = 20
  MaxToolCalls = 2
  MaxSteps = 3
  Costs = {0, 1, 3, 5}
  PenaltyUnits = 10
  UsedUnitsBound = 0
  InitialState <- MCInitialState
  BypassTexts = {"ignore policy"}
  DestructiveTexts = {"rm -rf"}
  OutsidePaths = {}
  Files = {}
  Contents <- MCContents
  PathTexts <- MCPathTexts
  FileOf <- MCNoFileOf
  NoFile = "none"
  Absent = "absent"
  Directories = {"/w/pkg"}
  ToolPath <- MCAbsolute
  SnapPath <- MCAbsolute
  Unconfined = {}
  Decode <- MCDecode
  InitialFiles <- MCNoFiles
  Keys <- MCKeys
  KeyTier <- MCKeyTier
  KeyContains <- MCKeyContains
  Seed <- MCSeed
  MemoryActions <- MCMemoryActions
INVARIANTS
  AuditMatchesTrajectory
  RecordsAgree
  CitedEvidenceWasEarned
