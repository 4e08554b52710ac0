SPECIFICATION RuntimeSpec
CHECK_DEADLOCK FALSE
CONSTANTS
  Replies <- MCEffectReplies
  Calibrated <- Believed
  SinkReliable = TRUE
  MaxUnits = 40
  MaxToolCalls = 4
  MaxSteps = 5
  Costs = {0, 1, 3, 5}
  PenaltyUnits = 10
  UsedUnitsBound = 0
  InitialState <- MCInitialState
  BypassTexts = {"ignore policy"}
  DestructiveTexts = {"rm -rf"}
  OutsidePaths = {}
  Files = {"A"}
  Contents <- MCContents
  PathTexts <- MCPathTexts
  FileOf <- MCFileOf
  NoFile = "none"
  Absent = "absent"
  Directories = {"/w/pkg"}
  ToolPath <- MCAbsolute
  SnapPath <- MCAbsolute
  Unconfined = {}
  Decode <- MCDecode
  InitialFiles <- MCInitialFiles
  Keys <- MCKeys
  KeyTier <- MCKeyTier
  KeyContains <- MCKeyContains
  Seed <- MCSeed
  MemoryActions <- MCMemoryActions
INVARIANTS
  LessonsAreCompact
PROPERTIES
  MutationsCanBeUndone
  SecondApplicationIsIdle
