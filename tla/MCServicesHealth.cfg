SPECIFICATION Spec
CONSTANTS
  Parts = {"health"}
  first = first
  second = second
  third = third
  Requests <- MCRequests
  Bodies <- MCBodies
  Hunks = {"up", "down"}
  FileOf <- MCFileOf
  Needs <- MCNeeds
  Children <- MCFull
  Flaky = "planner"
  RequireProposals = TRUE
  ProposalWindow = 2
  OldRefusals = 4
  Commits = 1
  Breaks = 1
  Writers = {"w1", "w2", "w3"}
  EventBound = 4
  TearBound = 1
  DamageBound = 1
  Clients = {c1, c2}
  ForgetLimit = 1
  RecordBound = 2
  BundleBound = 1
  ImportBound = 1
  Faults = 1
  ANCHORS <- MCAnchors
  ANCHOR_RELATIONS <- MCRelations
  REQUIRED_FIELDS <- MCRequired
  Vocabulary <- MCVocabulary
  MaxNewTokens = 11
  Registered <- MCRegistered
  Registries <- MCRegistries
  UsualRegistry <- MCUsual
  Operators = {o1, o2}
  CommandBound = 4
  Levels <- MCLevels
  TaskRisks = {{}, {"authority_escalation"}, {"credential_risk"}}
  ToolSets = {{}, {"propose"}, {"run_tests"}, {"write_workspace"}}
  KeySets = {{}, {"openai"}, {"openrouter"}}
  Walkers = {"k1"}
  Learners = {l1}
  Goals <- MCGoals
  OldRows <- MCOldRows
  Thresholds <- MCThresholds
  BrokenExports = 1
  Monitors = {"m1", "m2"}
  OldDatabases <- MCDatabases
  EmitterCounts <- MCCounts
  HealthDamages = 1
  RunBound = 1
INVARIANT FailuresAreRecorded
CHECK_DEADLOCK FALSE
