SPECIFICATION FairSpec
CHECK_DEADLOCK FALSE
CONSTANTS
  Ids = {1, 2, 3}
  Kinds <- MCKinds
  Near <- MCNear
  Limit = 2
  Threshold = 2
  Window = 3
  CorpusSize = 1
  EnoughRows = 2
  MaxCheckpoints = 1
  Commands <- MCCommands
  CrashBound = 1
INVARIANTS
  TrainedOnTheDatabase
  CheckpointIsTrained
PROPERTY LearnedEventually
