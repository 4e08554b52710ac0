SPECIFICATION IpcSpec
CONSTANTS
  r1 = r1
  r2 = r2
  Requests = {r1, r2}
  Kinds <- MCKinds
  DeathBound = 1
  DiskBound = 1
  EditBound = 1
INVARIANTS LedgersTellTheAnswer AcceptedWasPermitted
PROPERTY RequestsEnd
CHECK_DEADLOCK FALSE
