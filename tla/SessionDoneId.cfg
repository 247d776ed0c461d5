SPECIFICATION Spec
CONSTANTS
  SyncId = {i1, i2, i3}
  Absent = Absent
  Empty = Empty
  Partial = Partial
  MaxOps = 1
  MaxSessions = 4
  MaxFaults = 1
INVARIANT DoneIdNotSyncedAgain
CHECK_DEADLOCK FALSE
