SPECIFICATION FairSpec
CONSTANTS
  SyncId = {i1, i2, i3}
  Absent = Absent
  Empty = Empty
  Partial = Partial
  MaxOps = 2
  MaxSessions = 8
  MaxFaults = 2
INVARIANTS TypeOK EndToEnd NoGaps
PROPERTIES WholeEpochs Delivered
CHECK_DEADLOCK FALSE
