SPECIFICATION SFairSpec
CONSTANTS
  Op = {o1, o2}
  SyncId = {i1, i2}
  Absent = Absent
  Empty = Empty
  Partial = Partial
  MaxSessions = 3
  MaxFiles = 2
  MaxChunks = 2
  MaxChunkOps = 1
INVARIANTS TypeOK Guarded ConfirmedIsFinal
PROPERTIES AtomicCommit LossIsReported ImplementsReplica SessionsEnd
CHECK_DEADLOCK FALSE
