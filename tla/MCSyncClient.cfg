SPECIFICATION CSpec
CONSTANTS
  SyncId = {i1, i2}
  Absent = Absent
  Empty = Empty
  Partial = Partial
  MaxOps = 3
INVARIANTS CTypeOK NoLoss IdNamesEpoch SnapshotCovers
