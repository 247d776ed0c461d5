SPECIFICATION MSpec
CONSTANTS
  Paths = {"a", "b", "d", "da"}
  Inodes = {1, 2, 3, 4}
  Nowhere = Nowhere
  Parent <- MCParent
  InitTrees <- MCInitTrees
  Bytes = 2
  MaxOps = 3
ACTION_CONSTRAINT LowestUnused
INVARIANT OrderKept
CHECK_DEADLOCK FALSE
