SPECIFICATION PFairSpec
CONSTANTS
  Paths = {"a", "b"}
  Inodes = {1}
  Nowhere = Nowhere
  Parent <- MCParent
  Null = Null
  End = End
  Gone = Gone
  Records <- MCRecords
  Junk <- MCJunk
  Snapshots <- MCSnapshots
  MaxRecords = 3
  MaxFaults = 1
  MESSAGE_MAX = 2
INVARIANTS PTypeOK LoadsWhatWasRecorded DataWaits BuffersHold Arrives
PROPERTIES ImplementsDelivery Completes
CHECK_DEADLOCK FALSE
