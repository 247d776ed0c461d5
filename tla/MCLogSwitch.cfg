SPECIFICATION LFairSpec
CONSTANTS
  Absent = Absent
  MaxOps = 2
  MaxClients = 3
  MaxFaults = 1
INVARIANTS LTypeOK LogsKeepAll ClobberNeedsAbandoned AnswerIsComplete WriteHitsLog
PROPERTIES DeferredIsServed
CHECK_DEADLOCK FALSE
