SPECIFICATION LSpec
CONSTANTS
  Absent = Absent
  MaxOps = 2
  MaxClients = 3
  MaxFaults = 0
INVARIANT NotReentered
CHECK_DEADLOCK FALSE
