SPECIFICATION PSpec
CONSTANTS
  Proc = {p1, p2, p3}
  Nobody = Nobody
  MaxInodes = 3
INVARIANT OnlyOneInstance
CHECK_DEADLOCK FALSE
