SPECIFICATION PSpec
CONSTANTS
  Proc = {p1, p2, p3, p4}
  Nobody = Nobody
  MaxInodes = 4
SYMMETRY Symmetry
INVARIANTS PTypeOK OneUnlessOrphaned FileNamesRunner
CHECK_DEADLOCK FALSE
