CONSTANTS
  Requests = {r1, r2}
  Resolution = 2
  Skews <- MCSkews
  MaxTime = 5
  Never = 1000
SPECIFICATION Spec
SYMMETRY Symmetry
INVARIANTS
  OffsetIsAccurate
CHECK_DEADLOCK FALSE
