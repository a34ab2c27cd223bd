SPECIFICATION Spec
CONSTANTS
  Readers = {r1, r2}
  Horizon = 5
  Served = {0, 1, 2, 4, 5}
INVARIANTS
  NoCut
CHECK_DEADLOCK FALSE
