SPECIFICATION Spec
CONSTANTS
  Sessions <- MCSessions
  Ranks = {0, 1}
  Configs <- MCConcurrent
  MaxHold = 1
  NoExit = NoExit
  MaxSetups = 4
INVARIANTS
  EquityAfterExits
CHECK_DEADLOCK FALSE
