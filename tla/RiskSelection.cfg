SPECIFICATION Spec
CONSTANTS
  Sessions <- MCSessions
  Ranks = {0, 1}
  Configs <- MCConfigs
  MaxHold = 1
  NoExit = NoExit
  MaxSetups = 4
INVARIANTS
  NoOverlap
  NothingAfterUnknown
  DailyBudget
  DailyStops
CHECK_DEADLOCK FALSE
