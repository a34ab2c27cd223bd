SPECIFICATION Spec
CONSTANTS
  LeftBars = 1
  RightBars = 1
  MinBars = 6
  Indicators = {"rsi"}
  Required = {}
  MinDivergent = 1
  CheckCutThrough = TRUE
  Scenarios <- MCAtBreak
  None = None
  WarmBars = 9
INVARIANTS
  EntryAfterBreak
CHECK_DEADLOCK FALSE
