SPECIFICATION Spec
CONSTANTS
  LeftBars = 1
  RightBars = 1
  MinBars = 6
  Indicators = {"rsi"}
  Required = {}
  MinDivergent = 1
  CheckCutThrough = TRUE
  Scenarios <- MCScenarios
  None = None
  WarmBars = 9
INVARIANTS
  OnlyTwoPeeks
  CompleteIsCertain
PROPERTIES
  SettledSetups
  RefusedForGood
  ZonesStay
  QualityIsFinal
CHECK_DEADLOCK FALSE
