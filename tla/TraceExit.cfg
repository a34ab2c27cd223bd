SPECIFICATION Spec
CONSTANTS
  Scenarios <- MCScenarios
  None = None
INVARIANTS
  TypeOK
  ObservedIsCertain
  EndsArePossible
  GapsAccounted
PROPERTIES
  EndsAreFinal
CHECK_DEADLOCK FALSE
