SPECIFICATION FairSpec
CONSTANTS
  Workers = {w1, w2, w3}
  Interval = 2
  Retries = 3
  Backoff <- MCBackoff
  RetryAfter = {0, 3}
  MaxCalls = 2
INVARIANTS
  TypeOK
  OneInFlight
PROPERTIES
  SpacedAndPatient
  CallsEnd
