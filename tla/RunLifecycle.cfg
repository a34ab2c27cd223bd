SPECIFICATION FairSpec
CONSTANTS
  Runs = {r1, r2}
  LegacyPresets = {r2}
  Handlers = {h1, h2}
  Legacy = Legacy
  Nothing = Nothing
  MaxBatch = 2
  MaxLegacy = 1
  MaxBoots = 2
  Faults = TRUE
INVARIANTS
  TypeOK
  OneHolder
  ExecuteExclusive
  LatestIsStored
PROPERTIES
  ProgressOnlyForward
  ImplementsJournal
  EveryRunEnds
  ShutdownExits
CHECK_DEADLOCK FALSE
