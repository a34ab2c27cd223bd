SPECIFICATION Spec
CONSTANTS
  Procs = {p1}
  Minutes <- MCMinutes
  Days <- MCDays
  Months <- MCMonths
  DayOf <- MCDayOf
  MonthOf <- MCMonthOf
  OpenMinutes <- MCOpen
  Archive <- MCArchive
  Listed <- MCListed
  Values = {v1, v2}
  NoBar = NoBar
  OneSided = OneSided
  Windows <- MCWindows
  Horizon = 4
INVARIANTS
  TypeOK
  OnlyClosedMinutes
  CompleteDaysNeedNoDownload
PROPERTIES
  RepairStaysInWindow
  EvidenceIsAbsence
  RepairRenewsDigest
  RevisionLagsOnlyAfterDeath
  ImplementsLedger
SYMMETRY Interchangeable
