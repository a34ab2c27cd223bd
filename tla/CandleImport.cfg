SPECIFICATION ImportSpec
CONSTANTS
  Procs = {p1}
  Minutes <- MCMinutes
  Days <- MCDays
  Months <- MCMonths
  DayOf <- MCDayOf
  MonthOf <- MCMonthOf
  OpenMinutes <- MCArchive
  Archive <- MCArchive
  Listed <- MCArchive
  Values = {v1, v2}
  NoBar = NoBar
  OneSided = OneSided
  Windows <- MCWindows
  Horizon = 2
  Quotes = {q}
  Joint <- MCJoint
  Plans <- MCPlans
  GapLimit = 1
INVARIANTS
  OnlyImportsLoosen
  StrictIsRepeatable
PROPERTIES
  ObservationsPermanent
  ImportsAreWhole
  RevisionCoversTheData
