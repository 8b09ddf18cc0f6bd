SPECIFICATION PartSpec
CONSTANTS
  eCp = eCp
  eRm = eRm
  eExec = eExec
  u = u
  v = v
  Events = {eCp, eRm, eExec}
  Users = {u, v}
  User <- UserOf
  LinesOf <- KindsOf
  RulesOf <- RulesMet
  Scenario <- CpRm
  Window = 0
  MaxLag = 1
  MaxSeconds = 2
  MaxDeaths = 1
  Accounts = {u, v}
  Commands = {"passwd vic"}
  Changes = {"v's password"}
  PasswdChanges = {"v's password"}
  Mentions <- Said
  Allowed = {u}
  Changers = {u}
  Counts = {1}
  Threshold = 2
  FailWindow = 1
  MaxRecent = 3
  MaxEntries = 4
  MaxTime = 3
  MaxRestarts = 1
  Root = Root
  NoOne = NoOne
  scanJob = scanJob
  reportJob = reportJob
  Jobs = {scanJob, reportJob}
  Report = reportJob
  Choices <- FewFiles
  DayNames <- TwoNames
  Numbers <- OneNumber
  Dates <- OneDate
  Calendar <- FiveDays
  UnitsPerMinute = 4
  MinutesPerDay = 2
  LongSleep = 4
  ShortSleep = 2
  MaxRound = 1
  MaxKills = 1
  DaysPerWeek = 2
  DaysPerMonth = 2
  BarLength = 4
  MaxDelay = 1
INVARIANTS
  PartTypeOK
  DetectionsExact
  ScenariosExact
  FailureReportsJustified
  BurstsReported
  ChangersRight
  DueOnce
  ReportsJoin
CHECK_DEADLOCK FALSE
