SPECIFICATION Spec
CONSTANTS
  e1 = e1
  e2 = e2
  e3 = e3
  clean = clean
  mal = mal
  script = script
  huge = huge
  notify = notify
  atClean = atClean
  atMal = atMal
  atScript = atScript
  atHuge = atHuge
  atNotify = atNotify
  None = None
  Execs <- TwoExecs
  Files <- FewFiles
  Malicious <- OneMalware
  NonElf = {}
  Oversize = {}
  Paths <- FewPaths
  Start <- StartFew
  Watched <- NotNotify
  Renames <- Swaps
  Notifier = notify
  NotifierPath = atNotify
  MaxBatch = 1
PROPERTIES
  WorkerStops
CHECK_DEADLOCK FALSE
