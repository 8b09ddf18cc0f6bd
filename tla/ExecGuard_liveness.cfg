SPECIFICATION WorkerMayHang
CONSTANTS
  e1 = e1
  e2 = e2
  e3 = e3
  clean = clean
  mal = mal
  script = script
  huge = huge
  notify = notify
  atClean = atClean
  atMal = atMal
  atScript = atScript
  atHuge = atHuge
  atNotify = atNotify
  None = None
  Execs <- TwoExecs
  Files <- WithHuge
  Malicious <- BadHuge
  NonElf = {}
  Oversize <- HugeFiles
  Paths <- HugePaths
  Start <- StartHuge
  Watched <- HugePaths
  Renames <- Swaps
  Notifier = notify
  NotifierPath = atNotify
  MaxBatch = 2
PROPERTIES
  AnsweredWhileRunning
  SettledWhileRunning
  ImplementsGate
CHECK_DEADLOCK FALSE
