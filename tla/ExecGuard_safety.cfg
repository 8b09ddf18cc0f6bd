SPECIFICATION Spec
CONSTANTS
  e1 = e1
  e2 = e2
  e3 = e3
  clean = clean
  mal = mal
  script = script
  huge = huge
  notify = notify
  atClean = atClean
  atMal = atMal
  atScript = atScript
  atHuge = atHuge
  atNotify = atNotify
  None = None
  Execs <- ThreeExecs
  Files <- WithScript
  Malicious <- BadScript
  NonElf <- Scripts
  Oversize = {}
  Paths <- ScriptPaths
  Start <- StartScript
  Watched <- ScriptPaths
  Renames <- Swaps
  Notifier = notify
  NotifierPath = atNotify
  MaxBatch = 2
SYMMETRY Permuted
INVARIANTS
  TypeOK
  EventInOnePlace
  RequestInOnePlace
  NoLostWakeup
  DenyJustified
  FailOpenOnlyUnscanned
PROPERTIES
  SetOnce
CHECK_DEADLOCK FALSE
