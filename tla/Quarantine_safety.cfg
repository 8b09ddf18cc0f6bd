SPECIFICATION Spec
CONSTANTS
  Command = Command
  Scheduled = Scheduled
  Realtime = Realtime
  p1 = p1
  p2 = p2
  c1 = c1
  c2 = c2
  c3 = c3
  Nothing = Nothing
  Threads = {Command, Realtime}
  Paths <- TwoPaths
  Base <- SameBase
  Contents <- ThreeFiles
  InitialFile <- FirstFiles
  Malicious <- ThreeFiles
  MaxTime = 3
  MaxFaults = 1
  NamesMayClash = FALSE
INVARIANTS
  TypeOK
  NothingLost
  RestoredToOrigin
  VaultRestorable
  RowsAreEncrypted
PROPERTIES
  ImplementsCustody
CHECK_DEADLOCK FALSE
