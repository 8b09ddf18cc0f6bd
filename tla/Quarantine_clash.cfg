SPECIFICATION Spec
CONSTANTS
  Command = Command
  Scheduled = Scheduled
  Realtime = Realtime
  p1 = p1
  p2 = p2
  c1 = c1
  c2 = c2
  c3 = c3
  Nothing = Nothing
  Threads = {Command}
  Paths <- TwoPaths
  Base <- SameBase
  Contents <- TwoFiles
  InitialFile <- FirstFiles
  Malicious <- TwoFiles
  MaxTime = 1
  MaxFaults = 0
  NamesMayClash = TRUE
INVARIANTS
  RestoredToOrigin
CHECK_DEADLOCK FALSE
