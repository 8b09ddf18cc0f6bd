SPECIFICATION FimSpec
CONSTANTS
  home = home
  h1 = h1
  h2 = h2
  t1 = t1
  out = out
  mnt = mnt
  m1 = m1
  i1 = i1
  i2 = i2
  i3 = i3
  f1 = f1
  f2 = f2
  f3 = f3
  u = u
  v = v
  d1 = d1
  d2 = d2
  Unwatched = Unwatched
  Nowhere = Nowhere
  NoRow = NoRow
  NoMd5 = NoMd5
  Inodes = {i1, i2, i3}
  Number <- NumberOf
  Pids = {u, v}
  Paths <- FivePaths
  Fs <- FsOf
  Dir <- DirOf
  Filter <- HomeFilter
  Hidden = {t1}
  FirstPath <- FirstPaths
  MaxOps = 3
  MaxEvents = 3
  FileSize = 4
  Minute = 2
  MaxLines = 6
  MaxClock = 4
  MaxFaults = 2
  Files <- ThreeFiles
  TargetPaths <- TwoTargets
  Contents = {d1, d2}
  FirstContent = d1
  MaxChanges = 2
  MaxFailures = 1
INVARIANTS
  FimTypeOK
  EntriesExactWhileAlive
  ContentLinesJustified
  StoredOncePerStart
  NothingPassedOver
  OnlyChangedFiles
  ChangesFound
  AlertsComplete
PROPERTIES
  ChangesStored
