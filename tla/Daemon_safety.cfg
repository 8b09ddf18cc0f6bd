SPECIFICATION DaemonSpec
CONSTANTS
  Pids = {p1, p2}
  Clients = {c1, c2}
  h1 = h1
  h2 = h2
  Hashes <- TwoHashes
  Backlog = 2
  MaxStarts = 3
  MaxKills = 2
  MaxFailures = 1
  NoFile = NoFile
  Empty = Empty
  NoSocket = NoSocket
  NoClient = NoClient
INVARIANTS
  DaemonTypeOK
  OneDaemon
  StartsServe
PROPERTIES
  NothingHangs
CHECK_DEADLOCK FALSE
