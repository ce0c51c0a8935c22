SPECIFICATION FileSpec
CONSTANTS
  t1 = t1
  t2 = t2
  Threads <- MCThreads
  Free = Free
  Closer = Closer
  MaxConnections = 2
  MaxChannels = 2
  MaxProcesses = 3
  Cooldown = 1
  Uptime = 0
SYMMETRY MCSymmetry
INVARIANTS
  OneProcess
  NoHoldAndWait
  NothingAfterClose
  ServedIsReachable
  NothingLeft
CHECK_DEADLOCK FALSE
