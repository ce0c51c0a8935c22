SPECIFICATION Spec
CONSTANTS
  t1 = t1
  t2 = t2
  t3 = t3
  Threads <- MCThreads
  MaxConnections = 2
  MaxChannels = 3
INVARIANT NoneOrphaned
CHECK_DEADLOCK FALSE
