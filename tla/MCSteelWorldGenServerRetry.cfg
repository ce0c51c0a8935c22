SPECIFICATION ClientSpec
CONSTANTS
  t1 = t1
  t2 = t2
  Threads <- MCThreads
  Free = Free
  Closer = Closer
  MaxConnections = 2
  MaxChannels = 2
  MaxProcesses = 2
  Cooldown = 1
  Uptime = 1
CHECK_DEADLOCK FALSE
PROPERTY DiedMeansRetry
