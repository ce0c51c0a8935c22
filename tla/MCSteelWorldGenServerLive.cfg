SPECIFICATION ClientSpec
CONSTANTS
  t1 = t1
  t2 = t2
  Threads <- MCThreads
  Free = Free
  Closer = Closer
  MaxConnections = 1
  MaxChannels = 2
  MaxProcesses = 2
  Cooldown = 1
  Uptime = 1
PROPERTIES
  Spec
  ImplementsSupervisor
  CallsReturn
  CloseCompletes
CHECK_DEADLOCK FALSE
