SPECIFICATION ContextSpec
CONSTANTS
  t1 = t1
  t2 = t2
  Threads <- MCThreads
  Centers <- MCCenters
  MaxRequests = 2
  MaxInt = 127
  RetentionMargin = 11
  Failures = {}
  Stages = 2
INVARIANT CadenceWhileLive
CHECK_DEADLOCK FALSE
