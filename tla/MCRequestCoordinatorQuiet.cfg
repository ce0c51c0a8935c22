SPECIFICATION Spec
CONSTANTS
  t1 = t1
  t2 = t2
  t3 = t3
  Threads <- MCThreads
  Centers <- MCCenters
  MaxRequests = 3
  MaxInt = 127
  RetentionMargin = 11
  Failures = {"cancel"}
INVARIANT QuietMeansEmpty
CHECK_DEADLOCK FALSE
