SPECIFICATION ContextSpec
CONSTANTS
  t1 = t1
  t2 = t2
  Threads <- MCThreads
  Centers <- MCCenters
  MaxRequests = 2
  MaxInt = 127
  RetentionMargin = 11
  Failures = {"cancel", "timeout"}
  Stages = 2
INVARIANTS
  NoTaskOutlivesWorld
  ReadsAreComplete
PROPERTIES
  DriverRests
  RequestsReturn
  DropCompletes
CHECK_DEADLOCK FALSE
