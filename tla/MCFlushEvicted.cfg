CONSTANTS
  c1 = c1
  c2 = c2
  Producers = {c1}
  Consumer = Worker
  Closer = Owner
  NoRecord = NoRecord
  Capacities = {1}
  MaxPush = 2
  MaxFlush = 1
  Policies = {"DropOldest"}
  MayThrow = FALSE
  StaleRunning = {TRUE}
SPECIFICATION FairSpec
CHECK_DEADLOCK FALSE
PROPERTIES
  FlushReturns
