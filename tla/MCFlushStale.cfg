CONSTANTS
  c1 = c1
  c2 = c2
  Producers = {c1}
  Consumer = Worker
  Closer = Owner
  NoRecord = NoRecord
  Capacities = {2}
  MaxPush = 1
  MaxFlush = 1
  Policies = {"Block"}
  MayThrow = FALSE
  StaleRunning = {TRUE, FALSE}
SPECIFICATION FairSpec
CHECK_DEADLOCK FALSE
PROPERTIES
  FlushReturns
