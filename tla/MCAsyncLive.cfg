CONSTANTS
  c1 = c1
  c2 = c2
  Producers = {c1, c2}
  Consumer = Worker
  Closer = Owner
  NoRecord = NoRecord
  Capacities = {0, 1}
  MaxPush = 2
  MaxFlush = 0
  Policies = {"Block", "DropNewest", "DropOldest", "Discard"}
  MayThrow = FALSE
  StaleRunning = {TRUE, FALSE}
SPECIFICATION FairSpec
CHECK_DEADLOCK FALSE
PROPERTIES
  LogReturns
  StopReturns
