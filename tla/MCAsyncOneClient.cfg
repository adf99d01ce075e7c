CONSTANTS
  c1 = c1
  c2 = c2
  Producers = {c1}
  Consumer = Worker
  Closer = Owner
  NoRecord = NoRecord
  Capacities = {2}
  MaxPush = 3
  MaxFlush = 2
  Policies = {"Block", "DropNewest", "Discard"}
  MayThrow = TRUE
  StaleRunning = {TRUE}
SPECIFICATION FairSpec
INVARIANTS
  FlushComplete
PROPERTIES
  FlushReturns
  
