CONSTANTS
  c1 = c1
  c2 = c2
  Producers = {c1, c2}
  Consumer = Worker
  Closer = Owner
  NoRecord = NoRecord
  Capacities = {1}
  MaxPush = 2
  MaxFlush = 1
  Policies = {"Block", "DropNewest", "DropOldest", "Discard"}
  MayThrow = TRUE
  StaleRunning = {TRUE, FALSE}
SPECIFICATION Spec
SYMMETRY ClientSymmetry
CHECK_DEADLOCK FALSE
INVARIANTS
  AsyncTypeOK
  Conservation
  WrittenInOrder
  DrainComplete
PROPERTIES
  BackendDelivers
