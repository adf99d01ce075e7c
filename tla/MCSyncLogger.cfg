CONSTANTS
  c1 = c1
  c2 = c2
  Clients = {c1, c2}
  Patterns <- MCPatterns
  LogLevels = {2}
  SetLevels = {2, 3}
  Seconds = {1, 2}
  MaxSinks = 2
  Throwing = {1, 2}
  MaxLog = 2
  MaxLogs = 3
  MaxFlush = 1
  MaxSet = 1
SPECIFICATION Spec
SYMMETRY MCSymmetry
CHECK_DEADLOCK FALSE
INVARIANTS
  SyncTypeOK
  LineOfOnePattern
  FanOut
  FlushDurable
PROPERTIES
  SinksDeliver
