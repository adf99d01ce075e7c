CONSTANTS
  Sizes = {1, 2}
  FileSizes = {2, 3}
  FileCounts = {0, 1, 2}
  BufferSize = 2
  MaxWrites = 6
  MaxFaults = 2
  NoFile = NoFile
SPECIFICATION Spec
CHECK_DEADLOCK FALSE
INVARIANTS
  RotTypeOK
  OrderAcrossFiles
  OldestGoFirst
  SizeBound
  EmptyBackupsExplained
PROPERTIES
  WriteReturns
