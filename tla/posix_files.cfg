SPECIFICATION Spec
CONSTANTS
  MaxProcs = 3
  HeapSize = 0
  SavedSize = 0
  BrkBase = 1
  FdMax = 5
  Files = {10, 11}
  CloseFds <- SomeFds
  Byte = {0}
  Images = {i1}
  NoImage = NoImage
  Codes = {0, 1}
  Misuse <- Misuses
INVARIANTS
  TypeOK
  HandlesAccounted
  ExitClosesAllFiles
  FirmwareTplOnExit
CHECK_DEADLOCK FALSE
