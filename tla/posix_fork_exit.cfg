SPECIFICATION Spec
CONSTANTS
  MaxProcs = 3
  HeapSize = 1
  SavedSize = 2
  BrkBase = 5
  FdMax = 4
  Files = {}
  CloseFds = {}
  Byte = {0, 1}
  Images = {i1, i2}
  NoImage = NoImage
  Codes = {1}
  Misuse = {"exit_before_exec"}
INVARIANT ForkSurvivesChildExit
CHECK_DEADLOCK FALSE
