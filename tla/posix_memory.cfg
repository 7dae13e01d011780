SPECIFICATION Spec
CONSTANTS
  MaxProcs = 3
  HeapSize = 2
  SavedSize = 2
  BrkBase = 5
  FdMax = 4
  Files = {}
  CloseFds = {}
  Byte = {0, 1}
  Images = {i1}
  NoImage = NoImage
  Codes = {0}
  Misuse <- BrkBeforeFork
INVARIANTS
  RegionsStacked
  SavedStateIntact
PROPERTIES
  ResumedAsForked
CHECK_DEADLOCK FALSE
