SPECIFICATION Spec
CONSTANTS
  Files <- MCFiles
  Missing = Missing
  Translate <- MCTranslate
  M0Limit = 3
  Block = 2
  Disks <- MCDisks
  Scripts <- MCScripts
INVARIANTS
  AllGivenBack
  StraysOnlyWithoutInput
PROPERTY ImplementsBuild
CHECK_DEADLOCK FALSE
