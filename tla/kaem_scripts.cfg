SPECIFICATION FairSpec
CONSTANTS
  Ports = {"c", "amd64", "riscv64"}
  Disks <- MCDisks
  RootOptions <- MCRootOptions
  DefaultFile <- MCDefault
  BufSize = 8
  Codes = {3}
  Outputs <- MCOutputs
  Products <- MCProducts
  TempsKept = TRUE
INVARIANTS
  TypeOK
  NothingLeaks
  StackBalanced
  OnlySessionsWait
  ErrorsPropagate
  OptionsComplete
PROPERTIES
  ImplementsScriptRun
  Terminates
CHECK_DEADLOCK FALSE
