SPECIFICATION Spec
CONSTANTS
  Ports = {"riscv64"}
  Disks <- MCDisks
  RootOptions <- MCRootOptions
  DefaultFile <- MCDefault
  BufSize = 8
  Codes = {3}
  Outputs <- MCOutputs
  Products <- MCProducts
  TempsKept = TRUE
INVARIANT OptionsTerminated
CHECK_DEADLOCK FALSE
