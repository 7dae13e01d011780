SPECIFICATION FairSpec
CONSTANTS
  Inputs <- M0Texts
  ScratchSize = 10
  TokenSize = 7
  PoolBelow4G = TRUE
INVARIANTS
  TypeOK
  OutputExact
  StaysInBounds
  ListWhole
  AddressesAddUp
PROPERTY Terminates
CHECK_DEADLOCK FALSE
