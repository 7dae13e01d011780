SPECIFICATION FairSpec
CONSTANT Inputs <- StageTexts
INVARIANTS
  TypeOK
  Hex0Extended
  Hex1Extended
  PortsAgree
  LabelsExact
  PassesMeet
PROPERTY Terminates
CHECK_DEADLOCK FALSE
