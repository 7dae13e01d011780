SPECIFICATION FairSpec
CONSTANT Inputs <- PassTexts
INVARIANTS
  TypeOK
  LabelsExact
  PassesMeet
  OutputCounted
  MatchesSim
PROPERTY Terminates
CHECK_DEADLOCK FALSE
