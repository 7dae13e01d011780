SPECIFICATION Spec
CONSTANT Inputs <- LooseTexts
INVARIANT ReturnsToCaller
CHECK_DEADLOCK FALSE
