SPECIFICATION Spec
CONSTANT Inputs <- RawTexts
INVARIANT Hex0Returns
CHECK_DEADLOCK FALSE
