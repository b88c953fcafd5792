CONSTANTS
  Inputs <- ShortInputs
SPECIFICATION Spec
CHECK_DEADLOCK FALSE
INVARIANTS
  ParseNeverPanics
