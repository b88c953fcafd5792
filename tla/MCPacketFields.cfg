CONSTANTS
  Inputs <- AllInputs
SPECIFICATION Spec
CHECK_DEADLOCK FALSE
INVARIANTS
  TypeOK
  FieldsRoundTrip
  SetupRoundTrip
  DescriptionRoundTrip
