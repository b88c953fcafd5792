CONSTANTS
  Bursts <- SofBursts
  MaxPackets = 10
  EndpointIdBits = 11
SPECIFICATION Spec
CHECK_DEADLOCK FALSE
INVARIANTS
  SofGroupingScenario
