CONSTANTS
  Bursts <- ThreeEndpointBursts
  MaxPackets = 6
  EndpointIdBits = 2
SPECIFICATION Spec
CHECK_DEADLOCK FALSE
INVARIANTS
  EndpointStatesMatchTransfers
