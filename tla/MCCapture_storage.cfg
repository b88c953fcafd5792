CONSTANTS
  Bursts <- ProtocolBursts
  MaxPackets = 4
  EndpointIdBits = 11
SPECIFICATION Spec
CHECK_DEADLOCK FALSE
INVARIANTS
  OverheadCountsIndicesOnce
