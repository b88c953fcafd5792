CONSTANTS
  Bursts <- RetryBursts
  MaxPackets = 8
  EndpointIdBits = 11
SPECIFICATION Spec
CHECK_DEADLOCK FALSE
INVARIANTS
  DataSizeCountsSuccessful
