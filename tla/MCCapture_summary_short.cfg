CONSTANTS
  Bursts <- ShortDataBursts
  MaxPackets = 3
  EndpointIdBits = 11
SPECIFICATION Spec
CHECK_DEADLOCK FALSE
INVARIANTS
  PayloadSizeDefined
