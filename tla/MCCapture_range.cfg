CONSTANTS
  Bursts <- ProtocolBursts
  MaxPackets = 6
  EndpointIdBits = 11
SPECIFICATION Spec
CHECK_DEADLOCK FALSE
INVARIANTS
  TransactionRangeExact
