CONSTANTS
  Bursts <- SinglePacketBursts
  MaxPackets = 5
  EndpointIdBits = 11
SPECIFICATION Spec
CHECK_DEADLOCK FALSE
INVARIANTS
  TypeOK
  TransferLogWellFormed
  EndpointStatesMatchTransfers
  TopLevelItems
  NavigationCoversTransactions
PROPERTIES
  TransferLogRefinement
