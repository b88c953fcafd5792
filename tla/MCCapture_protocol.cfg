CONSTANTS
  Bursts <- ProtocolBursts
  MaxPackets = 10
  EndpointIdBits = 11
SPECIFICATION Spec
CHECK_DEADLOCK FALSE
INVARIANTS
  TypeOK
  TransferLogWellFormed
  EndpointStatesMatchTransfers
  TopLevelItems
  NavigationCoversTransactions
  LastTransactionClosesLane
  TopLevelLanesContinue
PROPERTIES
  TransferLogRefinement
