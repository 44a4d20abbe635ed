\* RPC faults and a status history that fills up.
SPECIFICATION FairSpec
CONSTANTS
  MaxPending = 3
  MaxStatuses = 5
  MaxBatch = 2
  MaxMetadataLen = 1
  SdkMaxMetadataLen = 1
  MaxBatchEntries = 2
  EntryBytes = 1
  TxOverhead = 1
  PacketDataSize = 5
  Undecodable = Undecodable
  Requests <- BareRequest
  Faults = TRUE
  MaxIds = 6
  MaxRestarts = 0
INVARIANTS
  HistoryBounded
  PendingIffUnresolved
PROPERTIES
  EventuallySettled
  OutcomeIsFinal
  ForgetsOldestResolved
  ImplementsService
\* An idle service, its bounded clients done, may rest.
CHECK_DEADLOCK FALSE
