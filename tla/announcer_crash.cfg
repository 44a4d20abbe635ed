\* RPC faults, dropped and late transactions, one crash.
SPECIFICATION Spec
CONSTANTS
  MaxPending = 3
  MaxStatuses = 5
  MaxBatch = 2
  MaxMetadataLen = 1
  SdkMaxMetadataLen = 1
  MaxBatchEntries = 2
  EntryBytes = 1
  TxOverhead = 1
  PacketDataSize = 4
  Undecodable = Undecodable
  Requests <- SmallRequests
  Faults = TRUE
  MaxIds = 3
  MaxRestarts = 1
INVARIANTS
  FifoIntact
  ConfirmedIsPublished
  PublishedOnce

\* An idle service, its bounded clients done, may rest.
CHECK_DEADLOCK FALSE
