\* No faults but a crash: every kind of request, and publication.
SPECIFICATION FairSpec
CONSTANTS
  MaxPending = 2
  MaxStatuses = 4
  MaxBatch = 2
  MaxMetadataLen = 1
  SdkMaxMetadataLen = 1
  MaxBatchEntries = 2
  EntryBytes = 1
  TxOverhead = 1
  PacketDataSize = 5
  Undecodable = Undecodable
  Requests <- MixedRequests
  Faults = FALSE
  MaxIds = 3
  MaxRestarts = 1
INVARIANTS
  HealthyNeverFails
PROPERTIES
  EventuallyPublished
  ImplementsService
