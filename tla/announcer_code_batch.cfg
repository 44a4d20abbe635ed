\* The constants of the code and of Solana, metadata-free notes, no faults.
SPECIFICATION Spec
CONSTANTS
  MaxPending = 10000
  MaxStatuses = 50000
  MaxBatch = 40
  MaxMetadataLen = 64
  SdkMaxMetadataLen = 64
  MaxBatchEntries = 50
  EntryBytes = 39
  TxOverhead = 183
  PacketDataSize = 1232
  Undecodable = Undecodable
  Requests <- BareRequest
  Faults = FALSE
  MaxIds = 27
  MaxRestarts = 0
INVARIANTS
  HealthyNeverFails
\* An idle service, its bounded clients done, may rest.
CHECK_DEADLOCK FALSE
