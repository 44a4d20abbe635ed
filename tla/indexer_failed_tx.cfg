\* Transactions that fail after logging a note.
SPECIFICATION Spec
CONSTANTS
  Cap = 9
  MaxMetadataLen = 1
  MaxBatchEntries = 2
  Batches <- SmallBatches
  DefaultLimit = 3
  MaxLimit = 4
  NoLimit = NoLimit
  ClientLimit = NoLimit
  NotesPerSlot = 3
  MaxTxs = 3
  MaxSlot = 2
  MaxCuts = 0
  MaxRestarts = 0
INVARIANTS
  RowsWerePosted

