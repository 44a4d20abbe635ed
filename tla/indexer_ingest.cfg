\* Lost connections and a crash, a store that evicts.
SPECIFICATION FairSpec
CONSTANTS
  Cap = 3
  MaxMetadataLen = 1
  MaxBatchEntries = 2
  Batches <- SmallBatches
  DefaultLimit = 3
  MaxLimit = 4
  NoLimit = NoLimit
  ClientLimit = 2
  NotesPerSlot = 4
  MaxTxs = 3
  MaxSlot = 2
  MaxCuts = 1
  MaxRestarts = 1
INVARIANTS
  StoreIsWindow
  InChainOrder
  NoneDropped
  NeverSkips
PROPERTIES
  EventuallyServed
