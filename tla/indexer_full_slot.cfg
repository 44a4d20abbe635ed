\* A slot with as many notes as a page.
SPECIFICATION FairSpec
CONSTANTS
  Cap = 9
  MaxMetadataLen = 1
  MaxBatchEntries = 2
  Batches <- PostedBatches
  DefaultLimit = 3
  MaxLimit = 4
  NoLimit = NoLimit
  ClientLimit = 2
  NotesPerSlot = 2
  MaxTxs = 3
  MaxSlot = 2
  MaxCuts = 0
  MaxRestarts = 0
PROPERTIES
  DrainEnds

