------------------------------ MODULE MCIndexer ------------------------------
(* Instances of Indexer for TLC. *)
EXTENDS Indexer

Good == [metadata_len |-> 0]
TooLong == [metadata_len |-> MaxMetadataLen + 1]

\* One note, two notes, and a batch that fails after its first note.
SmallBatches == { <<Good>>, <<Good, Good>>, <<Good, TooLong>> }

\* Only transactions that succeed.
PostedBatches == { <<Good>>, <<Good, Good>> }
==============================================================================
