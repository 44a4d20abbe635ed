------------------------------ MODULE Pinboard ------------------------------
(***************************************************************************)
(* The pinboard program (programs/pinboard/src/lib.rs).  The program keeps *)
(* no accounts: what it leaves behind is the log of the transactions that  *)
(* called it, here the sequence ledger.                                    *)
(*                                                                         *)
(* A note entry is a record with the fields ephemeral_pub (which payment   *)
(* it announces) and metadata_len; scheme_id and view_tag are carried      *)
(* unchanged by everything modelled here and are left out.                 *)
(***************************************************************************)
EXTENDS Integers, Sequences, FiniteSets

CONSTANTS
  MaxMetadataLen,   \* code: MAX_METADATA_LEN = 64
  MaxBatchEntries   \* code: MAX_BATCH_ENTRIES = 50

ASSUME PinboardLimits == MaxMetadataLen \in Nat /\ MaxBatchEntries \in Nat \ {0}

VARIABLE ledger     \* transactions that executed, in order

\* Result of post_batch(entries), the checks in the program's order.
PostBatchResult(entries) ==
  CASE Len(entries) = 0 -> "EmptyBatch"
    [] Len(entries) > MaxBatchEntries -> "BatchTooLarge"
    [] /\ Len(entries) <= MaxBatchEntries
       /\ \E i \in 1..Len(entries) : entries[i].metadata_len > MaxMetadataLen
       -> "MetadataTooLong"
    [] OTHER -> "ok"

\* How many of the entries are logged by an emit! before the first require!
\* that fails.  The runtime keeps the log of a transaction that fails.  post
\* behaves as a batch of one.
EmittedCount(entries) ==
  IF Len(entries) > MaxBatchEntries THEN 0
  ELSE Cardinality({i \in 1..Len(entries) :
                      \A j \in 1..i : entries[j].metadata_len <= MaxMetadataLen})

\* A transaction takes its place in the chain.
Execute(tx) == ledger' = Append(ledger, tx)
=============================================================================
