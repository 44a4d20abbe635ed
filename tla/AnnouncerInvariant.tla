------------------------- MODULE AnnouncerInvariant -------------------------
(***************************************************************************)
(* The inductive invariants behind the theorems of AnnouncerProofs, here   *)
(* where TLC can check them too.                                           *)
(***************************************************************************)
EXTENDS Announcer

\* The first id of the publisher's batch and the first of the queue.
BatchStart == next_id - Len(pending) - Len(batch)
QueueStart == next_id - Len(pending)

\* Caps on the work in hand, and what the publisher's locals may be where.
WorkShape ==
  /\ Len(pending) <= MaxPending
  /\ Len(batch) <= MaxBatch
  /\ pc = "sleeping" <=> batch = <<>>
  /\ pc # "settling" => settled = 0
  /\ pc = "settling" => settled < Len(batch) /\ outcome.state # "pending"

\* Types and bounds, whatever the caps.
BoundsInv == TypeOK /\ WorkShape /\ HistoryBounded

\* Ids are handed out without gaps: batch, then queue, up to next_id, each
\* with the entry it was accepted with.
IdShape ==
  /\ BatchStart >= 0
  /\ Len(accepted) = next_id
  /\ \A i \in 1..Len(batch) :
       batch[i].id = BatchStart + i - 1 /\ batch[i].entry = accepted[BatchStart + i]
  /\ \A i \in 1..Len(pending) :
       pending[i].id = QueueStart + i - 1 /\ pending[i].entry = accepted[QueueStart + i]

QueueInv == BoundsInv /\ IdShape

\* The history keeps the latest ids, in order: all of them, or as many as fit.
HistoryShape ==
  /\ Len(status_order) = next_id \/ (Len(status_order) = MaxStatuses /\ MaxStatuses <= next_id)
  /\ Len(status_order) <= MaxStatuses
  /\ \A i \in 1..Len(status_order) : status_order[i] = next_id - Len(status_order) + i - 1
  /\ DOMAIN statuses = (next_id - Len(status_order))..(next_id - 1)

\* A record says "pending" from the first unrecorded id of the batch onwards.
StatusShape ==
  \A id \in DOMAIN statuses :
    statuses[id].state = "pending" <=> id >= BatchStart + settled

\* Holds when CapsFit does.
HistoryInv == QueueInv /\ HistoryShape /\ StatusShape

------------------------------------------------------------------------------
(* What is on its way to the chain, and on it *)

Sent == Landed \cup network

\* The publisher's own transaction: the one it waits for, or waited for.
Own(tx) == pc \in {"confirming", "settling"} /\ tx.sig = sig

\* Every transaction has a number of its own, and is in one place.
SignatureShape ==
  /\ next_sig >= 1
  /\ \A tx \in Sent : 1 <= tx.sig /\ tx.sig < next_sig /\ tx.epoch <= epoch
  /\ \A tx, other \in Sent : tx.sig = other.sig => tx = other
  /\ \A m, n \in 1..Len(ledger) : ledger[m] = ledger[n] => m = n
  /\ Landed \cap network = {}
  /\ pc \in {"sleeping", "publishing"} => sig = NoSig
  /\ sig < next_sig

\* A transaction of this run carries what was accepted; it is the publisher's
\* own, or all its notes are older than the publisher's batch.
SentShape ==
  /\ \A tx \in Sent : Own(tx) => tx.epoch = epoch /\ tx.batch = batch
  /\ \A tx \in Sent : tx.epoch = epoch => \A i \in 1..Len(tx.batch) :
       /\ tx.batch[i].id < next_id
       /\ tx.batch[i].entry = accepted[tx.batch[i].id + 1]
       /\ Own(tx) \/ tx.batch[i].id < BatchStart

\* No note is in two transactions, or twice in one.
SentOnce ==
  \A tx, other \in Sent : tx.epoch = other.epoch =>
    \A i \in 1..Len(tx.batch), j \in 1..Len(other.batch) :
      tx.batch[i].id = other.batch[j].id => tx = other /\ i = j

\* "confirmed" is recorded only for the own transaction, once it executed.
OutcomeShape ==
  /\ \A id \in DOMAIN statuses : id < next_id
  /\ pc = "settling" /\ outcome.state = "confirmed" =>
       outcome.sig = sig /\ sig \in Sigs(Landed)

PublishInv ==
  /\ QueueInv
  /\ SignatureShape /\ SentShape /\ SentOnce /\ OutcomeShape
  /\ ConfirmedIsPublished

------------------------------------------------------------------------------
(* When nothing goes wrong *)

\* What the service admits is within the program's limits (code: 64 and 64, 40 and 50).
SdkWithinProgram == SdkMaxMetadataLen <= MaxMetadataLen /\ MaxBatch <= MaxBatchEntries

\* The batch in hand fits a transaction.
BatchFits == pc = "publishing" => TxBytes(Entries(batch)) <= PacketDataSize

\* The publisher never waits for a transaction that is gone, and has no failure to record.
HealthyInv ==
  ~Faults =>
    /\ pc = "confirming" => sig \in Sigs(Sent)
    /\ outcome.state # "failed"
    /\ \A id \in DOMAIN statuses : statuses[id].state # "failed"
=============================================================================
