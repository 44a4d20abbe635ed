-------------------------- MODULE IndexerInvariant --------------------------
(***************************************************************************)
(* The inductive invariants behind the theorems of IndexerProofs, here     *)
(* where TLC can check them too.  IndexInv leaves the client out: nothing  *)
(* a client does changes the store.                                        *)
(***************************************************************************)
EXTENDS Indexer

\* Slots ascend along the chain.
ChainShape ==
  \A m, n \in 1..Len(ledger) : m <= n => ledger[m].slot <= ledger[n].slot

\* Messages arrive in chain order, each once.
FeedShape ==
  /\ \A i \in 1..Len(feed) : feed[i] \in 1..Len(ledger)
  /\ \A i, j \in 1..Len(feed) : i < j => feed[i] < feed[j]

\* A row carries the slot of its transaction, which is older than every message
\* still to come.
Placed(row) ==
  /\ row.tx \in 1..Len(ledger)
  /\ row.slot = ledger[row.tx].slot
  /\ \A i \in 1..Len(feed) : row.tx < feed[i]

Before(a, b) == a.tx < b.tx \/ (a.tx = b.tx /\ a.pos < b.pos)

RowShape ==
  /\ \A i \in 1..Len(current) : Placed(current[i])
  /\ \A i \in 1..Len(ingested) : Placed(ingested[i])
  /\ \A i, j \in 1..Len(current) : i < j => Before(current[i], current[j])
  /\ \A i, j \in 1..Len(ingested) : i < j => Before(ingested[i], ingested[j])
  /\ \A i \in 1..Len(ingested), j \in 1..Len(current) : Before(ingested[i], current[j])

IndexInv == IngestTypes /\ ChainShape /\ FeedShape /\ RowShape /\ StoreIsWindow

\* The client goes on from the start or from a slot that had a row: rows still to come
\* are not of an earlier one.
SinceShape ==
  /\ since \in Nat
  /\ since = 0 \/ \E i \in 1..Len(ingested) : since <= ingested[i].slot

ServedInv == IndexInv /\ SinceShape /\ NeverSkips
==============================================================================
