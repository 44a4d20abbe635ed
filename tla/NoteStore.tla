------------------------------ MODULE NoteStore ------------------------------
(***************************************************************************)
(* The indexer's store (crates/slnt-indexer/src/store.rs): a bounded queue *)
(* of announcements, oldest first, and the count of those it evicted.      *)
(* main.rs wraps it in one RwLock; insert runs under the write lock, query *)
(* and the figures of /health under the read lock.                         *)
(***************************************************************************)
EXTENDS Integers, Sequences, SequencesExt

CONSTANT Cap   \* retention cap (code: MAX_STORED = 1_000_000)

\* with_cap raises a cap of zero to one.
ASSUME StoreCap == Cap \in Nat \ {0}

VARIABLES
  items,    \* StoredAnnouncements in insertion order
  dropped   \* evictions since the process started

storeVars == <<items, dropped>>

StoreInit == items = <<>> /\ dropped = 0

\* Faulty: the newest row evicted.
InsertEvictsNewest(a) ==
  /\ items' = SubSeq(Append(items, a), 1, Min({Cap, Len(items) + 1}))
  /\ dropped' = dropped + (IF Len(items) = Cap THEN 1 ELSE 0)

\* Push to the back, pop from the front while there are more than Cap.
Insert(a) ==
  LET all  == Append(items, a)
      over == IF Len(all) > Cap THEN Len(all) - Cap ELSE 0
  IN  items' = SubSeq(all, over + 1, Len(all)) /\ dropped' = dropped + over

\* Rows are named by their places in items.  Slots start at 1 here, and a request without
\* since_slot is one with 0.
Kept(since_slot) == {i \in 1..Len(items) : items[i].slot >= since_slot}

\* Faulty: rows of since_slot itself left out; the newest rows first.
QueryAfter(since_slot, limit) ==
  {i \in Kept(since_slot + 1) : Cardinality({j \in Kept(since_slot + 1) : j < i}) < limit}
QueryNewest(since_slot, limit) ==
  {i \in Kept(since_slot) : Cardinality({j \in Kept(since_slot) : j > i}) < limit}

\* The first limit rows of since_slot and later: filter, then take.
Query(since_slot, limit) ==
  {i \in Kept(since_slot) : Cardinality({j \in Kept(since_slot) : j < i}) < limit}
==============================================================================
