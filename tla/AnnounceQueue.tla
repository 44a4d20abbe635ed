---------------------------- MODULE AnnounceQueue ----------------------------
(***************************************************************************)
(* The in-memory queue of the announcement service                         *)
(* (crates/slnt-announcer/src/service.rs, struct AnnounceQueue): notes     *)
(* waiting to be published, and the status history that clients poll.      *)
(* Both are bounded.  Every operation runs under the one mutex that        *)
(* main.rs wraps the queue in.                                             *)
(***************************************************************************)
EXTENDS Integers, Sequences

CONSTANTS
  MaxPending,   \* cap on notes waiting (code: MAX_PENDING = 10_000)
  MaxStatuses   \* cap on retained status records (code: MAX_STATUSES = 50_000)

\* with_caps raises a cap of zero to one.
ASSUME QueueCaps == MaxPending \in Nat \ {0} /\ MaxStatuses \in Nat \ {0}

VARIABLES
  pending,      \* FIFO of [id, entry] waiting for the publisher
  next_id,      \* id the next accepted note gets
  statuses,     \* id -> BatchStatus, for the retained ids
  status_order  \* retained ids, the next one to evict first

queueVars == <<pending, next_id, statuses, status_order>>

(***************************************************************************)
(* BatchStatus.  sig stands for the transaction signature, numbered from 1 *)
(* in the order of signing; 0 where the variant carries none.  The error   *)
(* text of Failed never leaves the service and is left out.                *)
(***************************************************************************)
NoSig == 0
Pending == [state |-> "pending", sig |-> NoSig]
Confirmed(sig) == [state |-> "confirmed", sig |-> sig]
Failed == [state |-> "failed", sig |-> NoSig]
BatchStatus == [state : {"pending", "confirmed", "failed"}, sig : Nat]

QueueInit ==
  /\ pending = <<>>
  /\ next_id = 0
  /\ statuses = [id \in {} |-> Pending]
  /\ status_order = <<>>

\* Faulty variants of the operations below: one record too many evicted ...
ExcessEager(n) == IF n >= MaxStatuses THEN n - MaxStatuses + 1 ELSE 0

\* How many of the oldest records a history of n records loses to the cap.
Excess(n) == IF n > MaxStatuses THEN n - MaxStatuses ELSE 0

\* ... eviction that leaves the record behind ...
SetStatusLeaks(id, status) ==
  /\ status_order' = IF id \in DOMAIN statuses THEN status_order
                     ELSE LET order == Append(status_order, id)
                          IN  SubSeq(order, Excess(Len(order)) + 1, Len(order))
  /\ statuses' = [k \in DOMAIN statuses \cup {id} |-> IF k = id THEN status ELSE statuses[k]]

\* ... a record moved to the back of the order whenever it changes ...
SetStatusRefreshes(id, status) ==
  LET order  == SelectSeq(status_order, LAMBDA k : k # id) \o <<id>>
      excess == Excess(Len(order))
  IN  /\ status_order' = SubSeq(order, excess + 1, Len(order))
      /\ statuses' = [k \in (DOMAIN statuses \cup {id}) \ {order[i] : i \in 1..excess} |->
                        IF k = id THEN status ELSE statuses[k]]

\* A known id keeps its place; a new one goes to the back and the records
\* beyond the cap are evicted from the front.
SetStatus(id, status) ==
  \/ /\ id \in DOMAIN statuses
     /\ statuses' = [statuses EXCEPT ![id] = status]
     /\ UNCHANGED status_order
  \/ /\ id \notin DOMAIN statuses
     /\ LET order   == Append(status_order, id)
            excess  == Excess(Len(order))
            evicted == {order[i] : i \in 1..excess}
        IN  /\ status_order' = SubSeq(order, excess + 1, Len(order))
            /\ statuses' = [k \in (DOMAIN statuses \ evicted) \cup {id} |->
                              IF k = id THEN status ELSE statuses[k]]

QueueFull == Len(pending) >= MaxPending

Enqueue(entry) ==
  /\ ~QueueFull
  /\ pending' = Append(pending, [id |-> next_id, entry |-> entry])
  /\ next_id' = next_id + 1
  /\ SetStatus(next_id, Pending)

\* What take_pending(max) hands out, and what it leaves.
TakeLen(max) == IF Len(pending) < max THEN Len(pending) ELSE max
\* Faulty: the newest notes first; the notes copied out and not removed.
TakenNewest(max) == SubSeq(pending, Len(pending) - TakeLen(max) + 1, Len(pending))
TakePendingKeeps(max) == max \in Nat /\ UNCHANGED queueVars

Taken(max) == SubSeq(pending, 1, TakeLen(max))
TakePending(max) ==
  /\ pending' = SubSeq(pending, TakeLen(max) + 1, Len(pending))
  /\ UNCHANGED <<next_id, statuses, status_order>>

\* GET /announce/status/{id}: 404 for an id without a record.
Status(id) == IF id \in DOMAIN statuses THEN statuses[id].state ELSE "unknown"
==============================================================================
