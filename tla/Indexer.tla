------------------------------- MODULE Indexer -------------------------------
(***************************************************************************)
(* The indexer (crates/slnt-indexer/src/main.rs): a task that subscribes   *)
(* to the logs of pinboard transactions and inserts their notes into the   *)
(* store, reconnecting for ever; the cluster and the websocket it listens  *)
(* to; and a client that polls GET /announcements from the highest slot it *)
(* has seen.                                                               *)
(*                                                                         *)
(* A note is where it stands on the chain: its transaction's position in   *)
(* ledger and its own among the notes that transaction logged.             *)
(***************************************************************************)
EXTENDS NoteStore, Pinboard

CONSTANTS
  Batches,        \* the entry sequences transactions may post
  DefaultLimit,   \* code: DEFAULT_LIMIT = 1000
  MaxLimit,       \* code: MAX_LIMIT = 10_000
  NoLimit,        \* a request without limit
  ClientLimit,    \* the limit of the client's requests, or NoLimit
  NotesPerSlot,   \* most notes logged in one slot
  MaxTxs,         \* bound: transactions
  MaxSlot,        \* bound: slots
  MaxCuts,        \* bound: lost connections
  MaxRestarts     \* bound: crashes of the process

ASSUME IndexerConstants ==
  /\ {DefaultLimit, MaxLimit, NotesPerSlot, MaxTxs, MaxSlot, MaxCuts, MaxRestarts} \subseteq Nat
  /\ ClientLimit = NoLimit \/ ClientLimit \in Nat
  /\ \A entries \in Batches : entries \in Seq([metadata_len : Nat])

VARIABLES
  link,      \* websocket: "up", "cut" with messages still to read, or "down"
  feed,      \* transactions whose log messages are under way to the task
  current,   \* rows of the message in hand not inserted yet
  since,     \* the client's last_seen: highest slot it was returned
  got,       \* notes it was returned
  cuts,      \* lost connections so far
  runs,      \* crashes so far
  ingested,  \* history: every row ever inserted, also before a crash
  base,      \* history: how many of those before the last crash
  missed     \* history: notes that no message will bring

ingestVars == <<link, feed, current>>
clientVars == <<since, got>>
historyVars == <<ingested, base, missed>>
vars == <<ledger, storeVars, ingestVars, clientVars, cuts, runs, historyVars>>

Init ==
  /\ ledger = <<>>
  /\ StoreInit
  /\ link = "down" /\ feed = <<>> /\ current = <<>>
  /\ since = 0 /\ got = {}
  /\ cuts = 0 /\ runs = 0
  /\ ingested = <<>> /\ base = 0 /\ missed = {}

------------------------------------------------------------------------------
(* The cluster *)

\* Faulty: a message read for its first note only.
FirstNoteOnly(n) ==
  [i \in 1..Min({1, EmittedCount(ledger[n].entries)}) |-> [slot |-> ledger[n].slot, tx |-> n, pos |-> i]]

\* notes_from_log_lines of transaction n's log, as rows: lines that are no Note
\* event are passed over, and whether the transaction failed is not looked at.
NotesFromLog(n) ==
  [i \in 1..EmittedCount(ledger[n].entries) |-> [slot |-> ledger[n].slot, tx |-> n, pos |-> i]]

NoteOf(row) == <<row.tx, row.pos>>
NotesIn(rows) == {NoteOf(rows[i]) : i \in 1..Len(rows)}
Logged(n) == {n} \X (1..EmittedCount(ledger[n].entries))
NotesOfTxs(txs) == UNION {Logged(txs[i]) : i \in 1..Len(txs)}

Tip == IF ledger = <<>> THEN 1 ELSE ledger[Len(ledger)].slot
TxsInSlot(slot) == {n \in 1..Len(ledger) : ledger[n].slot = slot}
RoomInSlot(slot, entries) ==
  MapThenSumSet(LAMBDA n : EmittedCount(ledger[n].entries), TxsInSlot(slot))
    + EmittedCount(entries) <= NotesPerSlot

\* A transaction is confirmed, successful or not; who subscribes is told.
Confirm(slot, entries) ==
  /\ Len(ledger) < MaxTxs
  /\ RoomInSlot(slot, entries)
  /\ Execute([slot |-> slot, entries |-> entries])
  /\ LET n == Len(ledger) + 1
     IN  IF link = "up"
           THEN feed' = Append(feed, n) /\ UNCHANGED missed
           ELSE /\ missed' = missed \cup {<<n, i>> : i \in 1..EmittedCount(entries)}
                /\ UNCHANGED feed
  /\ UNCHANGED <<storeVars, link, current, clientVars, cuts, runs, ingested, base>>

------------------------------------------------------------------------------
(* The ingest task *)

\* Faulty: a new subscription starts with the last transaction once more.
ConnectReplays ==
  /\ link = "down"
  /\ link' = "up"
  /\ feed' = IF ledger = <<>> THEN <<>> ELSE <<Len(ledger)>>
  /\ UNCHANGED <<ledger, storeVars, current, clientVars, cuts, runs, historyVars>>

\* PubsubClient::new and logs_subscribe succeed: live from now on, no backfill.
\* An attempt that fails is repeated after 2 s and changes nothing.
Connect ==
  /\ link = "down"
  /\ link' = "up"
  /\ UNCHANGED <<ledger, storeVars, feed, current, clientVars, cuts, runs, historyVars>>

\* The connection breaks; messages that have not arrived are lost.
Cut(arrived) ==
  /\ link = "up" /\ cuts < MaxCuts
  /\ link' = "cut" /\ cuts' = cuts + 1
  /\ feed' = SubSeq(feed, 1, arrived)
  /\ missed' = missed \cup NotesOfTxs(SubSeq(feed, arrived + 1, Len(feed)))
  /\ UNCHANGED <<ledger, storeVars, current, clientVars, runs, ingested, base>>

\* The stream ends once what arrived is read: back to the reconnect loop.
StreamEnds ==
  /\ link = "cut" /\ feed = <<>> /\ current = <<>>
  /\ link' = "down"
  /\ UNCHANGED <<ledger, storeVars, feed, current, clientVars, cuts, runs, historyVars>>

\* stream.next(): the next message, parsed.
NextMessage ==
  /\ feed # <<>> /\ current = <<>>
  /\ current' = NotesFromLog(Head(feed))
  /\ feed' = Tail(feed)
  /\ UNCHANGED <<ledger, storeVars, link, clientVars, cuts, runs, historyVars>>

\* on_note of one note, under a write lock of its own.
OnNote ==
  /\ current # <<>>
  /\ Insert(Head(current))
  /\ current' = Tail(current)
  /\ ingested' = Append(ingested, Head(current))
  /\ UNCHANGED <<ledger, link, feed, clientVars, cuts, runs, base, missed>>

\* The process dies and starts again with an empty store.
Restart ==
  /\ runs < MaxRestarts
  /\ runs' = runs + 1
  /\ items' = <<>> /\ dropped' = 0
  /\ link' = "down" /\ feed' = <<>> /\ current' = <<>>
  /\ base' = Len(ingested)
  /\ missed' = missed \cup NotesIn(current) \cup NotesOfTxs(feed)
  /\ UNCHANGED <<ledger, clientVars, cuts, ingested>>

------------------------------------------------------------------------------
(* GET /announcements, and the client *)

EffectiveLimit(limit) == Min({IF limit = NoLimit THEN DefaultLimit ELSE limit, MaxLimit})

\* The rows of the response to the client.
Page == Query(since, EffectiveLimit(ClientLimit))

\* One poll of the scan loop: keep the rows, go on from the highest slot.
Poll ==
  /\ got' = got \cup {NoteOf(items[i]) : i \in Page}
  /\ since' = Max({since} \cup {items[i].slot : i \in Page})
  /\ UNCHANGED <<ledger, storeVars, ingestVars, cuts, runs, historyVars>>

Next ==
  \/ \E slot \in Tip..MaxSlot, entries \in Batches : Confirm(slot, entries)
  \/ Connect \/ StreamEnds \/ NextMessage \/ OnNote
  \/ \E arrived \in 0..Len(feed) : Cut(arrived)
  \/ Restart
  \/ Poll

Spec == Init /\ [][Next]_vars

\* The ingest task is scheduled and its insertions get the lock; the client
\* goes on polling.  Neither connections nor transactions are owed.
FairSpec == Spec /\ WF_vars(NextMessage) /\ WF_vars(OnNote) /\ WF_vars(Poll)

------------------------------------------------------------------------------
(* Properties *)

Row == [slot : Nat, tx : Nat, pos : Nat]
Tx == [slot : Nat, entries : Batches]

\* Types of the chain, the store and the ingest task.
IngestTypes ==
  /\ ledger \in Seq(Tx)
  /\ items \in Seq(Row) /\ dropped \in Nat
  /\ feed \in Seq(Nat) /\ current \in Seq(Row)
  /\ ingested \in Seq(Row) /\ base \in Nat

\* The store is the newest part of what this run of the process ingested, and
\* /health's two figures add up to all of it: eviction takes the oldest only,
\* and each is counted once.
StoreIsWindow ==
  /\ Len(items) <= Cap
  /\ base + dropped + Len(items) = Len(ingested)
  /\ \A i \in 1..Len(items) : items[i] = ingested[base + dropped + i]

\* Rows come in the order of the chain, none twice, with ascending slots: over
\* reconnects and between the notes of one transaction.  Paging by slot rests
\* on this (store.rs: "insertion (which tracks slot order)").
InChainOrder ==
  \A i, j \in 1..Len(ingested) : i < j =>
    /\ ingested[i].slot <= ingested[j].slot
    /\ \/ ingested[i].tx < ingested[j].tx
       \/ ingested[i].tx = ingested[j].tx /\ ingested[i].pos < ingested[j].pos

\* Every note logged on the chain was ingested, is in the task's hands or under
\* way, or was lost with a connection or a crash: the task itself drops none.
NoneDropped ==
  UNION {Logged(n) : n \in 1..Len(ledger)}
    = NotesIn(ingested) \cup NotesIn(current) \cup NotesOfTxs(feed) \cup missed

\* A client that goes on from the highest slot it has seen has been returned
\* every retained note of an earlier slot, also if its page ended inside a
\* transaction whose notes were still being inserted.
NeverSkips ==
  \A i \in 1..Len(items) : items[i].slot < since => NoteOf(items[i]) \in got

\* What the indexer serves was posted: its transaction succeeded.
RowsWerePosted ==
  \A i \in 1..Len(items) : PostBatchResult(ledger[items[i].tx].entries) = "ok"

\* Retained now, and there to be served.
Retained(n, i) == \E k \in 1..Len(items) : NoteOf(items[k]) = <<n, i>>

\* The slot the client goes on from fills its page: it is returned the same rows again.
Stuck == Cardinality({k \in 1..Len(items) : items[k].slot = since}) >= EffectiveLimit(ClientLimit)

\* A note in the store reaches the polling client, unless it is evicted or the
\* process restarts first, or the client comes to a slot that fills a page: nothing
\* else keeps a client from getting on.
EventuallyServed ==
  \A n \in 1..MaxTxs, i \in 1..NotesPerSlot :
    Retained(n, i) ~> (<<n, i>> \in got \/ ~Retained(n, i) \/ Stuck)

\* A client that drains a backlog comes to a page with fewer rows than it
\* asked for.
DrainEnds == []<>(Cardinality(Page) < EffectiveLimit(ClientLimit))
==============================================================================
