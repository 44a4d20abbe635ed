------------------------------ MODULE Announcer ------------------------------
(***************************************************************************)
(* The announcement service (crates/slnt-announcer/src/main.rs) between    *)
(* its HTTP clients and the pinboard program: axum handlers that fill the  *)
(* queue, one publisher task that drains it into post_batch transactions,  *)
(* the Solana RPC node and network it publishes through, and crashes of    *)
(* the process, which keeps nothing on disk.                               *)
(*                                                                         *)
(* Two sections hold the queue's mutex: a handler or the drain, each one   *)
(* step here, and the loop that records a batch's outcome, one step per    *)
(* id.  While that loop runs (pc = "settling") no handler can run.         *)
(***************************************************************************)
EXTENDS AnnounceQueue, Pinboard, SequencesExt

CONSTANTS
  Requests,           \* the AnnounceRequests clients may send
  Undecodable,        \* a field that is not base58, or not 32 bytes
  SdkMaxMetadataLen,  \* slnt_sdk::announce::MAX_METADATA_LEN = 64
  MaxBatch,           \* code: MAX_BATCH = 40
  EntryBytes,         \* serialized NoteEntry without metadata: 39
  TxOverhead,         \* the rest of the signed transaction: 183
  PacketDataSize,     \* largest transaction a node accepts: 1232
  Faults,             \* may RPC calls fail and transactions get dropped?
  MaxIds,             \* bound: notes accepted by one run of the process
  MaxRestarts         \* bound: crashes of the process

ASSUME AnnouncerConstants ==
  /\ MaxBatch \in Nat \ {0}
  /\ SdkMaxMetadataLen \in Nat
  /\ {EntryBytes, TxOverhead, PacketDataSize, MaxIds, MaxRestarts} \subseteq Nat
  /\ Faults \in BOOLEAN
  /\ \A req \in Requests : req.metadata_len \in Nat \cup {Undecodable}

VARIABLES
  mode,      \* "publish", or "collect" when --rpc-url or --keypair is missing
  pc,        \* the publisher: sleeping, publishing, confirming, settling
  batch,     \* what it drained, [id, entry] in queue order
  sig,       \* the transaction it waits for
  outcome,   \* the status it is recording for the batch
  settled,   \* how many ids of the batch have it
  network,   \* transactions sent and neither executed nor expired
  next_sig,  \* number of the next signature
  epoch,     \* history: which run of the process this is
  accepted   \* history: the entry accepted under each id of this run

publisherVars == <<pc, batch, sig, outcome, settled>>
vars == <<queueVars, ledger, mode, publisherVars, network, next_sig, epoch, accepted>>

Init ==
  /\ QueueInit
  /\ ledger = <<>>
  /\ mode \in {"publish", "collect"}
  /\ pc = "sleeping" /\ batch = <<>> /\ sig = NoSig /\ outcome = Pending /\ settled = 0
  /\ network = {} /\ next_sig = 1
  /\ epoch = 0 /\ accepted = <<>>

------------------------------------------------------------------------------
(* The HTTP handlers *)

LockFree == pc # "settling"

\* Faulty: no limit on the metadata.
ValidRequestUnlimited(req) ==
  req.scheme_id # 0 /\ req.ephemeral_pub # Undecodable /\ req.metadata_len # Undecodable

\* request_to_note_entry: which requests it converts, and to what.
ValidRequest(req) ==
  /\ req.scheme_id # 0
  /\ req.ephemeral_pub # Undecodable
  /\ req.metadata_len # Undecodable
  /\ req.metadata_len <= SdkMaxMetadataLen
ToNoteEntry(req) == [ephemeral_pub |-> req.ephemeral_pub, metadata_len |-> req.metadata_len]

\* POST /announce answered 200.
PostAnnounce(req) ==
  /\ next_id < MaxIds
  /\ LockFree
  /\ ValidRequest(req)
  /\ Enqueue(ToNoteEntry(req))
  /\ accepted' = Append(accepted, ToNoteEntry(req))
  /\ UNCHANGED <<ledger, mode, publisherVars, network, next_sig, epoch>>

\* POST /announce answered 400, or 503 from a full queue: nothing changes.
RefuseAnnounce(req) ==
  /\ ~ValidRequest(req) \/ (LockFree /\ QueueFull)
  /\ UNCHANGED vars

------------------------------------------------------------------------------
(* The publisher task *)

\* Faulty: wait until there is a full batch.
DrainFull ==
  /\ mode = "publish" /\ pc = "sleeping"
  /\ Len(pending) >= MaxBatch
  /\ batch' = Taken(MaxBatch)
  /\ TakePending(MaxBatch)
  /\ pc' = "publishing"
  /\ UNCHANGED <<sig, outcome, settled, ledger, mode, network, next_sig, epoch, accepted>>

\* Wake up and drain; with nothing to drain it goes back to sleep unchanged.
Drain ==
  /\ mode = "publish" /\ pc = "sleeping"
  /\ pending # <<>>
  /\ batch' = Taken(MaxBatch)
  /\ TakePending(MaxBatch)
  /\ pc' = "publishing"
  /\ UNCHANGED <<sig, outcome, settled, ledger, mode, network, next_sig, epoch, accepted>>

Entries(items) == [i \in 1..Len(items) |-> items[i].entry]
TxBytes(entries) ==
  LET upTo[n \in 0..Len(entries)] ==
        IF n = 0 THEN TxOverhead ELSE upTo[n - 1] + EntryBytes + entries[n].metadata_len
  IN  upTo[Len(entries)]

\* The node's sanity check and its preflight simulation of the program.
NodeRefuses(entries) ==
  TxBytes(entries) > PacketDataSize \/ PostBatchResult(entries) # "ok"

Conclude(status) ==
  /\ outcome' = status
  /\ pc' = "settling"
  /\ UNCHANGED <<queueVars, batch, sig, settled, ledger, mode, network, next_sig, epoch, accepted>>

\* Fetch a blockhash, sign one post_batch of the whole batch, send it.
Send ==
  /\ pc = "publishing"
  /\ ~NodeRefuses(Entries(batch))
  /\ network' = network \cup {[sig |-> next_sig, epoch |-> epoch, batch |-> batch]}
  /\ sig' = next_sig
  /\ next_sig' = next_sig + 1
  /\ pc' = "confirming"
  /\ UNCHANGED <<queueVars, batch, outcome, settled, ledger, mode, epoch, accepted>>

SendRefused ==
  /\ pc = "publishing"
  /\ NodeRefuses(Entries(batch))
  /\ Conclude(Failed)

Sigs(txs) == {tx.sig : tx \in txs}
Landed == Range(ledger)

\* Faulty: sent taken for confirmed; polling on after the blockhash expired;
\* the batch put back for a retry when an RPC call failed.
ConfirmUnseen == pc = "confirming" /\ Conclude(Confirmed(sig))
PollForever == pc = "confirming" /\ sig \notin Sigs(Landed) /\ UNCHANGED vars
RpcFailsRequeues ==
  /\ Faults
  /\ pc \in {"publishing", "confirming"}
  /\ pending' = batch \o pending
  /\ batch' = <<>> /\ pc' = "sleeping" /\ sig' = NoSig
  /\ UNCHANGED <<next_id, statuses, status_order, outcome, settled, ledger, mode, network, next_sig,
                 epoch, accepted>>

\* send_and_confirm_transaction polls the signature's status: Ok once it has
\* executed, Err once the blockhash has expired without it ...
ConfirmOk ==
  /\ pc = "confirming"
  /\ sig \in Sigs(Landed)
  /\ Conclude(Confirmed(sig))

ConfirmExpired ==
  /\ pc = "confirming"
  /\ sig \notin Sigs(Landed) \cup Sigs(network)
  /\ Conclude(Failed)

\* ... and Err as soon as any RPC call fails, wherever the transaction is.
RpcFails ==
  /\ Faults
  /\ pc \in {"publishing", "confirming"}
  /\ Conclude(Failed)

\* Faulty: the position in the batch taken for the id.
SettleByPosition ==
  /\ pc = "settling"
  /\ SetStatus(settled, outcome)
  /\ IF settled + 1 < Len(batch)
       THEN settled' = settled + 1 /\ UNCHANGED <<pc, batch, sig, outcome>>
       ELSE pc' = "sleeping" /\ batch' = <<>> /\ sig' = NoSig /\ outcome' = Pending /\ settled' = 0
  /\ UNCHANGED <<pending, next_id, ledger, mode, network, next_sig, epoch, accepted>>

\* One iteration of the loop that gives every id of the batch the outcome.
Settle ==
  /\ pc = "settling"
  /\ SetStatus(batch[settled + 1].id, outcome)
  /\ IF settled + 1 < Len(batch)
       THEN settled' = settled + 1 /\ UNCHANGED <<pc, batch, sig, outcome>>
       ELSE pc' = "sleeping" /\ batch' = <<>> /\ sig' = NoSig /\ outcome' = Pending /\ settled' = 0
  /\ UNCHANGED <<pending, next_id, ledger, mode, network, next_sig, epoch, accepted>>

------------------------------------------------------------------------------
(* The network, and crashes *)

Land(tx) ==
  /\ network' = network \ {tx}
  /\ Execute(tx)
  /\ UNCHANGED <<queueVars, mode, publisherVars, next_sig, epoch, accepted>>

Expire(tx) ==
  /\ Faults
  /\ network' = network \ {tx}
  /\ UNCHANGED <<queueVars, ledger, mode, publisherVars, next_sig, epoch, accepted>>

\* The process dies anywhere and starts again with an empty queue and ids
\* from 0; the network and the chain do not notice.
Restart ==
  /\ epoch < MaxRestarts
  /\ epoch' = epoch + 1
  /\ mode' \in {"publish", "collect"}
  /\ pending' = <<>> /\ next_id' = 0
  /\ statuses' = [id \in {} |-> Pending] /\ status_order' = <<>>
  /\ pc' = "sleeping" /\ batch' = <<>> /\ sig' = NoSig /\ outcome' = Pending /\ settled' = 0
  /\ accepted' = <<>>
  /\ UNCHANGED <<ledger, network, next_sig>>

Next ==
  \/ \E req \in Requests : PostAnnounce(req) \/ RefuseAnnounce(req)
  \/ Drain \/ Send \/ SendRefused
  \/ ConfirmOk \/ ConfirmExpired \/ RpcFails
  \/ Settle
  \/ \E tx \in network : Land(tx) \/ Expire(tx)
  \/ Restart

Spec == Init /\ [][Next]_vars

\* The publisher task is scheduled, its calls return, and a transaction is
\* executed or expires with its blockhash.  Clients and faults owe nothing.
Fairness ==
  /\ WF_vars(Drain)
  /\ WF_vars(Send \/ SendRefused)
  /\ WF_vars(ConfirmOk \/ ConfirmExpired)
  /\ WF_vars(Settle)
  /\ WF_vars(\E tx \in network : Land(tx) \/ Expire(tx))

FairSpec == Spec /\ Fairness

------------------------------------------------------------------------------
(* Properties *)

Entry == {ToNoteEntry(req) : req \in {r \in Requests : ValidRequest(r)}}
Item == [id : Nat, entry : Entry]
Transaction == [sig : Nat, epoch : Nat, batch : Seq(Item)]

\* Types of the queue, the publisher's locals, the network and the chain.
TypeOK ==
  /\ pending \in Seq(Item) /\ next_id \in Nat
  /\ DOMAIN statuses \subseteq Nat
  /\ \A id \in DOMAIN statuses : statuses[id] \in BatchStatus
  /\ status_order \in Seq(Nat)
  /\ mode \in {"publish", "collect"}
  /\ pc \in {"sleeping", "publishing", "confirming", "settling"}
  /\ batch \in Seq(Item) /\ sig \in Nat /\ outcome \in BatchStatus /\ settled \in Nat
  /\ network \subseteq Transaction /\ ledger \in Seq(Transaction)
  /\ next_sig \in Nat /\ epoch \in Nat /\ accepted \in Seq(Entry)

\* The ids accepted by this run whose fate is still open: in the queue, or in
\* the publisher's hands and not recorded yet.
Unresolved ==
  {pending[i].id : i \in 1..Len(pending)} \cup {batch[i].id : i \in (settled + 1)..Len(batch)}

\* The eviction order lists exactly the retained records, each once, and never
\* more than the cap (service.rs: set_status): neither side leaks.
HistoryBounded ==
  /\ Len(status_order) <= MaxStatuses
  /\ Range(status_order) = DOMAIN statuses
  /\ \A i, j \in 1..Len(status_order) : status_order[i] = status_order[j] => i = j

\* The batch followed by the queue is an unbroken run of ids up to next_id,
\* each still with the entry it was accepted with: nothing accepted is lost,
\* doubled, reordered or swapped between handlers and publisher.
FifoIntact ==
  LET waiting == batch \o pending
      first   == next_id - Len(waiting)
  IN  /\ first >= 0
      /\ \A i \in 1..Len(waiting) : /\ waiting[i].id = first + i - 1
                                    /\ waiting[i].entry = accepted[first + i]

\* The caps leave room for every unresolved id (code: 50_000 >= 10_000 + 40).
CapsFit == MaxStatuses >= MaxPending + MaxBatch

\* A client that polls an accepted note reads "pending" until its fate is
\* recorded, never 404 and never an outcome of something else; and no record
\* says "pending" once nothing is pending.
PendingIffUnresolved ==
  /\ \A id \in Unresolved : Status(id) = "pending"
  /\ \A id \in DOMAIN statuses \ Unresolved : Status(id) # "pending"

\* "confirmed" with a signature means: that transaction executed, and it
\* carries the very note that was accepted under the id, in this run.
ConfirmedIsPublished ==
  \A id \in DOMAIN statuses : Status(id) = "confirmed" =>
    \E tx \in Landed :
      /\ tx.sig = statuses[id].sig /\ tx.epoch = epoch
      /\ \E i \in 1..Len(tx.batch) :
           tx.batch[i].id = id /\ tx.batch[i].entry = accepted[id + 1]

\* However RPC calls and crashes fall, a note the service accepted appears on
\* the pinboard at most once: a batch is never sent again.
PublishedOnce ==
  \A m, n \in 1..Len(ledger) :
    ledger[m].epoch = ledger[n].epoch =>
      \A i \in 1..Len(ledger[m].batch), j \in 1..Len(ledger[n].batch) :
        ledger[m].batch[i].id = ledger[n].batch[j].id => m = n /\ i = j

\* Without faults no note fails: a request the service admits is one pinboard
\* accepts, and a batch it builds fits a transaction.
HealthyNeverFails ==
  ~Faults => \A id \in DOMAIN statuses : Status(id) # "failed"

\* Confirmed and Failed are terminal: while a run of the process lasts, a
\* recorded outcome is never overwritten, only forgotten.
OutcomeIsFinal ==
  [][\A id \in DOMAIN statuses :
       epoch' = epoch /\ Status(id) # "pending" /\ id \in DOMAIN statuses'
         => statuses'[id] = statuses[id]]_vars

\* A run of the process forgets the oldest records first, and only those whose
\* outcome was recorded.
ForgetsOldestResolved ==
  [][epoch' = epoch =>
       \A id \in DOMAIN statuses \ DOMAIN statuses' :
         /\ Status(id) # "pending"
         /\ \A kept \in DOMAIN statuses' : id < kept]_vars

\* Every accepted note is eventually settled one way or the other, unless the
\* process stops publishing.
EventuallySettled ==
  \A id \in 0..(MaxIds - 1) :
    (mode = "publish" /\ id \in Unresolved) ~> (mode = "collect" \/ id \notin Unresolved)

\* Without faults every accepted note reaches the chain, unless the process crashes first.
EventuallyPublished ==
  \A id \in 0..(MaxIds - 1), e \in 0..MaxRestarts :
    (mode = "publish" /\ epoch = e /\ id \in Unresolved)
      ~> (epoch # e \/ \E tx \in Landed : tx.epoch = e /\ \E i \in 1..Len(tx.batch) : tx.batch[i].id = id)
==============================================================================
