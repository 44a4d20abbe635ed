# SLNT: formal verification

TLA+ modules, TLC configurations and TLAPS proofs for SLNT, silent payments on
Solana. Every definition is translated from the source named in `PROJECT.json`
(`map`); this file says what is modelled, what is checked and proved, and what
is not.

## 1. The system

SLNT pays to one-time addresses. A recipient publishes a meta-address (two
public keys). A sender derives a fresh address from it and an ephemeral key
`R`, transfers to it, and announces `R` as a *note* on a public pinboard. The
recipient scans the notes, recognises its own, and sweeps the address through a
relayer.

| component | code | state | operations |
|---|---|---|---|
| announcement service | `crates/slnt-announcer` | queue of pending notes, next id, bounded status history; the publisher's batch in flight; nothing on disk | `POST /announce`, `GET /announce/status/{id}`, the publisher task (drain, send and confirm, settle) |
| pinboard program | `programs/pinboard` | none: the logs of its transactions | `post`, `post_batch` |
| registry program | `programs/registry` | one account per (registrant, scheme) | `register`, `update`, `close`, one event each |
| indexer | `crates/slnt-indexer` | bounded deque of announcements, count of evictions | ingest from `logsSubscribe` (reconnecting), `GET /announcements`, `GET /health` |
| SDK, announcing | `slnt-sdk/src/announce.rs`, `announce_client.rs` | none (the wallet's) | `should_self_announce`, `dedup_by_ephemeral_pub`, submit, status |
| SDK, scanning | `slnt-sdk/src/pinboard.rs`, `scan_stream.rs`, `recipient.rs` | none | parse logs, subscribe, `scan_note` |
| SDK, keys | `slnt-sdk/src/keys.rs`, `sender.rs`, `stealth_signing.rs` | none | derivation, meta-address codec, LEB128, signing with a stealth key |
| SDK, value | `slnt-sdk/src/flows.rs`, `sweep.rs` | none (the ledger's) | build payments and sweeps |
| CLI | `crates/slnt-cli` | none | one command a run: canonical message, derive, derive from a seed, label, decode, pay |
| TypeScript SDK | `clients/typescript` | none | a mirror of the Rust SDK; its codec, its parser of log lines and its subscription differ in control |
| lifecycle example | `slnt-sdk/examples/lifecycle.rs` | locals of `main` | fund, pay and announce in one transaction, search the pinboard's history, sweep |

How they interact: a wallet submits a note to the service over HTTP and polls
its status; the service publishes batches of notes with `post_batch`; indexers
and recipients read the logs of pinboard transactions; if the wallet does not
see its note in time it posts it itself; senders read registry accounts before
they pay.

What is hard about it:

* **Interleaving.** HTTP handlers run at any time, also while the publisher
  holds a drained batch; only the queue's mutex separates them, and it is
  released between the drain and the settling.
* **A remote call in the middle.** `send_and_confirm_transaction` can fail after
  the transaction was sent, and the transaction can land after the failure.
* **Bounds.** Queue and history are both capped, and the history evicts.
* **Crashes.** The process keeps nothing; the chain remembers everything; ids
  start again from 0.
* **Limits of others.** A batch must satisfy the program's limits and the size
  of a Solana transaction.
* **Subscriptions.** Notes logged while the websocket is down are gone; a
  transaction that fails leaves notes in its log; a transaction's notes are
  inserted one by one while clients page over a store that evicts.
* **Stale views.** Senders read meta-addresses from nodes that lag, wallets look
  for their notes on such nodes, balances change under a sweep.
* **Keys that are not stored.** A recipient's keys exist only as long as they can be
  derived again, alike, from a wallet that may sign differently the next time.
* **Two implementations of one format.** Strings and log lines are written by one
  SDK and read by the other, and by versions that come later.

What makes each component correct: the *service* never loses, doubles, reorders
or republishes an accepted note, tells a client the truth about it as long as it
remembers it, and forgets only what is settled. The *pinboard* publishes a batch
as a whole or not at all. The *registry* keeps one entry per registrant and
scheme that its events reproduce. The *indexer* serves a suffix of what it
observed, and pages make progress. The *wallet* gets every paid note onto the
pinboard and the recipient counts it once. The *keys* agree: the sender's
address is the one the recipient can spend from, also after every copy of the keys
is lost, and keys of different networks or accounts differ. The *codec* reads a
string as what its maker wrote, or not at all. A *listener* hears every note of
what it reads and can close the gaps of its subscription. The *sweep* moves all value and
never to the main wallet.

## 2. Modules

| module | models |
|---|---|
| `AnnounceQueue` | `service.rs`: the queue and the status history, one operator per method |
| `Pinboard` | `post` and `post_batch`: result, and how many notes they log before they fail; the chain as the sequence `ledger` of transactions |
| `Announcer` | `main.rs`: handlers, publisher, RPC node, network, crashes; composes the two above; states the properties |
| `AnnounceService` | the abstract service of section 4.1 of `docs/srfc/design/announcer.md`: tickets that are pending, confirmed or failed |
| `AnnouncerInvariant` | the inductive invariants |
| `AnnouncerRefinement` | `Announcer` as an implementation of `AnnounceService` |
| `AnnouncerProofs` | theorems about queue and history |
| `PublishProofs` | theorems about what reaches the pinboard, about a service without faults, and the refinement theorem; builds on `AnnouncerProofs` |
| `MCAnnouncer` | sets of requests for TLC |
| `NoteStore` | `store.rs` of the indexer: bounded deque, eviction count, query |
| `Indexer` | `main.rs` of the indexer and `scan_stream.rs`: the ingest task, the websocket, the polling client; composes `NoteStore` and `Pinboard`; states the properties |
| `IndexerInvariant` | its inductive invariants |
| `IndexerProofs` | theorems about the ingest and about the polling client |
| `MCIndexer` | sets of transactions for TLC |
| `Registry` | the registry program, the runtime that executes transactions of its instructions, an indexer of its events, and a sender (`fetch_meta_address`, the checks of `derive_payment`); states the properties |
| `RegistryInvariant` | its inductive invariants |
| `RegistryProofs` | theorems about the registry |
| `MCRegistry` | wallets and keys for TLC |
| `StealthKeys` | `keys.rs`, `sender.rs`, `recipient.rs` by their algebra: groups and hashes are constant operators subject to `StealthGroups` |
| `Payments` | a payment from end to end: `flows.rs`, `announce.rs`, `sweep.rs`, the wallets that call them, the service as `AnnounceService` promises it, a ledger; composes `StealthKeys`; states the properties |
| `PaymentsProofs` | theorems about keys and payments |
| `MCPayments` | small groups, recipients and payments for TLC |
| `MetaAddress` | the codec of `keys.rs` and of `keys.ts`: LEB128, the payload's layout, and which forms of text each decoder takes |
| `KeyDerivation` | `keys.rs` and `stealth_signing.rs`: both methods of derivation with their guards, delegated scan keys, signing |
| `Cli` | `slnt-cli/src/main.rs`: `dispatch`, one case per command |
| `Identity` | the life of a recipient's keys: derive, hand out strings, be paid through either SDK or `slnt`, lose the application, derive again; composes the three above and `StealthKeys`; states the properties |
| `IdentityProofs` | theorems about the codec and about identities |
| `MCGroups`, `MCIdentity` | small groups, wallets, seeds and strings for TLC |
| `NoteLog` | parsing of log lines, `try_parse_note_log` and its counterpart in TypeScript, which differ in what they make of malformed lines |
| `LiveScan` | an application that subscribes with either SDK, loses the connection and fills the gap |
| `LiveScanProofs` | theorems about it |
| `MCLiveScan` | logs for TLC |
| `Lifecycle` | `examples/lifecycle.rs`: `main`, its polling loops and their deadlines, the RPC calls that fail, transactions that expire, other users of the chain; composes `StealthKeys` and `NoteLog` |
| `LifecycleProofs` | theorems about it |
| `MCLifecycle` | strangers' transactions for TLC |

**State.** `pending`, `next_id`, `statuses`, `status_order` are the fields of
`AnnounceQueue`. `batch`, `sig`, `outcome`, `settled` are the publisher's locals
(`ids`/`entries`, the signature, `result`, the position in the settling loop) and
`pc` is where it stands. `network` and `ledger` are the cluster: transactions
sent, and executed. `epoch` and `accepted` are history variables that no action
reads to decide anything; they say which run of the process this is and what was
accepted under each id, so that properties can relate a record to a request.

**Actions and lock sections.** `PostAnnounce` is the handler: validation and one
critical section. `Drain` is the publisher's first critical section. `Send`,
`SendRefused`, `ConfirmOk`, `ConfirmExpired`, `RpcFails` are the closure around
the RPC calls, which runs without the lock. The settling loop holds the lock
over the whole batch; it is one step per id (`Settle`) so that crashes and the
network can come between two of them, and `LockFree` keeps the handlers out. A
status request reads one record under the lock: it is the operator `Status`.
`Land` and `Expire` are the cluster. `Restart` is a crash at any point followed
by a start in either mode.

In `Indexer`, `Confirm` appends a transaction to the chain and, when the websocket
is up, a message to `feed`. `NextMessage` is `stream.next()` with
`notes_from_log_lines`; `OnNote` is the callback for one note, under its own write
lock, so that a `Poll` can come between two notes of a transaction. `Cut` loses a
tail of the messages under way; the task still reads the front, and `StreamEnds`
returns it to the reconnect loop; `Connect` subscribes again, without backfill.
`Poll` is the client loop of `docs/srfc/design/indexer-service.md`, section 4: ask
from the highest slot seen. A row is the place of its note on the chain and the
slot; what the note says is carried along unchanged and left out. `ingested`,
`base` and `missed` are history: all rows ever inserted, how many before the last
restart, and the notes that went down with a connection or a crash. One RPC node
is assumed: a reconnect to a node that lags behind could deliver a message twice.

In `Registry`, a transaction is `Begin`, instructions that succeed (`register`,
`update`, `close`), and `Land` or `Fail`. It works on its own copy of the accounts
(`tx.accounts`); only `Land` makes the copy the state of the chain. An
instruction whose guard is false cannot be taken: the transaction then fails by
`Fail`, which may also happen for a reason outside the program. Logs of failed
transactions stay in the ledger, as they do on Solana. The guards of an instruction
are Anchor's account constraints and the `require!`s; the program address of a
(registrant, scheme) pair is the pair. `before` and `after` in a log item are
history. The event indexer is not part of the repository:
`docs/srfc/design/registry-program.md` promises that events suffice to rebuild
the accounts, and `ReadTransaction` and `Fold` take that promise up. The sender's node has got
as far as some transaction n, not necessarily the last. Left out: fees, lamports
sent to an entry's address by others, the minimum balance of a wallet.

In `Payments`, the SDK's functions are operators of the same names, and the
wallets that call them are external: the repository has no wallet, only the rules
for one in `docs/srfc`. `Pay` is a transfer that landed; `LandAgain` a second one, as
after a lost answer. `Submit` is `AnnounceClient::submit` with every outcome: accepted,
refused, or accepted with the answer lost. Then the wallet watches through a node
that has got as far as some note n; `SelfAnnounce` may therefore be taken although
the note is there. Of the service only the notes it accepted and may yet publish are
kept (`open` of `AnnounceService`): a wallet decides by what the chain shows
(`should_self_announce`), never by a ticket, so tickets, ids and their restart at 0
have no variable here. `ServicePublishes` and `ServiceDrops` are `Publish`, `GiveUp`
and `Crash` of `AnnounceService` seen through that variable. `BuildSweep` is the
recipient: de-duplicate, scan, look up balances, build; `LandSweep` executes the
sweep on what the address holds by then. A builder that returns an error returns no
sweep. Addresses are points of the group. Left out: the version and flags of
a meta-address (they are in `Registry`), the limit on metadata, token decimals and
mints beyond "SOL or a token", deposits by strangers, what the destination
of a sweep must hold itself, coupled announcements. It is assumed that no two payments draw
the same ephemeral secret (`FreshEphemerals`), which the sender's random
generator provides, and that no hash collides so that a scan takes one payment's note for
another's (`NoForeignMatches`), which 256-bit tweaks provide; view tags of one byte do
collide, and the model lets them.

In `MetaAddress`, a text is a payload and the form it is written in. A payload is a
sequence of bytes in which a public key is one element. A byte of LEB128 has `GroupBase`
values of payload and one bit that announces another byte; a decoder returns the set of what
it read, empty for an error. The form is the kind of checksum, the letters (upper or lower
case) and whether the bits that fill up the last characters are zero: what the two
libraries under the decoders look at differently. `bech32::decode` takes both kinds of
checksum and drops the bits, and `decode_bech32m` compares the prefix as it stands, in lower
case; `bech32m.decode` takes one kind and lowers the letters, and `fromWords` wants the
bits to be zero. The Rust decoder reads a label in 64 bits and refuses one beyond 32, the
TypeScript decoder loses the upper bits in a shift: `read_leb128_u32` and `leb128Decode`. In
`KeyDerivation` the hashes (HKDF, SLIP-0010, nonce and challenge of a signature)
are constants; what derivations check is kept: lengths of seeds, the zero scalar, two
signatures that differ.

In `Identity`, `wallet` is how the recipient's wallet signs: deterministically, as
RFC 8032 asks, or with nonces, never the same twice; `nonces` are those it has
drawn. `installed` are the keys in the application; `Forget` is its loss, and
nothing but deriving again brings the keys back. `derived` and `paid` are history.
`shown` is the string a sender is about to read: made by the application
(`HandOut`), printed by `slnt` (`PrintSigned` is two runs of the tool with the
wallet's signature between them, `PrintSeeded` one run), or from another encoder (`Receive`),
whose versions, flags, labels, lengths and forms of text this code may not know. `Pay` is a sender with
either SDK or with `slnt pay`. A payment carries the identity and label it was meant
for; `Recovers` is everything that then has to work, from the delegated scanner's
filter to the cluster's check of the signature that spends. What is assumed of
the hashes is named: `NoCollisions` where identities are compared, `NoncesShow`
for a wallet whose nonce shows in its signature.

In `LiveScan`, `app` is the SDK the application uses. A log line is a record of one
of seven kinds, which are the cases the two parsers tell apart. The TypeScript parser throws
on data that is no base64, where the Rust one returns an error that `notes_from_log_lines`
drops; and it reads without bounds checks, so that it takes a Note event with more
bytes than fields for a note, and of one that breaks off makes a note that nobody posted. `scan_stream.rs` leaves
backfilling to its caller; `Backfill` is the caller that follows its comment, subscribes
first, and then passes over the newest `Limit` transactions as the demo does. `upto`
says how far everything was read before the last gap: a backfill closes the gap if
it reaches back to there (`caughtUp`).

In `Lifecycle`, `pc` is where `main` is and `late` that the deadline of the loop it is in
has passed; the slots of sleeping are left out. `Fail` is any `expect` of an RPC call, and
`txs` is what the cluster made of each transaction, which `main` may never learn.
`airdrop_blocking` and the search treat an RPC error as "not yet" and look at the
deadline at the end of a pass. `calm` is chosen at the start: in a calm run nothing fails,
and strangers post too little to push the payment out of the list and nothing that the
recipient's keys mistake. The demo's assertions are its guards: a false one is a panic.
The runtime's rule that an address ends a transaction empty or rent exempt is kept
(`RentExempt`): a sweep that would leave less behind fails and pays its fee (`SweepFails`).

**Abstractions.** In `Announcer`, a note is `ephemeral_pub` (which payment) and the length of its
metadata: the two things the checks and the transaction size depend on. A field
that does not decode is the model value `Undecodable`. Signatures are numbered.
Two transactions never have the same signature; in the code the blockhash tells
two equal batches apart. A transaction that executes and fails on chain after
its preflight is `Expire`: it publishes nothing the service counts. The error
text of `Failed` is never sent to a client and is left out.
`SendRefused` is the node's check of the size and its preflight simulation,
which runs the program. The definitions commented as *faulty* are variants of
an operation with a plausible bug; no specification uses them, they show that
the property next to it in `PROJECT.json` (`mutants`) notices that bug.

## 3. What TLC checks

| run | instance | shows |
|---|---|---|
| `announcer_history` | queue 3, batch 2, history 5, 6 ids, faults, fair | `HistoryBounded`; `PendingIffUnresolved`; `OutcomeIsFinal`; `ForgetsOldestResolved`; `ImplementsService`; `EventuallySettled` |
| `announcer_crash` | 2 kinds of notes, 3 ids, faults, 1 crash | `FifoIntact`; `ConfirmedIsPublished`; `PublishedOnce` |
| `announcer_healthy` | all kinds of requests, 3 ids, 1 crash, no faults, fair | `HealthyNeverFails`; `EventuallyPublished`; `ImplementsService` over a crash |
| `announcer_code_batch` | the constants of the code | a counterexample to `HealthyNeverFails` (finding 1) |
| `indexer_ingest` | 3 transactions in 2 slots, store 3, page 2, 1 lost connection, 1 crash, fair | `StoreIsWindow`; `InChainOrder`; `NoneDropped`; `NeverSkips`; `EventuallyServed` |
| `indexer_full_slot` | 2 notes a slot, page 2, fair | a counterexample to `DrainEnds` (finding 2) |
| `indexer_failed_tx` | batches that fail after a note | a counterexample to `RowsWerePosted` (finding 3) |
| `registry_events` | 2 wallets, schemes 0, 1, 2, 2 versions, keys and flags each, 2 transactions of up to 2 instructions | `MirrorsAccounts`; `OnlyRegistrantChanges`; `RentReturns`; `PaidWithConsent`; `RefusedForKeyOnly` |
| `payments_end_to_end` | 2 recipients, a labelled SOL payment, a token payment, one too large to build, groups of order 11 and 28, 2 view tags, 2 transfers each, 1 loss, fair | `TypeOK`; `Recoverable`; `CountedOnce`; `LateDepositIsHarmless`; `EventuallyAnnounced`; `EventuallySwept` |
| `identity_lifetime` | both kinds of wallets, 2 networks, seeds of 32 and of 12 bytes, accounts about the hardened bit, labels about the codec's width, 150 foreign strings in 8 forms of text, 2 derivations, 1 payment | `PaidIsRecoverable`; `IdentitiesApart`; `OwnStringsAreRead`; `ReadAsWritten`; `PaidAsWritten` |
| `lifecycle_demo` | with and without faults, 2 transactions of strangers, a list of 2, fair | `TypeOK`; `ValueHasItsNote`; `NothingLeftBehind`; `Terminates`; `Succeeds` |
| `live_scan` | both SDKs, 4 transactions of 5 logs, a backfill of 2, 2 lost connections | `RustSkipsMalformed`; `NoGap` |

Type invariants that section 4 proves are not checked again, except that of `Payments`,
where a type is a hazard: an amount below zero.

**Bounds.** `MaxIds` bounds the notes one run of the process accepts and
`MaxRestarts` its crashes. Six ids over a history of five is the first size at
which a record is evicted while a full batch and a full queue are unresolved;
two batches and a queue fit in six ids, so that batches follow each other and
handlers run between them. Three ids and one crash let a transaction of the
first run land after ids of the second run have the same numbers. History 5 is
exactly `MaxPending + MaxBatch`, the tightest cap that satisfies `CapsFit`. In
`announcer_history` a transaction holds any batch; in `announcer_crash` two large
notes exceed it (`PacketDataSize`), so that the node also refuses batches.

For the indexer, `MaxTxs`, `MaxSlot`, `MaxCuts` and `MaxRestarts` bound the
environment. Three transactions of up to two notes are more notes than the store
and than a page hold; two slots let a page end inside a slot and a later
transaction arrive in a slot the client has already seen. One lost connection
and one crash can fall between any two steps. `NotesPerSlot` is a parameter of
the chain, not a mere bound: a slot that fills a page stops a client. `EventuallyServed`
says that nothing else does (`Stuck`), and the instance has slots of both kinds.

For the registry, two transactions of two instructions are the least in which an
address is registered, closed and registered again with a transaction boundary
before, between or after, with either transaction failing half-way, and in which
a sender can look at three states of the chain. Two keys of which one is not
payable, and versions and flags of which one each is allowed, are the cases the
checks tell apart. A wallet's `Funds` pay for one entry at a time, so that `register`
also fails for lack of lamports. The theorems hold for every number of transactions.

For payments, the groups are small but are groups: addition modulo 11 with powers of
2 modulo 23 for Ed25519, exponents modulo 28 with powers of 2 modulo 29 for X25519.
With two view tags the recipients' tags collide, so that a note of one payment
passes the other recipient's filter. Two transfers of a payment let a deposit land
before, between and after two sweeps of its address; one loss makes a
wallet post or sweep again. Shares of 1 and 3 are within and beyond what the
token payment (2) and one SOL transfer (1 plus rent 2) can bear. Longer runs of the
same steps repeat states: what an address holds and what is under way is all
that sweeps depend on.

For the codec, a LEB128 byte holds two bits (`GroupBase = 4`) and a label nine
(`LabelSpace = 512`), so that five bytes hold ten: as in the code, where they hold 35 bits for 32,
the last byte has room to spare. The labels 0, 3, 4, 511 need one, one, two and five bytes;
foreign strings add 512 and 1023, all lengths up to five, a later version, flags
and more fields; and, with a label that fits and with one that does not, each of the eight forms
of text. Accounts 0, 1 and 5 with the hardened bit at 4 are two different accounts
and one that sets the bit itself. Signature 2 gives the zero scalar. Two derivations are
what losing and deriving again takes, or two identities to compare; all properties speak of
one payment at a time.

For the demo, a list of two transactions and two of strangers let the payment be pushed out
of what is listed. Strangers give up to three lamports, at once or one by one, and an
address must keep three (`RENT_EXEMPT_MIN`): what a gift leaves behind a sweep is then too
little to stay, or enough. For live scanning, two lost connections can fall into each other's
backfill, and gaps are shorter and longer than the backfill's two transactions.

**Deadlock.** `CHECK_DEADLOCK FALSE` where the bounded clients are done and the
service has nothing left to do; in `announcer_healthy` there is always a client
to refuse, and in `Indexer` one to poll: there deadlock is checked. In `Registry` the chain ends at `MaxTxs`.

**Fairness.** Weak fairness of the publisher's steps: the tokio runtime schedules
the task, sleeps of two seconds end, the lock is released by every holder, and
RPC calls return (the client has timeouts). Weak fairness of the cluster: a
transaction lands or its blockhash expires. No fairness for clients, faults,
crashes: nothing owes us those. Liveness says nothing of a process restarted in
collect-only mode: its queue is never drained (`docs/srfc/design/announcer.md`,
section 5.2), and neither says `EventuallyPublished` anything under faults. In
`Indexer`: the ingest task's steps, because the runtime schedules it and no
reader holds the lock for ever; and the client's polls, because the property is
about a client that goes on polling. A connection is owed to nobody. In `Payments`: the
wallets' own steps, with a node that catches up in the end, because the properties
are about wallets that follow the rules; and the cluster, which executes what
does not expire. The service is owed nothing at all, so `EventuallyAnnounced` rests on
the fallback alone. In `Lifecycle`: `main` goes on, because it has no step that waits
for another; the cluster decides about a transaction; and clocks do not stop. That
the search ends therefore rests on its deadline, not on the cluster.

**Findings.** (1) The publisher takes up to 40 notes, but a signed `post_batch` of
n notes without metadata has 183 + 39 n bytes (one signature 65, header 3, two
keys 65, blockhash 32, instruction 6, discriminator and count 12; per entry 2 +
32 + 1 + 4), and 1232 bytes are 26 notes. Of 27 waiting notes all 27 fail. The
document promises batches of 40. (2) A client
that asks from the highest slot it has seen repeats a page for ever when one slot
holds a page of notes: 1000 with the default limit, the notes of about 40 full
batches. (3) `notes_from_log_lines` reads the log of failed transactions too, and a
`post_batch` that fails on its second entry has logged the first: the indexer
serves a note that the program document says is rolled back.

Not a run, because it needs no interleaving to see; the models are as the code is, and
where the two SDKs differ the theorems `WhereParsersDiffer` and `WhereDecodersDiffer` say how,
for every input:

* An RPC error after sending marks notes failed that are published later; the document
  describes `Failed` as a failed publishing transaction. `PublishedOnce` still holds,
  because nothing is retried; a wallet that believes `failed` and posts the note itself
  doubles it (`RpcFails` in `Announcer`).
* Section 8 of the indexer's document describes a store that never evicts; `store.rs`
  evicts beyond its cap, and `StoreIsWindow` is stated for what the code does.
* `notesFromLogLines` (`scan.ts:19`) lets the exception of a line that is no base64 through
  (`pinboard.ts:102`), so the notes beside it in that transaction are not handed over; and of an
  event that breaks off `tryParseNoteLog` makes a note that nobody posted (`pinboard.ts:111`). Its
  comment, `scan.ts:12-14`, says "malformed Note lines are skipped". The Rust SDK does
  that (`RustSkipsMalformed`); `NoGap` speaks, for the TypeScript SDK, of the transactions it
  gets to the end of (`Readable`).
* `leb128Decode` (`keys.ts:266`) shifts the fifth group in 32-bit integers: a label of more than 32
  bits, which `read_leb128_u32` refuses, is read as its low 32 bits.
  `docs/srfc/design/typescript-sdk.md:214-216` calls the two identical in behaviour. The
  instance of `identity_lifetime` has such labels; a payment does not depend on the label
  read, and `PaidAsWritten` holds.
* `read_leb128_u32` (`keys.rs:392`) accepts a label in more bytes than it needs;
  `docs/srfc/0001-slnt-silent-payments.md:268` asks for the minimal form. So does
  `leb128Decode`: a meta-address has several strings, but each has one meaning, as
  `ReadAsWritten` and `PaidAsWritten` show.
* The decoders take different texts: `decode_bech32m` (`keys.rs:301`) one with a Bech32 checksum or
  with non-zero padding, which `decodeMetaAddress` (`keys.ts:195`) refuses; `decodeMetaAddress` one
  in upper case, which `decode_bech32m` refuses. `WhereDecodersDiffer` has the whole list. No
  text of either SDK is of that kind (`OwnStringsAreRead`), and whoever takes one pays as it was
  written (`PaidAsWritten`).

## 4. What TLAPS proves

For all values of the constants (subject to `QueueCaps`, `PinboardLimits`,
`AnnouncerConstants`), any number of ids and crashes within the bounds named:

* `TypeCorrect`, `HistoryAlwaysBounded`: from `BoundsInv`, which adds to the types
  what the publisher's locals may be at each `pc`. `HistoryBounded` alone is
  inductive for `SetStatus` because the record inserted is either known or new.
* `FifoAlwaysIntact`: from `QueueInv`. Ids are `next_id - |pending| - |batch| + i`:
  enqueueing extends the run at the end, draining moves a prefix of the queue to
  the batch, finishing a batch drops it, and a crash drops everything.
* `PendingUntilResolved`, under `CapsFit` (the code's 50 000 >= 10 000 + 40; only
  `with_caps` in tests can break it): from `HistoryInv`, which says that the
  history is the last ids in order, all of them or as many as fit, and that a
  record is pending exactly from the first unsettled id of the batch on. `CapsFit`
  is what makes the id being settled a retained one (`NextToSettleIsRetained`);
  without it `set_status` inserts an evicted id again as the newest.
* `OutcomeStaysFinal` and `OldestResolvedForgottenFirst`, the two action
  properties, from the same invariant: a step that records an outcome touches
  the record of a pending id only, and a step that forgets slides the window of
  retained ids (`WindowSlides`) past an id older than everything unresolved.
* `ConfirmedAlwaysPublished` and `NeverPublishedTwice`: from `PublishInv`. Every
  signature is of one transaction, which is in the network or in the chain
  (`SignatureShape`); the publisher waits for at most one, which carries its
  batch, and the notes of all others of this run are older (`SentShape`), so no
  note is in two (`SentOnce`); "confirmed" is recorded for the publisher's own
  transaction after it executed (`OutcomeShape`).
* `ServiceIsImplemented`, under `CapsFit`: `Spec => ImplementsService`. From
  `ServiceInv`, the conjunction of the two invariants above; each step of
  `Announcer` is an `Accept`, `Resolve`, `Publish`, `GiveUp` or `Crash` of
  `AnnounceService`, or changes none of its variables.
* `OnlyLargeBatchesFail` and `ShortBatchesNeverFail`: from `HealthyInv`, which follows a note
  from the handler to the program. The handler's limit on metadata is within the
  program's (`SdkWithinProgram`), so what a batch holds passes `post_batch`; without faults the
  only refusal left is the node's check of the size. `OnlyLargeBatchesFail` therefore holds with
  the code's constants, and says that finding 1 is the only way for a note of a service
  without faults to fail. `ShortBatchesNeverFail` says how long a batch may be: if N notes of the
  largest kind fit a transaction, a service whose batches hold N notes at most never fails
  one. With the sizes of the code N is 10 (183 + 10 * 103 = 1213 bytes of 1232): ten notes
  with full metadata, or fewer, are never refused. `TxBytes` sums over the
  batch by a recursive function; that it exists and is bounded (`TxBytesBounded`) is
  proved by a least counterexample instead of an induction theorem.
* `IngestTyped`, `StoreIsAlwaysWindow`, `IngestsInChainOrder`, `IngestDropsNone` (subject to
  `StoreCap`, `PinboardLimits`, `IndexerConstants`): from `IndexInv`. A row carries
  the slot of its transaction, and that transaction is older than every message
  still to come (`Placed`); messages ascend (`FeedShape`) and so do slots along the
  chain (`ChainShape`); rows inserted come before rows in hand (`RowShape`). The
  order of the rows alone is not inductive: it says nothing of the next message.
  `NoneDropped` is inductive relative to it.
* `ClientNeverSkips`: the same invariant says of the client that the highest slot it was
  returned is one it was returned a row of (`SinceShape`), and that of every earlier slot it has
  all that is still retained (`ServedInv`). A page is the first rows from that slot on
  (`NoteStore`'s `Kept`): a row left out is at or after the last row of the page, and so is its
  slot. Rows that come later have no earlier slot (`InChainOrder`).
* Registry (subject to `RegistryConstants`): `EventsRebuildAccounts`,
  `PaymentsHaveConsent`, `ChecksAgree`, `OnlyOwnersChange` from `RegistryInv`. Every
  log item is sound (its event turns `before` into `after`) and consecutive items fit
  together (`Leads`), so the items the indexer has in hand lead from its map to the
  accounts after the transaction it read (`IndexerShape`); failed transactions
  change nothing (`LedgerShape`). Entries stand at the address of their own fields
  (`WellPlaced`): without it the event of `update`, which names the entry by its
  contents, could name another account. Every entry ever present was put there by
  a landed transaction its wallet signed (`EveryEntryWasPut`), which is what a
  sender with an old view relies on. `RentIsTheRegistrants` from `RentShape`: an
  instruction changes the number of a wallet's entries by one exactly when it moves
  one `Rent`.
* Keys (subject to `StealthGroups`: both groups' laws, nothing about the hashes):
  `AddressesAgree` and `ScanNoteIsUnlabelled`. Both sides have the same shared secret
  (`TweaksAgree`); the sender adds points, the recipient scalars, and the base point's
  multiples carry one addition to the other, once for the label and once for the
  tweak.
* Payments (also subject to `PaymentConstants`, `FreshEphemerals`, `NoForeignMatches`):
  `TypeCorrect`, `PaymentsAreRecoverable`, `PaymentsAreCountedOnce` and
  `LateDepositsAreHarmless` from `IInv`. It adds to the types that what was paid and what is
  announced had been built (`PaidWasBuilt`, `NotesWereBuilt`): otherwise nothing says that the
  shared secret the recipient computes is not zero. Of the notes with one R the first is
  kept (`LeastElement`, from the well-foundedness of Nat), it announces that payment
  (`DedupKeepsOne`), and `AddressesAgree` does the rest. Counting needs the converse too:
  an account that holds something is a payment's (`AccountsArePaid`), no two payments
  share an address (`AddressesDiffer`), and a scan finds one candidate under a label
  (`OneCandidatePerLabel`), so that what is funded is the one place kept of the
  payment's own note (`FundedIsOwn`, `OwnIsFunded`, `FundedOnce`). For late deposits, what an
  address holds and what a sweep moves are whole transfers (`WholeTransfers`,
  `SweepsAreWhole`), so what is left is nothing or at least one transfer, and
  `build_sol_payment` adds the rent to each (`ValuesArePositive`).
* Codec (subject to `CodecWidths`: a group has at least two values, five groups hold a
  label): `RoundTrip`, and `WhereDecodersDiffer`, which says of every text what makes one decoder take
  and the other refuse it, and that both read it alike where both take it and the label fits. Shifts are divisions, and a group is the rest of
  one (`ShiftTypes`); a written label ends where it says (`EndsThere`), and Horner's
  scheme puts the groups together again (`ValueThere`). `Layout` says where in a payload
  everything stands, whoever wrote it, and `Decoded` what both decoders make of it.
* Identities (also subject to `DerivationTypes`, `SigningGroup`, `IdentityConstants`,
  `NoncesShow`, `NoCollisions`): `IdentityTyped`, `PaymentsSurviveLoss`,
  `IdentitiesStayApart`, `OwnStringsRead`, `NothingMisread`, `EveryoneIsPaidAsWritten` from
  `IdentityInv`: all keys come from their origin, by a nonce of 0 if it is repeatable
  (`DerivedFrom`), strings are own or foreign (`ShownInv`), and a payment is derived from the
  meta-address of its identity (`PaidInv`). The properties alone are not inductive: they compare
  keys with payments, and only the origin says that keys derived later are the
  same (`SameAgain`). `EveryoneIsPaidAsWritten` needs no case of what the readers take: whichever
  does take a text has the keys its maker wrote, and the label, the one thing a reader may have
  wrong, is no part of what `derive_payment` computes with. That the guard of `derive_stealth_keys_checked` makes signing deterministic
  is in `DeriveCheckedKeeps`; that what was derived recovers and signs, in `Recover` and
  `SignatureVerifies`.
* Live scanning (subject to `LiveScanConstants`): `LiveScanTypes`,
  `RustSkipsMalformedLines`, `BackfillClosesGap` from `LiveScanInv`. What is under way is the newest
  end of the chain (`StreamIsSuffix`), and everything before it was read once a gap is
  closed (`ReadUpTo`); what was read was heard as far as it is readable (`HeardIsRead`). What the
  TypeScript SDK hears besides is in the type invariant: events that break off or go on.
  `WhereParsersDiffer` compares the two parsers on any log.
* The demo (subject to `LifecycleConstants`): `LifecycleTypes`,
  `DemoValueHasItsNote` and `DemoLeavesNothingBehind` from `LifecycleInv`. Transfer and note are
  one transaction, so what landed is on the ledger with its note (`Ledger`); what each
  account holds follows from which transactions landed (`Balances`) and whether a sweep failed,
  whose fee is gone (`Burnt`); at each `pc` the
  program knows which those are (`Progress`), and the sweep it sends spends a balance that
  had landed (`SpendsWhatLanded`).

Every invariant that a passing run checks is proved, and every action property and
refinement. Only model-checked is liveness (`EventuallySettled`, `EventuallyPublished`,
`EventuallyServed`, `EventuallyAnnounced`, `EventuallySwept`, `Terminates`, `Succeeds`): it
needs fairness, hence ENABLED, which is beyond these provers. The runs also check that the
assumptions of the theorems hold on their instances, so that none is proved from a
contradiction; `NoForeignMatches` and `NoCollisions` hold there although the groups are small.

## 5. Not modelled, and the plan

The order follows what the service's users depend on next.

Done so far: A, the announcement service; B and D, the pinboard's logs and the
indexer that reads them; E, the registry; C, F and H in one model, the wallet, the keys
and the value of a payment from derivation to sweep; G, the codec of both SDKs; J, the
life of an identity, with the command-line tool; K, live scanning with its
backfill; L, the lifecycle example. Next:

* **I. Tickets across a crash**: a wallet that polls a ticket the service handed out
  before it crashed, composed with `Announcer` itself; the service's promise of
  what a ticket means to one client over two runs.
* Theorems after those: that `Payments` sees of the service what `AnnounceService` allows; that
  what a recipient adds up (`CountedOnce` says which accounts) is what was sent less
  what was swept.

Left out for good: hashing, curve arithmetic and signatures beyond their
algebra; the computation of checksums (a library's); HTTP, JSON and
base58 beyond "decodes or not"; argument parsing of the programs; the rest of the
TypeScript SDK, which mirrors the Rust SDK call for call and keeps no state; the
site and the deployment scripts (no state).
