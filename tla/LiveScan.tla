------------------------------ MODULE LiveScan -------------------------------
(***************************************************************************)
(* A recipient's application that listens for notes: the subscription of   *)
(* scan_stream.rs or scan.ts, which tells of transactions from now on, and *)
(* the backfill for what it missed, which scan_stream.rs leaves to the     *)
(* application (a pass over the newest transactions, as in the demo).      *)
(* The application subscribes first and fills the gap then.                *)
(***************************************************************************)
EXTENDS NoteLog

CONSTANTS
  Logs,       \* what transactions that mention pinboard log, sequences of lines
  Limit,      \* transactions a backfill lists; code: 100
  MaxTxs, MaxCuts  \* bounds: transactions, lost connections

ASSUME LiveScanConstants ==
  /\ {Limit, MaxTxs, MaxCuts} \subseteq Nat /\ NoNote # ParseError
  /\ \A lines \in Logs : \A i \in DOMAIN lines :
       /\ lines[i].kind \in LineKinds
       /\ lines[i].kind \in {"note", "longer", "cut"} => lines[i].note \notin {NoNote, ParseError}

VARIABLES
  app,      \* the SDK the application uses, "rust" or "typescript"
  ledger,   \* what transactions logged, in order
  online,   \* whether the subscription is up
  stream,   \* positions of transactions whose logs are under way
  heard,    \* what on_note was given, with the place of its line in the ledger
  looked,   \* history: transactions whose logs were read, live or in a backfill
  upto,     \* history: before the last gap, all transactions up to here were read
  caughtUp, \* a backfill has closed that gap
  cuts      \* lost connections so far

vars == <<app, ledger, online, stream, heard, looked, upto, caughtUp, cuts>>

Notes(lines) == IF app = "rust" THEN notes_from_log_lines(lines) ELSE notesFromLogLines(lines)
NotesIn(n) == {<<n, found.at, found.note>> : found \in Notes(ledger[n])}

\* What a backfill lists.
Newest == {n \in DOMAIN ledger : n > Len(ledger) - Limit}

------------------------------------------------------------------------------
\* A transaction is confirmed; who subscribes is told.
Post(lines) ==
  /\ Len(ledger) < MaxTxs
  /\ ledger' = Append(ledger, lines)
  /\ stream' = IF online THEN Append(stream, Len(ledger) + 1) ELSE stream
  /\ UNCHANGED <<app, online, heard, looked, upto, caughtUp, cuts>>

\* subscribe_pinboard_notes: what is confirmed from now on comes.
Subscribe ==
  /\ ~online
  /\ online' = TRUE
  /\ UNCHANGED <<app, ledger, stream, heard, looked, upto, caughtUp, cuts>>

\* Faulty: of several messages that wait only the newest is read.
ReceiveNewest ==
  /\ stream # <<>>
  /\ stream' = <<>>
  /\ heard' = heard \cup NotesIn(stream[Len(stream)])
  /\ looked' = looked \cup {stream[Len(stream)]}
  /\ UNCHANGED <<app, ledger, online, upto, caughtUp, cuts>>

\* The next message: on_note for every note in it.
Receive ==
  /\ stream # <<>>
  /\ stream' = Tail(stream)
  /\ heard' = heard \cup NotesIn(Head(stream))
  /\ looked' = looked \cup {Head(stream)}
  /\ UNCHANGED <<app, ledger, online, upto, caughtUp, cuts>>

\* The stream ends: Ok(()), with the messages that did not arrive lost.
StreamEnds ==
  /\ online /\ cuts < MaxCuts
  /\ online' = FALSE /\ stream' = <<>> /\ caughtUp' = FALSE /\ cuts' = cuts + 1
  /\ upto' = IF caughtUp THEN Len(ledger) - Len(stream) ELSE upto
  /\ UNCHANGED <<app, ledger, heard, looked>>

\* The application passes over the newest transactions once it is subscribed again.
Backfill ==
  /\ online /\ ~caughtUp
  /\ looked' = looked \cup Newest
  /\ heard' = heard \cup UNION {NotesIn(n) : n \in Newest}
  /\ caughtUp' = (upto >= Len(ledger) - Limit)
  /\ UNCHANGED <<app, ledger, online, stream, upto, cuts>>

Init ==
  /\ app \in {"rust", "typescript"}
  /\ ledger = <<>> /\ online = FALSE /\ stream = <<>> /\ heard = {} /\ looked = {}
  /\ upto = 0 /\ caughtUp = FALSE /\ cuts = 0

Next ==
  \/ \E lines \in Logs : Post(lines)
  \/ Subscribe \/ Receive \/ StreamEnds \/ Backfill

Spec == Init /\ [][Next]_vars

------------------------------------------------------------------------------
(* Properties *)

\* The places of events of some kinds on the chain.
PlacesOf(kinds, n) ==
  {<<n, i, ledger[n][i].note>> : i \in {j \in DOMAIN ledger[n] : ledger[n][j].kind \in kinds}}

NotePlaces(n) == PlacesOf({"note"}, n)

\* What the application takes for a note.
TakenFor == IF app = "rust" THEN {"note"} ELSE {"note", "longer", "cut"}

\* Types; what is heard stands on the chain as a Note event, with the TypeScript SDK perhaps
\* one that breaks off or goes on.
TypeOK ==
  /\ app \in {"rust", "typescript"}
  /\ ledger \in Seq(Logs) /\ Len(ledger) <= MaxTxs
  /\ online \in BOOLEAN /\ caughtUp \in BOOLEAN
  /\ stream \in Seq(DOMAIN ledger)
  /\ looked \subseteq DOMAIN ledger
  /\ heard \subseteq UNION {PlacesOf(TakenFor, n) : n \in DOMAIN ledger}
  /\ upto \in 0..Len(ledger) /\ cuts \in 0..MaxCuts

\* The comment of notes_from_log_lines and of notesFromLogLines: "malformed Note lines are
\* skipped".  Whoever reads transactions hears the notes in them, all of them and no other.
SkipsMalformed == heard = UNION {NotePlaces(n) : n \in looked}

\* The Rust SDK keeps that promise, over lost connections and whatever else the
\* transactions log; the TypeScript SDK does not, see WhereParsersDiffer.
RustSkipsMalformed == app = "rust" => SkipsMalformed

\* A transaction that the SDK gets to the end of: an exception ends the TypeScript loop.
Readable(n) == app = "rust" \/ \A i \in DOMAIN ledger[n] : ledger[n][i].kind # "garbled"

Coming(n) == \E i \in DOMAIN stream : stream[i] = n

\* A subscription and then a backfill leave no gap: once the backfill reached back to where
\* listening broke off, every readable note on the chain is heard, or its message is under
\* way.
NoGap ==
  caughtUp =>
    \A n \in DOMAIN ledger : Readable(n) => NotePlaces(n) \subseteq heard \/ Coming(n)
==============================================================================
