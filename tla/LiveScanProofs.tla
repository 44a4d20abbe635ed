--------------------------- MODULE LiveScanProofs ----------------------------
(***************************************************************************)
(* Theorems about LiveScan, for every log and every bound and for either   *)
(* SDK: what its parser makes of a line decides what is heard.             *)
(***************************************************************************)
EXTENDS LiveScan, SequenceTheorems, TLAPS

\* What is under way are the newest transactions, in order, and only to a subscriber.
StreamIsSuffix ==
  /\ stream \in Seq(Nat) /\ Len(stream) <= Len(ledger)
  /\ \A i \in 1..Len(stream) : stream[i] = Len(ledger) - Len(stream) + i
  /\ ~online => stream = <<>>

\* Up to the last gap everything was read, and after it once the gap is closed.
ReadUpTo ==
  /\ looked \subseteq 1..Len(ledger)
  /\ upto \in 0..Len(ledger) /\ 1..upto \subseteq looked
  /\ caughtUp => online /\ 1..(Len(ledger) - Len(stream)) \subseteq looked

\* What the SDK gets to the end of was heard.
HearsReadable == \A n \in looked : Readable(n) => NotePlaces(n) \subseteq heard

\* What was read was heard, and nothing else.
HeardIsRead ==
  /\ HearsReadable
  /\ RustSkipsMalformed
  /\ heard \subseteq UNION {PlacesOf(TakenFor, n) : n \in 1..Len(ledger)}

Flags ==
  /\ app \in {"rust", "typescript"}
  /\ ledger \in Seq(Logs) /\ Len(ledger) <= MaxTxs
  /\ online \in BOOLEAN /\ caughtUp \in BOOLEAN /\ cuts \in 0..MaxCuts

LiveScanInv == Flags /\ StreamIsSuffix /\ ReadUpTo /\ HeardIsRead

------------------------------------------------------------------------------
(* What a log gives *)

LogLines == \A i \in DOMAIN ledger : \A j \in DOMAIN ledger[i] :
  /\ ledger[i][j].kind \in LineKinds
  /\ ledger[i][j].kind \in {"note", "longer", "cut"} => ledger[i][j].note \notin {NoNote, ParseError}

LEMMA LinesTyped == ASSUME ledger \in Seq(Logs) PROVE LogLines
BY LiveScanConstants DEF LiveScanConstants, LogLines

\* What each SDK makes of a line of a known kind.
LEMMA ParseExact ==
  ASSUME NEW line, line.kind \in LineKinds,
         line.kind \in {"note", "longer", "cut"} => line.note \notin {NoNote, ParseError}
  PROVE  /\ try_parse_note_log(line) \notin {NoNote, ParseError} <=> line.kind = "note"
         /\ line.kind = "note" => try_parse_note_log(line) = line.note
         /\ tryParseNoteLog(line) \notin {NoNote, ParseError} <=> line.kind \in {"note", "longer", "cut"}
         /\ line.kind \in {"note", "longer", "cut"} => tryParseNoteLog(line) = line.note
         /\ tryParseNoteLog(line) = ParseError => line.kind = "garbled"
BY LiveScanConstants DEF LiveScanConstants, try_parse_note_log, tryParseNoteLog, LineKinds

\* The places of the notes that lines parse to, and of the lines of some kinds.
ParsedAt(n, lines, parsed) ==
  {<<n, found.at, found.note>> :
     found \in {[at |-> i, note |-> parsed[i]] :
                  i \in {j \in DOMAIN lines : parsed[j] \notin {NoNote, ParseError}}}}
KindAt(n, lines, kinds) ==
  {<<n, i, lines[i].note>> : i \in {j \in DOMAIN lines : lines[j].kind \in kinds}}

\* If the lines that parse to a note are those of some kinds, their places are found.
LEMMA Found ==
  ASSUME NEW lines, NEW parsed, NEW kinds, NEW n,
         \A j \in DOMAIN lines :
           /\ parsed[j] \notin {NoNote, ParseError} <=> lines[j].kind \in kinds
           /\ lines[j].kind \in kinds => parsed[j] = lines[j].note
  PROVE  ParsedAt(n, lines, parsed) = KindAt(n, lines, kinds)
<1> DEFINE at == {j \in DOMAIN lines : lines[j].kind \in kinds}
           notes == {[at |-> i, note |-> parsed[i]] : i \in at}
<1>1. {j \in DOMAIN lines : parsed[j] \notin {NoNote, ParseError}} = at
  OBVIOUS
<1>2. \A i \in at : parsed[i] = lines[i].note
  OBVIOUS
<1> HIDE DEF at
<1>3. ASSUME NEW i \in at
      PROVE  <<n, i, lines[i].note>> \in {<<n, found.at, found.note>> : found \in notes}
  <2> DEFINE found == [at |-> i, note |-> parsed[i]]
  <2>1. found \in notes /\ found.at = i /\ found.note = lines[i].note
    BY <1>2
  <2> QED
    BY <2>1
<1>4. ASSUME NEW found \in notes
      PROVE  <<n, found.at, found.note>> \in {<<n, i, lines[i].note>> : i \in at}
  BY <1>2
<1>5. {<<n, found.at, found.note>> : found \in notes} = {<<n, i, lines[i].note>> : i \in at}
  BY <1>3, <1>4
<1> QED
  BY <1>1, <1>5 DEF at, ParsedAt, KindAt

\* A log is read for what the SDK takes for notes, and for all of its notes if it is
\* readable; with the Rust SDK for its notes and nothing else.
LEMMA ReadsAllNotes ==
  ASSUME app \in {"rust", "typescript"}, ledger \in Seq(Logs), NEW n \in DOMAIN ledger
  PROVE  /\ NotesIn(n) \subseteq PlacesOf(TakenFor, n)
         /\ Readable(n) => NotePlaces(n) \subseteq NotesIn(n)
         /\ app = "rust" => NotesIn(n) = NotePlaces(n)
<1> DEFINE lines == ledger[n]
           rust == [j \in DOMAIN lines |-> try_parse_note_log(lines[j])]
           typescript == [j \in DOMAIN lines |-> tryParseNoteLog(lines[j])]
<1>1. \A j \in DOMAIN lines :
        /\ lines[j].kind \in LineKinds
        /\ lines[j].kind \in {"note", "longer", "cut"} => lines[j].note \notin {NoNote, ParseError}
  BY LinesTyped DEF LogLines
<1>2. {<<n, found.at, found.note>> : found \in notes_from_log_lines(lines)} = PlacesOf({"note"}, n)
  <2>1. \A j \in DOMAIN lines :
          /\ rust[j] \notin {NoNote, ParseError} <=> lines[j].kind \in {"note"}
          /\ lines[j].kind \in {"note"} => rust[j] = lines[j].note
    BY <1>1, ParseExact
  <2>2. {<<n, found.at, found.note>> : found \in notes_from_log_lines(lines)}
          = ParsedAt(n, lines, rust)
    BY DEF notes_from_log_lines, NotesParsed, ParsedAt
  <2>3. PlacesOf({"note"}, n) = KindAt(n, lines, {"note"})
    BY DEF PlacesOf, KindAt
  <2> HIDE DEF rust, lines
  <2>4. ParsedAt(n, lines, rust) = KindAt(n, lines, {"note"})
    BY <2>1, Found
  <2> QED
    BY <2>2, <2>3, <2>4
<1>3. {<<n, found.at, found.note>> : found \in NotesParsed(lines, tryParseNoteLog)}
        = PlacesOf({"note", "longer", "cut"}, n)
  <2>1. \A j \in DOMAIN lines :
          /\ typescript[j] \notin {NoNote, ParseError} <=> lines[j].kind \in {"note", "longer", "cut"}
          /\ lines[j].kind \in {"note", "longer", "cut"} => typescript[j] = lines[j].note
    BY <1>1, ParseExact
  <2>2. {<<n, found.at, found.note>> : found \in NotesParsed(lines, tryParseNoteLog)}
          = ParsedAt(n, lines, typescript)
    BY DEF NotesParsed, ParsedAt
  <2>3. PlacesOf({"note", "longer", "cut"}, n) = KindAt(n, lines, {"note", "longer", "cut"})
    BY DEF PlacesOf, KindAt
  <2> HIDE DEF typescript, lines
  <2>4. ParsedAt(n, lines, typescript) = KindAt(n, lines, {"note", "longer", "cut"})
    BY <2>1, Found
  <2> QED
    BY <2>2, <2>3, <2>4
<1>4. NotePlaces(n) \subseteq PlacesOf({"note", "longer", "cut"}, n) /\ NotePlaces(n) = PlacesOf({"note"}, n)
  BY DEF NotePlaces, PlacesOf
<1>5. CASE app = "rust"
  <2>1. NotesIn(n) = {<<n, found.at, found.note>> : found \in notes_from_log_lines(lines)}
    BY <1>5 DEF NotesIn, Notes
  <2>2. TakenFor = {"note"}
    BY <1>5 DEF TakenFor
  <2> HIDE DEF lines
  <2> QED
    BY <1>2, <1>4, <2>1, <2>2
<1>6. CASE app = "typescript"
  <2>1. NotesIn(n) = {<<n, found.at, found.note>> : found \in notesFromLogLines(lines)}
    BY <1>6 DEF NotesIn, Notes
  <2>2. TakenFor = {"note", "longer", "cut"}
    BY <1>6 DEF TakenFor
  <2>3. \/ notesFromLogLines(lines) = NotesParsed(lines, tryParseNoteLog)
        \/ notesFromLogLines(lines) = {} /\ ~Readable(n)
    <3>1. (\E i \in DOMAIN lines : tryParseNoteLog(lines[i]) = ParseError) => ~Readable(n)
      BY <1>1, <1>6, ParseExact DEF Readable
    <3> QED
      BY <3>1 DEF notesFromLogLines
  <2>4. app # "rust"
    BY <1>6
  <2> HIDE DEF lines
  <2> QED
    BY <1>3, <1>4, <2>1, <2>2, <2>3, <2>4
<1> QED
  BY <1>5, <1>6

------------------------------------------------------------------------------
(* The invariant is inductive *)

LEMMA InitHolds == ASSUME Init PROVE LiveScanInv
<1>1. Len(ledger) = 0 /\ Len(stream) = 0 /\ DOMAIN ledger = {} /\ 1..Len(ledger) = {}
  BY DEF Init
<1>2. Flags
  <2>1. ledger \in Seq(Logs) /\ MaxTxs \in Nat /\ MaxCuts \in Nat
    BY LiveScanConstants, EmptySeq DEF Init, LiveScanConstants
  <2>2. Len(ledger) <= MaxTxs
    BY <1>1, <2>1
  <2>3. online \in BOOLEAN /\ caughtUp \in BOOLEAN /\ cuts \in 0..MaxCuts
    <3>1. online = FALSE /\ caughtUp = FALSE
      BY DEF Init
    <3>2. cuts = 0
      BY DEF Init
    <3>3. cuts \in 0..MaxCuts
      BY <2>1, <3>2
    <3> QED
      BY <3>1, <3>3, Zenon
  <2>4. app \in {"rust", "typescript"}
    BY DEF Init
  <2> QED
    BY <2>1, <2>2, <2>3, <2>4 DEF Flags
<1>4. StreamIsSuffix
  <2>1. stream \in Seq(Nat)
    BY EmptySeq DEF Init
  <2> QED
    BY <1>1, <2>1 DEF Init, StreamIsSuffix
<1>3. ReadUpTo /\ HeardIsRead
  <2>1. heard = {} /\ looked = {}
    BY DEF Init
  <2>2. RustSkipsMalformed
    BY <2>1 DEF RustSkipsMalformed, SkipsMalformed
  <2> QED
    BY <1>1, <2>1, <2>2 DEF Init, ReadUpTo, HeardIsRead, HearsReadable
<1> QED
  BY <1>2, <1>3, <1>4 DEF LiveScanInv

LEMMA PostKeeps ==
  ASSUME LiveScanInv, NEW lines \in Logs, Post(lines)
  PROVE  LiveScanInv'
<1> DEFINE n == Len(ledger) + 1
<1>1. /\ ledger \in Seq(Logs) /\ stream \in Seq(Nat)
      /\ Len(ledger) \in Nat /\ Len(stream) \in Nat /\ MaxTxs \in Nat
  BY LenProperties, LiveScanConstants DEF LiveScanInv, Flags, StreamIsSuffix, LiveScanConstants
<1>2. /\ ledger' \in Seq(Logs) /\ Len(ledger') = n
      /\ \A i \in 1..Len(ledger) : ledger'[i] = ledger[i]
  BY <1>1, AppendProperties DEF Post
<1>3. \A i \in 1..Len(ledger) : /\ PlacesOf(TakenFor, i)' = PlacesOf(TakenFor, i)
                                /\ NotePlaces(i)' = NotePlaces(i) /\ Readable(i)' = Readable(i)
  BY <1>2 DEF NotePlaces, PlacesOf, TakenFor, Readable, Post
<1>4. Flags'
  BY <1>1, <1>2 DEF Post, LiveScanInv, Flags
<1>5. StreamIsSuffix'
  <2>1. CASE online
    <3>1. /\ stream' \in Seq(Nat) /\ Len(stream') = Len(stream) + 1
          /\ \A i \in 1..Len(stream) : stream'[i] = stream[i]
          /\ stream'[Len(stream) + 1] = n
      BY <1>1, <2>1, AppendProperties DEF Post
    <3>2. ASSUME NEW i \in 1..Len(stream') PROVE stream'[i] = Len(ledger') - Len(stream') + i
      <4>1. CASE i = Len(stream) + 1
        BY <1>1, <1>2, <3>1, <4>1
      <4>2. CASE i \in 1..Len(stream)
        <5>1. stream[i] = Len(ledger) - Len(stream) + i
          BY <4>2 DEF LiveScanInv, StreamIsSuffix
        <5> HIDE DEF n
        <5> QED
          BY <1>1, <1>2, <3>1, <4>2, <5>1 DEF n
      <4> QED
        BY <1>1, <3>1, <4>1, <4>2
    <3> QED
      BY <1>1, <1>2, <2>1, <3>1, <3>2 DEF Post, LiveScanInv, StreamIsSuffix
  <2>2. CASE ~online
    <3>1. stream' = <<>> /\ Len(stream') = 0
      BY <2>2 DEF Post, LiveScanInv, StreamIsSuffix
    <3> QED
      BY <1>1, <1>2, <2>2, <3>1 DEF Post, StreamIsSuffix
  <2> QED
    BY <2>1, <2>2
<1>6. ReadUpTo'
  <2>1. caughtUp => Len(ledger') - Len(stream') = Len(ledger) - Len(stream)
    BY <1>1, <1>2, AppendProperties DEF Post, LiveScanInv, ReadUpTo
  <2>2. upto \in 0..Len(ledger) /\ upto \in 0..Len(ledger')
    BY <1>1, <1>2 DEF LiveScanInv, ReadUpTo
  <2>3. looked' \subseteq 1..Len(ledger')
    BY <1>1, <1>2 DEF Post, LiveScanInv, ReadUpTo
  <2>4. caughtUp' => online' /\ 1..(Len(ledger') - Len(stream')) \subseteq looked'
    BY <2>1 DEF Post, LiveScanInv, ReadUpTo
  <2> QED
    BY <2>2, <2>3, <2>4 DEF Post, LiveScanInv, ReadUpTo
<1>7. HeardIsRead'
  <2>1. looked \subseteq 1..Len(ledger) /\ looked' = looked /\ heard' = heard
    BY DEF Post, LiveScanInv, ReadUpTo
  <2>2. HearsReadable'
    BY <1>3, <2>1 DEF LiveScanInv, HeardIsRead, HearsReadable
  <2>4. RustSkipsMalformed'
    <3>1. \A i \in looked : NotePlaces(i)' = NotePlaces(i)
      BY <1>3, <2>1
    <3>2. (UNION {NotePlaces(i) : i \in looked})' = UNION {NotePlaces(i) : i \in looked}
      BY <2>1, <3>1
    <3>3. app' = app
      BY DEF Post
    <3> QED
      BY <2>1, <3>2, <3>3 DEF LiveScanInv, HeardIsRead, RustSkipsMalformed, SkipsMalformed
  <2>3. \A i \in 1..Len(ledger) : i \in 1..Len(ledger')
    BY <1>1, <1>2
  <2> QED
    BY <1>3, <2>1, <2>2, <2>3, <2>4 DEF LiveScanInv, HeardIsRead
<1> QED
  BY <1>4, <1>5, <1>6, <1>7 DEF LiveScanInv

\* Reading transactions, live or in a backfill.
LEMMA ReadKeeps ==
  ASSUME app \in {"rust", "typescript"}, app' = app, ledger \in Seq(Logs), HeardIsRead, NEW txs \in SUBSET DOMAIN ledger,
         looked' = looked \cup txs, ledger' = ledger,
         heard' = heard \cup UNION {NotesIn(n) : n \in txs}
  PROVE  HeardIsRead'
<1>1. \A n \in DOMAIN ledger : PlacesOf(TakenFor, n)' = PlacesOf(TakenFor, n)
  BY DEF PlacesOf, TakenFor
<1>2. \A n \in txs : /\ NotesIn(n) \subseteq PlacesOf(TakenFor, n)
                     /\ Readable(n) => NotePlaces(n) \subseteq NotesIn(n)
                     /\ app = "rust" => NotesIn(n) = NotePlaces(n)
  BY ReadsAllNotes
<1>3. DOMAIN ledger = 1..Len(ledger)
  BY LenProperties
<1>4. ASSUME NEW n \in looked', Readable(n)' PROVE NotePlaces(n)' \subseteq heard'
  <2>1. NotePlaces(n)' = NotePlaces(n) /\ Readable(n)
    BY <1>4 DEF NotePlaces, PlacesOf, Readable
  <2> QED
    BY <1>2, <1>4, <2>1 DEF HeardIsRead, HearsReadable
<1>5. heard' \subseteq UNION {PlacesOf(TakenFor, n) : n \in 1..Len(ledger)}
  BY <1>2, <1>3 DEF HeardIsRead
<1>6. heard' \subseteq (UNION {PlacesOf(TakenFor, n) : n \in 1..Len(ledger)})'
  BY <1>1, <1>3, <1>5
<1>7. ASSUME app = "rust" PROVE SkipsMalformed'
  <2>1. \A n : NotePlaces(n)' = NotePlaces(n)
    BY DEF NotePlaces, PlacesOf
  <2>2. heard = UNION {NotePlaces(n) : n \in looked}
    BY <1>7 DEF HeardIsRead, RustSkipsMalformed, SkipsMalformed
  <2>3. UNION {NotesIn(n) : n \in txs} = UNION {NotePlaces(n) : n \in txs}
    BY <1>2, <1>7
  <2>4. heard' = UNION {NotePlaces(n) : n \in looked'}
    BY <2>2, <2>3
  <2>5. UNION {NotePlaces(n) : n \in looked'} = (UNION {NotePlaces(n) : n \in looked})'
    BY <2>1
  <2> QED
    BY <2>4, <2>5 DEF SkipsMalformed
<1> QED
  BY <1>4, <1>6, <1>7 DEF HeardIsRead, HearsReadable, RustSkipsMalformed

LEMMA ReceiveKeeps ==
  ASSUME LiveScanInv, Receive
  PROVE  LiveScanInv'
<1>1. /\ ledger \in Seq(Logs) /\ stream \in Seq(Nat) /\ stream # <<>>
      /\ Len(ledger) \in Nat /\ Len(stream) \in Nat /\ DOMAIN ledger = 1..Len(ledger)
  BY LenProperties DEF Receive, LiveScanInv, Flags, StreamIsSuffix
<1>2. Len(stream) > 0
  BY <1>1, EmptySeq
<1>3. /\ stream' \in Seq(Nat) /\ Len(stream') = Len(stream) - 1
      /\ \A i \in 1..Len(stream') : stream'[i] = stream[i + 1]
  BY <1>1, HeadTailProperties DEF Receive
<1>4. Head(stream) = stream[1] /\ stream[1] = Len(ledger) - Len(stream) + 1
  BY <1>1, <1>2 DEF LiveScanInv, StreamIsSuffix
<1>5. Head(stream) \in DOMAIN ledger
  BY <1>1, <1>2, <1>4 DEF LiveScanInv, StreamIsSuffix
<1>6. Flags'
  BY DEF Receive, LiveScanInv, Flags
<1>7. StreamIsSuffix'
  <2>1. online
    BY <1>1 DEF LiveScanInv, StreamIsSuffix
  <2>2. \A i \in 1..Len(stream') : stream'[i] = Len(ledger') - Len(stream') + i
    <3>1. ASSUME NEW i \in 1..Len(stream')
          PROVE  i + 1 \in 1..Len(stream) /\ stream'[i] = Len(ledger) - Len(stream) + (i + 1)
      BY <1>1, <1>2, <1>3 DEF LiveScanInv, StreamIsSuffix
    <3>2. ledger' = ledger
      BY DEF Receive
    <3> QED
      BY <1>1, <1>3, <3>1, <3>2
  <2> QED
    BY <1>1, <1>3, <2>1, <2>2 DEF Receive, LiveScanInv, StreamIsSuffix
<1>8. ReadUpTo'
  <2>1. \A n \in 1..(Len(ledger) - Len(stream')) :
          n = Head(stream) \/ n \in 1..(Len(ledger) - Len(stream))
    BY <1>1, <1>2, <1>3, <1>4
  <2> QED
    BY <1>1, <1>5, <2>1 DEF Receive, LiveScanInv, ReadUpTo
<1>9. HeardIsRead'
  <2>1. heard' = heard \cup UNION {NotesIn(n) : n \in {Head(stream)}}
    BY DEF Receive
  <2>2. /\ app \in {"rust", "typescript"} /\ app' = app /\ ledger' = ledger /\ HeardIsRead
        /\ looked' = looked \cup {Head(stream)}
    BY DEF Receive, LiveScanInv, Flags
  <2>3. {Head(stream)} \in SUBSET DOMAIN ledger
    BY <1>5
  <2> QED
    BY <1>1, <2>1, <2>2, <2>3, ReadKeeps
<1> QED
  BY <1>6, <1>7, <1>8, <1>9 DEF LiveScanInv

LEMMA BackfillKeeps ==
  ASSUME LiveScanInv, Backfill
  PROVE  LiveScanInv'
<1>1. /\ ledger \in Seq(Logs) /\ Len(ledger) \in Nat /\ Len(stream) \in Nat
      /\ DOMAIN ledger = 1..Len(ledger) /\ Limit \in Nat
  BY LenProperties, LiveScanConstants DEF LiveScanInv, Flags, StreamIsSuffix, LiveScanConstants
<1>2. Newest \subseteq DOMAIN ledger
  BY DEF Newest
<1>3. Flags' /\ StreamIsSuffix'
  BY DEF Backfill, LiveScanInv, Flags, StreamIsSuffix
<1>4. ReadUpTo'
  <2>1. caughtUp' => 1..Len(ledger) \subseteq looked'
    <3>1. ASSUME caughtUp', NEW n \in 1..Len(ledger) PROVE n \in looked \/ n \in Newest
      <4>1. upto >= Len(ledger) - Limit
        BY <3>1, Zenon DEF Backfill
      <4>2. upto \in Nat /\ 1..upto \subseteq looked
        BY <1>1 DEF LiveScanInv, ReadUpTo
      <4>3. CASE n <= upto
        BY <1>1, <4>2, <4>3
      <4>4. CASE n > upto
        BY <1>1, <4>1, <4>2, <4>4 DEF Newest
      <4> QED
        BY <1>1, <4>2, <4>3, <4>4
    <3> QED
      BY <3>1 DEF Backfill
  <2>2. caughtUp' => online' /\ 1..(Len(ledger') - Len(stream')) \subseteq looked'
    BY <1>1, <2>1 DEF Backfill
  <2> QED
    BY <1>1, <1>2, <2>2 DEF Backfill, LiveScanInv, ReadUpTo
<1>5. HeardIsRead'
  <2>1. /\ app \in {"rust", "typescript"} /\ app' = app /\ ledger' = ledger /\ HeardIsRead
        /\ looked' = looked \cup Newest /\ heard' = heard \cup UNION {NotesIn(n) : n \in Newest}
    BY DEF Backfill, LiveScanInv, Flags
  <2> QED
    BY <1>1, <1>2, <2>1, ReadKeeps
<1> QED
  BY <1>3, <1>4, <1>5 DEF LiveScanInv

LEMMA NextKeeps ==
  ASSUME LiveScanInv, [Next]_vars
  PROVE  LiveScanInv'
<1>1. ASSUME NEW lines \in Logs, Post(lines) PROVE LiveScanInv'
  BY <1>1, PostKeeps
<1>2. CASE Subscribe
  <2>1. HeardIsRead'
    BY <1>2 DEF Subscribe, LiveScanInv, HeardIsRead, HearsReadable, RustSkipsMalformed, SkipsMalformed, NotePlaces, PlacesOf, TakenFor, Readable
  <2> QED
    BY <1>2, <2>1 DEF Subscribe, LiveScanInv, Flags, StreamIsSuffix, ReadUpTo
<1>3. CASE Receive
  BY <1>3, ReceiveKeeps
<1>4. CASE StreamEnds
  <2>1. /\ stream' = <<>> /\ Len(stream') = 0 /\ stream' \in Seq(Nat)
        /\ Len(ledger) \in Nat /\ Len(stream) \in Nat /\ Len(stream) <= Len(ledger)
    BY <1>4, LenProperties DEF StreamEnds, LiveScanInv, Flags, StreamIsSuffix
  <2>2. HeardIsRead'
    BY <1>4 DEF StreamEnds, LiveScanInv, HeardIsRead, HearsReadable, RustSkipsMalformed, SkipsMalformed, NotePlaces, PlacesOf, TakenFor, Readable
  <2>3. Flags'
    <3>1. cuts' \in 0..MaxCuts
      BY <1>4, LiveScanConstants DEF StreamEnds, LiveScanInv, Flags, LiveScanConstants
    <3> QED
      BY <1>4, <3>1 DEF StreamEnds, LiveScanInv, Flags
  <2>4. StreamIsSuffix'
    BY <1>4, <2>1 DEF StreamEnds, StreamIsSuffix
  <2>5. ReadUpTo'
    BY <1>4, <2>1 DEF StreamEnds, LiveScanInv, ReadUpTo
  <2> QED
    BY <2>2, <2>3, <2>4, <2>5 DEF LiveScanInv
<1>5. CASE Backfill
  BY <1>5, BackfillKeeps
<1>6. CASE UNCHANGED vars
  <2>1. HeardIsRead'
    BY <1>6 DEF vars, LiveScanInv, HeardIsRead, HearsReadable, RustSkipsMalformed, SkipsMalformed, NotePlaces, PlacesOf, TakenFor, Readable
  <2> QED
    BY <1>6, <2>1 DEF vars, LiveScanInv, Flags, StreamIsSuffix, ReadUpTo
<1> QED
  BY <1>1, <1>2, <1>3, <1>4, <1>5, <1>6 DEF Next

LEMMA LiveScanInvHolds == Spec => []LiveScanInv
<1>1. Init => LiveScanInv
  BY InitHolds
<1>2. LiveScanInv /\ [Next]_vars => LiveScanInv'
  BY NextKeeps
<1> QED
  BY <1>1, <1>2, PTL DEF Spec

------------------------------------------------------------------------------
(* Theorems *)

\* Whatever transactions log, an application of the Rust SDK hears the notes in those that
\* it read, each of them and no other: what the comment of notes_from_log_lines says of
\* malformed lines.
THEOREM RustSkipsMalformedLines == Spec => []RustSkipsMalformed
<1>1. LiveScanInv => RustSkipsMalformed
  BY DEF LiveScanInv, HeardIsRead
<1> QED
  BY <1>1, LiveScanInvHolds, PTL

\* Subscribing first and filling the gap then leaves no note unheard, for every log, every
\* limit of the backfill and every order of the connection's losses.
THEOREM BackfillClosesGap == Spec => []NoGap
<1>1. ASSUME LiveScanInv, caughtUp, NEW n \in DOMAIN ledger, Readable(n)
      PROVE  NotePlaces(n) \subseteq heard \/ Coming(n)
  <2>1. /\ Len(ledger) \in Nat /\ Len(stream) \in Nat /\ n \in 1..Len(ledger)
        /\ DOMAIN stream = 1..Len(stream)
    BY <1>1, LenProperties DEF LiveScanInv, Flags, StreamIsSuffix
  <2>2. CASE n \in looked
    BY <1>1, <2>2 DEF LiveScanInv, HeardIsRead, HearsReadable
  <2>3. CASE n \notin looked
    <3> DEFINE i == n - (Len(ledger) - Len(stream))
    <3>1. n \notin 1..(Len(ledger) - Len(stream))
      BY <1>1, <2>3 DEF LiveScanInv, ReadUpTo
    <3>2. i \in DOMAIN stream /\ stream[i] = n
      BY <1>1, <2>1, <3>1 DEF LiveScanInv, StreamIsSuffix
    <3> QED
      BY <3>2 DEF Coming
  <2> QED
    BY <2>2, <2>3
<1>2. LiveScanInv => NoGap
  BY <1>1 DEF NoGap
<1> QED
  BY <1>2, LiveScanInvHolds, PTL

\* Types of the subscription; what is heard stands on the chain as a Note event, with the
\* TypeScript SDK perhaps one that breaks off or goes on.
THEOREM LiveScanTypes == Spec => []TypeOK
<1>1. ASSUME LiveScanInv PROVE TypeOK
  <2>1. DOMAIN ledger = 1..Len(ledger) /\ Len(ledger) \in Nat /\ Len(stream) \in Nat
    BY <1>1, LenProperties DEF LiveScanInv, Flags, StreamIsSuffix
  <2>2. \A i \in 1..Len(stream) : stream[i] \in DOMAIN ledger
    BY <1>1, <2>1 DEF LiveScanInv, StreamIsSuffix
  <2>3. stream \in Seq(DOMAIN ledger)
    <3>1. stream \in [1..Len(stream) -> DOMAIN ledger]
      BY <1>1, <2>2, LenProperties DEF LiveScanInv, StreamIsSuffix
    <3> QED
      BY <2>1, <3>1, SeqDef
  <2> QED
    BY <1>1, <2>1, <2>3 DEF LiveScanInv, Flags, ReadUpTo, HeardIsRead, TypeOK
<1>2. LiveScanInv => TypeOK
  BY <1>1
<1> QED
  BY <1>2, LiveScanInvHolds, PTL
------------------------------------------------------------------------------
(* The two parsers *)

\* The places of lines of some kinds in a log, with their notes.
LinesOf(lines, kinds) ==
  {[at |-> i, note |-> lines[i].note] : i \in {j \in DOMAIN lines : lines[j].kind \in kinds}}

\* If the lines that parse to a note are those of some kinds, they are what is found.
LEMMA FoundLines ==
  ASSUME NEW lines, NEW parsed, NEW kinds,
         \A j \in DOMAIN lines :
           /\ parsed[j] \notin {NoNote, ParseError} <=> lines[j].kind \in kinds
           /\ lines[j].kind \in kinds => parsed[j] = lines[j].note
  PROVE  {[at |-> i, note |-> parsed[i]] : i \in {j \in DOMAIN lines : parsed[j] \notin {NoNote, ParseError}}}
           = LinesOf(lines, kinds)
<1> DEFINE at == {j \in DOMAIN lines : lines[j].kind \in kinds}
<1>1. {j \in DOMAIN lines : parsed[j] \notin {NoNote, ParseError}} = at
  OBVIOUS
<1>2. \A i \in at : parsed[i] = lines[i].note
  OBVIOUS
<1> HIDE DEF at
<1>3. {[at |-> i, note |-> parsed[i]] : i \in at} = {[at |-> i, note |-> lines[i].note] : i \in at}
  BY <1>2
<1> QED
  BY <1>1, <1>3 DEF at, LinesOf

\* What the two SDKs make of one log, whatever stands in it.  A line that is no base64 costs
\* the TypeScript SDK all notes of the transaction; in all other transactions it finds what
\* the Rust SDK finds, and takes for notes, besides, events that break off or go on.  Both
\* comments say "malformed Note lines are skipped", which is true of the Rust SDK.
THEOREM WhereParsersDiffer ==
  ASSUME NEW lines \in Logs
  PROVE  /\ notes_from_log_lines(lines) = LinesOf(lines, {"note"})
         /\ IF \E i \in DOMAIN lines : lines[i].kind = "garbled"
            THEN notesFromLogLines(lines) = {}
            ELSE notesFromLogLines(lines)
                   = notes_from_log_lines(lines) \cup LinesOf(lines, {"cut", "longer"})
<1> DEFINE rust == [j \in DOMAIN lines |-> try_parse_note_log(lines[j])]
           typescript == [j \in DOMAIN lines |-> tryParseNoteLog(lines[j])]
<1>1. \A j \in DOMAIN lines :
        /\ lines[j].kind \in LineKinds
        /\ lines[j].kind \in {"note", "longer", "cut"} => lines[j].note \notin {NoNote, ParseError}
  BY LiveScanConstants DEF LiveScanConstants
<1>2. notes_from_log_lines(lines) = LinesOf(lines, {"note"})
  <2>1. \A j \in DOMAIN lines :
          /\ rust[j] \notin {NoNote, ParseError} <=> lines[j].kind \in {"note"}
          /\ lines[j].kind \in {"note"} => rust[j] = lines[j].note
    BY <1>1, ParseExact
  <2>2. notes_from_log_lines(lines)
          = {[at |-> i, note |-> rust[i]] : i \in {j \in DOMAIN lines : rust[j] \notin {NoNote, ParseError}}}
    BY DEF notes_from_log_lines, NotesParsed
  <2> HIDE DEF rust
  <2> QED
    BY <2>1, <2>2, FoundLines
<1>3. NotesParsed(lines, tryParseNoteLog) = LinesOf(lines, {"note", "longer", "cut"})
  <2>1. \A j \in DOMAIN lines :
          /\ typescript[j] \notin {NoNote, ParseError} <=> lines[j].kind \in {"note", "longer", "cut"}
          /\ lines[j].kind \in {"note", "longer", "cut"} => typescript[j] = lines[j].note
    BY <1>1, ParseExact
  <2>2. NotesParsed(lines, tryParseNoteLog)
          = {[at |-> i, note |-> typescript[i]] :
               i \in {j \in DOMAIN lines : typescript[j] \notin {NoNote, ParseError}}}
    BY DEF NotesParsed
  <2> HIDE DEF typescript
  <2> QED
    BY <2>1, <2>2, FoundLines
<1>4. LinesOf(lines, {"note", "longer", "cut"})
        = LinesOf(lines, {"note"}) \cup LinesOf(lines, {"cut", "longer"})
  BY DEF LinesOf
<1>5. \A j \in DOMAIN lines : tryParseNoteLog(lines[j]) = ParseError <=> lines[j].kind = "garbled"
  <2>1. \A j \in DOMAIN lines : lines[j].kind = "garbled" => tryParseNoteLog(lines[j]) = ParseError
    BY DEF tryParseNoteLog
  <2> QED
    BY <1>1, <2>1, ParseExact
<1> QED
  BY <1>2, <1>3, <1>4, <1>5 DEF notesFromLogLines
==============================================================================
