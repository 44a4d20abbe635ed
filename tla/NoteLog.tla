------------------------------- MODULE NoteLog -------------------------------
(***************************************************************************)
(* Notes in the log lines of a transaction: try_parse_note_log of          *)
(* pinboard.rs, notes_from_log_lines of scan_stream.rs, and their          *)
(* counterparts of the TypeScript SDK.  A line is a record with a kind,    *)
(*   "text"     it does not start with "Program data: "                    *)
(*   "short"    data of less than a discriminator                          *)
(*   "other"    data with another discriminator than Note's                *)
(*   "garbled"  data that is no base64: a program that logs several fields *)
(*              at once has them in one line, with spaces between them     *)
(*   "cut"      a Note event that breaks off                               *)
(*   "longer"   a Note event with more bytes after its fields              *)
(*   "note"     a Note event                                               *)
(* and, for the last three, a note: of an event that breaks off, what a    *)
(* reader without bounds checks makes of the bytes there are, a note that  *)
(* nobody posted.  What is found in a log is a set: each note with the     *)
(* place of its line, which orders them.                                   *)
(***************************************************************************)
EXTENDS Integers, Sequences

CONSTANTS NoNote,    \* Ok(None); null in TypeScript
          ParseError \* Err; an exception in TypeScript

LineKinds == {"text", "short", "other", "garbled", "cut", "longer", "note"}

\* Borsh wants all of the fields and nothing behind them.
try_parse_note_log(line) ==
  CASE line.kind \in {"text", "short", "other"} -> NoNote
    [] line.kind \in {"garbled", "cut", "longer"} -> ParseError
    [] line.kind = "note" -> line.note

\* The ByteReader looks neither whether bytes are there nor whether some are left.
tryParseNoteLog(line) ==
  CASE line.kind \in {"text", "short", "other"} -> NoNote
    [] line.kind = "garbled" -> ParseError
    [] line.kind \in {"cut", "longer", "note"} -> line.note

NotesParsed(lines, Parse(_)) ==
  {[at |-> i, note |-> Parse(lines[i])] :
     i \in {j \in DOMAIN lines : Parse(lines[j]) \notin {NoNote, ParseError}}}

\* Faulty: an error ends the search.
NotesUnlessError(lines) ==
  IF \E i \in DOMAIN lines : try_parse_note_log(lines[i]) = ParseError
  THEN {} ELSE NotesParsed(lines, try_parse_note_log)

\* .ok().flatten(): what is no note is skipped.
notes_from_log_lines(lines) == NotesParsed(lines, try_parse_note_log)

\* TypeScript: an exception ends the call.
notesFromLogLines(lines) ==
  IF \E i \in DOMAIN lines : tryParseNoteLog(lines[i]) = ParseError
  THEN {} ELSE NotesParsed(lines, tryParseNoteLog)
==============================================================================
