\* Two lost connections; gaps both shorter and longer than what a backfill lists.
SPECIFICATION Spec
CONSTANTS
  NoNote = NoNote
  ParseError = ParseError
  a = a
  b = b
  bogus = bogus
  Logs <- TheLogs
  Limit = 2
  MaxTxs = 4
  MaxCuts = 2
INVARIANTS
  RustSkipsMalformed
  NoGap
CHECK_DEADLOCK FALSE
