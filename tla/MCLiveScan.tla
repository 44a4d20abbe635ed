------------------------------ MODULE MCLiveScan ------------------------------
(***************************************************************************)
(* Instances of LiveScan for TLC.                                          *)
(***************************************************************************)
EXTENDS LiveScan

CONSTANTS a, b, bogus

Line(kind) == [kind |-> kind]
NoteLine(note) == [kind |-> "note", note |-> note]

\* Transactions of pinboard alone, of several programs, with an event that breaks off,
\* a batch, and one with an event that goes on.
TheLogs ==
  {<<Line("text"), NoteLine(a)>>,
   <<Line("garbled"), NoteLine(b), Line("other")>>,
   <<NoteLine(a), [kind |-> "cut", note |-> bogus]>>,
   <<NoteLine(a), NoteLine(b)>>,
   <<Line("short"), [kind |-> "longer", note |-> b]>>}
===============================================================================
