--------------------------- MODULE MCFileSnapshot ---------------------------
(* Two records besides the tag, and a vector long enough for a history to  *)
(* be undone by two, cut short by a push and undone again.                 *)
EXTENDS FileSnapshot

CONSTANTS tag, r1, r2

SomeRecords == {tag, r1, r2}
=============================================================================
