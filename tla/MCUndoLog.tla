----------------------------- MODULE MCUndoLog -----------------------------
(* Two cells that can be saved apart or together: records of one command   *)
(* then overlap.                                                           *)
EXTENDS UndoLog, TLC

CONSTANTS c1, c2, old, new, k1, k2

TwoCells == {c1, c2}
TwoValues == {old, new}
AllGroups == {{c1}, {c2}, {c1, c2}}
TwoCommands == {k1, k2}
=============================================================================
