---------------------------- MODULE UndoRecords ----------------------------
(***************************************************************************)
(* What revocation saves and restores.  A memory is a function on cells;   *)
(* a record is the function from the cells that one call of                *)
(* pushBlockAndInode saves to their values; a tag saves nothing.           *)
(***************************************************************************)
EXTENDS Integers, Sequences, SequencesExt

CONSTANT Cells

Tag == [c \in {} |-> c]

(* One turn of the loop of revoke puts back what one record saved.         *)
Restore(m, r) == [c \in Cells |-> IF c \in DOMAIN r THEN r[c] ELSE m[c]]

(***************************************************************************)
(* The whole loop: restoring the records above position p, the latest      *)
(* first, gives a cell the value in the earliest of them that saves it.    *)
(* (UndoLogProofs!UndoLast: this is one Restore after the other.)          *)
(***************************************************************************)
SaversOf(c, s, p) == {k \in p + 1 .. Len(s) : c \in DOMAIN s[k]}

UndoTo(m, s, p) == [c \in Cells |->
                      IF SaversOf(c, s, p) = {} THEN m[c]
                      ELSE s[Min(SaversOf(c, s, p))][c]]

(* The loop stops at a tag; position 0 of the vector is one.               *)
Tags(s) == {0} \cup {k \in 1 .. Len(s) : s[k] = Tag}
LastTag(s) == CHOOSE k \in Tags(s) : \A j \in Tags(s) : j <= k
=============================================================================
