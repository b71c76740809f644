------------------------------ MODULE UndoRedo ------------------------------
(***************************************************************************)
(* What a FileSnapshot promises to the operating system object: a history  *)
(* that can be walked back and forth and that a new record cuts short.     *)
(* `kept' is the pair as it was last made durable.                         *)
(***************************************************************************)
EXTENDS Integers, Sequences

CONSTANT Records

VARIABLES
  done,    \* the records that can be undone, oldest first
  undone,  \* the records that can be redone, the next one first
  kept     \* what a restart brings back

historyVars == <<done, undone, kept>>

History(d, u) == [done |-> d, undone |-> u]

Init == done = <<>> /\ undone = <<>> /\ kept = History(<<>>, <<>>)

Do(r) == done' = Append(done, r) /\ undone' = <<>> /\ UNCHANGED kept

Undo ==
  /\ done # <<>>
  /\ done' = [i \in 1 .. Len(done) - 1 |-> done[i]]
  /\ undone' = [i \in 1 .. Len(undone) + 1 |->
                  IF i = 1 THEN done[Len(done)] ELSE undone[i - 1]]
  /\ UNCHANGED kept

Redo ==
  /\ undone # <<>>
  /\ done' = Append(done, undone[1])
  /\ undone' = [i \in 1 .. Len(undone) - 1 |-> undone[i + 1]]
  /\ UNCHANGED kept

Keep == kept' = History(done, undone) /\ UNCHANGED <<done, undone>>

Restart == done' = kept.done /\ undone' = kept.undone /\ UNCHANGED kept

Forget == done' = <<>> /\ undone' = <<>> /\ kept' = History(<<>>, <<>>)

Next == (\E r \in Records : Do(r)) \/ Undo \/ Redo \/ Keep \/ Restart \/ Forget

Spec == Init /\ [][Next]_historyVars
=============================================================================
