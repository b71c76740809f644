---------------------------- MODULE Checkpoints ----------------------------
(***************************************************************************)
(* What revocation promises to the administrator: commands change the      *)
(* memory and leave a numbered checkpoint when they end, and "revoke"      *)
(* returns to the checkpoint before the last one, whatever the command     *)
(* did, as many times as there are checkpoints.                            *)
(***************************************************************************)
EXTENDS Integers

CONSTANT Positions  \* the numbers to choose from

VARIABLES
  mem,   \* the memory
  past   \* the memory at each checkpoint

checkpointVars == <<mem, past>>

Numbers == DOMAIN past
Latest(p) == \A q \in Numbers : q <= p

Init == past = [p \in {0} |-> mem]

(* A command works: the memory becomes anything, the checkpoints stay.     *)
Change == UNCHANGED past

Commit ==
  \E p \in Positions :
    /\ \A q \in Numbers : q < p
    /\ past' = [q \in Numbers \cup {p} |-> IF q = p THEN mem ELSE past[q]]
    /\ UNCHANGED mem

Revoke ==
  \E last, previous \in Numbers :
    /\ Latest(last)
    /\ mem = past[last]
    /\ previous < last
    /\ \A q \in Numbers : q <= previous \/ q = last
    /\ past' = [q \in Numbers \ {last} |-> past[q]]
    /\ mem' = past[previous]

Forget == past' = [p \in {0} |-> mem] /\ UNCHANGED mem

Next == Change \/ Commit \/ Revoke \/ Forget

Spec == Init /\ [][Next]_checkpointVars
=============================================================================
