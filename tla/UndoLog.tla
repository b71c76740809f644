------------------------------ MODULE UndoLog ------------------------------
(***************************************************************************)
(* The revocation mechanism of class OperatingSystem: pushBlockAndInode    *)
(* saves a block, its bitmap bit and an inode before they are modified,    *)
(* pushTag marks the end of a command and logs it, and revoke restores     *)
(* what was saved back to the previous tag.                                *)
(*                                                                         *)
(* The memory is a function from cells (an inode, the content of a block,  *)
(* a bit of the bitmap) to values.  A record is the function from the      *)
(* cells it saves to their values (UndoRecords).  The stack is the stretch *)
(* of FileSnapshot's vector that is in force: UndoRedo's `done', which     *)
(* FileSnapshot is proved to implement.                                    *)
(*                                                                         *)
(* A command may write a cell only if a record of that command saves it.   *)
(* The commands of class OperatingSystem are meant to keep this rule;      *)
(* FileSystem says which of them do.                                       *)
(***************************************************************************)
EXTENDS UndoRecords, FiniteSets

CONSTANTS
  Values,
  Groups,       \* the sets of cells that one call of pushBlockAndInode saves
  Commands,     \* what the log says of a command
  MaxRecords,   \* bound on the length of the stack
  MayAbandon    \* whether a command may return an error after saving records

ASSUME GroupsAssumption == Groups \subseteq (SUBSET Cells) \ {{}}
ASSUME MaxRecordsAssumption == MaxRecords \in Nat
ASSUME MayAbandonAssumption == MayAbandon \in BOOLEAN

VARIABLES
  mem,
  stack,         \* records and tags, above the tag at position 0
  commandStack,  \* the log of commands
  revoking       \* TRUE while the loop of revoke runs

vars == <<mem, stack, commandStack, revoking>>

Memories == [Cells -> Values]
Records == UNION {[g -> Values] : g \in Groups}

TypeOK ==
  /\ mem \in Memories
  /\ stack \in Seq(Records \cup {Tag})
  /\ commandStack \in Seq(Commands)
  /\ revoking \in BOOLEAN

Init ==
  /\ mem \in Memories
  /\ stack = <<>>
  /\ commandStack = <<>>
  /\ revoking = FALSE

Top == Len(stack)
Room == Top < MaxRecords

(* Position 0 is a tag; the test of revoke's loop.                         *)
AtTag == Top > 0 => stack[Top] = Tag

(* The cells saved by the command in progress.                             *)
Saved == {c \in Cells :
            \E k \in 1 .. Top : /\ \A j \in k .. Top : stack[j] # Tag
                                /\ c \in DOMAIN stack[k]}

-----------------------------------------------------------------------------
(* Slips that the properties below exclude.                                *)
StartRevokePopsTwice ==
  /\ ~ revoking /\ (AtTag \/ MayAbandon)
  /\ Top > 0
  /\ stack' = SubSeq(stack, 1, Top - 2)
  /\ revoking' = TRUE
  /\ UNCHANGED <<mem, commandStack>>

RestoreOneForgetsTheRest ==
  /\ revoking /\ ~ AtTag
  /\ mem' = stack[Top]
  /\ stack' = Front(stack)
  /\ UNCHANGED <<commandStack, revoking>>

RestoreOneKeepsRecord ==
  /\ revoking /\ ~ AtTag
  /\ mem' = Restore(mem, stack[Top])
  /\ UNCHANGED <<stack, commandStack, revoking>>

FinishRevokeKeepsLog ==
  /\ revoking /\ AtTag
  /\ revoking' = FALSE
  /\ UNCHANGED <<mem, stack, commandStack>>

-----------------------------------------------------------------------------
PushBlockAndInode(g) ==
  /\ ~ revoking /\ Room
  /\ stack' = Append(stack, [c \in g |-> mem[c]])
  /\ UNCHANGED <<mem, commandStack, revoking>>

Write(c, v) ==
  /\ ~ revoking
  /\ c \in Saved
  /\ mem' = [mem EXCEPT ![c] = v]
  /\ UNCHANGED <<stack, commandStack, revoking>>

PushTag(command) ==
  /\ ~ revoking /\ Room
  /\ stack' = Append(stack, Tag)
  /\ commandStack' = Append(commandStack, command)
  /\ UNCHANGED <<mem, revoking>>

(* revoke and clearsnapshot are requests of their own: the command before  *)
(* them has ended, with a tag unless it failed.                            *)
CommandEnded == AtTag \/ MayAbandon

(* revoke pops the top record before its loop, without restoring it.       *)
StartRevoke ==
  /\ ~ revoking /\ CommandEnded
  /\ Top > 0
  /\ stack' = Front(stack)
  /\ revoking' = TRUE
  /\ UNCHANGED <<mem, commandStack>>

RestoreOne ==
  /\ revoking /\ ~ AtTag
  /\ mem' = Restore(mem, stack[Top])
  /\ stack' = Front(stack)
  /\ UNCHANGED <<commandStack, revoking>>

FinishRevoke ==
  /\ revoking /\ AtTag
  /\ commandStack' = IF commandStack = <<>> THEN <<>> ELSE Front(commandStack)
  /\ revoking' = FALSE
  /\ UNCHANGED <<mem, stack>>

InitializeSnapshot ==
  /\ ~ revoking /\ CommandEnded
  /\ stack' = <<>>
  /\ commandStack' = <<>>
  /\ UNCHANGED <<mem, revoking>>

Revoking == RestoreOne \/ FinishRevoke

Next ==
  \/ \E g \in Groups : PushBlockAndInode(g)
  \/ \E c \in Cells, v \in Values : Write(c, v)
  \/ \E command \in Commands : PushTag(command)
  \/ StartRevoke \/ Revoking
  \/ InitializeSnapshot

Spec == Init /\ [][Next]_vars

(* The thread that revokes holds the writer lock and runs to the end.      *)
FairSpec == Spec /\ WF_vars(Revoking)

-----------------------------------------------------------------------------
(***************************************************************************)
(* Each revoke brings back exactly the memory at the end of the command    *)
(* before, however the commands interleaved saves and writes and however   *)
(* often a cell was saved: the saved records implement checkpoints.  A     *)
(* revocation counts as done when it starts.                               *)
(***************************************************************************)
CP == INSTANCE Checkpoints WITH
        Positions <- 0 .. MaxRecords,
        mem <- IF revoking THEN UndoTo(mem, stack, LastTag(stack)) ELSE mem,
        past <- [p \in Tags(stack) |-> UndoTo(mem, stack, p)]

ImplementsCheckpoints == CP!Spec

(***************************************************************************)
(* The log names one command for each tag: what checkLog shows is what     *)
(* revoke can undo.                                                        *)
(***************************************************************************)
LogMatchesTags ==
  Cardinality(Tags(stack)) = IF revoking THEN Len(commandStack)
                                  ELSE Len(commandStack) + 1

(***************************************************************************)
(* Even when commands fail and leave records without a tag, the log never  *)
(* names a command that has no tag.                                        *)
(***************************************************************************)
LogWithinTags ==
  Len(commandStack) + (IF revoking THEN 0 ELSE 1) <= Cardinality(Tags(stack))

(***************************************************************************)
(* The loop of revoke ends: there is a tag below whatever it restores.     *)
(***************************************************************************)
RevokeReturns == revoking ~> ~ revoking
=============================================================================
