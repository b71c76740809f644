---------------------------- MODULE Persistence ----------------------------
(***************************************************************************)
(* What class OperatingSystem keeps on disk, and the server stopped and    *)
(* started again at any moment.  The files are blockstack (the stack of    *)
(* records), Log (the log of commands), system.txt (the memory) and the    *)
(* backups.  They are written one after the other:                         *)
(*   printLog            blockstack, Log, system.txt                       *)
(*   revoke              blockstack, Log                                   *)
(*   initializeSnapshot  blockstack and Log, in the order the compiler     *)
(*                       gives the operands of &                           *)
(*   recoverySystem      system.txt, and then printLog's three             *)
(* main never returns, so no destructor writes a file: every stop is a     *)
(* crash.  A file is written in one step; UndoLog is the memory beside it. *)
(***************************************************************************)
EXTENDS UndoLog

CONSTANT Versions  \* the names of the backups

ASSUME WholeAssumption == Cells \in Groups

VARIABLES
  blockstack, Log, system, backups,
  todo,   \* what the request in progress has still to do to the files
  apart   \* history: the files are not two states of one history

files == <<blockstack, Log, system, backups>>
durableVars == <<vars, files, todo, apart>>

Works == {"blockstack", "Log", "system", "tag"}

DurableTypeOK ==
  /\ TypeOK
  /\ blockstack \in Seq(Records \cup {Tag})
  /\ Log \in Seq(Commands)
  /\ system \in Memories
  /\ backups \in [Versions -> Memories]
  /\ todo \in Seq(Works)
  /\ apart \in BOOLEAN

DurableInit ==
  /\ Init
  /\ blockstack = stack /\ Log = commandStack /\ system = mem
  /\ backups \in [Versions -> Memories]
  /\ todo = <<>>
  /\ apart = FALSE

Idle == todo = <<>>

(* A log that is torn from its records can grow for ever: a bound.         *)
LogRoom == Len(commandStack) < MaxRecords

-----------------------------------------------------------------------------
(* Slips that the properties below exclude.                                *)
EndCommandWritesSystemFirst(command) ==
  /\ todo \in {<<>>, <<"tag">>} /\ LogRoom
  /\ PushTag(command)
  /\ todo' = <<"system", "blockstack", "Log">>
  /\ UNCHANGED <<files, apart>>

EndCommandWritesLogFirst(command) ==
  /\ todo \in {<<>>, <<"tag">>} /\ LogRoom
  /\ PushTag(command)
  /\ todo' = <<"Log", "blockstack", "system">>
  /\ UNCHANGED <<files, apart>>

ExecuteWritesThrough ==
  /\ Idle
  /\ \/ \E g \in Groups : PushBlockAndInode(g)
     \/ \E c \in Cells, v \in Values : Write(c, v)
  /\ system' = mem'
  /\ UNCHANGED <<blockstack, Log, backups, todo, apart>>

RestartReadsOneFileTwice ==
  /\ mem' = system /\ stack' = blockstack /\ commandStack' = blockstack
  /\ revoking' = FALSE
  /\ todo' = <<>> /\ apart' = FALSE
  /\ UNCHANGED files

-----------------------------------------------------------------------------
(* The requests, in memory.                                                *)
Execute ==
  /\ Idle
  /\ \/ \E g \in Groups : PushBlockAndInode(g)
     \/ \E c \in Cells, v \in Values : Write(c, v)
  /\ UNCHANGED <<files, todo, apart>>

EndCommand(command) ==
  /\ todo \in {<<>>, <<"tag">>} /\ LogRoom
  /\ PushTag(command)
  /\ todo' = <<"blockstack", "Log", "system">>
  /\ UNCHANGED <<files, apart>>

(* Popping a record that no tag covers leaves what it saved unrestored.    *)
BeginRevoke ==
  /\ Idle /\ StartRevoke
  /\ apart' = (apart \/ ~ AtTag)
  /\ UNCHANGED <<files, todo>>

RevokeRecord ==
  /\ RestoreOne
  /\ UNCHANGED <<files, todo, apart>>

EndRevoke ==
  /\ FinishRevoke
  /\ todo' = <<"blockstack", "Log">>
  /\ apart' = TRUE
  /\ UNCHANGED files

ClearSnapshot ==
  /\ Idle /\ InitializeSnapshot
  /\ todo' \in {<<"blockstack", "Log">>, <<"Log", "blockstack">>}
  /\ apart' = (apart \/ ~ AtTag)
  /\ UNCHANGED files

BackupSystem(version) ==
  /\ Idle /\ ~ revoking /\ CommandEnded
  /\ backups' = [backups EXCEPT ![version] = mem]
  /\ UNCHANGED <<vars, blockstack, Log, system, todo, apart>>

(* Every block and inode is saved, as one record here; if system.txt       *)
(* cannot be opened the request fails with the memory already replaced.    *)
RecoverSystem(version) ==
  /\ Idle /\ ~ revoking /\ CommandEnded /\ Room
  /\ stack' = Append(stack, [c \in Cells |-> mem[c]])
  /\ mem' = backups[version]
  /\ todo' \in {<<"system", "tag">>} \cup (IF MayAbandon THEN {<<>>} ELSE {})
  /\ apart' = TRUE
  /\ UNCHANGED <<commandStack, revoking, files>>

-----------------------------------------------------------------------------
(* The writes of the files.                                                *)
Do(work) == todo # <<>> /\ Head(todo) = work /\ todo' = Tail(todo)

WriteBlockstack ==
  /\ Do("blockstack")
  /\ blockstack' = stack
  /\ UNCHANGED <<vars, Log, system, backups, apart>>

WriteLog ==
  /\ Do("Log")
  /\ Log' = commandStack
  /\ UNCHANGED <<vars, blockstack, system, backups, apart>>

(* After a tag this is printLog's write, and all files are as the memory.  *)
WriteSystem ==
  /\ Do("system")
  /\ system' = mem
  /\ apart' = (apart /\ ~ AtTag)
  /\ UNCHANGED <<vars, blockstack, Log, backups>>

(* The constructors of OperatingSystem, FileSnapshot and Log.              *)
Restart ==
  /\ mem' = system /\ stack' = blockstack /\ commandStack' = Log
  /\ revoking' = FALSE
  /\ todo' = <<>> /\ apart' = FALSE
  /\ UNCHANGED files

DurableNext ==
  \/ Execute
  \/ \E command \in Commands : EndCommand(command)
  \/ BeginRevoke \/ RevokeRecord \/ EndRevoke
  \/ ClearSnapshot
  \/ \E version \in Versions : BackupSystem(version) \/ RecoverSystem(version)
  \/ WriteBlockstack \/ WriteLog \/ WriteSystem
  \/ Restart

DurableSpec == DurableInit /\ [][DurableNext]_durableVars

-----------------------------------------------------------------------------
(* The stack is cleared and the files are not.                             *)
Clearing == ~ Idle /\ stack = <<>>

(* Neither a revocation nor a recovery since the last command was saved,   *)
(* and no history half cleared.                                            *)
InStep == ~ apart /\ ~ Clearing

(***************************************************************************)
(* The server may stop anywhere in a command or in the three writes of     *)
(* printLog: it starts again with the memory as it was at the end of one   *)
(* of the last two commands, never with half of a command.                 *)
(***************************************************************************)
RestartIsAtomic ==
  [][Restart /\ InStep /\ ~ revoking =>
       \E p \in Tags(stack) :
         /\ mem' = UndoTo(mem, stack, p)
         /\ \A q \in Tags(stack) : q <= p \/ q = LastTag(stack)]_durableVars

(***************************************************************************)
(* What revoke can go back to survives the restart: at most the last       *)
(* command is lost, and undoing to any command before gives the memory it  *)
(* gave before the restart, whichever of the files were written.           *)
(***************************************************************************)
RestartKeepsHistory ==
  [][Restart /\ InStep =>
       /\ Tags(stack) \ Tags(stack') \subseteq {Len(stack)}
       /\ \A p \in Tags(stack) \cap Tags(stack') :
            p < Len(stack') =>
              UndoTo(mem', stack', p) = UndoTo(mem, stack, p)]_durableVars

(***************************************************************************)
(* Why that is so.  Between requests, and while printLog writes, the       *)
(* files belong to one history: system.txt is the memory at a tag q, and   *)
(* blockstack ends at q or, once printLog has written it, at the tag after *)
(* q; while revoke runs they are the state it goes back from.  A revoked   *)
(* or a recovered system leaves that history until a command is saved.     *)
(***************************************************************************)
Printing == {<<"blockstack", "Log", "system">>, <<"Log", "system">>, <<"system">>}

SavedAt(q) ==
  /\ q \in Tags(stack)
  /\ system = UndoTo(mem, stack, q)
  /\ \A p \in Tags(stack) : p <= q \/ (todo \in Printing /\ p = Len(stack))
  /\ todo \in Printing => q < Len(stack)
  /\ \/ blockstack = SubSeq(stack, 1, q)
     \/ todo \in Printing /\ blockstack = stack

FilesAhead ==
  /\ Len(stack) <= Len(blockstack)
  /\ \A k \in 1 .. Len(stack) : blockstack[k] = stack[k]
  /\ \A p \in Tags(stack) : UndoTo(system, blockstack, p) = UndoTo(mem, stack, p)

OneHistory ==
  ~ apart /\ todo \in {<<>>} \cup Printing =>
    IF revoking THEN FilesAhead ELSE \E q \in 0 .. Len(stack) : SavedAt(q)

(***************************************************************************)
(* The log names only commands that the records can undo, in memory and    *)
(* on disk, and a restart keeps it so, unless it comes after revoke or a   *)
(* clearing wrote blockstack and before it wrote Log.                      *)
(***************************************************************************)
LogTorn == todo = <<"Log">>

WithinOnDisk == LogTorn \/ Len(Log) < Cardinality(Tags(blockstack))

LogStaysWithin ==
  [][LogWithinTags /\ WithinOnDisk /\ (Restart => ~ LogTorn)
       => (LogWithinTags /\ WithinOnDisk)']_durableVars

(***************************************************************************)
(* Between two requests system.txt is the memory.                          *)
(***************************************************************************)
SystemIsCurrent == Idle /\ ~ revoking /\ AtTag => system = mem
=============================================================================
