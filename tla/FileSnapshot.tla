---------------------------- MODULE FileSnapshot ----------------------------
(***************************************************************************)
(* The class FileSnapshot (src/OS/FileSnapshot.cpp): a vector of saved     *)
(* records with three pointers, and its copy in the file `blockstack'.     *)
(* Position 0 holds a record that is never popped; the records in force    *)
(* are at 1..nowPointer, those that revokePop can bring back are at        *)
(* nowPointer+1..maxPointer, and what lies above maxPointer is left over   *)
(* from longer histories and is overwritten by later pushes.               *)
(***************************************************************************)
EXTENDS Integers, Sequences

CONSTANTS
  Records,  \* the values of type BlockAndInode
  Tag,      \* the one whose blockID, inodeID and blockbit are -1
  MaxTop    \* bound on the length of the vector

ASSUME RecordsAssumption == Tag \in Records
ASSUME MaxTopAssumption == MaxTop \in Nat

VARIABLES
  snapshotStack, nowPointer, topPointer, maxPointer,
  blockstack  \* the file: the same four values when it was last written

vars == <<snapshotStack, nowPointer, topPointer, maxPointer, blockstack>>

Image(s, now, max, top) ==
  [snapshotStack |-> s, nowPointer |-> now, maxPointer |-> max, topPointer |-> top]

WriteToFile ==
  blockstack' = Image(snapshotStack', nowPointer', maxPointer', topPointer')

(* init: what an installation starts from, and what "clearsnapshot" does.  *)
Sentinel == [i \in {0} |-> Tag]

Init ==
  /\ snapshotStack = Sentinel
  /\ nowPointer = 0 /\ topPointer = 0 /\ maxPointer = 0
  /\ blockstack = Image(Sentinel, 0, 0, 0)

Clear ==
  /\ snapshotStack' = Sentinel
  /\ nowPointer' = 0 /\ topPointer' = 0 /\ maxPointer' = 0
  /\ WriteToFile

PushBack(r) ==
  /\ nowPointer = topPointer
  /\ topPointer < MaxTop
  /\ snapshotStack' = [i \in 0 .. topPointer + 1 |->
                         IF i = topPointer + 1 THEN r ELSE snapshotStack[i]]
  /\ topPointer' = topPointer + 1

Overwrite(r) ==
  /\ nowPointer # topPointer
  /\ snapshotStack' = [snapshotStack EXCEPT ![nowPointer + 1] = r]
  /\ UNCHANGED topPointer

(* Slips that the properties below exclude.                                *)
PushccKeepsMax(r) ==
  /\ PushBack(r) \/ Overwrite(r)
  /\ nowPointer' = nowPointer + 1
  /\ maxPointer' = IF maxPointer < nowPointer' THEN nowPointer' ELSE maxPointer
  /\ UNCHANGED blockstack

PopBelowZero ==
  /\ nowPointer' = nowPointer - 1
  /\ UNCHANGED <<snapshotStack, topPointer, maxPointer, blockstack>>

Pushcc(r) ==
  /\ PushBack(r) \/ Overwrite(r)
  /\ nowPointer' = nowPointer + 1
  /\ maxPointer' = nowPointer'
  /\ UNCHANGED blockstack

Pop ==
  /\ ~ nowPointer < 1
  /\ nowPointer' = nowPointer - 1
  /\ UNCHANGED <<snapshotStack, topPointer, maxPointer, blockstack>>

RevokePop ==
  /\ ~ nowPointer >= maxPointer
  /\ nowPointer' = nowPointer + 1
  /\ UNCHANGED <<snapshotStack, topPointer, maxPointer, blockstack>>

(* The callers write the file after a tag and after a revocation.          *)
Save ==
  /\ UNCHANGED <<snapshotStack, nowPointer, topPointer, maxPointer>>
  /\ WriteToFile

(* The server stops, in whatever state, and is started again: the          *)
(* constructor reads the file.                                             *)
ReadFromFile ==
  /\ snapshotStack' = blockstack.snapshotStack
  /\ nowPointer' = blockstack.nowPointer
  /\ maxPointer' = blockstack.maxPointer
  /\ topPointer' = blockstack.topPointer
  /\ UNCHANGED blockstack

Next ==
  \/ \E r \in Records : Pushcc(r)
  \/ Pop \/ RevokePop \/ Save \/ ReadFromFile \/ Clear

Spec == Init /\ [][Next]_vars

-----------------------------------------------------------------------------
ImageOK(image) ==
  LET s == image.snapshotStack
      top == image.topPointer
  IN  /\ top \in 0 .. MaxTop
      /\ s \in [0 .. top -> Records]
      /\ s[0] = Tag
      /\ image.maxPointer \in 0 .. top
      /\ image.nowPointer \in 0 .. image.maxPointer

(***************************************************************************)
(* The pointers stay in order and inside the vector, in memory and in the  *)
(* file, and position 0 is never overwritten: the loops of revoke and      *)
(* recover, which stop at a tag and test no bound, stay inside the vector. *)
(***************************************************************************)
PointersOK ==
  /\ ImageOK(Image(snapshotStack, nowPointer, maxPointer, topPointer))
  /\ ImageOK(blockstack)

(***************************************************************************)
(* Three pointers into a vector with leftovers behave as a history that a  *)
(* new record cuts short: no sequence of pushes and pops, and no restart,  *)
(* brings a leftover record back.                                          *)
(***************************************************************************)
Done(image) == [i \in 1 .. image.nowPointer |-> image.snapshotStack[i]]
Undone(image) == [i \in 1 .. image.maxPointer - image.nowPointer |->
                    image.snapshotStack[image.nowPointer + i]]

Current == Image(snapshotStack, nowPointer, maxPointer, topPointer)

UR == INSTANCE UndoRedo WITH
        done <- Done(Current),
        undone <- Undone(Current),
        kept <- [done |-> Done(blockstack), undone |-> Undone(blockstack)]

ImplementsUndoRedo == UR!Spec
=============================================================================
