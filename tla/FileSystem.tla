----------------------------- MODULE FileSystem -----------------------------
(***************************************************************************)
(* The file system of class OperatingSystem (src/OS/OperatingSystem.cpp):  *)
(* an array of inodes, an array of blocks and a bitmap of used blocks, the *)
(* operations the server calls to modify them, and revocation, which the   *)
(* operations make possible by saving what they are about to modify.       *)
(*                                                                         *)
(* A step is one operation; the writer lock (ReaderWriterLock) makes it    *)
(* atomic.  A request of a client is a sequence of operations that ends    *)
(* with PushTag, whether the operations succeed or not: the handlers       *)
(* ignore their results.  The walk of a path is abstracted to the          *)
(* directory it ends in, owners and permissions are left out (the handlers *)
(* call these operations as an administrator), and a text is a value and   *)
(* the number of blocks it fills.                                          *)
(***************************************************************************)
EXTENDS Integers, Sequences, SequencesExt, FiniteSets

CONSTANTS
  INODE_NUMBER, BLOCK_NUMBER, ENTRY_NUMBER, INDEX_SIZE,
  Names,       \* names of files and directories
  Texts,       \* what is written to files: [value, blocks]
  MaxRecords   \* bound on the stack of saved records

ASSUME SizesAssumption ==
  /\ INODE_NUMBER \in Nat \ {0} /\ BLOCK_NUMBER \in Nat \ {0}
  /\ INODE_NUMBER <= BLOCK_NUMBER
  /\ ENTRY_NUMBER \in Nat \ {0} /\ INDEX_SIZE \in Nat \ {0, 1}
  /\ MaxRecords \in Nat

ASSUME TextsAssumption == \A text \in Texts : text.blocks \in Nat \ {0}

Inodes == 0 .. INODE_NUMBER - 1
Blocks == 0 .. BLOCK_NUMBER - 1
Entries == 0 .. ENTRY_NUMBER - 1
Pointers == 0 .. INDEX_SIZE - 1

(* inodeMem, blockMem and blockBitmap, as the cells of one memory.         *)
InodeCell(i) == i
BlockCell(b) == INODE_NUMBER + b
BitCell(b) == INODE_NUMBER + BLOCK_NUMBER + b
Cells == 0 .. INODE_NUMBER + 2 * BLOCK_NUMBER - 1

INSTANCE UndoRecords

VARIABLES
  mem,       \* the memory
  stack,     \* the saved records and the tags of the commands
  undefined, \* TRUE once the code has used bytes that nothing defines
  misled     \* history: TRUE once a mistaken record has been restored

vars == <<mem, stack, undefined, misled>>

NoInode == [blockID |-> -1, fileType |-> -1]
NoEntry == [fileName |-> "", inodeID |-> -1]
EmptyDirectory == [kind |-> "directory", entry |-> [e \in Entries |-> NoEntry]]
Data(value, part) == [kind |-> "data", value |-> value, part |-> part]
Blank == Data("", 0)
Index(f) == [kind |-> "index", blockPointers |-> f]

Init ==
  /\ mem = [c \in Cells |->
              CASE c = InodeCell(0) -> [blockID |-> 0, fileType |-> 0]
                [] c = BlockCell(0) -> EmptyDirectory
                [] c = BitCell(0) -> 1
                [] c \in 1 .. INODE_NUMBER - 1 -> NoInode
                [] c \in {BlockCell(b) : b \in Blocks \ {0}} -> Blank
                [] c \in {BitCell(b) : b \in Blocks \ {0}} -> 0]
  /\ stack = <<>>
  /\ undefined = FALSE /\ misled = FALSE

-----------------------------------------------------------------------------
(* Reading the memory m.                                                   *)
FileType(m, i) == m[InodeCell(i)].fileType
BlockOf(m, i) == m[InodeCell(i)].blockID
Content(m, i) == m[BlockCell(BlockOf(m, i))]
FreeInodesButOne(m) == {i \in Inodes \ {1} : BlockOf(m, i) = -1}  \* a slip
FreeBlocks(m) == {b \in Blocks : m[BitCell(b)] = 0}
FreeInodes(m) == {i \in Inodes : BlockOf(m, i) = -1}

IsDirectory(m, i) == FileType(m, i) = 0 /\ Content(m, i).kind = "directory"
Used(m, d) == {e \in Entries : Content(m, d).entry[e].inodeID # -1}
Named(m, d, name) == {e \in Used(m, d) : Content(m, d).entry[e].fileName = name}

(* The inodes found from i by walking down: those in every set that has i  *)
(* and with a directory what is in it.                                     *)
Closed(m, S) == \A j \in S : IsDirectory(m, j) =>
                  \A e \in Entries : Content(m, j).entry[e].inodeID \in S \cup {-1}
Below(m, i) ==
  LET closed == {S \in SUBSET Inodes : i \in S /\ Closed(m, S)}
  IN  {j \in Inodes : \A S \in closed : j \in S}

(* What deleteAllFileInDirectory frees with a directory.                   *)
RemovedAlone(i) == {i}  \* a slip
Removed(i) == Below(mem, i)

Directories == {i \in Below(mem, 0) : IsDirectory(mem, i)}
Files == {i \in Below(mem, 0) : FileType(mem, i) \in {1, 2}}

(* The n least elements of a set of numbers, in order: first fit.          *)
AtMost(a, b) == IF a < b THEN a ELSE b
LeastOf(S, n) == [k \in 1 .. n |->
                    CHOOSE b \in S : Cardinality({a \in S : a < b}) = k - 1]

-----------------------------------------------------------------------------
(* pushBlockAndInode(b, i) in memory m, after two slips.                   *)
SavedWithoutBit(m, b, i) == [c \in {InodeCell(i), BlockCell(b)} |-> m[c]]
SavedWithoutInode(m, b, i) == [c \in {BlockCell(b), BitCell(b)} |-> m[c]]
Saved(m, b, i) == [c \in {InodeCell(i), BlockCell(b), BitCell(b)} |-> m[c]]
SaveInode(m, i) == Saved(m, BlockOf(m, i), i)

(* The bound leaves room for the tag of the command in progress.           *)
Room == Len(stack') < MaxRecords
AtTag == Len(stack) > 0 => stack[Len(stack)] = Tag

SetEntryWithoutName(m, d, e, entry) ==  \* a slip
  [Content(m, d) EXCEPT !.entry[e].inodeID = entry.inodeID]
SetEntry(m, d, e, entry) ==
  [Content(m, d) EXCEPT !.entry[e] = entry]

(* createDirectory and createFile, which differ in the type and in what    *)
(* the new block holds.  The handlers create only what checkPath does not  *)
(* find.                                                                   *)
MayCreate(d, name) ==
  /\ ~ undefined
  /\ Named(mem, d, name) = {}

NewContent(type) == IF type = 0 THEN EmptyDirectory ELSE Blank

TakeUnmarked == 0  \* a slip
Take == 1

Enter(d, name, type, e) ==
  LET b == Min(FreeBlocks(mem))
      i == Min(FreeInodes(mem))
  IN  /\ mem' = [c \in Cells |->
           CASE c = InodeCell(i) -> [blockID |-> b, fileType |-> type]
             [] c = BlockCell(b) -> NewContent(type)
             [] c = BitCell(b) -> Take
             [] c = BlockCell(BlockOf(mem, d)) ->
                  SetEntry(mem, d, e, [fileName |-> name, inodeID |-> i])
             [] OTHER -> mem[c]]
      /\ stack' = stack \o <<SaveInode(mem, d), Saved(mem, b, i)>>

Create(d, name, type) ==
  /\ MayCreate(d, name)
  /\ Entries \ Used(mem, d) # {}
  /\ FreeBlocks(mem) # {} /\ FreeInodes(mem) # {}
  /\ Enter(d, name, type, Min(Entries \ Used(mem, d)))
  /\ Room
  /\ UNCHANGED <<undefined, misled>>

(* A full directory stops createFile before this, createDirectory not.     *)
CreateWithoutSpace(d, name) ==
  /\ MayCreate(d, name)
  /\ FreeBlocks(mem) = {} \/ FreeInodes(mem) = {}
  /\ stack' = Append(stack, SaveInode(mem, d))
  /\ Room
  /\ undefined' = (Entries = Used(mem, d))
  /\ UNCHANGED <<mem, misled>>

(* A full directory is turned into an index block: the pointers are        *)
(* written over the entries, which are then "copied" from the same block.  *)
(* What follows searches bytes of the second new block that nothing has    *)
(* written; the model stops there.                                         *)
CreateInFullDirectory(d, name) ==
  LET n == AtMost(Cardinality(FreeBlocks(mem)), 2)
      new == LeastOf(FreeBlocks(mem), n)
      index == Index([k \in Pointers |-> IF k < n THEN new[k + 1] ELSE -1])
  IN  /\ MayCreate(d, name)
      /\ Entries = Used(mem, d)
      /\ mem' = [c \in Cells |->
                   CASE c = InodeCell(d) -> [mem[c] EXCEPT !.fileType = 2]
                     [] c = BlockCell(BlockOf(mem, d)) -> index
                     [] n = 2 /\ c = BlockCell(new[1]) -> index
                     [] \E k \in 1 .. n : c = BitCell(new[k]) -> 1
                     [] OTHER -> mem[c]]
      /\ stack' = Append(stack, SaveInode(mem, d))
      /\ Room
      /\ undefined' = TRUE
      /\ UNCHANGED misled

(* In createDirectory the local variable `entry' is not initialised: a     *)
(* full directory leaves it with any value, which may be an entry in use.  *)
CreateOverEntry(d, name) ==
  /\ MayCreate(d, name)
  /\ Entries = Used(mem, d)
  /\ FreeBlocks(mem) # {} /\ FreeInodes(mem) # {}
  /\ \E e \in Entries : Enter(d, name, 0, e)
  /\ Room
  /\ undefined' = TRUE
  /\ UNCHANGED misled

(* deleteDirectory with deleteAllFileInDirectory: everything below is      *)
(* saved and freed, and the entries that named it are cleared.  Of a file  *)
(* of several blocks only the index block is freed.                        *)
DeleteDirectory(d, name) ==
  /\ ~ undefined
  /\ Named(mem, d, name) # {}
  /\ LET e == Min(Named(mem, d, name))
         target == Content(mem, d).entry[e].inodeID
         gone == Removed(target)
         order == SetToSeq(gone)
     IN  /\ FileType(mem, target) = 0
         /\ mem' = [c \in Cells |->
              CASE c \in {InodeCell(i) : i \in gone} -> NoInode
                [] c \in {BitCell(BlockOf(mem, i)) : i \in gone} -> 0
                [] c \in {BlockCell(BlockOf(mem, i)) :
                            i \in {j \in gone : IsDirectory(mem, j)}} ->
                     EmptyDirectory
                [] c = BlockCell(BlockOf(mem, d)) -> SetEntry(mem, d, e, NoEntry)
                [] OTHER -> mem[c]]
         /\ stack' = Append(stack, SaveInode(mem, d))
                       \o [k \in 1 .. Len(order) |-> SaveInode(mem, order[k])]
  /\ Room
  /\ UNCHANGED <<undefined, misled>>

-----------------------------------------------------------------------------
(***************************************************************************)
(* writeFile.  It saves the block that has the NUMBER OF THE INODE, not    *)
(* the block of the inode, then frees the blocks of a text that had        *)
(* several (each saved while still marked used), then stores the text in   *)
(* the file's own block, or in new blocks that the own block points to.    *)
(* findBlock marks a new block used before it is saved.                    *)
(***************************************************************************)
IsIndexed(m, f) == FileType(m, f) = 2 /\ Content(m, f).kind = "index"

(* The data blocks of a file of several blocks, in order.                  *)
DataBlocks(m, f) ==
  IF IsIndexed(m, f) THEN Range(Content(m, f).blockPointers) \ {-1} ELSE {}
OldBlocks(f) ==
  LET p == Content(mem, f).blockPointers
      inUse == {k \in Pointers : p[k] # -1}
      at == LeastOf(inUse, Cardinality(inUse))
  IN  IF IsIndexed(mem, f) THEN [k \in 1 .. Len(at) |-> p[at[k]]] ELSE <<>>

(* After the blocks of the old text are freed.                             *)
Emptied(f) ==
  [c \in Cells |->
     CASE c \in {BitCell(b) : b \in DataBlocks(mem, f)} -> 0
       [] c = InodeCell(f) -> [mem[c] EXCEPT !.fileType = 1]
       [] c = BlockCell(BlockOf(mem, f)) /\ FileType(mem, f) = 2 -> Blank
       [] OTHER -> mem[c]]

SavedByNumber(f) == Saved(mem, f, f)
SavedOld(f) == [k \in 1 .. Len(OldBlocks(f)) |-> Saved(mem, OldBlocks(f)[k], f)]

WriteFile(f, text) ==
  /\ ~ undefined
  /\ FileType(mem, f) = 2 => IsIndexed(mem, f)
  /\ text.blocks = 1
  /\ mem' = [Emptied(f) EXCEPT ![BlockCell(BlockOf(mem, f))] = Data(text.value, 0)]
  /\ stack' = Append(stack, SavedByNumber(f)) \o SavedOld(f)
  /\ Room
  /\ UNCHANGED <<undefined, misled>>

(* When the blocks run out the file keeps what has been stored so far.     *)
WriteLargeFile(f, text) ==
  LET m == [Emptied(f) EXCEPT ![InodeCell(f)].fileType = 2]
      wanted == AtMost(INDEX_SIZE, text.blocks)
      n == AtMost(wanted, Cardinality(FreeBlocks(m)))
      new == LeastOf(FreeBlocks(m), n)
      Marked(b) == [Saved(m, b, f) EXCEPT ![BitCell(b)] = 1]
      index == Index([k \in Pointers |-> IF k < n THEN new[k + 1] ELSE -1])
  IN  /\ ~ undefined
      /\ FileType(mem, f) = 2 => IsIndexed(mem, f)
      /\ text.blocks > 1
      /\ mem' = [c \in Cells |->
                   CASE c = BlockCell(BlockOf(mem, f)) -> index
                     [] c \in {BlockCell(b) : b \in Range(new)} ->
                          Data(text.value, CHOOSE k \in 1 .. n : c = BlockCell(new[k]))
                     [] c \in {BitCell(b) : b \in Range(new)} -> 1
                     [] OTHER -> m[c]]
      /\ stack' = Append(stack, SavedByNumber(f)) \o SavedOld(f)
                     \o [k \in 1 .. n |-> Marked(new[k])]
      /\ Room
      /\ UNCHANGED <<undefined, misled>>

(* The pointers of a file of several blocks are read from a block that     *)
(* holds something else.                                                   *)
WriteLostFile(f) ==
  /\ ~ undefined
  /\ FileType(mem, f) = 2 /\ ~ IsIndexed(mem, f)
  /\ undefined' = TRUE
  /\ UNCHANGED <<mem, stack, misled>>

-----------------------------------------------------------------------------
(* printLog, at the end of every command that may modify something.        *)
PushTag ==
  /\ ~ undefined /\ Len(stack) < MaxRecords
  /\ stack' = Append(stack, Tag)
  /\ UNCHANGED <<mem, undefined, misled>>

(* The record by which writeFile means to save file i with its block, when *)
(* the block is another one: restoring it gives the inode back and not     *)
(* what the inode points to.                                               *)
Mistaken(r) ==
  \E i \in Inodes : /\ DOMAIN r = {InodeCell(i), BlockCell(i), BitCell(i)}
                    /\ r[InodeCell(i)].blockID \notin {i, -1}
MistakenAbove(p) == \E k \in p + 1 .. Len(stack) : Mistaken(stack[k])

(* revoke, whose loop UndoLog models step by step.                         *)
Revoke ==
  /\ ~ undefined /\ AtTag
  /\ stack # <<>>
  /\ LET above == Front(stack)
         p == LastTag(above)
     IN  /\ mem' = UndoTo(mem, above, p)
         /\ stack' = SubSeq(stack, 1, p)
         /\ misled' = (misled \/ MistakenAbove(p))
  /\ UNCHANGED undefined

InitializeSnapshot ==
  /\ ~ undefined /\ AtTag
  /\ stack' = <<>>
  /\ UNCHANGED <<mem, undefined, misled>>

Next ==
  \/ \E d \in Directories, name \in Names :
       \/ \E type \in {0, 1} : Create(d, name, type)
       \/ CreateWithoutSpace(d, name)
       \/ CreateInFullDirectory(d, name)
       \/ CreateOverEntry(d, name)
       \/ DeleteDirectory(d, name)
  \/ \E f \in Files :
       \/ \E text \in Texts : WriteFile(f, text) \/ WriteLargeFile(f, text)
       \/ WriteLostFile(f)
  \/ PushTag \/ Revoke \/ InitializeSnapshot

Spec == Init /\ [][Next]_vars

-----------------------------------------------------------------------------
Allocated == {i \in Inodes : BlockOf(mem, i) # -1}
UsedBlocks == {b \in Blocks : mem[BitCell(b)] = 1}

(* What the properties speak of: no directory has been full, and revoke    *)
(* has restored no mistaken record.  After the latter a file of several    *)
(* blocks may point to blocks that are free, or that belong to others.     *)
Sound == ~ undefined /\ ~ misled

InodeValues == [blockID : Blocks, fileType : {0, 1, 2}] \cup {NoInode}
EntryValues == [fileName : Names, inodeID : Inodes] \cup {NoEntry}
BlockValues ==
  [kind : {"directory"}, entry : [Entries -> EntryValues]]
    \cup [kind : {"index"}, blockPointers : [Pointers -> Blocks \cup {-1}]]
    \cup {Blank}
    \cup UNION {{Data(text.value, part) : part \in 0 .. text.blocks} : text \in Texts}
CellValues(c) ==
  CASE c \in {InodeCell(i) : i \in Inodes} -> InodeValues
    [] c \in {BlockCell(b) : b \in Blocks} -> BlockValues
    [] c \in {BitCell(b) : b \in Blocks} -> {0, 1}

TypeOK ==
  /\ undefined \in BOOLEAN /\ misled \in BOOLEAN
  /\ ~ misled => /\ DOMAIN mem = Cells
                 /\ \A c \in Cells : mem[c] \in CellValues(c)
                 /\ Len(stack) <= MaxRecords
                 /\ \A k \in DOMAIN stack :
                      /\ DOMAIN stack[k] \subseteq Cells
                      /\ \A c \in DOMAIN stack[k] : stack[k][c] \in CellValues(c)

(***************************************************************************)
(* The inodes in use are a tree below the root: every entry leads to an    *)
(* inode in use, no two entries lead to the same one and none to the root, *)
(* and every inode in use can be found by walking down from the root.      *)
(***************************************************************************)
Links == {link \in Allocated \X Entries :
            IsDirectory(mem, link[1]) /\ link[2] \in Used(mem, link[1])}
Target(link) == Content(mem, link[1]).entry[link[2]].inodeID
TreeOK ==
  Sound => /\ Below(mem, 0) = Allocated
           /\ \A link \in Links : Target(link) # 0
           /\ \A link, other \in Links : Target(link) = Target(other) => link = other

(***************************************************************************)
(* No block is used for two purposes, and a block in use is marked used:   *)
(* nothing that is allocated later can overwrite it.                       *)
(***************************************************************************)
OwnersOf(b) == {i \in Allocated : BlockOf(mem, i) = b \/ b \in DataBlocks(mem, i)}
NoSharing ==
  Sound => /\ \A b \in Blocks : \A i, j \in OwnersOf(b) : i = j
           /\ \A b \in Blocks : OwnersOf(b) # {} => b \in UsedBlocks

(***************************************************************************)
(* Blocks are not lost while every text fits in one: a block that is       *)
(* marked used is in use.                                                  *)
(***************************************************************************)
NoLeak == Sound => \A b \in UsedBlocks : OwnersOf(b) # {}

(***************************************************************************)
(* While every text fits in one block, the block of an inode has the       *)
(* number of the inode, since both are allocated first fit and freed       *)
(* together.  This is what makes the block writeFile saves the right one.  *)
(***************************************************************************)
Aligned == \A i \in Allocated : BlockOf(mem, i) = i

(***************************************************************************)
(* What the type of an inode says of its block: the block of a directory   *)
(* holds entries, the block of a file of several blocks holds pointers.    *)
(***************************************************************************)
FileTypesTrue ==
  \A i \in Allocated :
    CASE FileType(mem, i) = 0 -> Content(mem, i).kind = "directory"
      [] FileType(mem, i) = 1 -> Content(mem, i).kind = "data"
      [] FileType(mem, i) = 2 -> Content(mem, i).kind = "index"

(***************************************************************************)
(* Revoking undoes exactly the last command that was not undone, as long   *)
(* as no directory is full.                                                *)
(***************************************************************************)
CP == INSTANCE Checkpoints WITH
        Positions <- 0 .. MaxRecords,
        past <- [p \in Tags(stack) |-> UndoTo(mem, stack, p)]

RevokeIsExact == CP!Init /\ [][CP!Next \/ undefined']_(CP!checkpointVars)
=============================================================================
