# Verification of the student management system

TLA+ models of the server, of the "operating system" it runs on and of its
client, the TLC configurations that check them on small instances, and proofs
of the central properties that TLAPS checks for every size. File names and line
numbers refer to `src/`.

## The system

The program is a client/server application for homework: administrators create
users and courses, teachers publish homework and mark it, students submit it.
The server keeps everything in a simulated disk (an *image* of 1024 inodes and
1024 blocks of 2048 bytes) that it holds in memory and writes to a file, and it
can undo requests one after the other.

| Part | State | Operations | What makes it correct |
|---|---|---|---|
| Readers-writer lock (`Server/server.cpp` 48-85) | two mutexes, `readerNum` | downReader, upReader, downWriter, upWriter | writers alone, readers together, nobody stuck |
| `FileSnapshot` (`OS/FileSnapshot.cpp`) | a vector of records, three pointers, the file `blockstack` | pushcc, pop, revokePop, init, readFromFile, writeToFile | behaves as one undo/redo history; never leaves the vector |
| Revocation (`OS/OperatingSystem.cpp` 1974-2043, `OS/Log.cpp`) | the records in force, the log of commands | pushBlockAndInode, pushTag, revoke, initializeSnapshot | revoke undoes exactly one request; the log says which |
| Persistence (`OS/OperatingSystem.cpp` 9-56, 1896-1971, `printLog` in `server.cpp` 111-115) | the files `system.txt`, `blockstack`, `Log`, the backups | the constructors, writeSystem, printLog, backup, recover | a restart brings back what was there, and what can be undone from it |
| File system (`OS/OperatingSystem.cpp` 551-1583) | inodes, blocks, bitmap | createDirectory, createFile, deleteDirectory, writeFile | a tree; no block shared or lost; everything modified was saved |
| Accounts (`OS/OperatingSystem.cpp` 58-549, handlers in `server.cpp`) | tables of users, passwords and groups in blocks 1 to 3, a directory for each course | createUser, deleteUser, createCourse, deleteCourse, addToCourse, deleteFromCourse, modifyPassword | names unique; nothing refers to a user or a group that is gone |
| Sessions (`server.cpp` 88-109, 1050-1212) | one thread and one user number for each client | login, one request after the other | acts for the user who logged in |
| Homework requests (`server.cpp` 117-472) | directories and files of the image, above all one text with score and comment | publish, submit, mark, comment, delete | marking keeps the comment, commenting keeps the score, handing in again keeps both |
| Client and connection (`Client/client.cpp`, `TcpSocket/TcpSocket.cpp`) | a connection, the state of a menu | login, the requests, sendFile and recvFile, exit | both programs send and receive the same messages in the same order |

One thread serves each client and takes one request after the other from it. A
handler receives its arguments, takes the lock (as a reader or as a writer),
works on the image by calls of class `OperatingSystem`, ends with `printLog`
(a tag on the stack of records, written to `blockstack`; an entry in the log,
written to `Log`; the image written to `system.txt`, in this order) if it may
have modified something, releases the lock and sends the answer. The handlers
look up what they need first and then ignore the results of the operations: a
request of several operations that fails half way reports success and is tagged
like any other.

The behaviours that are hard to test are the interleavings of the lock's lines,
the discipline that everything is saved before it is modified (many operations,
one mechanism that trusts them all), limits (a full directory, block, group,
table), numbers that are reused while sessions hold them, requests that fail
half way, a stop between the writes of three files, texts cut and joined by
position, and two programs that must agree on every message without checking
any. `PROJECT.json` lists them as hazards, each at its line, with the properties
that cover it.

## Modules

| Module | What it is |
|---|---|
| `SharedAccess` | abstract: readers together, writers alone |
| `ReaderWriterLock` | the lock, one action for each line of the four functions |
| `UndoRedo` | abstract: a history walked back and forth, kept over a restart |
| `FileSnapshot` | the vector, its pointers and its file |
| `UndoRecords` | what a record saves and what restoring records gives |
| `Checkpoints` | abstract: commands leave checkpoints, revoke returns to the one before |
| `UndoLog` | the stack of records, the loop of revoke, the log, for any memory |
| `Persistence` | extends `UndoLog` with the files, the order they are written in, backups, and a restart at any moment |
| `FileSystem` | inodes, blocks and bitmap as one memory, with every operation the server calls to modify them; uses `UndoRecords`, implements `Checkpoints` |
| `Accounts` | the tables and the requests on them |
| `Sessions` | extends `Accounts` with the clients' sessions and the numbers they keep |
| `Grades` | abstract: an answer, a score and a comment for each submission |
| `Homework` | the texts behind them as the handlers cut and join them and as writeFile and readFile keep them; implements `Grades` |
| `Dialogue` | a client, its thread in the server, the connection between them, message by message |
| `...Proofs` | the proofs about `ReaderWriterLock`, `FileSnapshot`, `UndoLog`, `Persistence`, `Sessions`, `FileSystem`, `Dialogue` and `Homework` |
| `MC...` | constants and symmetry for TLC |

They fit together as layers. `ReaderWriterLock` justifies that a handler that
writes is one step for all others, so the other modules interleave requests and
not lines. `FileSnapshot` is shown to be a history; `UndoLog` therefore takes
the stack as a sequence (the `done` of `UndoRedo`). `UndoLog` shows that
revocation is exact *for any memory* if every write is preceded by a record
that saves the cell; `FileSystem` has the concrete operations and shows where
they keep this rule and where not. `Persistence` puts the files beside that
memory. `Sessions` and `Homework` are what users see of the image, request by
request; `Dialogue` is how the requests reach the handlers.

Definitions whose comment says "a slip" are variants of the definition that
follows with a plausible mistake; none is used by a specification. They are
there to show that each property can fail: with the slip in place of the
definition TLC finds the property violated (`mutants` in `PROJECT.json`).

### How state and actions correspond to the code

**ReaderWriterLock.** `mutex`, `mutex_reader`, `readerNum` are the members of
`OperatingSystem` (`OperatingSystem.h` 124-126); `pc[t]` is the line the thread
executes next. A locked mutex blocks the action. The unlock by a thread that
did not lock is undefined in POSIX for a default mutex; the C library of the
build releases it and that is what the model does.

**FileSnapshot.** The variables have the names of the members; `blockstack` is
the content of the file. `ReadFromFile` is a restart at any moment: the server
stops without saving and the constructor reads the file.

**UndoLog.** `mem` maps cells (an inode, the content of a block, a bit) to
values. A record is a function on the cells that one call of
`pushBlockAndInode` saves. `PushBlockAndInode` and `Write` may alternate in any
way a command likes. `StartRevoke`, `RestoreOne` and `FinishRevoke` are the
lines of `revoke`. `MayAbandon` says whether a command may end without a tag,
as `recoverySystem` does when it cannot open `system.txt` (lines 1959-1963).

**Persistence.** `blockstack`, `Log`, `system` and `backups` are the contents
of the files. `todo` is what the request in progress has still to write, in the
order of the calls; `initializeSnapshot` joins its two writes by `&`, whose
order C++ leaves open, so both orders are taken. `Restart` is always possible:
it reads the files and forgets the memory. A destructor would write files too,
but `main` never returns. `apart` is a history variable: it is set by what
takes the memory off the history the files tell (a revocation, a recovery, the
popping of records without a tag) and reset when `printLog` has written all
three files.

**FileSystem.** `mem` has `InodeCell(i)`, `BlockCell(b)` and `BitCell(b)`.
Every action is one operation of class `OperatingSystem`, with the records it
pushes in their order. `CreateInFullDirectory` and `CreateOverEntry` are the
two things that a full directory leads to; both go on to use bytes nothing has
defined, so they set `undefined` and the model stops there. `Below`, which
`deleteAllFileInDirectory` computes by recursion, is the intersection of the
sets that are closed under the entries of their directories. `misled` is a
history variable: it is set when `revoke` restores a record by which
`writeFile` meant to save a file and saved another block (`Mistaken`, line
1460). What the records give back after that is the subject of the run
`RevokeIndexedFile`; the invariants speak of the states before (`Sound`).

**Accounts.** `users`, `passwords` and `groups` are the blocks 1 to 3 as
tables; `courses` is what the root directory says of each course (the owner
and the group of the directory). An action is one handler with all its calls.
`fits` says whether `createDirectory` finds room.

**Sessions.** `session[s]` is the name a client gave and the number it got for
it; the code keeps only the number. `LogIn` is the part of `login` under the
reader lock, `Act` one pass of `systemWorking` with that number, whoever has it
by then.

**Homework.** A text is a sequence of symbols instead of characters. The label
`Score: ` is one symbol that stands for its 7 characters, the heading
`\nComment:\n` is four that stand for its 10, and a score has three: so the
label with the score is as long as the heading (`Position`), as the ten of
`erase(0, 10)` and `substr(0, 10)` is in the code. `Stored` is `writeFile`
followed by `readFile`: a short text comes back as it was, one that fills its
block comes back in pieces of a block, each with whatever the block held behind
(`Leftovers`), and if the blocks run out (`MayRunOut`) only the first pieces.
`damaged` is a history variable, the sheets that found no block free.
What a reader takes for the score are the three symbols behind the label
without the blanks `mark` fills in (`Shown`); the client reads a score with
`cin >>`, so none has a blank of its own. `GradesRead` maps the texts to the
grades of `Grades`; a text that is no sheet and was never damaged would be
"garbled", which `Grades` does not allow.

**Dialogue.** A message is the role it is typed for ("course", "student") and
not the word itself, so that an argument taken for another one shows.
`ClientSends` and `ServerTakes` are the words of each request as the functions
of the two programs have them, written down twice on purpose: one table from
`client.cpp`, one from `server.cpp`; `Handled` are the options
`systemWorking` knows. `Say` is
one `sendMsg` of the client, `TakeWord` one `recvMsg` of a handler. The option
"0" or "1" says whether content follows as one message or as a file in chunks.
`link` is the connection as the server finds it: "open"; "finished" after the
client has closed it (`read` returns 0, for ever); "reset" when it closed it
with messages unread; "broken" when the next write raises SIGPIPE. The chunk
"binary" starts with a NUL and is received as an empty message.

## What the runs check

| Run | Bounds | Distinct states | Shows |
|---|---|---|---|
| `Lock` | 4 threads | 4057 | type, `Exclusion`, `CountExact`, `HandoverSafe`, `ReadersShare`, `ImplementsSharedAccess`, `Progress`, `Drains` |
| `Snapshot` | 2 records and the tag, vector up to 3 above position 0 | 74068 | `PointersOK`, `ImplementsUndoRedo` |
| `UndoLogExact` | 2 cells, 2 values, all groups of cells, 2 commands, 5 records | 86446 | type, `LogMatchesTags`, `ImplementsCheckpoints`, `RevokeReturns` |
| `Persistence` | 2 cells, 2 values, all groups of cells, 1 command, 1 backup, 4 records, commands may fail | 1079778 | type, `OneHistory`, `RestartIsAtomic`, `RestartKeepsHistory`, `LogStaysWithin` |
| `FileSystemSmall` | 3 inodes, 3 blocks, 2 entries, texts of one block, 6 records | 46051 | type, `TreeOK`, `NoLeak`, `Aligned`, `RevokeIsExact` |
| `FileSystemGeneral` | 3 inodes, 5 blocks, 1 entry, texts of one and two blocks, 6 records, until a mistaken record is restored | 212995 | `TreeOK`, `NoSharing` |
| `Sessions` | 4 users and 5 groups (2 of each are the system's), groups of 2, 3 names, 2 courses, 2 passwords, 2 clients | 264946 | type, `NamesUnique`, `CoursesConsistent`, `DeletedUsersPowerless`, `StudentLeaves` |
| `Homework` | 2 homeworks, 1 student, 3 scores, 2 answers, 2 comments, blocks of 10 symbols, sheets up to 11 | 24964 | type, `ImplementsGrades` |
| `Dialogue` | 1 client, 3 files (empty, text, with a NUL), it may be killed | 4548 | type, `ArgumentsMatch`, `RepliesMatch`, `NoStall`, `RequestsDoNotKill`, `Answered`, `SessionEnds` |

The bounds are chosen so that the interesting cases happen. Four threads are
a reader that leaves, one that arrives, one inside and a writer. A vector of
three lets a history be undone by two, cut short and undone again. Five records
are two commands of two overlapping records with a tag. With four records a
command ends behind another, is revoked, and the files are two commands behind
the memory or ahead of it; one name for commands is enough since the properties
count them. Three inodes are the root, a course and what is in it; one or two
entries make a directory full; three to five blocks run out within one text.
Two slots for users and three names let a number pass to another user while a
second session holds it, and a group of two is full with the teacher and one
student. In `Homework` a sheet is 8 symbols without a comment, so that the
comment of two fills the block and leaves something behind it; the scores are a
number, three characters that are none, and two. In `Dialogue` the file with a
NUL has a chunk after it, which is what is left over.

`MaxTop` and `MaxRecords` bound the length of the stack; they are guards of the
actions that push (`PushBack`, `Room`, `PushTag`) and have no counterpart in
the code, whose vector grows without limit. `LogRoom` bounds the log in the
same way, which can grow alone once it is torn from its records. `MaxSheet`
bounds a sheet, which `mark` makes longer with every leftover it reads back.
The constraint `NotMisled` of `FileSystemGeneral` stops the exploration at
states that its properties say nothing about (`misled`).

Deadlock is checked except in two runs: in `FileSystemGeneral` the model stops
on purpose once undefined bytes are used, and a `Dialogue` ends when the
session does. That client and server do not wait for each other before that is
an invariant, `NoStall`.

### Fairness

`ReaderWriterLock!FairSpec`: weak fairness of the lines of the lock (`Line`),
none for `Call`, since a client may stay silent, and none for `Return`, since a
handler may stay inside: `mark` can loop for ever (line 248), and the login
answer (line 98) is sent under the lock and waits while the socket's buffer is
full. The scheduler of the operating system runs every runnable thread; a mutex
gives no order among waiters, so no strong fairness. `Progress` says that as
long as some thread waits, threads are let in again and again (a step of
`GetsAccess`, and not merely a thread that is inside already), `Drains` that
everybody is served, a writer included, once the requests stop coming; both
unless a handler stays inside for ever (`Stays`). A thread that is stuck on its
way in or out is not inside: a reader that waits for `mutex` with
`mutex_reader` locked while a reader on its way out waits for `mutex_reader`
violates both. That a writer is served while readers keep coming is not claimed
and does not hold.

`UndoLog!FairSpec`: weak fairness of the loop of `revoke`, which runs under the
writer lock in one thread without blocking.

`Dialogue!Spec`: weak fairness of what the thread of the server does with the
connection alone (`Converse`), and of a client that has something to read. None
for the steps that take the lock (`Handle`: the look-ups of login and the
request itself), which may wait for ever behind other requests or never return;
so `Answered` promises the reply only if the handler, which by then has
received all of the request, does not wait or work for ever. None for what a
person does either: nobody has to ask, to finish typing or to exit, and a
client may be killed at any time. `SessionEnds` needs no lock.

## What disagrees with the code's own words

| Run | Property | What it shows |
|---|---|---|
| `RevokeIndexedFile` | `FileTypesTrue` | `writeFile` saves the block that has the number of the *inode* (line 1460). When a text of several blocks has made the two numbers differ, a revoked overwriting leaves an inode of type 2 over a block of text, or over pointers to blocks that are free or belong to others by then |
| `RevokeNotSaved` | `SystemIsCurrent` | `revoke` does not write `system.txt`, which the README calls the data of the current system: after a restart the revoked command is back, without a record to undo it by |
| `SessionOutlivesUser` | `SessionsOwn` | a session keeps its number when the user is deleted, and acts as the next user who gets it |

`FileSystemSmall` shows why line 1460 goes unnoticed: as long as every text
fits in one block, inodes and blocks are allocated first fit and freed together
(`Aligned`), so the number is right, and revoking is exact. The images in
`OSFile` are aligned in this sense. Without it more than a type goes wrong: with
more room than the run has, let a directory hold a large file and another large
file `f` lie beside it; clear the history, delete the directory, overwrite `f`
with a large text, which takes some of the blocks just freed, and revoke twice.
The directory has its blocks again, and the index block of `f`, which no record
saved, still points to some of them.

Further observations, met while reading and without a run of their own:

- `deleteAllFileInDirectory` frees one block of a file of several
  (`OperatingSystem.cpp` 808-818); the others stay marked.
- The conversion of a full directory copies the new index block and not the
  directory (lines 685-709, 1103-1127).
- `struct Group` has 130 bytes, not 128 (`OperatingSystem.h` 86): the last of
  16 groups lies over the password of user 0 (`CreateCourse` and `Noise` have
  it).
- Memberships of teachers and administrators, and those in groups without a
  directory, survive the user and pass to whoever gets the number next
  (`server.cpp` 918). `StudentLeaves` is what holds.
- A score of more than three characters makes `mark` append blanks without end,
  under the writer lock (line 248); "-1" and "abc" are accepted as scores
  (lines 197-215).
- A stop between the two writes of `revoke` or `clearsnapshot` leaves a log that
  names commands no record can undo; `LogStaysWithin` says that nothing else
  does.
- A client killed during login can kill the server by SIGPIPE
  (`RequestsDoNotKill` says that no request can); the thread of a client that
  vanished spins in `readn`. `README.md` 16 asks that clients be closed first.
- The branch of `publishHomework` for a homework that exists is never reached
  (line 140).

## What is proved

All theorems hold for every value of the constants under the named assumptions
of the modules.

**ReaderWriterLockProofs** (assumption: the set of threads is finite). The
inductive invariant `IInv` joins the type, the exactness of the counter, that
exactly one thread is inside the section of `mutex_reader` when it is locked,
and who holds `mutex`: the writer, or the readers as a group from the moment
the first has locked it until the last is about to unlock it. None of the
properties is inductive without the others: the counter needs the section, the
owner of `mutex` needs the counter, exclusion needs the owner. From it follow
`TypeOK`, `Exclusion`, `CountExact`, `HandoverSafe`, `ReadersShare`, and that
every step is a step of `SharedAccess` or a stutter
(`ImplementsSharedAccess`).

**FileSnapshotProofs** (assumptions: the tag is a record, the bound is a
number). `PointersOK` is inductive as it stands, with the same statement about
the file since `ReadFromFile` may happen at any time; with it each operation is
shown to be the step of `UndoRedo` of the same meaning. The leftovers above
`maxPointer` appear in no expression of the mapping, which is what the proof
establishes of the code.

**UndoLogProofs** (assumptions: groups are non-empty sets of cells). Types
(`TypeOK`) and `LogWithinTags` hold with or without commands that fail. For
`MayAbandon = FALSE`, the log matches the tags (`LogMatchesTags`), and
`RevocationExact` says that the loop implements `Checkpoints`: the lemmas state
what pushing a record, writing a saved cell and restoring the last record do to
`UndoTo`, the memory that undoing down to a position would give. The invariant
that carries it is that a write goes to a cell that a record above the last tag
saves, so that it changes no memory of an earlier tag.

**PersistenceProofs** (further assumption: the set of all cells is a group, as
`recoverySystem` saves them all). `OneHistory` is the statement that carries
the others: unless the memory has left it (`apart`), `system.txt` is what
undoing down to some tag `q` of the stack gives, and `blockstack` ends at `q`
or, once `printLog` has written it, at the tag after; while `revoke` runs the
stack is a prefix of the file instead (`FilesAhead`). It is inductive together
with `Shape`, what can be left to write at which moment. The lemmas say that
undoing commutes with itself: undoing to `q` and from there, with the records
up to `q` or with all of them, to an earlier `p` is undoing to `p`. A restart
then reads two files of one history: `RestartIsAtomic` and
`RestartKeepsHistory`. `LogStaysWithin` goes separately, from the order in
which `blockstack` and `Log` are written.

**SessionsProofs** (assumptions of `Accounts` on the sizes and the names). The
inductive invariant `AccountsInv` joins the type, `NamesUnique` and
`CoursesConsistent` with four facts they rest on: the groups of the system keep
their names (`SystemGroupsKept`) and are no group of a course directory
(`CourseGroups`), a group without a name is free (`UnnamedFree`), and a member
of a group of the system has it as the main group (`MainGroups`). Without them
a new course could take the number of a group in use, and a deletion, which
looks up groups by name, could hit another one than it means.
`DeletedUsersPowerless` follows from `CoursesConsistent`, as the owner of a
course is a teacher and a free number is not; `StudentLeaves` from it and from
`MainGroups`, as the only group of the system that can hold the number is the
one `deleteUser` takes it out of.
Sessions change nothing in the tables but through requests, whatever number
they hold, so the invariant speaks of all of them. Revoking or recovering
brings tables back that were there before; such tables satisfied the invariant
then, so the state invariants hold after it as well.

**FileSystemProofs** (assumptions of `FileSystem`: there is a root, there are
no fewer blocks than inodes, as in `OperatingSystem.h`, and a text has a
number of blocks). A memory is *good* when it is typed, the kind of block each
inode names is there, no block has two uses, each block in use is marked, and
the inodes in use are a tree. The inductive invariant `IInv` says that the
memory is good and that undoing down to any tag gives a good memory too, unless
a mistaken record lies above that tag; without the second part nothing is known
after a `revoke`. Each operation is shown to keep a good memory good, and to
change only cells that one of its records saves (`SavesChanges`), so that what
undoing gives stays what it was. One thing it does change: `writeFile` saves a
block it takes when the bit is already set (line 1369), so undoing leaves bits
raised, and raising bits keeps a memory good. From `IInv` follow `TypeOK`,
`TreeOK` and `NoSharing`, for texts of any number of blocks.
The lemmas on `LeastOf` (first fit lists the least elements of a set in order)
and on `Below` are used throughout: an entry set or cleared, and a directory
removed with what is below it, leave what can be walked to from the root as the
tree says.
For texts of one block (`OneBlock`) a second invariant, `EInv`, adds that
inodes in use have the block of their own number, that no other bit is set, and
that no record is mistaken. `Aligned` and `NoLeak` follow, and `RevokeIsExact`:
every step is a step of `Checkpoints` or a stutter, with what undoing to each
tag gives as the checkpoints.

**DialogueProofs** (assumption: files are sequences of chunks). The invariant
says, for each place where the client can be, where the thread is, what is on
its way to the client, and what the thread is still to receive (`Rest`: what is
on its way to it and what the client is about to send). After a transfer that
ended early that is left-over junk and then the request (`Ahead`); while the
thread has a request in hand, the words it has taken and those ahead are the
request (`Taking`). After the client has gone it bounds what can be left, and
says that a request in hand means that the client had read everything
(`Gone`), which is why its reply kills nobody. The lemma `SameTables` is where
both programs agree on the words of each request: a change of one side alone
makes it fail. With it, the number of words a handler takes is the number that
was sent: it takes no word too few (`WholeIsDone`) and none too many
(`DoneLeavesJunk`, `DoneExact`). From the invariant follow `TypeOK`,
`ArgumentsMatch`, `RepliesMatch`, `NoStall` and `RequestsDoNotKill`, for any
set of files and whether or not clients are killed.

**HomeworkProofs** (assumptions of `Homework`: texts are sequences of
symbols, scores have one to three without a blank, a block and `MaxSheet` hold
at least the sheet without a comment). A sheet is *framed* when label and
heading are in their places; the lemmas say symbol by symbol what `erase` and
`substr` leave of a framed text and that what `mark`, `writeComment` and
`submitHomework` join is framed again, with the new score and the old comment
or the other way round (`MarkedSheet`, `CommentedSheet`, `NewSheetFacts`).
What is found of a text that fills its block keeps the first block, whatever
lies behind the pieces and however many of them were stored (`StoredFacts`); as
a block holds label, score and heading, what is found is framed and has the
score (`StoredGrade`). The invariant `HInv` joins `TypeOK`, that every file is a
text, and that a sheet is framed unless it once found no block free. From it
`TypeOK`, and each request is the step of `Grades` of the same meaning or a
stutter (`ImplementsGrades`).

## What is only model-checked

`Progress`, `Drains`, `RevokeReturns`, `Answered` and `SessionEnds` are
liveness under fairness, which the prover cannot do. `NoLeak` and
`RevokeIsExact` are proved, and true, for texts of one block only.
The violations of the three runs above are counterexamples and need none.

## What is not modelled

- A write of one file that stops half way; the code could not tell.
- Scores of more than three characters (the request never ends) and the empty
  score; the text of the assignment, which is written once and only read.
- Names with a "/" in them: a course `a/b` would be a directory inside another.
- A chunk of a file that is itself the name of a request, in what is left over
  after a chunk with a NUL.
- `deleteFile`, `writeFile` with a block, `modify*` and `recover` (redo) of
  class `OperatingSystem`, which have no caller in the server.
- The walk of a path, which is reduced to the directory it ends in, and
  permissions other than those of course directories (in `Accounts`).
- A student called `_assignment`, whose homework would meet the file of that
  name.
- The race of `getGroupName` after `upReader` (line 1058) as bytes: it changes
  no state, and `Dialogue` lets the answer be any group or none.
- The handlers that only list or read: in `Dialogue` they are a reply, and
  elsewhere, as every request refused by a look-up, a stuttering step.
- The bytes of a message, connecting and listening. Messages arrive whole,
  although `writen` goes on from the start of a message after a short write
  (`TcpSocket.cpp` 103-122).
- Output, the texts of the log, lengths of names.

## Plan

1. Done: lock, snapshot, revocation, file system, accounts, persistence,
   sessions, homework texts, dialogue, and proofs for all of them.
2. The homework requests as sequences of `FileSystem` operations in one module,
   with the permissions of directories and the walk of a path.
