-------------------------- MODULE ReaderWriterLock --------------------------
(***************************************************************************)
(* The readers-writer lock of the server (downReader, upReader,            *)
(* downWriter, upWriter in src/Server/server.cpp): two pthread mutexes     *)
(* and a counter that live in the OperatingSystem object.  Every request   *)
(* handler brackets its use of the image with one pair of these calls.     *)
(*                                                                         *)
(* There is one thread per connected client.  Each line of the four        *)
(* functions is a step of its own, so every interleaving of their lines is *)
(* explored.  The first reader locks `mutex' on behalf of all readers and  *)
(* the last one unlocks it, which is in general another thread: POSIX      *)
(* leaves that undefined for a default mutex, and the build's C library    *)
(* releases the mutex, which is what UpReaderMutex does.                   *)
(***************************************************************************)
EXTENDS Naturals, FiniteSets

CONSTANT Threads

ASSUME ThreadsAssumption == IsFiniteSet(Threads)

VARIABLES
  mutex,         \* TRUE while `mutex' is locked (by the writer or the readers)
  mutex_reader,  \* TRUE while `mutex_reader', the guard of the counter, is locked
  readerNum,     \* the counter of readers
  pc             \* the line each thread is about to execute

vars == <<mutex, mutex_reader, readerNum, pc>>

Locations == {"idle",
              "dr_lock", "dr_count", "dr_mutex", "dr_unlock", "reading",
              "ur_lock", "ur_count", "ur_mutex", "ur_unlock",
              "dw_mutex", "writing"}

TypeOK ==
  /\ mutex \in BOOLEAN
  /\ mutex_reader \in BOOLEAN
  /\ readerNum \in Nat
  /\ pc \in [Threads -> Locations]

Init ==
  /\ mutex = FALSE
  /\ mutex_reader = FALSE
  /\ readerNum = 0
  /\ pc = [t \in Threads |-> "idle"]

Goto(t, from, to) == pc[t] = from /\ pc' = [pc EXCEPT ![t] = to]

(***************************************************************************)
(* pthread_mutex_lock blocks while the mutex is locked.                    *)
(***************************************************************************)
Lock(m) == ~m /\ m' = TRUE
Unlock(m) == m' = FALSE

-----------------------------------------------------------------------------
(* Slips that the properties below exclude.                                *)
DownReaderForgetsCount(t) ==
  /\ Goto(t, "dr_count", "dr_mutex")
  /\ UNCHANGED <<mutex, mutex_reader, readerNum>>

DownReaderLocksLate(t) ==
  /\ Goto(t, "dr_mutex", "dr_unlock")
  /\ IF readerNum = 2 THEN Lock(mutex) ELSE UNCHANGED mutex
  /\ UNCHANGED <<mutex_reader, readerNum>>

UpReaderForgetsCount(t) ==
  /\ Goto(t, "ur_count", "ur_mutex")
  /\ UNCHANGED <<mutex, mutex_reader, readerNum>>

UpReaderAlwaysUnlocks(t) ==
  /\ Goto(t, "ur_mutex", "ur_unlock")
  /\ Unlock(mutex)
  /\ UNCHANGED <<mutex_reader, readerNum>>

UpReaderNeverUnlocks(t) ==
  /\ Goto(t, "ur_mutex", "ur_unlock")
  /\ UNCHANGED <<mutex, mutex_reader, readerNum>>

UpReaderKeepsGate(t) ==
  /\ Goto(t, "ur_unlock", "idle")
  /\ UNCHANGED <<mutex, mutex_reader, readerNum>>

DownWriterBargesIn(t) ==
  /\ Goto(t, "dw_mutex", "writing")
  /\ mutex' = TRUE
  /\ UNCHANGED <<mutex_reader, readerNum>>

-----------------------------------------------------------------------------
(* A client's request reaches its thread and the handler asks for access.  *)

CallReader(t) ==
  /\ Goto(t, "idle", "dr_lock")
  /\ UNCHANGED <<mutex, mutex_reader, readerNum>>

CallWriter(t) ==
  /\ Goto(t, "idle", "dw_mutex")
  /\ UNCHANGED <<mutex, mutex_reader, readerNum>>

(* downReader *)

DownReaderLock(t) ==
  /\ Goto(t, "dr_lock", "dr_count")
  /\ Lock(mutex_reader)
  /\ UNCHANGED <<mutex, readerNum>>

DownReaderCount(t) ==
  /\ Goto(t, "dr_count", "dr_mutex")
  /\ readerNum' = readerNum + 1
  /\ UNCHANGED <<mutex, mutex_reader>>

DownReaderMutex(t) ==
  /\ Goto(t, "dr_mutex", "dr_unlock")
  /\ IF readerNum = 1 THEN Lock(mutex) ELSE UNCHANGED mutex
  /\ UNCHANGED <<mutex_reader, readerNum>>

DownReaderUnlock(t) ==
  /\ Goto(t, "dr_unlock", "reading")
  /\ Unlock(mutex_reader)
  /\ UNCHANGED <<mutex, readerNum>>

(* upReader *)

CallUpReader(t) ==
  /\ Goto(t, "reading", "ur_lock")
  /\ UNCHANGED <<mutex, mutex_reader, readerNum>>

UpReaderLock(t) ==
  /\ Goto(t, "ur_lock", "ur_count")
  /\ Lock(mutex_reader)
  /\ UNCHANGED <<mutex, readerNum>>

UpReaderCount(t) ==
  /\ Goto(t, "ur_count", "ur_mutex")
  /\ readerNum' = readerNum - 1
  /\ UNCHANGED <<mutex, mutex_reader>>

UpReaderMutex(t) ==
  /\ Goto(t, "ur_mutex", "ur_unlock")
  /\ IF readerNum = 0 THEN Unlock(mutex) ELSE UNCHANGED mutex
  /\ UNCHANGED <<mutex_reader, readerNum>>

UpReaderUnlock(t) ==
  /\ Goto(t, "ur_unlock", "idle")
  /\ Unlock(mutex_reader)
  /\ UNCHANGED <<mutex, readerNum>>

(* downWriter and upWriter *)

DownWriter(t) ==
  /\ Goto(t, "dw_mutex", "writing")
  /\ Lock(mutex)
  /\ UNCHANGED <<mutex_reader, readerNum>>

UpWriter(t) ==
  /\ Goto(t, "writing", "idle")
  /\ Unlock(mutex)
  /\ UNCHANGED <<mutex_reader, readerNum>>

-----------------------------------------------------------------------------
(* A client may stay silent for ever, and a handler may stay inside: a     *)
(* thread runs on only through the lines of the lock.                      *)
Call(t) == CallReader(t) \/ CallWriter(t)

Line(t) ==
  \/ DownReaderLock(t) \/ DownReaderCount(t) \/ DownReaderMutex(t)
  \/ DownReaderUnlock(t)
  \/ UpReaderLock(t) \/ UpReaderCount(t) \/ UpReaderMutex(t)
  \/ UpReaderUnlock(t)
  \/ DownWriter(t)

Return(t) == CallUpReader(t) \/ UpWriter(t)

Next == \E t \in Threads : Call(t) \/ Line(t) \/ Return(t)

Spec == Init /\ [][Next]_vars

(* The scheduler runs every runnable thread; the mutexes are not fair.     *)
FairSpec == Spec /\ \A t \in Threads : WF_vars(Line(t))

-----------------------------------------------------------------------------
(* The threads grouped by what they may do or what they hold.              *)

At(locations) == {t \in Threads : pc[t] \in locations}

Readers == At({"dr_unlock", "reading", "ur_lock", "ur_count"})
Writers == At({"writing"})
Counted == Readers \cup At({"dr_mutex"})
GateHolders == At({"dr_count", "dr_mutex", "dr_unlock",
                   "ur_count", "ur_mutex", "ur_unlock"})
Arriving == At({"dr_lock", "dr_count", "dr_mutex", "dw_mutex"})
Inside == At({"reading", "writing"})

(***************************************************************************)
(* A handler that modifies the image never runs beside one that reads it   *)
(* or beside another that modifies it.                                     *)
(***************************************************************************)
Exclusion ==
  /\ Writers # {} => Readers = {}
  /\ \A t, u \in Writers : t = u

(***************************************************************************)
(* The counter is exactly the number of threads between their increment    *)
(* and their decrement: no lost update and no underflow at server.cpp:72.  *)
(***************************************************************************)
CountExact == readerNum = Cardinality(Counted)

(***************************************************************************)
(* Whoever unlocks `mutex' in upReader unlocks a mutex that is locked and  *)
(* that belongs to the readers, although it may never have locked it.      *)
(***************************************************************************)
HandoverSafe ==
  \A t \in At({"ur_mutex"}) : readerNum = 0 => mutex /\ Writers = {}

(***************************************************************************)
(* A reader that arrives while others read does not block on `mutex' at    *)
(* server.cpp:65, whatever happened to the counter while it was waiting.   *)
(***************************************************************************)
ReadersShare == Readers # {} => \A t \in At({"dr_mutex"}) : readerNum > 1

(***************************************************************************)
(* Between them the four functions implement shared access.                *)
(***************************************************************************)
SA == INSTANCE SharedAccess WITH readers <- Readers, writers <- Writers
ImplementsSharedAccess == SA!Spec

(***************************************************************************)
(* No deadlock over the two mutexes: a thread that asked for access gets   *)
(* it, unless others get it over and over or a handler stays inside for    *)
(* ever.  (Which thread goes first is up to the mutexes: a writer can be   *)
(* overtaken for ever by readers.)                                         *)
(***************************************************************************)
GetsAccess ==
  \E t \in Threads : DownReaderMutex(t) \/ DownWriter(t)
Stays(t) == <>[](t \in Inside)
Progress ==
  <>[](Arriving # {}) => []<><<GetsAccess>>_vars \/ \E t \in Threads : Stays(t)

(***************************************************************************)
(* Once the clients stop sending requests, and if no handler stays inside  *)
(* for ever, every thread that was waiting, a writer behind a crowd of     *)
(* readers included, is served and returns.                                *)
(***************************************************************************)
NoCall == \A t \in Threads : ~ Call(t)
Drains ==
  <>[][NoCall]_vars =>
    <>[](At({"idle"}) = Threads) \/ \E t \in Threads : Stays(t)
=============================================================================
