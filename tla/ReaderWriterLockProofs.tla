----------------------- MODULE ReaderWriterLockProofs -----------------------
(***************************************************************************)
(* Proofs about ReaderWriterLock for every finite set of threads.          *)
(*                                                                         *)
(* Exclusion is not inductive: it needs to know who holds each mutex.  The *)
(* invariant says that mutex_reader is held by the one thread between its  *)
(* lock and its unlock, that `mutex' is held exactly while there is a      *)
(* writer, a reader, or a leaving reader that has yet to look at the       *)
(* counter, and that the counter counts.                                   *)
(***************************************************************************)
EXTENDS ReaderWriterLock, FiniteSetTheorems, TLAPS

Leaving == At({"ur_mutex"})

GateInv ==
  /\ mutex_reader <=> GateHolders # {}
  /\ \A t, u \in GateHolders : t = u

MutexInv ==
  /\ mutex <=> Writers # {} \/ Readers # {} \/ Leaving # {}
  /\ Writers # {} => Readers = {} /\ Leaving = {}
  /\ \A t, u \in Writers : t = u

IInv == TypeOK /\ GateInv /\ MutexInv /\ CountExact

-----------------------------------------------------------------------------
(* How a step of one thread changes the group of threads at some lines.    *)
LEMMA AtAfterGoto ==
  ASSUME TypeOK, NEW t \in Threads, NEW from, NEW to \in Locations,
         Goto(t, from, to)
  PROVE  /\ pc' \in [Threads -> Locations]
         /\ pc[t] = from
         /\ pc'[t] = to
         /\ \A u \in Threads : u # t => pc'[u] = pc[u]
         /\ \A L : At(L)' = IF to \in L THEN At(L) \cup {t} ELSE At(L) \ {t}
<1>1. /\ pc' \in [Threads -> Locations]
      /\ pc[t] = from
      /\ pc'[t] = to
      /\ \A u \in Threads : u # t => pc'[u] = pc[u]
  BY DEF TypeOK, Goto
<1>2. ASSUME NEW L
      PROVE  At(L)' = IF to \in L THEN At(L) \cup {t} ELSE At(L) \ {t}
  BY <1>1 DEF At
<1>3. QED
  BY <1>1, <1>2

(* The groups are finite, so the counter counts them.                      *)
LEMMA CountedFinite == IsFiniteSet(Counted)
  BY FS_Subset, ThreadsAssumption DEF Counted, Readers, At

(* If nobody but t is counted, the counter is one; if nobody is, zero.     *)
LEMMA CountFacts ==
  ASSUME TypeOK, CountExact
  PROVE  /\ readerNum = 0 <=> Counted = {}
         /\ \A t \in Counted : readerNum = 1 <=> Counted = {t}
<1>1. readerNum = 0 <=> Counted = {}
  BY CountedFinite, FS_EmptySet DEF CountExact
<1>2. ASSUME NEW t \in Counted
      PROVE  readerNum = 1 <=> Counted = {t}
  <2>1. readerNum = 1 <=> \E x : Counted = {x}
    BY CountedFinite, FS_Singleton DEF CountExact
  <2>2. (\E x : Counted = {x}) <=> Counted = {t}
    OBVIOUS
  <2>3. QED
    BY <2>1, <2>2
<1>3. QED
  BY <1>1, <1>2

LEMMA InitIInv == Init => IInv
<1> SUFFICES ASSUME Init PROVE IInv
  OBVIOUS
<1>1. TypeOK
  BY DEF Init, TypeOK, Locations
<1>2. \A L : "idle" \notin L => At(L) = {}
  BY DEF Init, At
<1>3. /\ Readers = {} /\ Writers = {} /\ Counted = {}
      /\ GateHolders = {} /\ Leaving = {}
  BY <1>2 DEF Readers, Writers, Counted, GateHolders, Leaving
<1>4. QED
  BY <1>1, <1>3, FS_EmptySet
  DEF Init, IInv, GateInv, MutexInv, CountExact

-----------------------------------------------------------------------------
(* One lemma for each part of the invariant, one step for each action.     *)
LEMMA GateStep ==
  ASSUME IInv, NEW t \in Threads, Call(t) \/ Line(t) \/ Return(t)
  PROVE  GateInv'
<1> USE DEF IInv, TypeOK, GateInv, GateHolders, At, Goto, Lock, Unlock, Locations
<1>1. CASE CallReader(t)
  BY <1>1 DEF CallReader
<1>2. CASE CallWriter(t)
  BY <1>2 DEF CallWriter
<1>3. CASE DownReaderLock(t)
  BY <1>3 DEF DownReaderLock
<1>4. CASE DownReaderCount(t)
  BY <1>4 DEF DownReaderCount
<1>5. CASE DownReaderMutex(t)
  BY <1>5 DEF DownReaderMutex
<1>6. CASE DownReaderUnlock(t)
  BY <1>6 DEF DownReaderUnlock
<1>7. CASE CallUpReader(t)
  BY <1>7 DEF CallUpReader
<1>8. CASE UpReaderLock(t)
  BY <1>8 DEF UpReaderLock
<1>9. CASE UpReaderCount(t)
  BY <1>9 DEF UpReaderCount
<1>10. CASE UpReaderMutex(t)
  BY <1>10 DEF UpReaderMutex
<1>11. CASE UpReaderUnlock(t)
  BY <1>11 DEF UpReaderUnlock
<1>12. CASE DownWriter(t)
  BY <1>12 DEF DownWriter
<1>13. CASE UpWriter(t)
  BY <1>13 DEF UpWriter
<1>14. QED
  BY <1>1, <1>2, <1>3, <1>4, <1>5, <1>6, <1>7, <1>8, <1>9,
     <1>10, <1>11, <1>12, <1>13 DEF Call, Line, Return

LEMMA TypeStep ==
  ASSUME IInv, NEW t \in Threads, Call(t) \/ Line(t) \/ Return(t)
  PROVE  TypeOK'
<1> USE DEF TypeOK, Goto, Lock, Unlock, Locations
<1>0. TypeOK
  BY DEF IInv
<1>1. CASE CallReader(t)
  BY <1>0, <1>1 DEF CallReader
<1>2. CASE CallWriter(t)
  BY <1>0, <1>2 DEF CallWriter
<1>3. CASE DownReaderLock(t)
  BY <1>0, <1>3 DEF DownReaderLock
<1>4. CASE DownReaderCount(t)
  BY <1>0, <1>4 DEF DownReaderCount
<1>5. CASE DownReaderMutex(t)
  BY <1>0, <1>5 DEF DownReaderMutex
<1>6. CASE DownReaderUnlock(t)
  BY <1>0, <1>6 DEF DownReaderUnlock
<1>7. CASE CallUpReader(t)
  BY <1>0, <1>7 DEF CallUpReader
<1>8. CASE UpReaderLock(t)
  BY <1>0, <1>8 DEF UpReaderLock
<1>9. CASE UpReaderCount(t)
  <2>1. t \in Counted
    BY <1>9 DEF UpReaderCount, Counted, Readers, At
  <2>2. readerNum # 0
    BY <1>0, <2>1, CountFacts DEF IInv
  <2>3. QED
    BY <1>0, <1>9, <2>2 DEF UpReaderCount
<1>10. CASE UpReaderMutex(t)
  BY <1>0, <1>10 DEF UpReaderMutex
<1>11. CASE UpReaderUnlock(t)
  BY <1>0, <1>11 DEF UpReaderUnlock
<1>12. CASE DownWriter(t)
  BY <1>0, <1>12 DEF DownWriter
<1>13. CASE UpWriter(t)
  BY <1>0, <1>13 DEF UpWriter
<1>14. QED
  BY <1>1, <1>2, <1>3, <1>4, <1>5, <1>6, <1>7, <1>8, <1>9,
     <1>10, <1>11, <1>12, <1>13 DEF Call, Line, Return

LEMMA MutexStep ==
  ASSUME IInv, NEW t \in Threads, Call(t) \/ Line(t) \/ Return(t)
  PROVE  MutexInv'
<1> USE DEF TypeOK, MutexInv, Readers, Writers, Leaving, At, Goto, Lock,
            Unlock, Locations
<1>0. /\ TypeOK /\ MutexInv /\ GateInv
      /\ readerNum = 0 <=> Counted = {}
      /\ \A u \in Counted : readerNum = 1 <=> Counted = {u}
  BY CountFacts DEF IInv
<1>1. CASE CallReader(t)
  BY <1>0, <1>1 DEF CallReader
<1>2. CASE CallWriter(t)
  BY <1>0, <1>2 DEF CallWriter
<1>3. CASE DownReaderLock(t)
  BY <1>0, <1>3 DEF DownReaderLock
<1>4. CASE DownReaderCount(t)
  BY <1>0, <1>4 DEF DownReaderCount
<1>5. CASE DownReaderMutex(t)
  <2>1. t \in Counted /\ \A u \in Threads : pc[u] \in {"dr_mutex", "ur_mutex"} => u = t
    BY <1>0, <1>5 DEF DownReaderMutex, Counted, GateInv, GateHolders
  <2>2. CASE readerNum = 1
    <3>1. \A u \in Threads : u # t => pc[u] \notin {"dr_unlock", "reading", "ur_lock", "ur_count"}
      BY <1>0, <2>1, <2>2 DEF Counted
    <3>2. QED
      BY <1>0, <1>5, <2>1, <2>2, <3>1 DEF DownReaderMutex
  <2>3. CASE readerNum # 1
    <3>1. PICK u \in Counted : u # t
      BY <1>0, <2>1, <2>3
    <3>2. u \in Readers
      BY <2>1, <3>1 DEF Counted
    <3>3. QED
      BY <1>0, <1>5, <2>1, <2>3, <3>2 DEF DownReaderMutex
  <2>4. QED
    BY <2>2, <2>3
<1>6. CASE DownReaderUnlock(t)
  BY <1>0, <1>6 DEF DownReaderUnlock
<1>7. CASE CallUpReader(t)
  BY <1>0, <1>7 DEF CallUpReader
<1>8. CASE UpReaderLock(t)
  BY <1>0, <1>8 DEF UpReaderLock
<1>9. CASE UpReaderCount(t)
  BY <1>0, <1>9 DEF UpReaderCount
<1>10. CASE UpReaderMutex(t)
  <2>1. \A u \in Threads : pc[u] \in {"dr_mutex", "ur_mutex"} => u = t
    BY <1>0, <1>10 DEF UpReaderMutex, GateInv, GateHolders
  <2>2. CASE readerNum = 0
    <3>1. Readers = {}
      BY <1>0, <2>2 DEF Counted
    <3>2. QED
      BY <1>0, <1>10, <2>1, <2>2, <3>1 DEF UpReaderMutex
  <2>3. CASE readerNum # 0
    <3>1. PICK u \in Counted : TRUE
      BY <1>0, <2>3
    <3>2. u \in Readers
      BY <2>1, <3>1, <1>10 DEF Counted, UpReaderMutex
    <3>3. QED
      BY <1>0, <1>10, <2>1, <2>3, <3>2 DEF UpReaderMutex
  <2>4. QED
    BY <2>2, <2>3
<1>11. CASE UpReaderUnlock(t)
  BY <1>0, <1>11 DEF UpReaderUnlock
<1>12. CASE DownWriter(t)
  BY <1>0, <1>12 DEF DownWriter
<1>13. CASE UpWriter(t)
  BY <1>0, <1>13 DEF UpWriter
<1>14. QED
  BY <1>1, <1>2, <1>3, <1>4, <1>5, <1>6, <1>7, <1>8, <1>9,
     <1>10, <1>11, <1>12, <1>13 DEF Call, Line, Return

(* Only the increment and the decrement change the threads counted.        *)
LEMMA CountStep ==
  ASSUME IInv, NEW t \in Threads, Call(t) \/ Line(t) \/ Return(t)
  PROVE  CountExact'
<1>0. TypeOK /\ CountExact
  BY DEF IInv
<1>1. CASE DownReaderCount(t)
  <2>1. Counted' = Counted \cup {t} /\ t \notin Counted
    BY <1>0, <1>1
    DEF DownReaderCount, Counted, Readers, At, Goto, TypeOK, Locations
  <2>2. QED
    BY <1>0, <1>1, <2>1, CountedFinite, FS_AddElement
    DEF DownReaderCount, CountExact
<1>2. CASE UpReaderCount(t)
  <2>1. Counted' = Counted \ {t} /\ t \in Counted
    BY <1>0, <1>2
    DEF UpReaderCount, Counted, Readers, At, Goto, TypeOK, Locations
  <2>2. QED
    BY <1>0, <1>2, <2>1, CountedFinite, FS_RemoveElement
    DEF UpReaderCount, CountExact
<1>3. CASE ~ DownReaderCount(t) /\ ~ UpReaderCount(t)
  <2>1. Counted' = Counted /\ readerNum' = readerNum
    BY <1>0, <1>3
    DEF Counted, Readers, At, Goto, TypeOK, Locations, Call, Line, Return,
        CallReader, CallWriter, DownReaderLock, DownReaderMutex,
        DownReaderUnlock, CallUpReader, UpReaderLock, UpReaderMutex,
        UpReaderUnlock, DownWriter, UpWriter
  <2>2. QED
    BY <1>0, <2>1 DEF CountExact
<1>4. QED
  BY <1>1, <1>2, <1>3

LEMMA Invariance == IInv /\ [Next]_vars => IInv'
<1> SUFFICES ASSUME IInv, [Next]_vars PROVE IInv'
  OBVIOUS
<1>1. CASE UNCHANGED vars
  BY <1>1 DEF vars, IInv, TypeOK, GateInv, MutexInv, CountExact, GateHolders,
              Writers, Readers, Leaving, Counted, At
<1>2. CASE Next
  BY <1>2, TypeStep, GateStep, MutexStep, CountStep DEF Next, IInv
<1>3. QED
  BY <1>1, <1>2

(* The inductive invariant holds in every reachable state.                 *)
THEOREM Inductive == Spec => []IInv
  BY InitIInv, Invariance, PTL DEF Spec

-----------------------------------------------------------------------------
(* The lock keeps its types: in particular the counter never goes below 0. *)
THEOREM TypeCorrect == Spec => []TypeOK
<1>1. IInv => TypeOK
  BY DEF IInv
<1>2. QED
  BY <1>1, Inductive, PTL

(* Handlers that modify the image are alone, for any number of clients.    *)
THEOREM MutualExclusion == Spec => []Exclusion
<1>1. IInv => Exclusion
  BY DEF IInv, MutexInv, Exclusion
<1>2. QED
  BY <1>1, Inductive, PTL

(* The counter equals the number of threads inside, for any interleaving.  *)
THEOREM Counting == Spec => []CountExact
<1>1. IInv => CountExact
  BY DEF IInv
<1>2. QED
  BY <1>1, Inductive, PTL

(* The last reader releases a mutex that the readers really hold.          *)
THEOREM Handover == Spec => []HandoverSafe
<1>1. IInv => HandoverSafe
  BY DEF IInv, MutexInv, HandoverSafe, Leaving
<1>2. QED
  BY <1>1, Inductive, PTL

(* A reader that arrives while others read is not blocked by `mutex'.      *)
THEOREM Sharing == Spec => []ReadersShare
<1>1. ASSUME IInv PROVE ReadersShare
  <2>1. SUFFICES ASSUME Readers # {}, NEW t \in At({"dr_mutex"})
                 PROVE  readerNum > 1
    BY DEF ReadersShare
  <2>2. t \in Counted /\ t \notin Readers /\ Counted # {t} /\ Counted # {}
    BY <2>1 DEF Counted, Readers, At
  <2>3. readerNum # 0 /\ readerNum # 1
    BY <1>1, <2>2, CountFacts DEF IInv
  <2>4. QED
    BY <1>1, <2>3 DEF IInv, TypeOK
<1>2. QED
  BY <1>1, Inductive, PTL

-----------------------------------------------------------------------------
(* Every step of the lock is a step of SharedAccess or leaves the readers  *)
(* and the writer as they are.                                             *)
LEMMA StepSimulation ==
  ASSUME IInv, NEW t \in Threads, Call(t) \/ Line(t) \/ Return(t)
  PROVE  [SA!Next]_(SA!accessVars)
<1> USE DEF Goto, TypeOK, Locations, Readers, Writers, At
<1>0. TypeOK /\ MutexInv /\ MutexInv'
  BY MutexStep DEF IInv
<1>1. CASE DownReaderMutex(t)
  <2>1. Readers' = Readers \cup {t} /\ t \in Readers' /\ Writers' = Writers
    BY <1>0, <1>1 DEF DownReaderMutex
  <2>2. t \notin Readers /\ t \notin Writers /\ Writers = {}
    BY <1>0, <1>1, <2>1 DEF DownReaderMutex, MutexInv
  <2>3. SA!StartReading(t)
    BY <2>1, <2>2 DEF SA!StartReading, SA!Outside
  <2>4. QED
    BY <2>3 DEF SA!Next
<1>2. CASE UpReaderCount(t)
  <2>1. Readers' = Readers \ {t} /\ t \in Readers /\ Writers' = Writers
    BY <1>0, <1>2 DEF UpReaderCount
  <2>2. SA!StopReading(t)
    BY <2>1 DEF SA!StopReading
  <2>3. QED
    BY <2>2 DEF SA!Next
<1>3. CASE DownWriter(t)
  <2>1. Readers' = Readers /\ Writers' = Writers \cup {t}
    BY <1>0, <1>3 DEF DownWriter
  <2>2. Readers = {} /\ Writers = {}
    BY <1>0, <1>3 DEF DownWriter, MutexInv, Lock
  <2>3. SA!StartWriting(t)
    BY <2>1, <2>2 DEF SA!StartWriting
  <2>4. QED
    BY <2>3 DEF SA!Next
<1>4. CASE UpWriter(t)
  <2>1. Readers' = Readers /\ Writers' = Writers \ {t} /\ t \in Writers
    BY <1>0, <1>4 DEF UpWriter
  <2>2. SA!StopWriting(t)
    BY <2>1 DEF SA!StopWriting
  <2>3. QED
    BY <2>2 DEF SA!Next
<1>5. CASE \/ Call(t) \/ DownReaderLock(t) \/ DownReaderCount(t)
           \/ DownReaderUnlock(t) \/ CallUpReader(t) \/ UpReaderLock(t)
           \/ UpReaderMutex(t) \/ UpReaderUnlock(t)
  <2>1. Readers' = Readers /\ Writers' = Writers
    BY <1>0, <1>5
    DEF Call, CallReader, CallWriter, DownReaderLock, DownReaderCount,
        DownReaderUnlock, CallUpReader, UpReaderLock, UpReaderMutex,
        UpReaderUnlock
  <2>2. QED
    BY <2>1 DEF SA!accessVars
<1>6. QED
  BY <1>1, <1>2, <1>3, <1>4, <1>5 DEF Line, Return

(* The four functions implement shared access, for any number of clients.  *)
THEOREM Refinement == Spec => ImplementsSharedAccess
<1>1. Init => SA!Init
  BY DEF Init, SA!Init, Readers, Writers, At
<1>2. IInv /\ [Next]_vars => [SA!Next]_(SA!accessVars)
  <2>1. CASE UNCHANGED vars
    BY <2>1 DEF vars, SA!accessVars, Readers, Writers, At
  <2>2. ASSUME IInv, Next PROVE [SA!Next]_(SA!accessVars)
    BY <2>2, StepSimulation DEF Next
  <2>3. QED
    BY <2>1, <2>2
<1>3. QED
  BY <1>1, <1>2, Inductive, PTL DEF Spec, ImplementsSharedAccess, SA!Spec
=============================================================================
