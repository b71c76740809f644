-------------------------- MODULE PersistenceProofs --------------------------
(***************************************************************************)
(* Proofs about Persistence for every set of cells, values, commands and   *)
(* backups, whether or not requests fail.                                  *)
(*                                                                         *)
(* A restart from files of one history keeps the history because undoing   *)
(* commutes with itself: undoing to q and then, with the records up to q   *)
(* or with all of them, to an earlier p is undoing to p (UndoPrefix and    *)
(* UndoAgain).  That the files are of one history (OneHistory) is          *)
(* inductive together with what is left to write (Shape).                  *)
(***************************************************************************)
EXTENDS Persistence, UndoLogProofs

LEMMA UndoAgain ==
  ASSUME NEW s, NEW m, NEW p \in Nat, NEW q \in Nat, p <= q
  PROVE  UndoTo(UndoTo(m, s, q), s, p) = UndoTo(m, s, p)
<1>1. ASSUME NEW c \in Cells
      PROVE  UndoTo(UndoTo(m, s, q), s, p)[c] = UndoTo(m, s, p)[c]
  <2>1. CASE SaversOf(c, s, p) # {}
    BY <2>1 DEF UndoTo
  <2>2. CASE SaversOf(c, s, p) = {}
    <3>1. SaversOf(c, s, q) = {}
      <4>1. \A k \in q + 1 .. Len(s) : k \in p + 1 .. Len(s)
        OBVIOUS
      <4>2. QED
        BY <2>2, <4>1 DEF SaversOf
    <3>2. QED
      BY <2>2, <3>1 DEF UndoTo
  <2>3. QED
    BY <2>1, <2>2
<1>2. QED
  BY <1>1 DEF UndoTo

LEMMA UndoPrefix ==
  ASSUME NEW s \in Seq(Entries), NEW q \in 0 .. Len(s), NEW p \in 0 .. q, NEW m
  PROVE  UndoTo(UndoTo(m, s, q), SubSeq(s, 1, q), p) = UndoTo(m, s, p)
<1> DEFINE t == SubSeq(s, 1, q)
<1>1. Len(s) \in Nat /\ Len(t) = q /\ \A k \in 1 .. q : t[k] = s[k]
  BY LenProperties
<1>2. ASSUME NEW c \in Cells
      PROVE  UndoTo(UndoTo(m, s, q), t, p)[c] = UndoTo(m, s, p)[c]
  <2> DEFINE K == SaversOf(c, t, p)
             L == SaversOf(c, s, p)
             Q == SaversOf(c, s, q)
  <2>1. /\ K \in SUBSET Nat /\ L \in SUBSET Nat
        /\ K \subseteq 1 .. q /\ K \subseteq L
        /\ L \ K \subseteq q + 1 .. Len(s)
        /\ Q \subseteq L /\ Q = L \ K
    BY <1>1 DEF SaversOf
  <2> HIDE DEF K, L, Q, t
  <2>2. CASE K # {}
    <3>1. Min(L) = Min(K) /\ Min(K) \in 1 .. q
      <4>1. \A l \in L \ K : \A k \in K : k <= l
        BY <1>1, <2>1
      <4>2. QED
        BY <2>1, <2>2, <4>1, MinStable, MinFacts
    <3>2. t[Min(K)] = s[Min(L)] /\ L # {}
      BY <1>1, <2>1, <2>2, <3>1
    <3>3. QED
      BY <2>2, <3>2 DEF UndoTo, K, L
  <2>3. CASE K = {}
    <3>1. Q = L
      BY <2>1, <2>3
    <3>2. UndoTo(UndoTo(m, s, q), t, p)[c] = UndoTo(m, s, q)[c]
      BY <2>3 DEF UndoTo, K
    <3>3. QED
      BY <3>1, <3>2 DEF UndoTo, L, Q
  <2>4. QED
    BY <2>2, <2>3
<1>3. QED
  BY <1>2 DEF UndoTo

(* The tags of the lower part of a stack.                                  *)
LEMMA TagsPrefix ==
  ASSUME NEW s \in Seq(Entries), NEW q \in 0 .. Len(s)
  PROVE  Tags(SubSeq(s, 1, q)) = {p \in Tags(s) : p <= q}
<1>1. Len(s) \in Nat /\ Len(SubSeq(s, 1, q)) = q
      /\ \A k \in 1 .. q : SubSeq(s, 1, q)[k] = s[k]
  BY LenProperties
<1>2. QED
  BY <1>1 DEF Tags

-----------------------------------------------------------------------------
(* What a request can still have to do, and what is then known whether or  *)
(* not the files are of one history.                                       *)
Recovering == {<<"system", "tag">>, <<"tag">>}
Shortening == {<<"blockstack", "Log">>, <<"Log", "blockstack">>,
               <<"Log">>, <<"blockstack">>}

Shape ==
  /\ todo \in {<<>>} \cup Printing \cup Recovering \cup Shortening
  /\ revoking => Idle
  /\ todo \in Printing => Top > 0
  /\ todo \in Printing \cup Shortening => AtTag /\ ~ revoking
  /\ todo \in {<<"Log", "system">>, <<"system">>, <<"Log">>} => blockstack = stack
  /\ todo \in Recovering => apart
  /\ todo = <<"system", "tag">> => ~ AtTag
  /\ todo \in Shortening => apart \/ (stack = <<>> /\ system = mem)
  /\ Len(blockstack) \in Tags(blockstack)

(* The steps in memory are steps of UndoLog.                               *)
LEMMA MemorySteps ==
  /\ Execute => [Next]_vars
  /\ \A command \in Commands : EndCommand(command) => [Next]_vars
  /\ BeginRevoke \/ RevokeRecord \/ EndRevoke \/ ClearSnapshot => [Next]_vars
<1>1. Execute => [Next]_vars
  BY DEF Execute, Next
<1>2. \A command \in Commands : EndCommand(command) => [Next]_vars
  BY DEF EndCommand, Next
<1>3. BeginRevoke \/ RevokeRecord \/ EndRevoke \/ ClearSnapshot => [Next]_vars
  BY DEF BeginRevoke, RevokeRecord, EndRevoke, ClearSnapshot, Next, Revoking
<1>4. QED
  BY <1>1, <1>2, <1>3

LEMMA DurableInitType == DurableInit => DurableTypeOK
<1>1. <<>> \in Seq(Works)
  BY EmptySeq
<1>2. QED
  BY <1>1, InitType DEF DurableInit, DurableTypeOK, TypeOK

LEMMA DurableTypeStep ==
  DurableTypeOK /\ [DurableNext]_durableVars => DurableTypeOK'
<1> SUFFICES ASSUME DurableTypeOK, [DurableNext]_durableVars PROVE DurableTypeOK'
  OBVIOUS
<1>0. TypeOK /\ ([Next]_vars => TypeOK')
  BY TypeInvariant DEF DurableTypeOK
<1>1. CASE Execute
  BY <1>0, <1>1, MemorySteps DEF Execute, DurableTypeOK, files
<1>2. ASSUME NEW command \in Commands, EndCommand(command) PROVE DurableTypeOK'
  <2>1. <<"blockstack", "Log", "system">> \in Seq(Works)
    BY DEF Works
  <2>2. QED
    BY <1>0, <1>2, <2>1, MemorySteps DEF EndCommand, DurableTypeOK, files
<1>3. CASE BeginRevoke
  BY <1>0, <1>3, MemorySteps DEF BeginRevoke, DurableTypeOK, files
<1>4. CASE RevokeRecord
  BY <1>0, <1>4, MemorySteps DEF RevokeRecord, DurableTypeOK, files
<1>5. CASE EndRevoke
  <2>1. <<"blockstack", "Log">> \in Seq(Works)
    BY DEF Works
  <2>2. QED
    BY <1>0, <1>5, <2>1, MemorySteps DEF EndRevoke, DurableTypeOK, files
<1>6. CASE ClearSnapshot
  <2>1. /\ <<"blockstack", "Log">> \in Seq(Works)
        /\ <<"Log", "blockstack">> \in Seq(Works)
    BY DEF Works
  <2>2. QED
    BY <1>0, <1>6, <2>1, MemorySteps DEF ClearSnapshot, DurableTypeOK, files
<1>7. ASSUME NEW version \in Versions, BackupSystem(version) PROVE DurableTypeOK'
  BY <1>7 DEF BackupSystem, DurableTypeOK, TypeOK, vars
<1>8. ASSUME NEW version \in Versions, RecoverSystem(version) PROVE DurableTypeOK'
  <2>1. [c \in Cells |-> mem[c]] \in Records
    BY WholeAssumption DEF Records, Memories, DurableTypeOK, TypeOK
  <2>2. Append(stack, [c \in Cells |-> mem[c]]) \in Seq(Records \cup {Tag})
    BY <2>1, AppendProperties DEF DurableTypeOK, TypeOK
  <2>3. backups[version] \in Memories
    BY DEF DurableTypeOK
  <2>4. <<"system", "tag">> \in Seq(Works) /\ <<>> \in Seq(Works)
    BY DEF Works
  <2>5. todo' \in Seq(Works)
    BY <1>8, <2>4 DEF RecoverSystem
  <2>6. QED
    BY <1>8, <2>2, <2>3, <2>5 DEF RecoverSystem, DurableTypeOK, TypeOK, files
<1>9. ASSUME NEW work \in Works, Do(work) PROVE todo' \in Seq(Works)
  BY <1>9, HeadTailProperties DEF Do, DurableTypeOK
<1>10. CASE WriteBlockstack
  BY <1>9, <1>10 DEF WriteBlockstack, Works, DurableTypeOK, TypeOK, vars
<1>11. CASE WriteLog
  BY <1>9, <1>11 DEF WriteLog, Works, DurableTypeOK, TypeOK, vars
<1>12. CASE WriteSystem
  BY <1>9, <1>12 DEF WriteSystem, Works, DurableTypeOK, TypeOK, vars
<1>13. CASE Restart
  <2>1. <<>> \in Seq(Works)
    BY EmptySeq
  <2>2. QED
    BY <1>13, <2>1 DEF Restart, DurableTypeOK, TypeOK, files
<1>14. CASE UNCHANGED durableVars
  BY <1>14 DEF durableVars, vars, files, DurableTypeOK, TypeOK
<1>15. QED
  BY <1>1, <1>2, <1>3, <1>4, <1>5, <1>6, <1>7, <1>8, <1>10, <1>11, <1>12,
     <1>13, <1>14 DEF DurableNext

(* Memory, files and what is left to write keep their types through every  *)
(* stop and start of the server.                                           *)
THEOREM DurableTypeCorrect == DurableSpec => []DurableTypeOK
  BY DurableInitType, DurableTypeStep, PTL DEF DurableSpec

-----------------------------------------------------------------------------
(* What each write of a file leaves to do.                                 *)
LEMMA Writes ==
  /\ <<"blockstack", "Log", "system">> # <<>> /\ Head(<<"blockstack", "Log", "system">>) = "blockstack"
  /\ Tail(<<"blockstack", "Log", "system">>) = <<"Log", "system">>
  /\ <<"Log", "system">> # <<>> /\ Head(<<"Log", "system">>) = "Log"
  /\ Tail(<<"Log", "system">>) = <<"system">>
  /\ <<"system">> # <<>> /\ Head(<<"system">>) = "system"
  /\ Tail(<<"system">>) = <<>>
  /\ <<"system", "tag">> # <<>> /\ Head(<<"system", "tag">>) = "system"
  /\ Tail(<<"system", "tag">>) = <<"tag">>
  /\ <<"tag">> # <<>> /\ Head(<<"tag">>) = "tag"
  /\ Tail(<<"tag">>) = <<>>
  /\ <<"blockstack", "Log">> # <<>> /\ Head(<<"blockstack", "Log">>) = "blockstack"
  /\ Tail(<<"blockstack", "Log">>) = <<"Log">>
  /\ <<"Log", "blockstack">> # <<>> /\ Head(<<"Log", "blockstack">>) = "Log"
  /\ Tail(<<"Log", "blockstack">>) = <<"blockstack">>
  /\ <<"Log">> # <<>> /\ Head(<<"Log">>) = "Log"
  /\ Tail(<<"Log">>) = <<>>
  /\ <<"blockstack">> # <<>> /\ Head(<<"blockstack">>) = "blockstack"
  /\ Tail(<<"blockstack">>) = <<>>
  OBVIOUS

LEMMA Distinct ==
  /\ \A x \in Printing \cup Recovering \cup Shortening : x # <<>>
  /\ Printing \cap Shortening = {} /\ Printing \cap Recovering = {}
  /\ Shortening \cap Recovering = {}
  BY DEF Printing, Recovering, Shortening

LEMMA DoBlockstack ==
  ASSUME Shape, Do("blockstack")
  PROVE  \/ /\ todo = <<"blockstack", "Log", "system">> /\ todo' = <<"Log", "system">>
            /\ todo \in Printing /\ todo' \in Printing
         \/ /\ todo = <<"blockstack", "Log">> /\ todo' = <<"Log">>
            /\ todo \in Shortening /\ todo' \in Shortening
         \/ /\ todo = <<"blockstack">> /\ todo' = <<>> /\ todo \in Shortening
  BY Writes DEF Shape, Do, Printing, Recovering, Shortening

LEMMA DoLog ==
  ASSUME Shape, Do("Log")
  PROVE  \/ /\ todo = <<"Log", "system">> /\ todo' = <<"system">>
            /\ todo \in Printing /\ todo' \in Printing
         \/ /\ todo = <<"Log", "blockstack">> /\ todo' = <<"blockstack">>
            /\ todo \in Shortening /\ todo' \in Shortening
         \/ /\ todo = <<"Log">> /\ todo' = <<>> /\ todo \in Shortening
  BY Writes DEF Shape, Do, Printing, Recovering, Shortening

LEMMA DoSystem ==
  ASSUME Shape, Do("system")
  PROVE  \/ todo = <<"system">> /\ todo' = <<>> /\ todo \in Printing
         \/ /\ todo = <<"system", "tag">> /\ todo' = <<"tag">>
            /\ todo \in Recovering /\ todo' \in Recovering
  BY Writes DEF Shape, Do, Printing, Recovering, Shortening

-----------------------------------------------------------------------------
(* A tag at the end.                                                       *)
LEMMA AtTagFacts ==
  ASSUME TypeOK
  PROVE  /\ Len(stack) \in Nat /\ stack \in Seq(Entries)
         /\ AtTag <=> Len(stack) \in Tags(stack)
         /\ stack = <<>> => AtTag
<1>1. Len(stack) \in Nat /\ stack \in Seq(Entries)
  BY LenProperties DEF TypeOK, Entries
<1>2. QED
  BY <1>1 DEF AtTag, Top, Tags

LEMMA ShapeInit == DurableInit => Shape
<1> SUFFICES ASSUME DurableInit PROVE Shape
  OBVIOUS
<1>1. Len(blockstack) = 0
  BY EmptySeq DEF DurableInit, Init
<1>2. Len(blockstack) \in Tags(blockstack)
  BY <1>1 DEF Tags
<1>3. QED
  BY <1>2, Distinct, Writes DEF DurableInit, Init, Shape, Idle

(* Clearing or restarting from files of one history finds system.txt and   *)
(* the memory equal.                                                       *)
LEMMA SettledFacts ==
  ASSUME DurableTypeOK, Shape, OneHistory, Idle, ~ revoking, AtTag, ~ apart
  PROVE  system = mem /\ blockstack = stack
<1>1. PICK q \in 0 .. Len(stack) : SavedAt(q)
  BY DEF OneHistory, Idle
<1>2. todo \notin Printing
  BY Distinct DEF Idle
<1>3. Len(stack) \in Nat /\ Len(stack) \in Tags(stack) /\ mem \in Memories
  BY AtTagFacts DEF DurableTypeOK, TypeOK
<1>4. q = Len(stack)
  BY <1>1, <1>2, <1>3 DEF SavedAt
<1>5. system = mem
  BY <1>1, <1>3, <1>4, UndoNothing DEF SavedAt
<1>6. SubSeq(stack, 1, Len(stack)) = stack
  BY AtTagFacts DEF DurableTypeOK
<1>7. QED
  BY <1>1, <1>2, <1>4, <1>5, <1>6 DEF SavedAt

LEMMA ShapeStep ==
  ASSUME DurableTypeOK, Shape, OneHistory, [DurableNext]_durableVars
  PROVE  Shape'
<1>0. /\ TypeOK /\ TypeOK' /\ Len(stack) \in Nat
      /\ AtTag <=> Len(stack) \in Tags(stack)
      /\ DurableTypeOK'
  BY DurableTypeStep, AtTagFacts DEF DurableTypeOK
<1> USE DEF Idle
<1>1. CASE Execute
  BY <1>1, Distinct DEF Execute, PushBlockAndInode, Write, Shape, files
<1>2. ASSUME NEW command \in Commands, EndCommand(command) PROVE Shape'
  <2>1. Extends(stack', stack) /\ stack'[Len(stack')] = Tag
    BY <1>0, <1>2, Push DEF EndCommand, PushTag, Entries
  <2>2. Len(stack') > 0
    BY <1>0, <2>1 DEF Extends
  <2>3. todo' \in Printing /\ todo' \notin Recovering \cup Shortening
    BY <1>2, Distinct DEF EndCommand, Printing
  <2>4. todo' \notin {<<"Log", "system">>, <<"system">>, <<"Log">>}
    BY <1>2 DEF EndCommand
  <2>5. ~ revoking'
    BY <1>2 DEF EndCommand, PushTag
  <2>6. todo' # <<"system", "tag">>
    BY <2>3 DEF Recovering
  <2>7. QED
    BY <1>2, <2>1, <2>2, <2>3, <2>4, <2>5, <2>6
    DEF EndCommand, Shape, Top, AtTag, files
<1>3. CASE BeginRevoke
  BY <1>3, Distinct, Writes DEF BeginRevoke, StartRevoke, Shape, files
<1>4. CASE RevokeRecord
  BY <1>4, Distinct, Writes DEF RevokeRecord, RestoreOne, Shape, files
<1>5. CASE EndRevoke
  <2>1. todo' \in Shortening /\ todo' \notin Printing \cup Recovering
    BY <1>5, Distinct DEF EndRevoke, Shortening
  <2>2. todo' \notin {<<"Log", "system">>, <<"system">>, <<"Log">>}
    BY <1>5 DEF EndRevoke
  <2>3. todo' # <<"system", "tag">>
    BY <2>1 DEF Recovering
  <2>4. QED
    BY <1>5, <2>1, <2>2, <2>3 DEF EndRevoke, FinishRevoke, Shape, AtTag, Top, files
<1>6. CASE ClearSnapshot
  <2>1. todo' \in Shortening /\ todo' \notin Printing \cup Recovering
    BY <1>6, Distinct DEF ClearSnapshot, Shortening
  <2>2. todo' \notin {<<"Log", "system">>, <<"system">>, <<"Log">>}
    BY <1>6 DEF ClearSnapshot
  <2>3. todo' # <<"system", "tag">>
    BY <2>1 DEF Recovering
  <2>4. ~ apart' => system' = mem'
    BY <1>6, SettledFacts DEF ClearSnapshot, InitializeSnapshot, files
  <2>5. stack' = <<>> /\ AtTag' /\ ~ revoking'
    BY <1>0, <1>6 DEF ClearSnapshot, InitializeSnapshot, AtTag, Top
  <2>6. QED
    BY <1>6, <2>1, <2>2, <2>3, <2>4, <2>5 DEF ClearSnapshot, Shape, files
<1>7. ASSUME NEW version \in Versions, BackupSystem(version) PROVE Shape'
  BY <1>7 DEF BackupSystem, Shape, vars, AtTag, Top
<1>8. ASSUME NEW version \in Versions, RecoverSystem(version) PROVE Shape'
  <2> DEFINE r == [c \in Cells |-> mem[c]]
  <2>1. r \in Records
    BY <1>0, WholeAssumption DEF Records, Memories, TypeOK
  <2>2. Extends(stack', stack) /\ stack'[Len(stack')] = r /\ r # Tag
    BY <1>0, <1>8, <2>1, Push, EntryFacts DEF RecoverSystem, Entries
  <2>3. ~ AtTag'
    BY <1>0, <2>2 DEF Extends, AtTag, Top
  <2>4. todo' \in {<<>>, <<"system", "tag">>}
    BY <1>8 DEF RecoverSystem
  <2>5. /\ todo' \in {<<>>} \cup Recovering
        /\ todo' \notin Printing \cup Shortening
        /\ todo' \notin {<<"Log", "system">>, <<"system">>, <<"Log">>}
    BY <2>4, Distinct, Writes DEF Recovering
  <2>6. QED
    BY <1>8, <2>3, <2>5 DEF RecoverSystem, Shape, files
<1>9. CASE WriteBlockstack
  <2>1. todo \in Printing \cup Shortening
    BY <1>9, DoBlockstack DEF WriteBlockstack
  <2>2. AtTag /\ ~ revoking
    BY <2>1 DEF Shape
  <2>3. Len(blockstack') \in Tags(blockstack')
    BY <1>0, <1>9, <2>2 DEF WriteBlockstack
  <2>4. /\ todo' \in {<<>>} \cup Printing \cup Shortening
        /\ todo' \in Printing => todo \in Printing
        /\ todo' \in Shortening => todo \in Shortening
        /\ todo' \notin Recovering
    BY <1>9, DoBlockstack, Distinct DEF WriteBlockstack
  <2>5. todo' # <<"system", "tag">>
    BY <2>4 DEF Recovering
  <2>6. UNCHANGED vars /\ UNCHANGED <<system, apart>> /\ blockstack' = stack
    BY <1>9 DEF WriteBlockstack
  <2>7. AtTag' /\ Top' = Top /\ UNCHANGED <<mem, stack, commandStack, revoking>>
    BY <2>2, <2>6 DEF vars, AtTag, Top
  <2>8. QED
    BY <2>2, <2>3, <2>4, <2>5, <2>6, <2>7 DEF Shape
<1>10. CASE WriteLog
  <2>1. todo \in Printing \cup Shortening
    BY <1>10, DoLog DEF WriteLog
  <2>2. AtTag /\ ~ revoking
    BY <2>1 DEF Shape
  <2>3. /\ todo' \in {<<>>} \cup Printing \cup Shortening
        /\ todo' \in Printing => todo \in Printing
        /\ todo' \in Shortening => todo \in Shortening
        /\ todo' \notin Recovering
        /\ todo' \in {<<"Log", "system">>, <<"system">>, <<"Log">>}
              => todo \in {<<"Log", "system">>, <<"system">>, <<"Log">>}
    BY <1>10, DoLog, Distinct, Writes DEF WriteLog
  <2>4. todo' # <<"system", "tag">>
    BY <2>3 DEF Recovering
  <2>5. UNCHANGED vars /\ UNCHANGED <<blockstack, system, apart>>
    BY <1>10 DEF WriteLog
  <2>6. AtTag' /\ Top' = Top /\ UNCHANGED <<mem, stack, commandStack, revoking>>
    BY <2>2, <2>5 DEF vars, AtTag, Top
  <2>7. QED
    BY <2>2, <2>3, <2>4, <2>5, <2>6 DEF Shape
<1>11. CASE WriteSystem
  <2>1. \/ todo \in Printing /\ todo' = <<>>
        \/ todo \in Recovering /\ todo' = <<"tag">>
    BY <1>11, DoSystem DEF WriteSystem
  <2>2. \/ todo' = <<>>
        \/ /\ todo' \in Recovering /\ todo' \notin Printing \cup Shortening
           /\ todo' # <<"system", "tag">>
           /\ todo' \notin {<<"Log", "system">>, <<"system">>, <<"Log">>}
           /\ apart' /\ ~ revoking
    <3>1. CASE todo \in Printing /\ todo' = <<>>
      BY <3>1
    <3>2. CASE todo \in Recovering /\ todo' = <<"tag">>
      <4>1. todo = <<"system", "tag">> /\ apart /\ ~ AtTag /\ ~ revoking
        <5>1. todo = <<"system", "tag">>
          BY <1>11, <3>2, DoSystem, Distinct DEF WriteSystem
        <5>2. QED
          BY <3>2, <5>1, Distinct DEF Shape
      <4>2. todo' \in Recovering /\ todo' # <<"system", "tag">>
        BY <3>2 DEF Recovering
      <4>3. todo' \notin Printing \cup Shortening
        BY <4>2, Distinct
      <4>4. todo' \notin {<<"Log", "system">>, <<"system">>, <<"Log">>}
        BY <3>2
      <4>5. QED
        BY <1>11, <4>1, <4>2, <4>3, <4>4 DEF WriteSystem
    <3>3. QED
      BY <2>1, <3>1, <3>2
  <2>3. UNCHANGED <<mem, stack, commandStack, revoking, blockstack>>
    BY <1>11 DEF WriteSystem, vars
  <2>4. ~ revoking
    BY <2>1, Distinct DEF Shape
  <2>5. CASE todo' = <<>>
    BY <2>3, <2>4, <2>5, Distinct, Writes DEF Shape
  <2>6. QED
    BY <2>2, <2>3, <2>5 DEF Shape
<1>12. CASE Restart
  BY <1>12, Distinct, Writes DEF Restart, Shape, files
<1>13. CASE UNCHANGED durableVars
  BY <1>13 DEF durableVars, vars, files, Shape, AtTag, Top
<1>14. QED
  BY <1>1, <1>2, <1>3, <1>4, <1>5, <1>6, <1>7, <1>8, <1>9, <1>10, <1>11,
     <1>12, <1>13 DEF DurableNext

-----------------------------------------------------------------------------
LEMMA HistoryInit == DurableInit => OneHistory
<1> SUFFICES ASSUME DurableInit PROVE SavedAt(0) /\ ~ revoking /\ Len(stack) = 0
  BY DEF OneHistory
<1>1. /\ stack = <<>> /\ Len(stack) = 0 /\ ~ revoking /\ mem \in Memories
      /\ blockstack = <<>> /\ system = mem /\ todo = <<>>
  BY EmptySeq DEF DurableInit, Init
<1>2. Tags(stack) = {0}
  BY <1>1 DEF Tags
<1>3. UndoTo(mem, stack, 0) = mem
  BY <1>1, UndoNothing
<1>4. SubSeq(stack, 1, 0) = <<>>
  BY <1>1
<1>5. QED
  BY <1>1, <1>2, <1>3, <1>4, Distinct DEF SavedAt

(* The files at q stay so when the stack only grows above q.               *)
LEMMA PrefixStable ==
  ASSUME NEW s \in Seq(Entries), NEW t \in Seq(Entries), Extends(t, s),
         NEW q \in 0 .. Len(s)
  PROVE  SubSeq(t, 1, q) = SubSeq(s, 1, q)
  BY LenProperties DEF Extends

LEMMA HistoryStep ==
  ASSUME DurableTypeOK, Shape, OneHistory, [DurableNext]_durableVars
  PROVE  OneHistory'
<1>0. /\ TypeOK /\ TypeOK' /\ Len(stack) \in Nat /\ Len(stack') \in Nat
      /\ stack \in Seq(Entries) /\ stack' \in Seq(Entries)
      /\ AtTag <=> Len(stack) \in Tags(stack)
      /\ Tags(stack) \subseteq 0 .. Len(stack) /\ mem \in Memories
      /\ DurableTypeOK' /\ Shape'
  <2>1. DurableTypeOK' /\ Shape'
    BY DurableTypeStep, ShapeStep
  <2>2. TypeOK /\ TypeOK'
    BY <2>1 DEF DurableTypeOK
  <2>3. Len(stack') \in Nat /\ stack' \in Seq(Entries)
    BY <2>2, LenProperties DEF TypeOK, Entries
  <2>4. QED
    BY <2>1, <2>2, <2>3, AtTagFacts, TagsFacts DEF TypeOK
<1> USE DEF Idle
<1>1. ASSUME NEW g \in Groups, Idle, PushBlockAndInode(g), UNCHANGED <<files, todo, apart>>
      PROVE  OneHistory'
  <2> DEFINE r == [c \in g |-> mem[c]]
  <2>1. r \in Records
    BY <1>0, GroupsAssumption DEF Records, Memories
  <2>2. Extends(stack', stack) /\ stack'[Len(stack')] = r /\ r # Tag
    BY <1>0, <1>1, <2>1, Push, EntryFacts DEF PushBlockAndInode, Entries
  <2>3. Tags(stack') = Tags(stack)
    BY <2>2, TagsExtend
  <2>4. Restore(mem, r) = mem
    BY <1>0 DEF Restore, Memories
  <2>5. \A p \in Tags(stack) : UndoTo(mem, stack', p) = UndoTo(mem, stack, p)
    BY <1>0, <2>2, <2>4, UndoLast
  <2>6. ~ revoking /\ ~ revoking' /\ mem' = mem /\ Len(stack') = Len(stack) + 1
    BY <1>1, <2>2 DEF PushBlockAndInode, Extends
  <2>7. ASSUME NEW q \in 0 .. Len(stack), SavedAt(q) PROVE SavedAt(q)'
    <3>1. SubSeq(stack', 1, q) = SubSeq(stack, 1, q)
      BY <1>0, <2>2, PrefixStable
    <3>2. todo' = todo /\ todo \notin Printing
      BY <1>1, Distinct
    <3>3. QED
      BY <1>1, <2>3, <2>5, <2>6, <2>7, <3>1, <3>2 DEF SavedAt, files
  <2>8. QED
    BY <1>0, <1>1, <2>6, <2>7 DEF OneHistory
<1>2. ASSUME NEW c \in Cells, NEW v \in Values, Idle, Write(c, v),
             UNCHANGED <<files, todo, apart>>
      PROVE  OneHistory'
  <2>1. \A p \in Tags(stack) : UndoTo(mem', stack, p) = UndoTo(mem, stack, p)
    <3>1. ASSUME NEW p \in Tags(stack), NEW d \in Cells, mem[d] # mem'[d]
          PROVE  SaversOf(d, stack, p) # {}
      BY <1>0, <1>2, <3>1, SavedAboveTags DEF Write, Memories
    <3>2. QED
      BY <3>1, UndoIgnoresSaved
  <2>2. ~ revoking /\ ~ revoking' /\ stack' = stack
    BY <1>2 DEF Write
  <2>3. ASSUME NEW q \in 0 .. Len(stack), SavedAt(q) PROVE SavedAt(q)'
    BY <1>2, <2>1, <2>2, <2>3 DEF SavedAt, files
  <2>4. QED
    BY <1>2, <2>2, <2>3 DEF OneHistory
<1>3. ASSUME NEW command \in Commands, EndCommand(command) PROVE OneHistory'
  <2> DEFINE n == Len(stack) + 1
  <2>1. /\ Extends(stack', stack) /\ stack'[Len(stack')] = Tag
        /\ Len(stack') = n
    BY <1>0, <1>3, Push DEF EndCommand, PushTag, Entries, Extends
  <2>2. Tags(stack') = Tags(stack) \cup {n}
    BY <2>1, TagsExtend
  <2>3. Restore(mem, Tag) = mem
    BY <1>0, EntryFacts DEF Restore, Memories
  <2>4. \A p \in Tags(stack) : UndoTo(mem, stack', p) = UndoTo(mem, stack, p)
    BY <1>0, <2>1, <2>3, UndoLast
  <2>5. /\ ~ revoking /\ ~ revoking' /\ mem' = mem /\ apart' = apart
        /\ blockstack' = blockstack /\ system' = system /\ todo' \in Printing
    BY <1>3 DEF EndCommand, PushTag, files, Printing
  <2>6. SUFFICES ASSUME ~ apart PROVE OneHistory'
    BY <2>5 DEF OneHistory
  <2>7. todo = <<>> /\ todo \notin Printing
    BY <1>3, <2>6, Distinct DEF EndCommand, Shape, Recovering
  <2>8. PICK q \in 0 .. Len(stack) : SavedAt(q)
    BY <2>5, <2>6, <2>7 DEF OneHistory
  <2>9. SubSeq(stack', 1, q) = SubSeq(stack, 1, q)
    BY <1>0, <2>1, PrefixStable
  <2>10. SavedAt(q)'
    BY <1>0, <2>1, <2>2, <2>4, <2>5, <2>7, <2>8, <2>9 DEF SavedAt
  <2>11. q \in 0 .. Len(stack')
    BY <1>0, <2>1
  <2>12. QED
    BY <2>5, <2>10, <2>11 DEF OneHistory
<1>4. CASE BeginRevoke
  <2>1. /\ Top > 0 /\ ~ revoking /\ revoking' /\ mem' = mem /\ Idle
        /\ UNCHANGED <<files, todo>> /\ stack' = Front(stack)
    BY <1>4 DEF BeginRevoke, StartRevoke
  <2>2. SUFFICES ASSUME ~ apart' PROVE FilesAhead'
    BY <2>1 DEF OneHistory
  <2>3. ~ apart /\ AtTag
    BY <1>4, <2>2 DEF BeginRevoke
  <2>4. system = mem /\ blockstack = stack
    BY <2>1, <2>3, SettledFacts
  <2>5. Extends(stack, stack') /\ stack[Len(stack)] = Tag
    BY <1>0, <2>1, <2>3, PopFacts DEF AtTag, Top
  <2>6. Restore(mem, Tag) = mem
    BY <1>0, EntryFacts DEF Restore, Memories
  <2>7. \A p \in Tags(stack') : p \in 0 .. Len(stack')
    BY <1>0, TagsFacts
  <2>8. \A p \in Tags(stack') : UndoTo(mem, stack, p) = UndoTo(mem, stack', p)
    BY <2>5, <2>6, <2>7, UndoLast
  <2>9. QED
    BY <1>0, <2>1, <2>4, <2>5, <2>8 DEF FilesAhead, Extends, files
<1>5. CASE RevokeRecord
  <2> DEFINE r == stack[Len(stack)]
  <2>1. /\ Len(stack) > 0 /\ r # Tag /\ revoking /\ revoking'
        /\ mem' = Restore(mem, r) /\ stack' = Front(stack)
        /\ UNCHANGED <<files, todo, apart>>
    BY <1>0, <1>5 DEF RevokeRecord, RestoreOne, AtTag, Top
  <2>2. Extends(stack, stack')
    BY <1>0, <2>1, PopFacts DEF Top
  <2>3. Tags(stack') = Tags(stack) /\ Tags(stack) \subseteq 0 .. Len(stack')
    BY <1>0, <2>1, <2>2, TagsExtend, TagsFacts
  <2>4. \A p \in Tags(stack) : UndoTo(mem', stack', p) = UndoTo(mem, stack, p)
    BY <2>1, <2>2, <2>3, UndoLast
  <2>5. FilesAhead => FilesAhead'
    BY <1>0, <2>1, <2>2, <2>3, <2>4, LenProperties
    DEF FilesAhead, Extends, files, DurableTypeOK
  <2>6. QED
    BY <2>1, <2>5 DEF OneHistory
<1>6. CASE EndRevoke
  BY <1>6 DEF EndRevoke, OneHistory
<1>7. CASE ClearSnapshot
  BY <1>7, Distinct DEF ClearSnapshot, OneHistory, Shortening
<1>8. ASSUME NEW version \in Versions, BackupSystem(version) PROVE OneHistory'
  BY <1>8 DEF BackupSystem, OneHistory, SavedAt, FilesAhead, vars
<1>9. ASSUME NEW version \in Versions, RecoverSystem(version) PROVE OneHistory'
  BY <1>9 DEF RecoverSystem, OneHistory
<1>10. CASE WriteBlockstack
  <2>1. /\ UNCHANGED <<mem, stack, commandStack, revoking, system, apart>>
        /\ blockstack' = stack
    BY <1>10 DEF WriteBlockstack, vars
  <2>2. CASE todo \in Printing /\ todo' \in Printing
    <3>1. \A q : SavedAt(q) => SavedAt(q)'
      BY <2>1, <2>2 DEF SavedAt
    <3>2. ~ revoking
      BY <2>2 DEF Shape
    <3>3. QED
      BY <2>1, <2>2, <3>1, <3>2 DEF OneHistory
  <2>3. CASE todo \in Shortening /\ todo' \in Shortening
    BY <2>3, Distinct DEF OneHistory
  <2>4. CASE todo \in Shortening /\ todo' = <<>>
    <3>1. SUFFICES ASSUME ~ apart PROVE SavedAt(0)' /\ ~ revoking'
      BY <1>0, <2>1 DEF OneHistory
    <3>2. stack = <<>> /\ system = mem /\ ~ revoking
      BY <2>4, <3>1, Distinct DEF Shape
    <3>3. UndoTo(mem, stack, 0) = mem /\ Tags(stack) = {0}
      BY <1>0, <3>2, UndoNothing DEF Tags
    <3>4. SubSeq(stack, 1, 0) = stack
      BY <3>2
    <3>5. QED
      BY <2>1, <2>4, <3>2, <3>3, <3>4, Distinct DEF SavedAt
  <2>5. QED
    BY <1>10, <2>2, <2>3, <2>4, DoBlockstack DEF WriteBlockstack
<1>11. CASE WriteLog
  <2>1. UNCHANGED <<mem, stack, commandStack, revoking, blockstack, system, apart>>
    BY <1>11 DEF WriteLog, vars
  <2>2. CASE todo \in Printing /\ todo' \in Printing
    BY <2>1, <2>2 DEF OneHistory, SavedAt, FilesAhead
  <2>3. CASE todo \in Shortening /\ todo' \in Shortening
    BY <2>3, Distinct DEF OneHistory
  <2>4. CASE todo = <<"Log">> /\ todo \in Shortening /\ todo' = <<>>
    <3>1. SUFFICES ASSUME ~ apart PROVE SavedAt(0)' /\ ~ revoking'
      BY <1>0, <2>1 DEF OneHistory
    <3>2. stack = <<>> /\ system = mem /\ ~ revoking /\ blockstack = stack
      BY <2>4, <3>1, Distinct DEF Shape
    <3>3. UndoTo(mem, stack, 0) = mem /\ Tags(stack) = {0}
      BY <1>0, <3>2, UndoNothing DEF Tags
    <3>4. SubSeq(stack, 1, 0) = stack
      BY <3>2
    <3>5. QED
      BY <2>1, <2>4, <3>2, <3>3, <3>4, Distinct DEF SavedAt
  <2>5. QED
    BY <1>11, <2>2, <2>3, <2>4, DoLog DEF WriteLog
<1>12. CASE WriteSystem
  <2>1. /\ UNCHANGED <<mem, stack, commandStack, revoking, blockstack>>
        /\ system' = mem /\ apart' = (apart /\ ~ AtTag)
    BY <1>12 DEF WriteSystem, vars
  <2>2. CASE todo = <<"system">> /\ todo' = <<>> /\ todo \in Printing
    <3>1. AtTag /\ ~ revoking /\ blockstack = stack
      BY <2>2 DEF Shape
    <3>2. UndoTo(mem, stack, Len(stack)) = mem /\ Len(stack) \in Tags(stack)
      BY <1>0, <3>1, UndoNothing
    <3>3. SubSeq(stack, 1, Len(stack)) = stack
      BY <1>0
    <3>4. SavedAt(Len(stack))'
      BY <1>0, <2>1, <2>2, <3>1, <3>2, <3>3, Distinct DEF SavedAt
    <3>5. Len(stack) \in 0 .. Len(stack') /\ ~ revoking'
      BY <1>0, <2>1, <3>1
    <3>6. (\E q \in 0 .. Len(stack) : SavedAt(q))'
      BY <2>1, <3>4, <3>5
    <3>7. QED
      BY <3>5, <3>6 DEF OneHistory
  <2>3. CASE todo \in Recovering /\ todo' \in Recovering
    BY <2>3, Distinct DEF OneHistory
  <2>4. QED
    BY <1>12, <2>2, <2>3, DoSystem DEF WriteSystem
<1>13. CASE Restart
  <2>1. /\ mem' = system /\ stack' = blockstack /\ ~ revoking'
        /\ todo' = <<>> /\ blockstack' = blockstack /\ system' = system
    BY <1>13 DEF Restart, files
  <2>2. Len(stack') \in Tags(stack') /\ mem' \in Memories
    BY <1>0, <2>1 DEF Shape, TypeOK
  <2>3. UndoTo(mem', stack', Len(stack')) = mem'
    BY <1>0, <2>2, UndoNothing
  <2>4. SubSeq(stack', 1, Len(stack')) = stack'
    BY <1>0
  <2>5. \A p \in Tags(stack') : p <= Len(stack')
    BY <1>0, TagsFacts
  <2>6. (\E q \in 0 .. Len(stack) : SavedAt(q))'
    <3>1. Len(stack') \in 0 .. Len(stack')
      BY <1>0
    <3>2. QED
      BY <1>0, <2>1, <2>2, <2>3, <2>4, <2>5, <3>1, Distinct DEF SavedAt
  <2>7. QED
    BY <2>1, <2>6 DEF OneHistory
<1>14. CASE UNCHANGED durableVars
  BY <1>14 DEF durableVars, vars, files, OneHistory, SavedAt, FilesAhead
<1>15. CASE Execute
  BY <1>1, <1>2, <1>15 DEF Execute
<1>16. QED
  BY <1>3, <1>4, <1>5, <1>6, <1>7, <1>8, <1>9, <1>10, <1>11, <1>12, <1>13,
     <1>14, <1>15 DEF DurableNext

LEMMA DurableInvariant ==
  DurableSpec => [](DurableTypeOK /\ Shape /\ OneHistory)
<1>1. DurableInit => DurableTypeOK /\ Shape /\ OneHistory
  BY DurableInitType, ShapeInit, HistoryInit
<1>2. DurableTypeOK /\ Shape /\ OneHistory /\ [DurableNext]_durableVars
        => (DurableTypeOK /\ Shape /\ OneHistory)'
  BY DurableTypeStep, ShapeStep, HistoryStep
<1>3. QED
  BY <1>1, <1>2, PTL DEF DurableSpec

(* Unless a revocation or a recovery has not been saved, the files belong  *)
(* to one history at any moment of any request.                            *)
THEOREM FilesOfOneHistory == DurableSpec => []OneHistory
  BY DurableInvariant, PTL

-----------------------------------------------------------------------------
LEMMA InStepFacts ==
  ASSUME TypeOK, Shape, InStep
  PROVE  ~ apart /\ todo \in {<<>>} \cup Printing
  BY DEF Shape, InStep, Clearing, Idle

LEMMA AtomicStep ==
  ASSUME DurableTypeOK, Shape, OneHistory, Restart, InStep, ~ revoking
  PROVE  \E p \in Tags(stack) :
           /\ mem' = UndoTo(mem, stack, p)
           /\ \A q \in Tags(stack) : q <= p \/ q = LastTag(stack)
<1>1. TypeOK /\ Len(stack) \in Nat /\ Tags(stack) \subseteq 0 .. Len(stack)
  BY AtTagFacts, TagsFacts DEF DurableTypeOK
<1>2. PICK p \in 0 .. Len(stack) : SavedAt(p)
  BY <1>1, InStepFacts DEF OneHistory
<1>3. mem' = UndoTo(mem, stack, p) /\ p \in Tags(stack)
  BY <1>2 DEF SavedAt, Restart
<1>4. LastTag(stack) \in Tags(stack) /\ \A q \in Tags(stack) : q <= LastTag(stack)
  BY <1>1, LastTagFacts
<1>5. ASSUME NEW q \in Tags(stack) PROVE q <= p \/ q = LastTag(stack)
  <2>1. q <= p \/ q = Len(stack)
    BY <1>2 DEF SavedAt
  <2>2. q = Len(stack) => q = LastTag(stack)
    BY <1>1, <1>4
  <2>3. QED
    BY <2>1, <2>2
<1>6. QED
  BY <1>3, <1>5

(* A restart, at any moment of a command or of printLog, finds the memory  *)
(* at the end of the last or of the last but one command.                  *)
THEOREM AtomicRestart == DurableSpec => RestartIsAtomic
<1>1. DurableTypeOK /\ Shape /\ OneHistory /\ [DurableNext]_durableVars
        => [Restart /\ InStep /\ ~ revoking =>
              \E p \in Tags(stack) :
                /\ mem' = UndoTo(mem, stack, p)
                /\ \A q \in Tags(stack) : q <= p \/ q = LastTag(stack)]_durableVars
  BY AtomicStep
<1>2. QED
  BY <1>1, DurableInvariant, PTL DEF DurableSpec, RestartIsAtomic

LEMMA KeepsHistoryStep ==
  ASSUME DurableTypeOK, Shape, OneHistory, Restart, InStep
  PROVE  /\ Tags(stack) \ Tags(stack') \subseteq {Len(stack)}
         /\ \A p \in Tags(stack) \cap Tags(stack') :
              p < Len(stack') =>
                UndoTo(mem', stack', p) = UndoTo(mem, stack, p)
<1>1. /\ TypeOK /\ Len(stack) \in Nat /\ Tags(stack) \subseteq 0 .. Len(stack)
      /\ stack \in Seq(Entries)
  BY AtTagFacts, TagsFacts DEF DurableTypeOK
<1>2. mem' = system /\ stack' = blockstack
  BY DEF Restart
<1>3. ~ apart /\ todo \in {<<>>} \cup Printing
  BY <1>1, InStepFacts
<1>4. CASE revoking
  <2>1. FilesAhead
    BY <1>3, <1>4 DEF OneHistory
  <2>2. Tags(stack) \subseteq Tags(stack')
    <3>1. Len(blockstack) \in Nat
      BY LenProperties DEF DurableTypeOK
    <3>2. QED
      BY <1>1, <1>2, <2>1, <3>1 DEF FilesAhead, Tags
  <2>3. QED
    BY <1>2, <2>1, <2>2 DEF FilesAhead
<1>5. CASE ~ revoking
  <2>1. PICK q \in 0 .. Len(stack) : SavedAt(q)
    BY <1>3, <1>5 DEF OneHistory
  <2>2. mem' = UndoTo(mem, stack, q)
    BY <1>2, <2>1 DEF SavedAt
  <2>3. \A p \in Tags(stack) : p <= q \/ p = Len(stack)
    BY <2>1 DEF SavedAt
  <2>4. CASE stack' = SubSeq(stack, 1, q)
    <3>1. Tags(stack') = {p \in Tags(stack) : p <= q}
      BY <1>1, <2>4, TagsPrefix
    <3>2. \A p \in Tags(stack') : UndoTo(mem', stack', p) = UndoTo(mem, stack, p)
      <4>1. \A p \in Tags(stack') : p \in 0 .. q
        BY <1>1, <3>1
      <4>2. QED
        BY <1>1, <2>2, <2>4, <4>1, UndoPrefix
    <3>3. QED
      BY <2>3, <3>1, <3>2
  <2>5. CASE stack' = stack
    <3>1. ASSUME NEW p \in Tags(stack), p < Len(stack)
          PROVE  UndoTo(mem', stack, p) = UndoTo(mem, stack, p)
      <4>1. p \in Nat /\ q \in Nat /\ p <= q
        BY <1>1, <2>3, <3>1
      <4>2. QED
        BY <2>2, <4>1, UndoAgain
    <3>2. QED
      BY <2>5, <3>1
  <2>6. QED
    BY <1>2, <2>1, <2>4, <2>5 DEF SavedAt
<1>6. QED
  BY <1>4, <1>5

(* What revoke can go back to survives a restart, except at most for the   *)
(* command in progress.                                                    *)
THEOREM HistoryKept == DurableSpec => RestartKeepsHistory
<1>1. DurableTypeOK /\ Shape /\ OneHistory /\ [DurableNext]_durableVars
        => [Restart /\ InStep =>
              /\ Tags(stack) \ Tags(stack') \subseteq {Len(stack)}
              /\ \A p \in Tags(stack) \cap Tags(stack') :
                   p < Len(stack') =>
                     UndoTo(mem', stack', p) = UndoTo(mem, stack, p)]_durableVars
  BY KeepsHistoryStep
<1>2. QED
  BY <1>1, DurableInvariant, PTL DEF DurableSpec, RestartKeepsHistory

-----------------------------------------------------------------------------
(* How the log on disk follows the log in memory.                          *)
LogFollows ==
  /\ todo \in {<<>>, <<"system">>, <<"blockstack">>} \cup Recovering
       => Log = commandStack
  /\ todo \in {<<"blockstack", "Log", "system">>, <<"Log", "system">>}
       => Len(commandStack) = Len(Log) + 1
  /\ todo = <<"Log", "blockstack">> => Len(commandStack) = 0

(* The sequences of writes, told apart where LogFollows needs it.          *)
LEMMA FollowCases ==
  /\ <<"blockstack", "Log", "system">> \notin
       {<<>>, <<"system">>, <<"blockstack">>, <<"Log", "blockstack">>} \cup Recovering
  /\ {<<"blockstack", "Log">>, <<"Log", "blockstack">>, <<"Log">>} \cap
       ({<<>>, <<"system">>, <<"blockstack">>, <<"blockstack", "Log", "system">>,
         <<"Log", "system">>} \cup Recovering) = {}
  /\ <<"blockstack", "Log">> # <<"Log", "blockstack">>
  /\ <<"Log">> # <<"Log", "blockstack">>
  /\ <<"Log", "system">> \notin
       {<<>>, <<"system">>, <<"blockstack">>, <<"Log", "blockstack">>} \cup Recovering
  /\ ({<<>>, <<"system">>, <<"blockstack">>} \cup Recovering) \cap
       {<<"blockstack", "Log", "system">>, <<"Log", "system">>,
        <<"Log", "blockstack">>} = {}
  BY DEF Recovering

LEMMA FollowsStep ==
  ASSUME DurableTypeOK, Shape, LogFollows, [DurableNext]_durableVars
  PROVE  LogFollows'
<1> USE DEF Idle
<1>1. CASE Execute
  BY <1>1 DEF Execute, PushBlockAndInode, Write, LogFollows, files
<1>2. ASSUME NEW command \in Commands, EndCommand(command) PROVE LogFollows'
  <2>1. Log = commandStack
    BY <1>2 DEF EndCommand, LogFollows, Recovering
  <2>2. Len(commandStack') = Len(Log') + 1
    BY <1>2, <2>1, AppendProperties
    DEF EndCommand, PushTag, files, DurableTypeOK, TypeOK
  <2>3. QED
    BY <1>2, <2>2, FollowCases DEF EndCommand, LogFollows
<1>3. CASE BeginRevoke
  BY <1>3 DEF BeginRevoke, StartRevoke, LogFollows, files
<1>4. CASE RevokeRecord
  BY <1>4 DEF RevokeRecord, RestoreOne, LogFollows, files
<1>5. CASE EndRevoke
  BY <1>5, FollowCases DEF EndRevoke, LogFollows
<1>6. CASE ClearSnapshot
  <2>1. Len(commandStack') = 0
    BY <1>6 DEF ClearSnapshot, InitializeSnapshot
  <2>2. QED
    BY <1>6, <2>1, FollowCases DEF ClearSnapshot, LogFollows
<1>7. ASSUME NEW version \in Versions, BackupSystem(version) PROVE LogFollows'
  BY <1>7 DEF BackupSystem, LogFollows, vars
<1>8. ASSUME NEW version \in Versions, RecoverSystem(version) PROVE LogFollows'
  <2>1. Log' = commandStack'
    BY <1>8 DEF RecoverSystem, LogFollows, files
  <2>2. todo' \in {<<>>} \cup Recovering
    BY <1>8 DEF RecoverSystem, Recovering
  <2>3. QED
    BY <2>1, <2>2, FollowCases DEF LogFollows
<1>9. CASE WriteBlockstack
  <2>1. UNCHANGED <<Log, commandStack>>
    BY <1>9 DEF WriteBlockstack, vars
  <2>2. CASE todo = <<"blockstack", "Log", "system">> /\ todo' = <<"Log", "system">>
    BY <2>1, <2>2, FollowCases DEF LogFollows
  <2>3. CASE todo = <<"blockstack", "Log">> /\ todo' = <<"Log">>
    BY <2>3, FollowCases DEF LogFollows
  <2>4. CASE todo = <<"blockstack">> /\ todo' = <<>>
    BY <2>1, <2>4, FollowCases DEF LogFollows
  <2>5. QED
    BY <1>9, <2>2, <2>3, <2>4, DoBlockstack DEF WriteBlockstack
<1>10. CASE WriteLog
  <2>1. Log' = commandStack' /\ commandStack' = commandStack
    BY <1>10 DEF WriteLog, vars
  <2>2. todo' \in {<<>>, <<"system">>, <<"blockstack">>}
    BY <1>10, DoLog DEF WriteLog
  <2>3. QED
    BY <2>1, <2>2, FollowCases DEF LogFollows
<1>11. CASE WriteSystem
  <2>1. UNCHANGED <<Log, commandStack>>
    BY <1>11 DEF WriteSystem, vars
  <2>2. /\ todo \in {<<"system">>} \cup Recovering
        /\ todo' \in {<<>>} \cup Recovering
    BY <1>11, DoSystem DEF WriteSystem
  <2>3. QED
    BY <2>1, <2>2, FollowCases DEF LogFollows
<1>12. CASE Restart
  BY <1>12, FollowCases DEF Restart, LogFollows, files
<1>13. CASE UNCHANGED durableVars
  BY <1>13 DEF durableVars, vars, files, LogFollows
<1>14. QED
  BY <1>1, <1>2, <1>3, <1>4, <1>5, <1>6, <1>7, <1>8, <1>9, <1>10, <1>11,
     <1>12, <1>13 DEF DurableNext

LEMMA StaysWithinStep ==
  ASSUME DurableTypeOK, Shape, LogFollows, [DurableNext]_durableVars,
         LogWithinTags, WithinOnDisk, Restart => ~ LogTorn
  PROVE  (LogWithinTags /\ WithinOnDisk)'
<1>0. /\ TypeOK /\ Len(commandStack) \in Nat /\ Len(Log) \in Nat
      /\ Cardinality(Tags(stack)) \in Nat \ {0}
      /\ Cardinality(Tags(blockstack)) \in Nat \ {0}
  <2>1. TypeOK /\ Len(stack) \in Nat /\ Len(blockstack) \in Nat
    BY LenProperties DEF DurableTypeOK, TypeOK
  <2>2. QED
    BY <2>1, TagsFacts, LenProperties DEF DurableTypeOK, TypeOK
<1> USE DEF Idle
<1>1. [Next]_vars => LogWithinTags'
  BY <1>0, WithinStep
<1>2. ASSUME UNCHANGED <<blockstack, Log>>, ~ LogTorn PROVE WithinOnDisk'
  BY <1>2 DEF WithinOnDisk
<1>3. todo \in {<<>>} \cup Recovering => ~ LogTorn
  BY FollowCases DEF LogTorn
<1>4. CASE Execute
  BY <1>1, <1>2, <1>3, <1>4, MemorySteps DEF Execute, files
<1>5. ASSUME NEW command \in Commands, EndCommand(command)
      PROVE  (LogWithinTags /\ WithinOnDisk)'
  BY <1>1, <1>2, <1>3, <1>5, MemorySteps DEF EndCommand, files, Recovering
<1>6. CASE BeginRevoke
  BY <1>1, <1>2, <1>3, <1>6, MemorySteps DEF BeginRevoke, files
<1>7. CASE RevokeRecord
  BY <1>1, <1>2, <1>3, <1>7, MemorySteps DEF RevokeRecord, RestoreOne, Shape, files
<1>8. CASE EndRevoke
  BY <1>1, <1>2, <1>3, <1>8, MemorySteps DEF EndRevoke, FinishRevoke, Shape, files
<1>9. CASE ClearSnapshot
  BY <1>1, <1>2, <1>3, <1>9, MemorySteps DEF ClearSnapshot, files
<1>10. ASSUME NEW version \in Versions, BackupSystem(version)
       PROVE  (LogWithinTags /\ WithinOnDisk)'
  BY <1>1, <1>2, <1>3, <1>10 DEF BackupSystem
<1>11. ASSUME NEW version \in Versions, RecoverSystem(version)
       PROVE  (LogWithinTags /\ WithinOnDisk)'
  <2> DEFINE r == [c \in Cells |-> mem[c]]
  <2>1. r \in Records
    BY <1>0, WholeAssumption DEF Records, Memories, TypeOK
  <2>2. Extends(stack', stack) /\ stack'[Len(stack')] = r /\ r # Tag
    BY <1>0, <1>11, <2>1, Push, EntryFacts DEF RecoverSystem, Entries
  <2>3. Tags(stack') = Tags(stack)
    BY <2>2, TagsExtend
  <2>4. QED
    BY <1>2, <1>3, <1>11, <2>3 DEF RecoverSystem, LogWithinTags, files
<1>12. CASE WriteBlockstack
  <2>1. UNCHANGED vars /\ Log' = Log /\ blockstack' = stack
    BY <1>12 DEF WriteBlockstack
  <2>2. LogWithinTags'
    BY <1>1, <2>1
  <2>3. ~ revoking
    BY <1>12, DoBlockstack DEF WriteBlockstack, Shape
  <2>4. Len(commandStack) < Cardinality(Tags(stack))
    BY <1>0, <2>3 DEF LogWithinTags
  <2>5. CASE todo = <<"blockstack", "Log", "system">>
    BY <1>0, <2>1, <2>2, <2>4, <2>5 DEF LogFollows, WithinOnDisk
  <2>6. CASE todo' = <<"Log">>
    BY <2>2, <2>6 DEF WithinOnDisk, LogTorn
  <2>7. CASE todo = <<"blockstack">>
    BY <2>1, <2>2, <2>4, <2>7 DEF LogFollows, WithinOnDisk
  <2>8. QED
    BY <1>12, <2>5, <2>6, <2>7, DoBlockstack DEF WriteBlockstack
<1>13. CASE WriteLog
  <2>1. UNCHANGED vars /\ Log' = commandStack /\ blockstack' = blockstack
    BY <1>13 DEF WriteLog
  <2>2. LogWithinTags'
    BY <1>1, <2>1
  <2>3. ~ revoking
    BY <1>13, DoLog DEF WriteLog, Shape
  <2>4. Len(commandStack) < Cardinality(Tags(stack))
    BY <1>0, <2>3 DEF LogWithinTags
  <2>5. CASE todo \in {<<"Log", "system">>, <<"Log">>}
    <3>1. blockstack = stack
      BY <2>5 DEF Shape
    <3>2. QED
      BY <2>1, <2>2, <2>4, <3>1 DEF WithinOnDisk
  <2>6. CASE todo = <<"Log", "blockstack">>
    BY <1>0, <2>1, <2>2, <2>6 DEF LogFollows, WithinOnDisk
  <2>7. QED
    BY <1>13, <2>5, <2>6, DoLog DEF WriteLog
<1>14. CASE WriteSystem
  <2>1. UNCHANGED vars /\ UNCHANGED <<blockstack, Log>>
    BY <1>14 DEF WriteSystem
  <2>2. ~ LogTorn
    BY <1>14, DoSystem, FollowCases, Distinct DEF WriteSystem, LogTorn, Shortening
  <2>3. QED
    BY <1>1, <1>2, <2>1, <2>2
<1>15. CASE Restart
  <2>1. /\ stack' = blockstack /\ commandStack' = Log /\ ~ revoking'
        /\ UNCHANGED <<blockstack, Log>> /\ ~ LogTorn
    BY <1>15 DEF Restart, files
  <2>2. Len(Log) < Cardinality(Tags(blockstack))
    BY <2>1 DEF WithinOnDisk
  <2>3. QED
    BY <1>0, <1>2, <2>1, <2>2 DEF LogWithinTags
<1>16. CASE UNCHANGED durableVars
  BY <1>1, <1>16 DEF durableVars, files, WithinOnDisk, LogTorn
<1>17. QED
  BY <1>4, <1>5, <1>6, <1>7, <1>8, <1>9, <1>10, <1>11, <1>12, <1>13, <1>14,
     <1>15, <1>16 DEF DurableNext

(* The log and the records on disk name the same commands, but for one     *)
(* that only the log names after a stop between the two writes of revoke   *)
(* or of a clearing.                                                       *)
THEOREM LogKept == DurableSpec => LogStaysWithin
<1>1. DurableInit => LogFollows
  BY FollowCases DEF DurableInit, LogFollows
<1>2. DurableTypeOK /\ Shape /\ LogFollows /\ [DurableNext]_durableVars
        => LogFollows'
  BY FollowsStep
<1>3. DurableTypeOK /\ Shape /\ LogFollows /\ [DurableNext]_durableVars
        => [LogWithinTags /\ WithinOnDisk /\ (Restart => ~ LogTorn)
              => (LogWithinTags /\ WithinOnDisk)']_durableVars
  BY StaysWithinStep
<1>4. QED
  BY <1>1, <1>2, <1>3, DurableInvariant, PTL DEF DurableSpec, LogStaysWithin
=============================================================================
