---------------------------- MODULE UndoLogProofs ----------------------------
(***************************************************************************)
(* Proofs about UndoLog for every set of cells, values and commands.       *)
(*                                                                         *)
(* The heart is UndoLast: undoing a stack is undoing its last record and   *)
(* then the rest.  Saving a cell leaves every checkpoint as it is, because *)
(* the saved value is the current one; writing a cell that the command has *)
(* saved does, because an earlier record decides; and each turn of         *)
(* revoke's loop does, because it is one application of UndoLast.          *)
(***************************************************************************)
EXTENDS UndoLog, SequenceTheorems, FiniteSetTheorems, WellFoundedInduction, TLAPS

Entries == Records \cup {Tag}

LEMMA EntryFacts ==
  /\ DOMAIN Tag = {}
  /\ Tag \notin Records
  /\ \A r \in Records : DOMAIN r \in Groups /\ r \in [DOMAIN r -> Values]
<1>1. DOMAIN Tag = {}
  BY DEF Tag
<1>2. \A r \in Records : DOMAIN r \in Groups /\ r \in [DOMAIN r -> Values]
  BY DEF Records
<1>3. \A r \in Records : DOMAIN r # {}
  BY <1>2, GroupsAssumption
<1>4. QED
  BY <1>1, <1>2, <1>3

(* A stack that is not empty is its front followed by its last entry.      *)
LEMMA FrontFacts ==
  ASSUME NEW S, NEW s \in Seq(S), Len(s) > 0
  PROVE  /\ Front(s) \in Seq(S)
         /\ Len(Front(s)) = Len(s) - 1
         /\ s[Len(s)] \in S
         /\ \A k \in 1 .. Len(s) - 1 : Front(s)[k] = s[k]
<1>1. Len(s) \in Nat /\ s \in [1 .. Len(s) -> S]
  BY LenProperties
<1>2. \A k \in 1 .. Len(s) - 1 : s[k] \in S
  BY <1>1
<1>3. /\ SubSeq(s, 1, Len(s) - 1) \in Seq(S)
      /\ Len(SubSeq(s, 1, Len(s) - 1)) = Len(s) - 1
      /\ \A k \in 1 .. Len(s) - 1 : SubSeq(s, 1, Len(s) - 1)[k] = s[k]
  BY <1>1, <1>2
<1>4. QED
  BY <1>1, <1>3 DEF Front

LEMMA MinFacts ==
  ASSUME NEW K \in SUBSET Nat, K # {}
  PROVE  /\ Min(K) \in K
         /\ \A j \in K : Min(K) <= j
<1>1. \E k \in K : \A j \in K : ~ (<<j, k>> \in OpToRel(<, Nat))
  BY NatLessThanWellFounded, WFMin
<1>2. \A j, k \in Nat : j < k => <<j, k>> \in OpToRel(<, Nat)
  BY DEF OpToRel
<1>3. \E k \in K : \A j \in K : ~ (j < k)
  BY <1>1, <1>2
<1>4. \E k \in K : \A j \in K : k <= j
  BY <1>3
<1>5. QED
  BY <1>4 DEF Min

(* The earliest of some numbers is not changed by later ones.              *)
LEMMA MinStable ==
  ASSUME NEW K \in SUBSET Nat, NEW L \in SUBSET Nat, K # {}, K \subseteq L,
         \A l \in L \ K : \A k \in K : k <= l
  PROVE  Min(L) = Min(K)
<1>1. /\ Min(K) \in K /\ \A j \in K : Min(K) <= j
      /\ Min(L) \in L /\ \A j \in L : Min(L) <= j
  BY MinFacts
<1>2. Min(K) \in Nat /\ Min(L) \in Nat
  BY <1>1
<1>3. Min(L) <= Min(K) /\ Min(K) <= Min(L)
  BY <1>1
<1>4. QED
  BY <1>2, <1>3

-----------------------------------------------------------------------------
(* s and t agree but for one more entry at the end of t.                   *)
Extends(t, s) ==
  /\ Len(s) \in Nat
  /\ Len(t) = Len(s) + 1
  /\ \A k \in 1 .. Len(s) : t[k] = s[k]

LEMMA SaversExtend ==
  ASSUME NEW s, NEW t, Extends(t, s), NEW p \in 0 .. Len(s), NEW c
  PROVE  SaversOf(c, t, p) =
           IF c \in DOMAIN t[Len(t)] THEN SaversOf(c, s, p) \cup {Len(t)}
                                     ELSE SaversOf(c, s, p)
  BY DEF Extends, SaversOf

(* Undoing a stack is undoing its last entry and then the others.          *)
LEMMA UndoLast ==
  ASSUME NEW s, NEW t, Extends(t, s), NEW p \in 0 .. Len(s), NEW m
  PROVE  UndoTo(m, t, p) = UndoTo(Restore(m, t[Len(t)]), s, p)
<1>1. ASSUME NEW c \in Cells
      PROVE  UndoTo(m, t, p)[c] = UndoTo(Restore(m, t[Len(t)]), s, p)[c]
  <2> DEFINE K == SaversOf(c, s, p)
             L == SaversOf(c, t, p)
             last == t[Len(t)]
  <2>1. K \in SUBSET (1 .. Len(s)) /\ L \in SUBSET (1 .. Len(t))
    BY DEF SaversOf, Extends
  <2>2. K \in SUBSET Nat /\ L \in SUBSET Nat
    BY <2>1
  <2>3. L = IF c \in DOMAIN last THEN K \cup {Len(t)} ELSE K
    BY SaversExtend
  <2>4. CASE K # {}
    <3>1. \A l \in L \ K : \A k \in K : k <= l
      BY <2>1, <2>3 DEF Extends
    <3>2. Min(L) = Min(K)
      <4> HIDE DEF K, L
      <4>1. K \subseteq L
        BY <2>3
      <4>2. QED
        BY <2>2, <2>4, <3>1, <4>1, MinStable
    <3>3. Min(K) \in 1 .. Len(s)
      <4> HIDE DEF K, L
      <4>1. QED
        BY <2>1, <2>2, <2>4, MinFacts
    <3>4. t[Min(K)] = s[Min(K)]
      BY <3>3 DEF Extends
    <3>5. L # {}
      BY <2>3, <2>4
    <3>6. QED
      BY <2>4, <3>2, <3>4, <3>5 DEF UndoTo
  <2>5. CASE K = {} /\ c \in DOMAIN last
    <3>1. L = {Len(t)} /\ Len(t) \in Nat
      BY <2>3, <2>5 DEF Extends
    <3>2. Min(L) = Len(t)
      <4> HIDE DEF K, L
      <4>1. QED
        BY <2>2, <3>1, MinFacts
    <3>3. UndoTo(m, t, p)[c] = last[c]
      BY <3>1, <3>2 DEF UndoTo
    <3>4. QED
      BY <2>5, <3>3 DEF UndoTo, Restore
  <2>6. CASE K = {} /\ c \notin DOMAIN last
    <3>1. L = {}
      BY <2>3, <2>6
    <3>2. QED
      BY <2>6, <3>1 DEF UndoTo, Restore
  <2>7. QED
    BY <2>4, <2>5, <2>6
<1>2. QED
  BY <1>1 DEF UndoTo

LEMMA UndoNothing ==
  ASSUME NEW s, NEW m \in Memories, Len(s) \in Nat
  PROVE  UndoTo(m, s, Len(s)) = m
<1>1. \A c \in Cells : SaversOf(c, s, Len(s)) = {}
  BY DEF SaversOf
<1>2. QED
  BY <1>1 DEF UndoTo, Memories

(* Writing cells that are saved above position p does not change what      *)
(* undoing to p gives.                                                     *)
LEMMA UndoIgnoresSaved ==
  ASSUME NEW s, NEW p, NEW m, NEW n,
         \A c \in Cells : m[c] # n[c] => SaversOf(c, s, p) # {}
  PROVE  UndoTo(n, s, p) = UndoTo(m, s, p)
  BY DEF UndoTo

LEMMA UndoType ==
  ASSUME NEW s \in Seq(Entries), NEW m \in Memories, NEW p \in Nat
  PROVE  UndoTo(m, s, p) \in Memories
<1>1. ASSUME NEW c \in Cells, SaversOf(c, s, p) # {}
      PROVE  s[Min(SaversOf(c, s, p))][c] \in Values
  <2> DEFINE k == Min(SaversOf(c, s, p))
  <2>1. SaversOf(c, s, p) \in SUBSET Nat
    BY LenProperties DEF SaversOf
  <2>2. k \in SaversOf(c, s, p)
    BY <1>1, <2>1, MinFacts
  <2>3. k \in 1 .. Len(s) /\ c \in DOMAIN s[k]
    BY <2>2, LenProperties DEF SaversOf
  <2>4. s[k] \in Entries
    BY <2>3, ElementOfSeq
  <2>5. s[k] \in Records
    BY <2>3, <2>4, EntryFacts DEF Entries
  <2>6. QED
    BY <2>3, <2>5, EntryFacts
<1>2. QED
  BY <1>1 DEF UndoTo, Memories

-----------------------------------------------------------------------------
LEMMA TagsExtend ==
  ASSUME NEW s, NEW t, Extends(t, s)
  PROVE  Tags(t) = IF t[Len(t)] = Tag THEN Tags(s) \cup {Len(t)} ELSE Tags(s)
  BY DEF Extends, Tags

LEMMA TagsFacts ==
  ASSUME NEW s, Len(s) \in Nat
  PROVE  /\ Tags(s) \subseteq 0 .. Len(s)
         /\ 0 \in Tags(s)
         /\ IsFiniteSet(Tags(s))
         /\ Cardinality(Tags(s)) \in Nat \ {0}
<1>1. Tags(s) \subseteq 0 .. Len(s) /\ 0 \in Tags(s)
  BY DEF Tags
<1>2. IsFiniteSet(Tags(s))
  <2>1. IsFiniteSet(0 .. Len(s))
    BY FS_Interval
  <2>2. QED
    BY <1>1, <2>1, FS_Subset
<1>3. QED
  BY <1>1, <1>2, FS_CardinalityType, FS_EmptySet

LEMMA LastTagFacts ==
  ASSUME NEW s, Len(s) \in Nat
  PROVE  /\ LastTag(s) \in Tags(s)
         /\ \A p \in Tags(s) : p <= LastTag(s)
<1> DEFINE K == {Len(s) - p : p \in Tags(s)}
<1>1. K \in SUBSET Nat /\ K # {}
  BY TagsFacts
<1>2. PICK k \in K : \A j \in K : k <= j
  <2> HIDE DEF K
  <2>1. QED
    BY <1>1, MinFacts
<1>3. PICK q \in Tags(s) : k = Len(s) - q
  BY <1>2
<1>4. ASSUME NEW p \in Tags(s) PROVE p <= q
  <2>1. Len(s) - q <= Len(s) - p
    BY <1>2, <1>3
  <2>2. p \in 0 .. Len(s) /\ q \in 0 .. Len(s)
    BY TagsFacts
  <2>3. QED
    BY <2>1, <2>2
<1>5. QED
  BY <1>3, <1>4 DEF LastTag

-----------------------------------------------------------------------------
LEMMA InitType == Init => TypeOK
  BY EmptySeq DEF Init, TypeOK

LEMMA TypeInvariant == TypeOK /\ [Next]_vars => TypeOK'
<1> SUFFICES ASSUME TypeOK, [Next]_vars PROVE TypeOK'
  OBVIOUS
<1> USE DEF TypeOK
<1>1. ASSUME NEW g \in Groups, PushBlockAndInode(g) PROVE TypeOK'
  <2>1. [c \in g |-> mem[c]] \in Records
    BY GroupsAssumption DEF Records, Memories
  <2>2. QED
    BY <1>1, <2>1, AppendProperties DEF PushBlockAndInode
<1>2. ASSUME NEW c \in Cells, NEW v \in Values, Write(c, v) PROVE TypeOK'
  BY <1>2 DEF Write, Memories
<1>3. ASSUME NEW command \in Commands, PushTag(command) PROVE TypeOK'
  <2>1. Append(stack, Tag) \in Seq(Records \cup {Tag})
    BY AppendProperties
  <2>2. Append(commandStack, command) \in Seq(Commands)
    BY AppendProperties
  <2>3. QED
    BY <1>3, <2>1, <2>2 DEF PushTag
<1>4. CASE StartRevoke
  BY <1>4, FrontFacts DEF StartRevoke, Top
<1>5. CASE RestoreOne
  <2>1. Len(stack) \in Nat /\ Len(stack) > 0 /\ stack[Len(stack)] # Tag
    BY <1>5, LenProperties DEF RestoreOne, AtTag, Top
  <2>2. Front(stack) \in Seq(Records \cup {Tag}) /\ stack[Len(stack)] \in Records
    BY <2>1, FrontFacts
  <2>3. Restore(mem, stack[Len(stack)]) \in Memories
    BY <2>2, EntryFacts DEF Restore, Memories
  <2>4. QED
    BY <1>5, <2>2, <2>3 DEF RestoreOne, Top
<1>6. CASE FinishRevoke
  <2>1. commandStack' \in Seq(Commands)
    <3>1. CASE commandStack = <<>>
      BY <1>6, <3>1 DEF FinishRevoke
    <3>2. CASE commandStack # <<>>
      <4>1. Len(commandStack) \in Nat \ {0}
        BY <3>2, EmptySeq
      <4>2. QED
        BY <1>6, <3>2, <4>1, FrontFacts DEF FinishRevoke
    <3>3. QED
      BY <3>1, <3>2
  <2>2. QED
    BY <1>6, <2>1 DEF FinishRevoke
<1>7. CASE InitializeSnapshot
  BY <1>7 DEF InitializeSnapshot
<1>8. CASE UNCHANGED vars
  BY <1>8 DEF vars
<1>9. QED
  BY <1>1, <1>2, <1>3, <1>4, <1>5, <1>6, <1>7, <1>8 DEF Next, Revoking

(* Every record in the stack saves cells that a call can save, and every   *)
(* restored memory is one.                                                 *)
THEOREM TypeCorrect == Spec => []TypeOK
  BY InitType, TypeInvariant, PTL DEF Spec

-----------------------------------------------------------------------------
(* What the tags and the checkpoints become in each step of the stack.     *)
LEMMA Push ==
  ASSUME TypeOK, NEW e \in Entries, stack' = Append(stack, e)
  PROVE  /\ Extends(stack', stack)
         /\ stack'[Len(stack')] = e
         /\ Len(stack) \in Nat
  BY AppendProperties, LenProperties DEF TypeOK, Entries, Extends

LEMMA PopFacts ==
  ASSUME TypeOK, Top > 0, stack' = Front(stack)
  PROVE  /\ Extends(stack, stack')
         /\ stack[Len(stack)] \in Entries
         /\ Len(stack) \in Nat
<1>1. stack \in Seq(Entries) /\ Len(stack) \in Nat /\ Len(stack) > 0
  BY LenProperties DEF TypeOK, Entries, Top
<1>2. /\ Len(stack') = Len(stack) - 1
      /\ stack[Len(stack)] \in Entries
      /\ \A k \in 1 .. Len(stack) - 1 : stack'[k] = stack[k]
  BY <1>1, FrontFacts
<1>3. QED
  BY <1>1, <1>2 DEF Extends

(* The cells saved by the command in progress are saved above every tag.   *)
LEMMA SavedAboveTags ==
  ASSUME TypeOK, NEW c \in Saved, NEW p \in Tags(stack)
  PROVE  SaversOf(c, stack, p) # {}
<1>1. Len(stack) \in Nat
  BY LenProperties DEF TypeOK
<1>2. PICK k \in 1 .. Top : /\ \A j \in k .. Top : stack[j] # Tag
                           /\ c \in DOMAIN stack[k]
  BY DEF Saved
<1>3. p \in 0 .. Top /\ (p = 0 \/ stack[p] = Tag)
  BY <1>1 DEF Tags, Top
<1>4. p < k
  BY <1>1, <1>2, <1>3 DEF Top
<1>5. QED
  BY <1>1, <1>2, <1>3, <1>4 DEF SaversOf, Top

LEMMA InitCount == Init => LogMatchesTags
<1> SUFFICES ASSUME Init PROVE LogMatchesTags
  OBVIOUS
<1>1. Len(stack) = 0 /\ Len(commandStack) = 0 /\ ~ revoking
  BY DEF Init
<1>2. Tags(stack) = {0}
  BY <1>1 DEF Tags
<1>3. Cardinality({0}) = 1
  BY FS_Singleton
<1>4. QED
  BY <1>1, <1>2, <1>3 DEF LogMatchesTags

LEMMA CountStep ==
  ASSUME MayAbandon = FALSE, TypeOK, LogMatchesTags, [Next]_vars
  PROVE  LogMatchesTags'
<1> DEFINE T == Tags(stack)
<1>0. /\ Len(stack) \in Nat /\ Len(commandStack) \in Nat
      /\ T \subseteq 0 .. Len(stack) /\ IsFiniteSet(T)
      /\ Cardinality(T) \in Nat \ {0}
  BY TagsFacts, LenProperties DEF TypeOK
<1>1. ASSUME NEW g \in Groups, PushBlockAndInode(g) PROVE LogMatchesTags'
  <2>1. [c \in g |-> mem[c]] \in Records
    BY GroupsAssumption DEF Records, Memories, TypeOK
  <2>2. Extends(stack', stack) /\ stack'[Len(stack')] # Tag
    BY <1>1, <2>1, Push, EntryFacts DEF PushBlockAndInode, Entries
  <2>3. Tags(stack') = T
    BY <2>2, TagsExtend
  <2>4. QED
    BY <1>1, <2>3 DEF LogMatchesTags, PushBlockAndInode
<1>2. ASSUME NEW c \in Cells, NEW v \in Values, Write(c, v)
      PROVE  LogMatchesTags'
  BY <1>2 DEF Write, LogMatchesTags
<1>3. ASSUME NEW command \in Commands, PushTag(command) PROVE LogMatchesTags'
  <2>1. Extends(stack', stack) /\ stack'[Len(stack')] = Tag
    BY <1>3, Push DEF PushTag, Entries
  <2>2. Tags(stack') = T \cup {Len(stack')} /\ Len(stack') \notin T
    BY <1>0, <2>1, TagsExtend DEF Extends
  <2>3. Cardinality(Tags(stack')) = Cardinality(T) + 1
    BY <1>0, <2>2, FS_AddElement
  <2>4. Len(commandStack') = Len(commandStack) + 1
    BY <1>3, AppendProperties DEF PushTag, TypeOK
  <2>5. QED
    BY <1>0, <1>3, <2>3, <2>4 DEF LogMatchesTags, PushTag
<1>4. CASE StartRevoke
  <2>1. Top > 0 /\ stack[Top] = Tag /\ ~ revoking /\ revoking'
    BY <1>4 DEF StartRevoke, CommandEnded, AtTag
  <2>2. Extends(stack, stack')
    BY <1>4, <2>1, PopFacts DEF StartRevoke
  <2>3. T = Tags(stack') \cup {Len(stack)}
    BY <2>1, <2>2, TagsExtend DEF Top
  <2>4. Len(stack) \notin Tags(stack') /\ IsFiniteSet(Tags(stack'))
    BY <2>2, TagsFacts DEF Extends
  <2>5. Cardinality(T) = Cardinality(Tags(stack')) + 1
    BY <2>3, <2>4, FS_AddElement
  <2>6. Cardinality(Tags(stack')) \in Nat
    BY <2>4, FS_CardinalityType
  <2>7. QED
    BY <1>0, <1>4, <2>1, <2>5, <2>6 DEF LogMatchesTags, StartRevoke
<1>5. CASE RestoreOne
  <2>1. Top > 0 /\ stack[Top] # Tag /\ revoking
    BY <1>0, <1>5 DEF RestoreOne, AtTag, Top
  <2>2. Extends(stack, stack')
    BY <1>5, <2>1, PopFacts DEF RestoreOne
  <2>3. Tags(stack') = T
    BY <2>1, <2>2, TagsExtend DEF Top
  <2>4. QED
    BY <1>5, <2>3 DEF LogMatchesTags, RestoreOne
<1>6. CASE FinishRevoke
  <2>1. Len(commandStack) = Cardinality(T) /\ Len(commandStack) > 0
    BY <1>0, <1>6 DEF LogMatchesTags, FinishRevoke
  <2>2. commandStack # <<>>
    BY <2>1
  <2>3. Len(commandStack') = Len(commandStack) - 1
    BY <1>6, <2>1, <2>2, FrontFacts DEF FinishRevoke, TypeOK
  <2>4. QED
    BY <1>0, <1>6, <2>1, <2>3 DEF LogMatchesTags, FinishRevoke
<1>7. CASE InitializeSnapshot
  <2>1. Len(stack') = 0 /\ Len(commandStack') = 0 /\ ~ revoking'
    BY <1>7 DEF InitializeSnapshot
  <2>2. Tags(stack') = {0}
    BY <2>1 DEF Tags
  <2>3. Cardinality({0}) = 1
    BY FS_Singleton
  <2>4. QED
    BY <2>1, <2>2, <2>3 DEF LogMatchesTags
<1>8. CASE UNCHANGED vars
  BY <1>8 DEF vars, LogMatchesTags
<1>9. QED
  BY <1>1, <1>2, <1>3, <1>4, <1>5, <1>6, <1>7, <1>8 DEF Next, Revoking

(* When every command ends with its tag, the log lists exactly the         *)
(* commands that can be revoked.                                           *)
THEOREM LogCorrect ==
  ASSUME MayAbandon = FALSE
  PROVE  Spec => []LogMatchesTags
<1>1. TypeOK /\ LogMatchesTags /\ [Next]_vars => LogMatchesTags'
  BY CountStep
<1>2. QED
  BY <1>1, InitCount, TypeCorrect, PTL DEF Spec

-----------------------------------------------------------------------------
LEMMA InitWithin == Init => LogWithinTags
<1> SUFFICES ASSUME Init PROVE LogWithinTags
  OBVIOUS
<1>1. Len(stack) = 0 /\ Len(commandStack) = 0 /\ ~ revoking
  BY DEF Init
<1>2. Cardinality(Tags(stack)) \in Nat \ {0}
  BY <1>1, TagsFacts
<1>3. QED
  BY <1>1, <1>2 DEF LogWithinTags

LEMMA WithinStep ==
  ASSUME TypeOK, LogWithinTags, [Next]_vars
  PROVE  LogWithinTags'
<1> DEFINE T == Tags(stack)
<1>0. /\ Len(stack) \in Nat /\ Len(commandStack) \in Nat
      /\ T \subseteq 0 .. Len(stack) /\ IsFiniteSet(T)
      /\ Cardinality(T) \in Nat \ {0}
  BY TagsFacts, LenProperties DEF TypeOK
<1>1. ASSUME NEW g \in Groups, PushBlockAndInode(g) PROVE LogWithinTags'
  <2>1. [c \in g |-> mem[c]] \in Records
    BY GroupsAssumption DEF Records, Memories, TypeOK
  <2>2. Extends(stack', stack) /\ stack'[Len(stack')] # Tag
    BY <1>1, <2>1, Push, EntryFacts DEF PushBlockAndInode, Entries
  <2>3. Tags(stack') = T
    BY <2>2, TagsExtend
  <2>4. QED
    BY <1>1, <2>3 DEF LogWithinTags, PushBlockAndInode
<1>2. ASSUME NEW c \in Cells, NEW v \in Values, Write(c, v)
      PROVE  LogWithinTags'
  BY <1>2 DEF Write, LogWithinTags
<1>3. ASSUME NEW command \in Commands, PushTag(command) PROVE LogWithinTags'
  <2>1. Extends(stack', stack) /\ stack'[Len(stack')] = Tag
    BY <1>3, Push DEF PushTag, Entries
  <2>2. Tags(stack') = T \cup {Len(stack')} /\ Len(stack') \notin T
    BY <1>0, <2>1, TagsExtend DEF Extends
  <2>3. Cardinality(Tags(stack')) = Cardinality(T) + 1
    BY <1>0, <2>2, FS_AddElement
  <2>4. Len(commandStack') = Len(commandStack) + 1
    BY <1>3, AppendProperties DEF PushTag, TypeOK
  <2>5. QED
    BY <1>0, <1>3, <2>3, <2>4 DEF LogWithinTags, PushTag
<1>4. CASE StartRevoke
  <2>1. Top > 0 /\ ~ revoking /\ revoking' /\ commandStack' = commandStack
    BY <1>4 DEF StartRevoke
  <2>2. Extends(stack, stack')
    BY <1>4, <2>1, PopFacts DEF StartRevoke
  <2>3. /\ Len(stack) \notin Tags(stack') /\ IsFiniteSet(Tags(stack'))
        /\ Cardinality(Tags(stack')) \in Nat
    BY <2>2, TagsFacts DEF Extends
  <2>4. \/ T = Tags(stack')
        \/ T = Tags(stack') \cup {Len(stack)}
    BY <2>2, TagsExtend
  <2>5. Cardinality(T) <= Cardinality(Tags(stack')) + 1
    <3>1. CASE T = Tags(stack')
      BY <2>3, <3>1
    <3>2. CASE T = Tags(stack') \cup {Len(stack)}
      <4>1. Cardinality(T) = Cardinality(Tags(stack')) + 1
        BY <2>3, <3>2, FS_AddElement
      <4>2. QED
        BY <2>3, <4>1
    <3>3. QED
      BY <2>4, <3>1, <3>2
  <2>6. QED
    BY <1>0, <2>1, <2>3, <2>5 DEF LogWithinTags
<1>5. CASE RestoreOne
  <2>1. Top > 0 /\ stack[Top] # Tag /\ revoking
    BY <1>0, <1>5 DEF RestoreOne, AtTag, Top
  <2>2. Extends(stack, stack')
    BY <1>5, <2>1, PopFacts DEF RestoreOne
  <2>3. Tags(stack') = T
    BY <2>1, <2>2, TagsExtend DEF Top
  <2>4. QED
    BY <1>5, <2>3 DEF LogWithinTags, RestoreOne
<1>6. CASE FinishRevoke
  <2>1. /\ Len(commandStack) <= Cardinality(T) /\ stack' = stack
        /\ revoking /\ ~ revoking'
    BY <1>6 DEF LogWithinTags, FinishRevoke
  <2>2. \/ commandStack = <<>> /\ Len(commandStack') = 0
        \/ Len(commandStack') = Len(commandStack) - 1
    <3>1. CASE commandStack = <<>>
      BY <1>6, <3>1 DEF FinishRevoke
    <3>2. CASE commandStack # <<>>
      <4>1. Len(commandStack) > 0
        BY <1>0, <3>2, EmptySeq DEF TypeOK
      <4>2. QED
        BY <1>6, <3>2, <4>1, FrontFacts DEF FinishRevoke, TypeOK
    <3>3. QED
      BY <3>1, <3>2
  <2>3. QED
    BY <1>0, <2>1, <2>2 DEF LogWithinTags
<1>7. CASE InitializeSnapshot
  <2>1. Len(stack') = 0 /\ Len(commandStack') = 0 /\ ~ revoking'
    BY <1>7 DEF InitializeSnapshot
  <2>2. Cardinality(Tags(stack')) \in Nat \ {0}
    BY <2>1, TagsFacts
  <2>3. QED
    BY <2>1, <2>2 DEF LogWithinTags
<1>8. CASE UNCHANGED vars
  BY <1>8 DEF vars, LogWithinTags
<1>9. QED
  BY <1>1, <1>2, <1>3, <1>4, <1>5, <1>6, <1>7, <1>8 DEF Next, Revoking

(* Even when commands fail and leave records without a tag, the log names  *)
(* no command that has no tag.                                             *)
THEOREM LogWithin == Spec => []LogWithinTags
<1>1. TypeOK /\ LogWithinTags /\ [Next]_vars => LogWithinTags'
  BY WithinStep
<1>2. QED
  BY <1>1, InitWithin, TypeCorrect, PTL DEF Spec

-----------------------------------------------------------------------------
(* The refinement, step by step.                                           *)
LEMMA StepSimulation ==
  ASSUME MayAbandon = FALSE, TypeOK, [Next]_vars
  PROVE  [CP!Next]_(CP!checkpointVars)
<1> DEFINE past == [p \in Tags(stack) |-> UndoTo(mem, stack, p)]
           shown == IF revoking THEN UndoTo(mem, stack, LastTag(stack)) ELSE mem
<1>0. /\ stack \in Seq(Entries) /\ Len(stack) \in Nat
      /\ Tags(stack) \subseteq 0 .. Len(stack) /\ 0 \in Tags(stack)
      /\ mem \in Memories /\ TypeOK'
  BY TagsFacts, LenProperties, TypeInvariant DEF TypeOK, Entries
<1>1. ASSUME NEW g \in Groups, PushBlockAndInode(g)
      PROVE  UNCHANGED CP!checkpointVars
  <2> DEFINE r == [c \in g |-> mem[c]]
  <2>1. r \in Records /\ DOMAIN r = g
    BY <1>0, GroupsAssumption DEF Records, Memories
  <2>2. Extends(stack', stack) /\ stack'[Len(stack')] = r /\ r # Tag
    BY <1>1, <2>1, Push, EntryFacts DEF PushBlockAndInode, Entries
  <2>3. Tags(stack') = Tags(stack)
    BY <2>2, TagsExtend
  <2>4. Restore(mem, r) = mem
    BY <1>0 DEF Restore, Memories
  <2>5. \A p \in Tags(stack) : UndoTo(mem, stack', p) = UndoTo(mem, stack, p)
    BY <1>0, <2>2, <2>4, UndoLast
  <2>6. past' = past
    BY <1>1, <2>3, <2>5 DEF PushBlockAndInode
  <2>7. shown' = shown
    BY <1>1 DEF PushBlockAndInode
  <2>8. QED
    BY <2>6, <2>7 DEF CP!checkpointVars
<1>2. ASSUME NEW c \in Cells, NEW v \in Values, Write(c, v) PROVE CP!Change
  <2>1. \A p \in Tags(stack) : UndoTo(mem', stack, p) = UndoTo(mem, stack, p)
    <3>1. ASSUME NEW p \in Tags(stack), NEW d \in Cells, mem[d] # mem'[d]
          PROVE  SaversOf(d, stack, p) # {}
      BY <1>0, <1>2, <3>1, SavedAboveTags DEF Write, Memories
    <3>2. QED
      BY <3>1, UndoIgnoresSaved
  <2>2. past' = past
    BY <1>2, <2>1 DEF Write
  <2>3. QED
    BY <2>2 DEF CP!Change
<1>3. ASSUME NEW command \in Commands, PushTag(command) PROVE CP!Commit
  <2> DEFINE n == Len(stack) + 1
  <2>1. /\ Extends(stack', stack) /\ stack'[Len(stack')] = Tag
        /\ Len(stack') = n
    BY <1>3, Push DEF PushTag, Entries, Extends
  <2>2. Tags(stack') = Tags(stack) \cup {n}
    BY <2>1, TagsExtend
  <2>3. Restore(mem, Tag) = mem
    BY <1>0, EntryFacts DEF Restore, Memories
  <2>4. \A p \in Tags(stack) : UndoTo(mem, stack', p) = UndoTo(mem, stack, p)
    BY <1>0, <2>1, <2>3, UndoLast
  <2>5. UndoTo(mem, stack', n) = mem
    BY <1>0, <2>1, UndoNothing
  <2>6. shown' = shown /\ shown = mem
    BY <1>3 DEF PushTag
  <2>7. past' = [q \in Tags(stack) \cup {n} |-> IF q = n THEN mem ELSE past[q]]
    <3>1. past' = [q \in Tags(stack') |-> UndoTo(mem, stack', q)]
      BY <1>3 DEF PushTag
    <3>2. n \notin Tags(stack)
      BY <1>0
    <3>3. \A q \in Tags(stack') : UndoTo(mem, stack', q)
                                    = IF q = n THEN mem ELSE past[q]
      BY <2>2, <2>4, <2>5
    <3>4. QED
      BY <2>2, <3>1, <3>3
  <2>8. n \in 0 .. MaxRecords /\ \A q \in Tags(stack) : q < n
    BY <1>0, <1>3, MaxRecordsAssumption DEF PushTag, Room, Top
  <2>9. QED
    BY <2>6, <2>7, <2>8 DEF CP!Commit, CP!Numbers
<1>4. ASSUME StartRevoke PROVE CP!Revoke
  <2> DEFINE last == Len(stack)
             previous == LastTag(stack')
  <2>1. last > 0 /\ stack[last] = Tag /\ ~ revoking /\ revoking' /\ mem' = mem
    BY <1>4 DEF StartRevoke, CommandEnded, AtTag, Top
  <2>2. Extends(stack, stack') /\ Len(stack') \in Nat
    <3>1. Extends(stack, stack')
      BY <1>4, <2>1, PopFacts DEF StartRevoke, Top
    <3>2. QED
      BY <3>1 DEF Extends
  <2>3. /\ Tags(stack) = Tags(stack') \cup {last}
        /\ last \notin Tags(stack')
        /\ \A q \in Tags(stack') : q \in 0 .. Len(stack') /\ q < last
    BY <2>1, <2>2, TagsExtend, TagsFacts DEF Extends
  <2>4. Restore(mem, Tag) = mem
    BY <1>0, EntryFacts DEF Restore, Memories
  <2>5. \A p \in Tags(stack') : UndoTo(mem, stack, p) = UndoTo(mem, stack', p)
    BY <2>1, <2>2, <2>3, <2>4, UndoLast
  <2>6. past[last] = mem
    BY <1>0, <2>3, UndoNothing
  <2>7. past' = [q \in Tags(stack) \ {last} |-> past[q]]
    <3>1. Tags(stack) \ {last} = Tags(stack')
      BY <2>3
    <3>2. past' = [q \in Tags(stack') |-> UndoTo(mem, stack', q)]
      BY <2>1
    <3>3. QED
      BY <2>3, <2>5, <3>1, <3>2
  <2>8. /\ previous \in Tags(stack') /\ \A q \in Tags(stack') : q <= previous
    BY <2>2, LastTagFacts
  <2>9. shown' = past[previous]
    BY <2>1, <2>3, <2>5, <2>8
  <2>10. \A q \in Tags(stack) : q <= last
    BY <1>0
  <2>11. shown = past[last]
    BY <2>1, <2>6
  <2>12. /\ last \in Tags(stack) /\ previous \in Tags(stack) /\ previous < last
         /\ \A q \in Tags(stack) : q <= previous \/ q = last
    BY <2>3, <2>8
  <2> HIDE DEF last, previous
  <2>13. QED
    BY <2>7, <2>9, <2>10, <2>11, <2>12
    DEF CP!Revoke, CP!Numbers, CP!Latest
<1>5. ASSUME RestoreOne PROVE UNCHANGED CP!checkpointVars
  <2> DEFINE r == stack[Len(stack)]
  <2>1. Len(stack) > 0 /\ r # Tag /\ revoking /\ revoking' /\ mem' = Restore(mem, r)
    BY <1>0, <1>5 DEF RestoreOne, AtTag, Top
  <2>2. Extends(stack, stack')
    BY <1>5, <2>1, PopFacts DEF RestoreOne, Top
  <2>3. Tags(stack') = Tags(stack) /\ Tags(stack) \subseteq 0 .. Len(stack')
    BY <2>1, <2>2, TagsExtend, TagsFacts DEF Extends
  <2>4. \A p \in Tags(stack) : UndoTo(mem', stack', p) = UndoTo(mem, stack, p)
    BY <2>1, <2>2, <2>3, UndoLast
  <2>5. past' = past
    BY <2>3, <2>4
  <2>6. LastTag(stack') = LastTag(stack) /\ LastTag(stack) \in Tags(stack)
    BY <1>0, <2>3, LastTagFacts DEF LastTag
  <2>7. shown' = shown
    BY <2>1, <2>4, <2>6
  <2>8. QED
    BY <2>5, <2>7 DEF CP!checkpointVars
<1>6. ASSUME FinishRevoke PROVE UNCHANGED CP!checkpointVars
  <2>1. /\ revoking /\ ~ revoking' /\ mem' = mem /\ stack' = stack
        /\ Len(stack) > 0 => stack[Len(stack)] = Tag
    BY <1>6 DEF FinishRevoke, AtTag, Top
  <2>2. Len(stack) \in Tags(stack)
    BY <1>0, <2>1 DEF Tags
  <2>3. LastTag(stack) = Len(stack)
    BY <1>0, <2>2, LastTagFacts
  <2>4. UndoTo(mem, stack, LastTag(stack)) = mem
    BY <1>0, <2>3, UndoNothing
  <2>5. shown' = shown /\ past' = past
    BY <2>1, <2>4
  <2>6. QED
    BY <2>5 DEF CP!checkpointVars
<1>7. ASSUME InitializeSnapshot PROVE CP!Forget
  <2>1. stack' = <<>> /\ ~ revoking /\ ~ revoking' /\ mem' = mem
    BY <1>7 DEF InitializeSnapshot
  <2>2. Len(stack') = 0 /\ Tags(stack') = {0}
    BY <2>1 DEF Tags
  <2>3. UndoTo(mem, stack', 0) = mem
    BY <1>0, <2>2, UndoNothing
  <2>4. past' = [p \in {0} |-> mem] /\ shown' = mem /\ shown = mem
    BY <2>1, <2>2, <2>3
  <2>5. QED
    BY <2>4 DEF CP!Forget
<1>8. ASSUME UNCHANGED vars PROVE UNCHANGED CP!checkpointVars
  BY <1>8 DEF vars, CP!checkpointVars
<1>9. QED
  BY <1>1, <1>2, <1>3, <1>4, <1>5, <1>6, <1>7, <1>8
  DEF Next, Revoking, CP!Next

(* When every command saves what it writes and ends with its tag, each     *)
(* revoke restores exactly the memory before the command, for any memory   *)
(* and any history.                                                        *)
THEOREM RevocationExact ==
  ASSUME MayAbandon = FALSE
  PROVE  Spec => ImplementsCheckpoints
<1>1. Init => CP!Init
  <2>1. SUFFICES ASSUME Init PROVE CP!Init
    OBVIOUS
  <2>2. Len(stack) = 0 /\ Tags(stack) = {0} /\ ~ revoking /\ mem \in Memories
    BY <2>1 DEF Init, Tags
  <2>3. UndoTo(mem, stack, 0) = mem
    BY <2>2, UndoNothing
  <2>4. QED
    BY <2>2, <2>3 DEF CP!Init
<1>2. TypeOK /\ [Next]_vars => [CP!Next]_(CP!checkpointVars)
  BY StepSimulation
<1>3. QED
  BY <1>1, <1>2, TypeCorrect, PTL DEF Spec, ImplementsCheckpoints, CP!Spec
=============================================================================
