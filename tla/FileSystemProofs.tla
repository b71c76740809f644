-------------------------- MODULE FileSystemProofs --------------------------
(***************************************************************************)
(* Theorems about FileSystem, for any numbers of inodes, blocks, entries   *)
(* and pointers, any names and texts and any bound on the records.         *)
(*                                                                         *)
(* A memory is "good" when it is typed, its inodes form a tree and its     *)
(* blocks are apart.  Each operation takes a good memory to a good one,    *)
(* and so does undoing: a cell that an operation changes is in one of its  *)
(* records, so what undoing to a tag gives stays what it was, but for the  *)
(* bits of blocks that were taken or freed before they were saved, which   *)
(* undoing may leave raised, and for the record that writeFile makes of    *)
(* the wrong block.  The invariant IInv says that memory and undone        *)
(* memories are good; EInv says more of them while every text fits in one  *)
(* block.                                                                  *)
(***************************************************************************)
EXTENDS FileSystem, FiniteSetTheorems, SequenceTheorems, WellFoundedInduction, TLAPS

LEMMA MinFacts ==
  ASSUME NEW K \in SUBSET Nat, K # {}
  PROVE  /\ Min(K) \in K
         /\ \A j \in K : Min(K) <= j
<1>1. \E k \in K : \A j \in K : ~ (<<j, k>> \in OpToRel(<, Nat))
  BY NatLessThanWellFounded, WFMin
<1>2. \A j, k \in Nat : j < k => <<j, k>> \in OpToRel(<, Nat)
  BY DEF OpToRel
<1>3. \E k \in K : \A j \in K : ~ (j < k)
  BY <1>1, <1>2
<1>4. \E k \in K : \A j \in K : k <= j
  BY <1>3
<1>5. QED
  BY <1>4 DEF Min

-----------------------------------------------------------------------------
(* First fit: LeastOf lists the least elements of a set of numbers.        *)
LessThan(S, b) == {a \in S : a < b}

LEMMA LessThanFacts ==
  ASSUME NEW S \in SUBSET Nat, IsFiniteSet(S), NEW b \in S
  PROVE  /\ Cardinality(LessThan(S, b)) \in 0 .. Cardinality(S) - 1
         /\ \A a \in S : a < b => Cardinality(LessThan(S, a)) < Cardinality(LessThan(S, b))
<1>0. \A x \in S : x \in Nat
  OBVIOUS
<1>1. /\ IsFiniteSet(LessThan(S, b)) /\ b \notin LessThan(S, b)
      /\ Cardinality(S) \in Nat /\ Cardinality(LessThan(S, b)) \in Nat
  <2>1. LessThan(S, b) \in SUBSET S /\ b \notin LessThan(S, b)
    BY <1>0 DEF LessThan
  <2>2. QED
    BY <2>1, FS_Subset, FS_CardinalityType
<1>2. Cardinality(LessThan(S, b)) < Cardinality(S)
  <2>1. LessThan(S, b) \cup {b} \in SUBSET S
    BY <1>0 DEF LessThan
  <2>2. Cardinality(LessThan(S, b) \cup {b}) = Cardinality(LessThan(S, b)) + 1
    BY <1>1, FS_AddElement
  <2>3. Cardinality(LessThan(S, b) \cup {b}) <= Cardinality(S)
    BY <2>1, FS_Subset
  <2>4. QED
    BY <1>1, <2>2, <2>3
<1>3. ASSUME NEW a \in S, a < b
      PROVE  Cardinality(LessThan(S, a)) < Cardinality(LessThan(S, b))
  <2>1. LessThan(S, a) \cup {a} \in SUBSET LessThan(S, b) /\ a \notin LessThan(S, a)
        /\ LessThan(S, a) \in SUBSET S
    <3>1. \A x \in LessThan(S, a) \cup {a} : x \in LessThan(S, b)
      BY <1>0, <1>3 DEF LessThan
    <3>2. a \notin LessThan(S, a) /\ \A x \in LessThan(S, a) : x \in S
      BY <1>0 DEF LessThan
    <3>3. QED
      BY <3>1, <3>2
  <2>2. IsFiniteSet(LessThan(S, a)) /\ Cardinality(LessThan(S, a)) \in Nat
    BY <2>1, FS_Subset, FS_CardinalityType
  <2>3. Cardinality(LessThan(S, a) \cup {a}) = Cardinality(LessThan(S, a)) + 1
    BY <2>1, <2>2, FS_AddElement
  <2>4. Cardinality(LessThan(S, a) \cup {a}) <= Cardinality(LessThan(S, b))
    BY <1>1, <2>1, FS_Subset
  <2>5. QED
    BY <1>1, <2>2, <2>3, <2>4
<1>4. QED
  BY <1>1, <1>2, <1>3

(* Every number of smaller elements below the size of the set occurs.      *)
LEMMA RankExists ==
  ASSUME NEW S \in SUBSET Nat, IsFiniteSet(S), NEW k \in 1 .. Cardinality(S)
  PROVE  \E b \in S : Cardinality(LessThan(S, b)) = k - 1
<1> DEFINE Missing == {n \in 1 .. Cardinality(S) :
                        \A b \in S : Cardinality(LessThan(S, b)) # n - 1}
<1>0. \A x \in S : x \in Nat
  OBVIOUS
<1>1. Cardinality(S) \in Nat
  BY FS_CardinalityType
<1>2. SUFFICES ASSUME Missing # {} PROVE FALSE
  BY <1>1
<1>3. PICK n \in Missing : \A j \in Missing : n <= j
  <2>1. Missing \in SUBSET Nat
    BY <1>1
  <2> HIDE DEF Missing
  <2>2. QED
    BY <1>2, <2>1, MinFacts
<1>4. n \in 1 .. Cardinality(S) /\ \A b \in S : Cardinality(LessThan(S, b)) # n - 1
  BY <1>3
<1>5. n # 1
  <2>1. SUFFICES ASSUME n = 1 PROVE FALSE
    OBVIOUS
  <2>2. S # {}
    BY <1>1, <1>4, FS_EmptySet
  <2>3. PICK low \in S : \A a \in S : low <= a
    BY <2>2, MinFacts
  <2>4. LessThan(S, low) = {}
    <3>1. \A x \in S : ~ (x < low)
      BY <1>0, <2>3
    <3>2. QED
      BY <3>1 DEF LessThan
  <2>5. QED
    BY <1>4, <2>1, <2>4, FS_EmptySet
<1>6. PICK a \in S : Cardinality(LessThan(S, a)) = n - 2
  <2>1. n - 1 \in 1 .. Cardinality(S) /\ n - 1 \notin Missing
    BY <1>1, <1>3, <1>4, <1>5
  <2>2. \E a \in S : Cardinality(LessThan(S, a)) = (n - 1) - 1
    BY <2>1
  <2>3. (n - 1) - 1 = n - 2
    BY <1>1, <1>4
  <2>4. QED
    BY <2>2, <2>3
<1> DEFINE Here == LessThan(S, a) \cup {a}
           Rest == S \ Here
<1>7. /\ IsFiniteSet(LessThan(S, a)) /\ a \notin LessThan(S, a)
      /\ Here \in SUBSET S
      /\ Cardinality(Here) = n - 1
  <2>1. LessThan(S, a) \in SUBSET S /\ a \notin LessThan(S, a) /\ Here \in SUBSET S
    BY <1>0 DEF LessThan
  <2>2. IsFiniteSet(LessThan(S, a))
    BY <2>1, FS_Subset
  <2>3. Cardinality(Here) = Cardinality(LessThan(S, a)) + 1
    BY <2>1, <2>2, FS_AddElement
  <2>4. QED
    BY <1>1, <1>4, <1>6, <2>1, <2>2, <2>3
<1>8. Rest # {}
  <2>1. Here # S
    BY <1>1, <1>4, <1>7
  <2>2. QED
    BY <1>7, <2>1
<1>9. PICK next \in Rest : \A j \in Rest : next <= j
  <2>1. Rest \in SUBSET Nat
    OBVIOUS
  <2> HIDE DEF Rest
  <2>2. QED
    BY <1>8, <2>1, MinFacts
<1>10. LessThan(S, next) = Here
  <2>1. \A j \in S : j \in Here <=> j <= a
    BY <1>0 DEF LessThan
  <2>2. next \in S /\ next \notin Here /\ \A j \in S : j \notin Here => next <= j
    BY <1>9
  <2> HIDE DEF Here, Rest
  <2>3. a < next
    BY <1>0, <2>1, <2>2
  <2>4. \A j \in S : j < next <=> j \in Here
    BY <1>0, <2>1, <2>2, <2>3
  <2>5. Here \subseteq S
    BY <1>7
  <2>6. QED
    BY <2>4, <2>5 DEF LessThan
<1>11. QED
  BY <1>4, <1>7, <1>9, <1>10

LEMMA LeastOfFacts ==
  ASSUME NEW S \in SUBSET Nat, IsFiniteSet(S), NEW n \in 0 .. Cardinality(S)
  PROVE  /\ LeastOf(S, n) \in [1 .. n -> S]
         /\ \A j, k \in 1 .. n : LeastOf(S, n)[j] = LeastOf(S, n)[k] => j = k
         /\ n = Cardinality(S) => \A b \in S : \E k \in 1 .. n : LeastOf(S, n)[k] = b
<1>1. Cardinality(S) \in Nat
  BY FS_CardinalityType
<1>2. ASSUME NEW k \in 1 .. n
      PROVE  /\ LeastOf(S, n)[k] \in S
             /\ Cardinality(LessThan(S, LeastOf(S, n)[k])) = k - 1
  <2>1. \E b \in S : Cardinality({a \in S : a < b}) = k - 1
    <3>1. k \in 1 .. Cardinality(S)
      BY <1>1
    <3>2. QED
      BY <3>1, RankExists DEF LessThan
  <2>2. QED
    BY <2>1 DEF LeastOf, LessThan
<1>3. LeastOf(S, n) \in [1 .. n -> S]
  BY <1>2 DEF LeastOf
<1>4. ASSUME NEW j \in 1 .. n, NEW k \in 1 .. n, LeastOf(S, n)[j] = LeastOf(S, n)[k]
      PROVE  j = k
  BY <1>1, <1>2, <1>4
<1>5. ASSUME n = Cardinality(S), NEW b \in S
      PROVE  \E k \in 1 .. n : LeastOf(S, n)[k] = b
  <2> DEFINE k == Cardinality(LessThan(S, b)) + 1
             c == LeastOf(S, n)[k]
  <2>1. k \in 1 .. n
    BY <1>1, <1>5, LessThanFacts
  <2>2. c \in S /\ Cardinality(LessThan(S, c)) = Cardinality(LessThan(S, b))
    <3>1. /\ c \in S
          /\ Cardinality(LessThan(S, c)) = k - 1
      BY <1>2, <2>1
    <3>2. Cardinality(LessThan(S, b)) \in Nat
      BY <1>1, LessThanFacts
    <3>3. QED
      BY <3>1, <3>2
  <2>3. Cardinality(LessThan(S, b)) \in Nat
    BY <1>1, LessThanFacts
  <2> HIDE DEF k, c
  <2>4. ~ (c < b) /\ ~ (b < c)
    BY <2>2, <2>3, LessThanFacts
  <2>5. c = b
    BY <2>2, <2>4
  <2>6. QED
    BY <2>1, <2>5 DEF c
<1>6. QED
  BY <1>3, <1>4, <1>5

(* The order in which a set of inodes is saved lists all of them.          *)
LEMMA ListedFacts ==
  ASSUME NEW S, IsFiniteSet(S)
  PROVE  /\ Cardinality(S) \in Nat
         /\ SetToSeq(S) \in [1 .. Cardinality(S) -> S]
         /\ \A x \in S : \E k \in 1 .. Cardinality(S) : SetToSeq(S)[k] = x
<1>1. Cardinality(S) \in Nat /\ ExistsBijection(1 .. Cardinality(S), S)
  BY FS_CardinalityType
<1>2. \E f \in [1 .. Cardinality(S) -> S] : IsInjective(f)
  BY <1>1 DEF ExistsBijection, Bijection, Injection
<1>3. SetToSeq(S) \in [1 .. Cardinality(S) -> S] /\ IsInjective(SetToSeq(S))
  BY <1>2 DEF SetToSeq
<1>4. SetToSeq(S) \in Injection(1 .. Cardinality(S), S)
  BY <1>3 DEF Injection
<1>5. Cardinality(1 .. Cardinality(S)) = Cardinality(S)
  BY <1>1, FS_Interval
<1>6. SetToSeq(S) \in Surjection(1 .. Cardinality(S), S)
  BY <1>4, <1>5, FS_Injection
<1>7. QED
  BY <1>1, <1>3, <1>6 DEF Surjection

-----------------------------------------------------------------------------
(* What undoing the records of s above position p gives for a cell: the    *)
(* value in the first of them that saves it.  (Applications have names, so *)
(* that the provers need not ask each time what is in a domain.)           *)
Value(m, c) == m[c]
SavedIn(s, k, c) == s[k][c]
Unsaved(c, s, p) == \A k \in p + 1 .. Len(s) : c \notin DOMAIN s[k]
First(c, s, p, k) ==
  /\ k \in p + 1 .. Len(s) /\ c \in DOMAIN s[k]
  /\ \A j \in p + 1 .. k - 1 : c \notin DOMAIN s[j]

LEMMA UnsavedOrFirst ==
  ASSUME NEW s, Len(s) \in Nat, NEW p \in Nat, NEW c
  PROVE  Unsaved(c, s, p) \/ \E k \in Nat : First(c, s, p, k)
<1> DEFINE K == SaversOf(c, s, p)
<1>1. K \in SUBSET Nat
  BY DEF SaversOf
<1>2. Unsaved(c, s, p) <=> K = {}
  BY DEF SaversOf, Unsaved
<1>3. \A k \in Nat : First(c, s, p, k) <=> k \in K /\ \A j \in K : k <= j
  BY DEF SaversOf, First
<1> HIDE DEF K
<1>4. K # {} => \E k \in K : \A j \in K : k <= j
  BY <1>1, MinFacts
<1>5. QED
  BY <1>1, <1>2, <1>3, <1>4

LEMMA UndoUnsaved ==
  ASSUME NEW m, NEW s, NEW p, NEW c \in Cells, Unsaved(c, s, p)
  PROVE  Value(UndoTo(m, s, p), c) = Value(m, c)
<1>1. SaversOf(c, s, p) = {}
  BY DEF SaversOf, Unsaved
<1>2. QED
  BY <1>1 DEF UndoTo, Value

LEMMA UndoFirst ==
  ASSUME NEW m, NEW s, Len(s) \in Nat, NEW p \in Nat, NEW c \in Cells,
         NEW k, First(c, s, p, k)
  PROVE  Value(UndoTo(m, s, p), c) = SavedIn(s, k, c)
<1> DEFINE K == SaversOf(c, s, p)
<1>1. K \in SUBSET Nat
  BY DEF SaversOf
<1>2. k \in K /\ \A j \in K : k <= j
  <2>1. k \in p + 1 .. Len(s)
    BY DEF First
  <2>2. QED
    BY <2>1 DEF SaversOf, First
<1>3. UndoTo(m, s, p)[c] = IF K = {} THEN m[c] ELSE s[Min(K)][c]
  BY DEF UndoTo
<1> HIDE DEF K
<1>4. PICK low \in K : low = Min(K) /\ \A j \in K : low <= j
  BY <1>1, <1>2, MinFacts
<1>5. low = k
  BY <1>1, <1>2, <1>4
<1>6. UndoTo(m, s, p)[c] = s[k][c]
  BY <1>2, <1>3, <1>4, <1>5
<1>7. QED
  BY <1>6 DEF Value, SavedIn

(* An operation changes memory m to n and appends the records new: every   *)
(* cell it changes is saved, and the first record that saves a cell holds  *)
(* its value in m, or, if the cell is one of B, the number 1.              *)
Covers(m, n, new, B) ==
  /\ \A c \in Cells : Value(n, c) = Value(m, c) \/ \E k \in 1 .. Len(new) : c \in DOMAIN new[k]
  /\ \A k \in 1 .. Len(new) : \A c \in DOMAIN new[k] :
       \/ SavedIn(new, k, c) = Value(m, c)
       \/ c \in B /\ SavedIn(new, k, c) = 1
       \/ \E j \in 1 .. k - 1 : c \in DOMAIN new[j]

(* Two memories that differ in cells of B only, where the second has 1.    *)
Raised(m, n, B) ==
  /\ n = [c \in Cells |-> n[c]]
  /\ \A c \in Cells : \/ Value(n, c) = Value(m, c)
                      \/ c \in B /\ Value(n, c) = 1

LEMMA UndoMore ==
  ASSUME NEW S, NEW s \in Seq(S), NEW new \in Seq(S), NEW m, NEW n, NEW B,
         Covers(m, n, new, B), NEW p \in Nat, p <= Len(s)
  PROVE  Raised(UndoTo(m, s, p), UndoTo(n, s \o new, p), B)
<1> DEFINE t == s \o new
<1>1. /\ Len(s) \in Nat /\ Len(new) \in Nat /\ Len(t) = Len(s) + Len(new)
      /\ \A k \in 1 .. Len(s) : t[k] = s[k]
      /\ \A k \in 1 .. Len(new) : t[Len(s) + k] = new[k]
  BY ConcatProperties, LenProperties
<1> HIDE DEF t
<1>2. ASSUME NEW c \in Cells
      PROVE  \/ Value(UndoTo(n, t, p), c) = Value(UndoTo(m, s, p), c)
             \/ c \in B /\ Value(UndoTo(n, t, p), c) = 1
  <2>0. p \in Nat /\ Len(t) \in Nat
    BY <1>1
  <2>1. CASE ~ Unsaved(c, s, p)
    <3>1. PICK k \in Nat : First(c, s, p, k)
      BY <1>1, <2>0, <2>1, UnsavedOrFirst
    <3>2. k \in 1 .. Len(s)
      BY <3>1 DEF First
    <3>3. \A j \in 1 .. k : t[j] = s[j]
      BY <1>1, <3>2
    <3>4. First(c, t, p, k)
      BY <1>1, <3>1, <3>2, <3>3 DEF First
    <3>5. Value(UndoTo(m, s, p), c) = SavedIn(s, k, c) /\ Value(UndoTo(n, t, p), c) = SavedIn(t, k, c)
      BY <1>1, <2>0, <3>1, <3>4, UndoFirst
    <3>6. SavedIn(t, k, c) = SavedIn(s, k, c)
      BY <3>2, <3>3 DEF SavedIn
    <3>7. QED
      BY <3>5, <3>6
  <2>2. CASE Unsaved(c, s, p) /\ Unsaved(c, t, p)
    <3>1. \A k \in 1 .. Len(new) : c \notin DOMAIN new[k]
      <4>1. ASSUME NEW k \in 1 .. Len(new) PROVE c \notin DOMAIN new[k]
        <5>1. Len(s) + k \in p + 1 .. Len(t) /\ t[Len(s) + k] = new[k]
          BY <1>1
        <5>2. QED
          BY <2>2, <5>1 DEF Unsaved
      <4>2. QED
        BY <4>1
    <3>2. Value(n, c) = Value(m, c)
      BY <3>1 DEF Covers
    <3>3. QED
      BY <2>2, <3>2, UndoUnsaved
  <2>3. CASE Unsaved(c, s, p) /\ ~ Unsaved(c, t, p)
    <3>1. PICK k \in Nat : First(c, t, p, k)
      BY <2>0, <2>3, UnsavedOrFirst
    <3>2. k \in p + 1 .. Len(t) /\ c \in DOMAIN t[k]
          /\ \A j \in p + 1 .. k - 1 : c \notin DOMAIN t[j]
      BY <3>1 DEF First
    <3>3. k > Len(s)
      BY <1>1, <2>3, <3>2 DEF Unsaved
    <3>4. PICK l \in 1 .. Len(new) : k = Len(s) + l
      <4>1. k - Len(s) \in 1 .. Len(new) /\ k = Len(s) + (k - Len(s))
        BY <1>1, <3>2, <3>3
      <4>2. QED
        BY <4>1
    <3>5. \A j \in 1 .. l - 1 : c \notin DOMAIN new[j]
      <4>1. ASSUME NEW j \in 1 .. l - 1 PROVE c \notin DOMAIN new[j]
        <5>1. j \in 1 .. Len(new) /\ Len(s) + j \in p + 1 .. k - 1
          BY <1>1, <3>4
        <5>2. QED
          BY <1>1, <3>2, <5>1
      <4>2. QED
        BY <4>1
    <3>6. \/ SavedIn(new, l, c) = Value(m, c)
          \/ c \in B /\ SavedIn(new, l, c) = 1
      <4>1. t[k] = new[l] /\ c \in DOMAIN new[l]
        BY <1>1, <3>2, <3>4
      <4>2. QED
        BY <3>5, <4>1 DEF Covers
    <3>7. Value(UndoTo(n, t, p), c) = SavedIn(new, l, c) /\ Value(UndoTo(m, s, p), c) = Value(m, c)
      <4>1. t[k] = new[l]
        BY <1>1, <3>4
      <4>2. Value(UndoTo(n, t, p), c) = SavedIn(t, k, c)
        BY <2>0, <3>1, UndoFirst
      <4>3. QED
        BY <2>3, <4>1, <4>2, UndoUnsaved DEF SavedIn
    <3>8. QED
      BY <3>6, <3>7
  <2>4. QED
    BY <2>1, <2>2, <2>3
<1>3. QED
  BY <1>2 DEF Raised, UndoTo, t

(* When nothing is raised, undoing gives the same as before.               *)
LEMMA RaisedNothing ==
  ASSUME NEW m, NEW n, Raised(m, n, {}), m = [c \in Cells |-> m[c]]
  PROVE  n = m
  BY DEF Raised, Value

(* Undoing to q and then to an earlier p is undoing to p.                  *)
LEMMA UndoPrefix ==
  ASSUME NEW S, NEW s \in Seq(S), NEW q \in Nat, q <= Len(s), NEW p \in Nat, p <= q,
         NEW m
  PROVE  UndoTo(UndoTo(m, s, q), SubSeq(s, 1, q), p) = UndoTo(m, s, p)
<1> DEFINE t == SubSeq(s, 1, q)
           n == UndoTo(m, s, q)
<1>1. Len(s) \in Nat /\ Len(t) = q /\ \A k \in 1 .. q : t[k] = s[k]
  BY LenProperties
<1> HIDE DEF t, n
<1>2. ASSUME NEW c \in Cells
      PROVE  Value(UndoTo(n, t, p), c) = Value(UndoTo(m, s, p), c)
  <2>0. p \in Nat /\ q \in Nat /\ Len(t) \in Nat
    BY <1>1
  <2>1. CASE ~ Unsaved(c, t, p)
    <3>1. PICK k \in Nat : First(c, t, p, k)
      BY <2>0, <2>1, UnsavedOrFirst
    <3>2. k \in 1 .. q
      BY <1>1, <3>1 DEF First
    <3>3. \A j \in 1 .. k : t[j] = s[j]
      BY <1>1, <3>2
    <3>4. First(c, s, p, k)
      BY <1>1, <3>1, <3>2, <3>3 DEF First
    <3>5. Value(UndoTo(m, s, p), c) = SavedIn(s, k, c) /\ Value(UndoTo(n, t, p), c) = SavedIn(t, k, c)
      BY <1>1, <2>0, <3>1, <3>4, UndoFirst
    <3>6. SavedIn(t, k, c) = SavedIn(s, k, c)
      BY <3>2, <3>3 DEF SavedIn
    <3>7. QED
      BY <3>5, <3>6
  <2>2. CASE Unsaved(c, t, p) /\ Unsaved(c, s, q)
    <3>1. Unsaved(c, s, p)
      BY <1>1, <2>2 DEF Unsaved
    <3>2. Value(UndoTo(m, s, p), c) = Value(m, c) /\ Value(n, c) = Value(m, c) /\ Value(UndoTo(n, t, p), c) = Value(n, c)
      BY <2>2, <3>1, UndoUnsaved DEF n
    <3>3. QED
      BY <3>2
  <2>3. CASE Unsaved(c, t, p) /\ ~ Unsaved(c, s, q)
    <3>1. PICK k \in Nat : First(c, s, q, k)
      BY <1>1, <2>0, <2>3, UnsavedOrFirst
    <3>2. First(c, s, p, k)
      <4>1. \A j \in p + 1 .. q : c \notin DOMAIN s[j]
        BY <1>1, <2>3 DEF Unsaved
      <4>2. QED
        BY <1>1, <3>1, <4>1 DEF First
    <3>3. Value(UndoTo(n, t, p), c) = Value(n, c)
      BY <2>3, UndoUnsaved
    <3>4. Value(n, c) = SavedIn(s, k, c)
      BY <1>1, <2>0, <3>1, UndoFirst DEF n
    <3>5. Value(UndoTo(m, s, p), c) = SavedIn(s, k, c)
      BY <1>1, <2>0, <3>2, UndoFirst
    <3>6. QED
      BY <3>3, <3>4, <3>5
  <2>4. QED
    BY <2>1, <2>2, <2>3
<1>3. QED
  BY <1>2 DEF UndoTo, Value, t, n

-----------------------------------------------------------------------------
(* The cells of inodes, blocks and bits are all the cells, each once.      *)
Kind(c) == CASE c < INODE_NUMBER -> "inode"
             [] c >= INODE_NUMBER /\ c < INODE_NUMBER + BLOCK_NUMBER -> "block"
             [] c >= INODE_NUMBER + BLOCK_NUMBER -> "bit"

LEMMA CellFacts ==
  /\ \A i \in Inodes : InodeCell(i) \in Cells /\ Kind(InodeCell(i)) = "inode"
  /\ \A b \in Blocks : BlockCell(b) \in Cells /\ Kind(BlockCell(b)) = "block"
  /\ \A b \in Blocks : BitCell(b) \in Cells /\ Kind(BitCell(b)) = "bit"
  /\ \A i, j \in Inodes : InodeCell(i) = InodeCell(j) => i = j
  /\ \A a, b \in Blocks : BlockCell(a) = BlockCell(b) => a = b
  /\ \A a, b \in Blocks : BitCell(a) = BitCell(b) => a = b
<1> USE SizesAssumption DEF Inodes, Blocks, Cells, InodeCell, BlockCell, BitCell
<1>1. /\ \A i \in Inodes : InodeCell(i) \in Cells
      /\ \A b \in Blocks : BlockCell(b) \in Cells
      /\ \A b \in Blocks : BitCell(b) \in Cells
  OBVIOUS
<1>2. /\ \A i \in Inodes : Kind(InodeCell(i)) = "inode"
      /\ \A b \in Blocks : Kind(BlockCell(b)) = "block"
      /\ \A b \in Blocks : Kind(BitCell(b)) = "bit"
  BY DEF Kind
<1>3. /\ \A i, j \in Inodes : InodeCell(i) = InodeCell(j) => i = j
      /\ \A a, b \in Blocks : BlockCell(a) = BlockCell(b) => a = b
      /\ \A a, b \in Blocks : BitCell(a) = BitCell(b) => a = b
  OBVIOUS
<1>4. QED
  BY <1>1, <1>2, <1>3

LEMMA CellCases ==
  ASSUME NEW c \in Cells
  PROVE  \/ \E i \in Inodes : c = InodeCell(i)
         \/ \E b \in Blocks : c = BlockCell(b)
         \/ \E b \in Blocks : c = BitCell(b)
<1> DEFINE b == c - INODE_NUMBER
           u == c - (INODE_NUMBER + BLOCK_NUMBER)
<1>1. \/ c \in Inodes
      \/ b \in Blocks
      \/ u \in Blocks
  BY SizesAssumption DEF Cells, Inodes, Blocks
<1>2. c = InodeCell(c) /\ c = BlockCell(b) /\ c = BitCell(u)
  BY SizesAssumption DEF Cells, InodeCell, BlockCell, BitCell
<1> HIDE DEF b, u
<1>3. QED
  BY <1>1, <1>2

LEMMA ValuesOfCells ==
  /\ \A i \in Inodes : CellValues(InodeCell(i)) = InodeValues
  /\ \A b \in Blocks : CellValues(BlockCell(b)) = BlockValues
  /\ \A b \in Blocks : CellValues(BitCell(b)) = {0, 1}
<1> DEFINE IC == {InodeCell(i) : i \in Inodes}
           BC == {BlockCell(b) : b \in Blocks}
           UC == {BitCell(b) : b \in Blocks}
<1>1. /\ \A i \in Inodes : InodeCell(i) \in IC /\ InodeCell(i) \notin BC
                           /\ InodeCell(i) \notin UC
      /\ \A b \in Blocks : BlockCell(b) \notin IC /\ BlockCell(b) \in BC
                           /\ BlockCell(b) \notin UC
      /\ \A b \in Blocks : BitCell(b) \notin IC /\ BitCell(b) \notin BC
                           /\ BitCell(b) \in UC
  <2>1. "inode" # "block" /\ "inode" # "bit" /\ "block" # "bit"
    OBVIOUS
  <2>2. QED
    BY <2>1, CellFacts
<1>2. \A c : CellValues(c) = CASE c \in IC -> InodeValues
                               [] c \in BC -> BlockValues
                               [] c \in UC -> {0, 1}
  BY DEF CellValues
<1> HIDE DEF IC, BC, UC
<1>3. QED
  BY <1>1, <1>2

(* A memory in which every cell holds what its kind of cell can hold, and  *)
(* what a typed record or memory holds.                                    *)
IsMemory(m) ==
  /\ m = [c \in Cells |-> m[c]]
  /\ \A i \in Inodes : m[InodeCell(i)] \in InodeValues
  /\ \A b \in Blocks : m[BlockCell(b)] \in BlockValues
  /\ \A b \in Blocks : m[BitCell(b)] \in {0, 1}

Inhabits(m, c) == m[c] \in CellValues(c)

LEMMA MemoryCells ==
  ASSUME NEW m, m = [c \in Cells |-> m[c]]
  PROVE  IsMemory(m) <=> \A c \in Cells : Inhabits(m, c)
<1>1. ASSUME IsMemory(m), NEW c \in Cells PROVE Inhabits(m, c)
  BY <1>1, CellCases, ValuesOfCells DEF IsMemory, Inhabits
<1>2. ASSUME \A c \in Cells : Inhabits(m, c) PROVE IsMemory(m)
  BY <1>2, CellFacts, ValuesOfCells DEF IsMemory, Inhabits
<1>3. QED
  BY <1>1, <1>2

-----------------------------------------------------------------------------
(* What the proofs say of a memory.                                        *)
Alloc(m) == {i \in Inodes : BlockOf(m, i) # -1}
Bit(m, b) == m[BitCell(b)]
Link(m, d, e, k) ==
  /\ d \in Inodes /\ e \in Entries /\ IsDirectory(m, d)
  /\ k = Content(m, d).entry[e].inodeID
  /\ k # -1
Owns(m, i, b) == i \in Alloc(m) /\ (b = BlockOf(m, i) \/ b \in DataBlocks(m, i))

(* The block of an inode holds what the type of the inode says.            *)
KindsTrue(m) ==
  \A i \in Alloc(m) :
    /\ FileType(m, i) = 0 => Content(m, i).kind = "directory"
    /\ FileType(m, i) = 1 => Content(m, i).kind = "data"
    /\ FileType(m, i) = 2 => Content(m, i).kind = "index"

(* No block has two uses, and every block in use is marked used.           *)
BlocksApart(m) ==
  /\ \A i, j, b : Owns(m, i, b) /\ Owns(m, j, b) => i = j
  /\ \A i \in Alloc(m) : BlockOf(m, i) \notin DataBlocks(m, i)
  /\ \A i, b : Owns(m, i, b) => Bit(m, b) = 1

(* The inodes in use are a tree below the root.                            *)
Tree(m) ==
  /\ 0 \in Alloc(m) /\ FileType(m, 0) = 0
  /\ \A d, e, k : Link(m, d, e, k) => k \in Alloc(m) \ {0}
  /\ \A d, e, d2, e2, k : Link(m, d, e, k) /\ Link(m, d2, e2, k) => d = d2 /\ e = e2
  /\ Alloc(m) \subseteq Below(m, 0)

Good(m) == IsMemory(m) /\ KindsTrue(m) /\ BlocksApart(m) /\ Tree(m)

LEMMA BlockKinds ==
  ASSUME NEW v \in BlockValues
  PROVE  /\ v.kind \in {"directory", "index", "data"}
         /\ v.kind = "directory" =>
              /\ v.entry \in [Entries -> EntryValues]
              /\ v = [kind |-> "directory", entry |-> v.entry]
         /\ v.kind = "index" => v.blockPointers \in [Pointers -> Blocks \cup {-1}]
<1>1. CASE v \in [kind : {"directory"}, entry : [Entries -> EntryValues]]
  BY <1>1
<1>2. CASE v \in [kind : {"index"}, blockPointers : [Pointers -> Blocks \cup {-1}]]
  BY <1>2
<1>3. CASE v = Blank
  BY <1>3 DEF Blank, Data
<1>4. CASE v \in UNION {{Data(text.value, part) : part \in 0 .. text.blocks} : text \in Texts}
  <2>1. PICK text \in Texts : v \in {Data(text.value, part) : part \in 0 .. text.blocks}
    BY <1>4
  <2>2. PICK part \in 0 .. text.blocks : v = Data(text.value, part)
    BY <2>1
  <2>3. v.kind = "data"
    BY <2>2 DEF Data
  <2>4. QED
    BY <2>3
<1>5. QED
  BY <1>1, <1>2, <1>3, <1>4 DEF BlockValues

LEMMA MemoryFacts ==
  ASSUME NEW m, IsMemory(m)
  PROVE  /\ \A i \in Inodes : /\ BlockOf(m, i) \in Blocks \cup {-1}
                              /\ FileType(m, i) \in {-1, 0, 1, 2}
                              /\ BlockOf(m, i) = -1 <=> FileType(m, i) = -1
         /\ \A i \in Alloc(m) : /\ i \in Inodes
                                /\ BlockOf(m, i) \in Blocks
                                /\ FileType(m, i) \in {0, 1, 2}
                                /\ Content(m, i) \in BlockValues
         /\ \A b \in Blocks : Bit(m, b) \in {0, 1}
<1>1. ASSUME NEW i \in Inodes
      PROVE  /\ BlockOf(m, i) \in Blocks \cup {-1}
             /\ FileType(m, i) \in {-1, 0, 1, 2}
             /\ BlockOf(m, i) = -1 <=> FileType(m, i) = -1
  <2>1. m[InodeCell(i)] \in InodeValues
    BY DEF IsMemory
  <2>2. -1 \notin Blocks
    BY SizesAssumption DEF Blocks
  <2>3. QED
    BY <2>1, <2>2 DEF InodeValues, NoInode, BlockOf, FileType
<1>2. ASSUME NEW i \in Alloc(m)
      PROVE  /\ i \in Inodes
             /\ BlockOf(m, i) \in Blocks
             /\ FileType(m, i) \in {0, 1, 2}
             /\ Content(m, i) \in BlockValues
  <2>1. i \in Inodes /\ BlockOf(m, i) # -1
    BY DEF Alloc
  <2>2. BlockOf(m, i) \in Blocks /\ FileType(m, i) \in {0, 1, 2}
    BY <1>1, <2>1
  <2>3. QED
    BY <2>1, <2>2 DEF IsMemory, Content
<1>3. QED
  BY <1>1, <1>2 DEF IsMemory, Bit

LEMMA EntryFacts ==
  ASSUME NEW v \in EntryValues
  PROVE  v.inodeID \in Inodes \cup {-1}
<1>1. CASE v \in [fileName : Names, inodeID : Inodes]
  BY <1>1
<1>2. CASE v = NoEntry
  BY <1>2 DEF NoEntry
<1>3. QED
  BY <1>1, <1>2 DEF EntryValues

LEMMA DirectoryFacts ==
  ASSUME NEW m, IsMemory(m), NEW d \in Inodes, IsDirectory(m, d)
  PROVE  /\ d \in Alloc(m)
         /\ Content(m, d) \in BlockValues
         /\ Content(m, d).entry \in [Entries -> EntryValues]
         /\ Content(m, d) = [kind |-> "directory", entry |-> Content(m, d).entry]
         /\ \A e \in Entries : Content(m, d).entry[e].inodeID \in Inodes \cup {-1}
<1>1. d \in Alloc(m)
  BY MemoryFacts DEF Alloc, IsDirectory
<1>2. Content(m, d) \in BlockValues /\ Content(m, d).kind = "directory"
  BY <1>1, MemoryFacts DEF IsDirectory
<1>3. Content(m, d).entry \in [Entries -> EntryValues]
  BY <1>2, BlockKinds
<1>4. ASSUME NEW e \in Entries PROVE Content(m, d).entry[e].inodeID \in Inodes \cup {-1}
  <2>1. Content(m, d).entry[e] \in EntryValues
    BY <1>3
  <2>2. QED
    BY <2>1, EntryFacts
<1>5. QED
  BY <1>1, <1>2, <1>3, <1>4, BlockKinds

LEMMA DataBlocksFacts ==
  ASSUME NEW m, IsMemory(m), NEW f \in Inodes
  PROVE  /\ DataBlocks(m, f) \subseteq Blocks
         /\ IsIndexed(m, f) =>
              /\ f \in Alloc(m)
              /\ Content(m, f).blockPointers \in [Pointers -> Blocks \cup {-1}]
<1>1. CASE IsIndexed(m, f)
  <2>1. f \in Alloc(m)
    BY <1>1, MemoryFacts DEF Alloc, IsIndexed
  <2>2. Content(m, f).blockPointers \in [Pointers -> Blocks \cup {-1}]
    BY <1>1, <2>1, MemoryFacts, BlockKinds DEF IsIndexed
  <2>3. DataBlocks(m, f) \subseteq Blocks
    BY <1>1, <2>2 DEF DataBlocks, Range
  <2>4. QED
    BY <2>1, <2>2, <2>3
<1>2. CASE ~ IsIndexed(m, f)
  BY <1>2 DEF DataBlocks
<1>3. QED
  BY <1>1, <1>2

LEMMA OwnsFacts ==
  ASSUME NEW m, IsMemory(m), NEW i, NEW b, Owns(m, i, b)
  PROVE  i \in Inodes /\ b \in Blocks
  BY MemoryFacts, DataBlocksFacts DEF Owns

LEMMA LinkFacts ==
  ASSUME NEW m, IsMemory(m), NEW d, NEW e, NEW k, Link(m, d, e, k)
  PROVE  d \in Alloc(m) /\ e \in Entries /\ k \in Inodes
  BY DirectoryFacts DEF Link

-----------------------------------------------------------------------------
(* Walking down.  That an inode is below another one is shown by a closed  *)
(* set, never by following a path.                                         *)
Shut(m, S) == \A d, e, k : Link(m, d, e, k) /\ d \in S => k \in S

LEMMA ClosedIsShut ==
  ASSUME NEW m, IsMemory(m), NEW S \in SUBSET Inodes
  PROVE  Closed(m, S) <=> Shut(m, S)
<1>1. ASSUME Closed(m, S), NEW d, NEW e, NEW k, Link(m, d, e, k), d \in S
      PROVE  k \in S
  BY <1>1 DEF Closed, Link
<1>2. ASSUME Shut(m, S), NEW d \in S, IsDirectory(m, d), NEW e \in Entries
      PROVE  Content(m, d).entry[e].inodeID \in S \cup {-1}
  <2>1. CASE Content(m, d).entry[e].inodeID = -1
    BY <2>1
  <2>2. CASE Content(m, d).entry[e].inodeID # -1
    <3>1. Link(m, d, e, Content(m, d).entry[e].inodeID)
      BY <1>2, <2>2 DEF Link
    <3>2. QED
      BY <1>2, <3>1 DEF Shut
  <2>3. QED
    BY <2>1, <2>2
<1>3. QED
  BY <1>1, <1>2 DEF Closed, Shut

LEMMA BelowFacts ==
  ASSUME NEW m, IsMemory(m), NEW i \in Inodes
  PROVE  /\ Below(m, i) \in SUBSET Inodes
         /\ i \in Below(m, i)
         /\ Shut(m, Below(m, i))
         /\ \A S \in SUBSET Inodes : i \in S /\ Shut(m, S) => Below(m, i) \subseteq S
<1>1. \A j : j \in Below(m, i) <=>
             /\ j \in Inodes
             /\ \A S \in SUBSET Inodes : i \in S /\ Shut(m, S) => j \in S
  BY ClosedIsShut DEF Below
<1>2. ASSUME NEW d, NEW e, NEW k, Link(m, d, e, k), d \in Below(m, i)
      PROVE  k \in Below(m, i)
  <2>1. k \in Inodes
    BY <1>2, LinkFacts
  <2>2. ASSUME NEW S \in SUBSET Inodes, i \in S, Shut(m, S) PROVE k \in S
    <3>1. d \in S
      BY <1>1, <1>2, <2>2
    <3>2. QED
      BY <1>2, <2>2, <3>1 DEF Shut
  <2>3. QED
    BY <1>1, <2>1, <2>2
<1>3. QED
  BY <1>1, <1>2 DEF Shut

LEMMA SameBelow ==
  ASSUME NEW m, NEW n, IsMemory(m), IsMemory(n), NEW i \in Inodes,
         \A d, e, k : Link(n, d, e, k) <=> Link(m, d, e, k)
  PROVE  Below(n, i) = Below(m, i)
<1>1. \A S : Shut(n, S) <=> Shut(m, S)
  BY DEF Shut
<1>2. Below(n, i) \subseteq Below(m, i) /\ Below(m, i) \subseteq Below(n, i)
  BY <1>1, BelowFacts
<1>3. QED
  BY <1>2

(* A new inode below a directory of the tree.                              *)
LEMMA TreeGrows ==
  ASSUME NEW m, NEW n, IsMemory(m), IsMemory(n), Tree(m),
         NEW d \in Alloc(m), NEW e \in Entries, NEW i \in Inodes \ Alloc(m),
         Alloc(n) = Alloc(m) \cup {i}, FileType(n, 0) = 0,
         \A d2, e2, k2 : Link(n, d2, e2, k2) <=>
                           \/ Link(m, d2, e2, k2)
                           \/ d2 = d /\ e2 = e /\ k2 = i,
         \A k2 : ~ Link(m, d, e, k2)
  PROVE  Tree(n)
<1>1. 0 \in Alloc(n)
  BY DEF Tree
<1>2. ASSUME NEW d2, NEW e2, NEW k2, Link(n, d2, e2, k2)
      PROVE  k2 \in Alloc(n) \ {0}
  BY <1>2 DEF Tree
<1>3. ASSUME NEW d2, NEW e2, NEW d3, NEW e3, NEW k2,
             Link(n, d2, e2, k2), Link(n, d3, e3, k2)
      PROVE  d2 = d3 /\ e2 = e3
  <2>1. CASE k2 = i
    <3>1. \A d4, e4 : ~ Link(m, d4, e4, i)
      BY DEF Tree
    <3>2. QED
      BY <1>3, <2>1, <3>1
  <2>2. CASE k2 # i
    BY <1>3, <2>2 DEF Tree
  <2>3. QED
    BY <2>1, <2>2
<1>4. Alloc(n) \subseteq Below(n, 0)
  <2>0. 0 \in Inodes
    BY DEF Tree, Alloc
  <2>1. /\ Below(n, 0) \in SUBSET Inodes /\ 0 \in Below(n, 0)
        /\ Shut(n, Below(n, 0))
    BY <2>0, BelowFacts
  <2>2. Shut(m, Below(n, 0))
    BY <2>1 DEF Shut
  <2>3. Below(m, 0) \subseteq Below(n, 0)
    BY <2>0, <2>1, <2>2, BelowFacts
  <2>4. Alloc(m) \subseteq Below(n, 0)
    BY <2>3 DEF Tree
  <2>5. i \in Below(n, 0)
    BY <2>1, <2>4 DEF Shut
  <2>6. QED
    BY <2>4, <2>5
<1>5. QED
  BY <1>1, <1>2, <1>3, <1>4 DEF Tree

(* What is below an inode that an entry leads to does not have the         *)
(* directory of that entry in it, nor the root.                            *)
LEMMA NoCycle ==
  ASSUME NEW m, IsMemory(m), Tree(m), NEW d, NEW e, NEW t, Link(m, d, e, t)
  PROVE  /\ t \in Alloc(m) /\ t \in Below(m, t)
         /\ Below(m, t) \subseteq Alloc(m) \ {0}
         /\ d \notin Below(m, t)
<1> DEFINE G == Below(m, t)
<1>1. t \in Inodes /\ t \in Alloc(m) \ {0} /\ d \in Alloc(m)
  BY LinkFacts DEF Tree
<1>2. G \in SUBSET Inodes /\ t \in G /\ Shut(m, G)
      /\ \A S \in SUBSET Inodes : t \in S /\ Shut(m, S) => G \subseteq S
  BY <1>1, BelowFacts
<1> HIDE DEF G
<1>3. G \subseteq Alloc(m) \ {0}
  <2>1. Shut(m, Alloc(m) \ {0})
    BY DEF Tree, Shut
  <2>2. Alloc(m) \ {0} \in SUBSET Inodes
    BY DEF Alloc
  <2>3. QED
    BY <1>1, <1>2, <2>1, <2>2
<1>4. ASSUME NEW y \in G, y # t
      PROVE  \E x, f : x \in G /\ Link(m, x, f, y)
  <2>1. SUFFICES ASSUME \A x, f : x \in G => ~ Link(m, x, f, y) PROVE FALSE
    OBVIOUS
  <2>2. Shut(m, G \ {y})
    BY <1>2, <2>1 DEF Shut
  <2>3. G \ {y} \in SUBSET Inodes /\ t \in G \ {y}
    BY <1>2, <1>4
  <2>4. QED
    BY <1>2, <1>4, <2>2, <2>3
<1>5. d \notin G
  <2>1. SUFFICES ASSUME d \in G PROVE FALSE
    OBVIOUS
  <2>2. Shut(m, Inodes \ G)
    <3>1. SUFFICES ASSUME NEW x, NEW f, NEW y, Link(m, x, f, y), x \notin G, y \in G
                   PROVE  FALSE
      BY LinkFacts DEF Shut
    <3>2. CASE y = t
      BY <2>1, <3>1, <3>2 DEF Tree
    <3>3. CASE y # t
      BY <1>4, <3>1, <3>3 DEF Tree
    <3>4. QED
      BY <3>2, <3>3
  <2>3. 0 \in Inodes \ G
    BY <1>3 DEF Tree, Alloc
  <2>4. Below(m, 0) \subseteq Inodes \ G
    BY <2>2, <2>3, BelowFacts
  <2>5. QED
    BY <1>1, <1>2, <2>4 DEF Tree
<1>6. QED
  BY <1>1, <1>2, <1>3, <1>5 DEF G

(* Everything below an inode is cut off, and the entry that led to it.     *)
LEMMA TreeShrinks ==
  ASSUME NEW m, NEW n, IsMemory(m), IsMemory(n), Tree(m),
         NEW d, NEW e, NEW t, Link(m, d, e, t),
         Alloc(n) = Alloc(m) \ Below(m, t), FileType(n, 0) = 0,
         \A d2, e2, k2 : Link(n, d2, e2, k2) <=>
                           /\ Link(m, d2, e2, k2)
                           /\ d2 \notin Below(m, t)
                           /\ ~ (d2 = d /\ e2 = e)
  PROVE  Tree(n)
<1> DEFINE G == Below(m, t)
<1>1. /\ t \in Alloc(m) /\ t \in G /\ G \subseteq Alloc(m) \ {0} /\ d \notin G
      /\ Shut(m, G)
  BY NoCycle, BelowFacts DEF Alloc
<1> HIDE DEF G
<1>2. 0 \in Alloc(n)
  BY <1>1 DEF Tree, G
<1>3. ASSUME NEW d2, NEW e2, NEW k2, Link(n, d2, e2, k2)
      PROVE  k2 \in Alloc(n) \ {0}
  <2>1. Link(m, d2, e2, k2) /\ d2 \notin G /\ ~ (d2 = d /\ e2 = e)
    BY <1>3 DEF G
  <2>2. k2 \in Alloc(m) \ {0}
    BY <2>1 DEF Tree
  <2>3. k2 # t
    BY <2>1 DEF Tree
  <2>4. k2 \notin G
    <3>1. SUFFICES ASSUME k2 \in G PROVE FALSE
      OBVIOUS
    <3>2. Shut(m, G \ {k2})
      <4>1. ASSUME NEW x, NEW f, Link(m, x, f, k2), x \in G PROVE FALSE
        BY <2>1, <4>1 DEF Tree
      <4>2. QED
        BY <1>1, <4>1 DEF Shut
    <3>3. G \ {k2} \in SUBSET Inodes /\ t \in G \ {k2} /\ t \in Inodes
      BY <1>1, <2>3 DEF Alloc
    <3>4. G \subseteq G \ {k2}
      BY <3>2, <3>3, BelowFacts DEF G
    <3>5. QED
      BY <3>1, <3>4
  <2>5. QED
    BY <2>2, <2>4 DEF G
<1>4. \A d2, e2, d3, e3, k2 : Link(n, d2, e2, k2) /\ Link(n, d3, e3, k2)
                                => d2 = d3 /\ e2 = e3
  BY DEF Tree
<1>5. Alloc(n) \subseteq Below(n, 0)
  <2> DEFINE S == Below(n, 0)
  <2>0. 0 \in Inodes
    BY DEF Tree, Alloc
  <2>1. S \in SUBSET Inodes /\ 0 \in S /\ Shut(n, S)
    BY <2>0, BelowFacts
  <2> HIDE DEF S
  <2>2. Shut(m, S \cup G)
    <3>1. SUFFICES ASSUME NEW x, NEW f, NEW y, Link(m, x, f, y), x \in S \cup G
                   PROVE  y \in S \cup G
      BY DEF Shut
    <3>2. CASE x \in G
      BY <1>1, <3>1, <3>2 DEF Shut
    <3>3. CASE x \notin G /\ x = d /\ f = e
      <4>1. y = t
        BY <3>1, <3>3 DEF Link
      <4>2. QED
        BY <1>1, <4>1
    <3>4. CASE x \notin G /\ ~ (x = d /\ f = e)
      <4>1. Link(n, x, f, y)
        BY <3>1, <3>4 DEF G
      <4>2. QED
        BY <2>1, <3>1, <3>4, <4>1 DEF Shut
    <3>5. QED
      BY <3>2, <3>3, <3>4
  <2>3. S \cup G \in SUBSET Inodes
    BY <1>1, <2>1 DEF Alloc
  <2>4. Below(m, 0) \subseteq S \cup G
    BY <2>0, <2>1, <2>2, <2>3, BelowFacts
  <2>5. QED
    BY <2>4 DEF Tree, G, S
<1>6. QED
  BY <1>2, <1>3, <1>4, <1>5 DEF Tree

-----------------------------------------------------------------------------
(* Raising bits keeps a good memory good: blocks are only lost.            *)
BitCells == {BitCell(b) : b \in Blocks}

LEMMA RaisedFacts ==
  ASSUME NEW m, NEW n, IsMemory(m), Raised(m, n, BitCells)
  PROVE  /\ IsMemory(n)
         /\ \A i \in Inodes : n[InodeCell(i)] = m[InodeCell(i)]
         /\ \A b \in Blocks : n[BlockCell(b)] = m[BlockCell(b)]
         /\ \A b \in Blocks : Bit(n, b) = Bit(m, b) \/ Bit(n, b) = 1
<1>1. /\ \A i \in Inodes : InodeCell(i) \in Cells /\ InodeCell(i) \notin BitCells
      /\ \A b \in Blocks : BlockCell(b) \in Cells /\ BlockCell(b) \notin BitCells
      /\ \A b \in Blocks : BitCell(b) \in Cells
  <2>1. "inode" # "bit" /\ "block" # "bit"
    OBVIOUS
  <2>2. QED
    BY <2>1, CellFacts DEF BitCells
<1>2. \A c \in Cells : n[c] = m[c] \/ (c \in BitCells /\ n[c] = 1)
  BY DEF Raised, Value
<1>3. /\ \A i \in Inodes : n[InodeCell(i)] = m[InodeCell(i)]
      /\ \A b \in Blocks : n[BlockCell(b)] = m[BlockCell(b)]
      /\ \A b \in Blocks : Bit(n, b) = Bit(m, b) \/ Bit(n, b) = 1
  BY <1>1, <1>2 DEF Bit
<1>4. \A b \in Blocks : Bit(m, b) \in {0, 1}
  BY MemoryFacts
<1>5. n = [c \in Cells |-> n[c]]
  BY DEF Raised
<1>6. QED
  BY <1>3, <1>4, <1>5 DEF IsMemory, Bit

(* Two memories in which the inodes and the blocks in use are the same.    *)
SameFiles(m, n) ==
  /\ \A i \in Inodes : n[InodeCell(i)] = m[InodeCell(i)]
  /\ \A i \in Alloc(m) : Content(n, i) = Content(m, i)

LEMMA SameFilesFacts ==
  ASSUME NEW m, NEW n, IsMemory(m), IsMemory(n), SameFiles(m, n)
  PROVE  /\ Alloc(n) = Alloc(m)
         /\ \A i \in Inodes : BlockOf(n, i) = BlockOf(m, i) /\ FileType(n, i) = FileType(m, i)
         /\ \A d, e, k : Link(n, d, e, k) <=> Link(m, d, e, k)
         /\ \A i, b : Owns(n, i, b) <=> Owns(m, i, b)
         /\ \A i \in Alloc(m) : DataBlocks(n, i) = DataBlocks(m, i)
<1>1. /\ Alloc(n) = Alloc(m)
      /\ \A i \in Inodes : BlockOf(n, i) = BlockOf(m, i) /\ FileType(n, i) = FileType(m, i)
  BY DEF SameFiles, Alloc, BlockOf, FileType
<1>2. \A d \in Inodes : IsDirectory(n, d) \/ IsDirectory(m, d) => d \in Alloc(m)
  BY <1>1, DirectoryFacts
<1>3. \A d \in Inodes : IsDirectory(n, d) <=> IsDirectory(m, d)
  BY <1>1, <1>2 DEF IsDirectory, SameFiles
<1>4. ASSUME NEW d, NEW e, NEW k
      PROVE  Link(n, d, e, k) <=> Link(m, d, e, k)
  BY <1>2, <1>3 DEF Link, SameFiles
<1>5. ASSUME NEW i \in Alloc(m)
      PROVE  DataBlocks(n, i) = DataBlocks(m, i)
  <2>1. IsIndexed(n, i) <=> IsIndexed(m, i)
    BY <1>1 DEF IsIndexed, SameFiles, Alloc
  <2>2. QED
    BY <2>1 DEF DataBlocks, SameFiles
<1>6. \A i, b : Owns(n, i, b) <=> Owns(m, i, b)
  BY <1>1, <1>5 DEF Owns, Alloc
<1>7. QED
  BY <1>1, <1>4, <1>5, <1>6

LEMMA RaisedGood ==
  ASSUME NEW m, NEW n, Good(m), Raised(m, n, BitCells)
  PROVE  Good(n)
<1>1. IsMemory(m) /\ KindsTrue(m) /\ BlocksApart(m) /\ Tree(m)
  BY DEF Good
<1>2. /\ IsMemory(n)
      /\ \A b \in Blocks : Bit(n, b) = Bit(m, b) \/ Bit(n, b) = 1
  BY <1>1, RaisedFacts
<1>3. SameFiles(m, n)
  <2>1. /\ \A i \in Inodes : n[InodeCell(i)] = m[InodeCell(i)]
        /\ \A b \in Blocks : n[BlockCell(b)] = m[BlockCell(b)]
    BY <1>1, RaisedFacts
  <2>2. \A i \in Alloc(m) : i \in Inodes /\ BlockOf(m, i) \in Blocks
    BY <1>1, MemoryFacts
  <2>3. QED
    BY <2>1, <2>2 DEF SameFiles, Content, BlockOf
<1>4. KindsTrue(n)
  <2>1. \A i \in Alloc(m) : i \in Inodes /\ Content(n, i) = Content(m, i)
    BY <1>3 DEF SameFiles, Alloc
  <2>2. QED
    BY <1>1, <1>2, <1>3, <2>1, SameFilesFacts DEF KindsTrue
<1>5. BlocksApart(n)
  <2>1. \A i, b : Owns(n, i, b) => b \in Blocks /\ Owns(m, i, b)
    BY <1>1, <1>2, <1>3, SameFilesFacts, OwnsFacts
  <2>2. \A i \in Alloc(n) : i \in Alloc(m) /\ i \in Inodes
    BY <1>1, <1>2, <1>3, SameFilesFacts DEF Alloc
  <2>3. \A i \in Alloc(n) : BlockOf(n, i) \notin DataBlocks(n, i)
    BY <1>1, <1>2, <1>3, <2>2, SameFilesFacts DEF BlocksApart
  <2>4. QED
    BY <1>1, <1>2, <2>1, <2>3 DEF BlocksApart
<1>6. Tree(n)
  <2>1. 0 \in Inodes
    BY <1>1 DEF Tree, Alloc
  <2>2. Below(n, 0) = Below(m, 0)
    BY <1>1, <1>2, <1>3, <2>1, SameFilesFacts, SameBelow
  <2>3. FileType(n, 0) = FileType(m, 0) /\ Alloc(n) = Alloc(m)
    BY <1>1, <1>2, <1>3, <2>1, SameFilesFacts
  <2>4. \A d, e, k : Link(n, d, e, k) <=> Link(m, d, e, k)
    BY <1>1, <1>2, <1>3, SameFilesFacts
  <2>5. QED
    BY <1>1, <2>2, <2>3, <2>4 DEF Tree
<1>7. QED
  BY <1>2, <1>4, <1>5, <1>6 DEF Good

-----------------------------------------------------------------------------
(* An entry of a directory is set.                                         *)
LEMMA SetEntryFacts ==
  ASSUME NEW m, IsMemory(m), NEW d \in Inodes, IsDirectory(m, d),
         NEW e \in Entries, NEW v \in EntryValues
  PROVE  /\ SetEntry(m, d, e, v) \in BlockValues
         /\ SetEntry(m, d, e, v).kind = "directory"
         /\ \A x \in Entries : SetEntry(m, d, e, v).entry[x] =
                                 IF x = e THEN v ELSE Content(m, d).entry[x]
<1> DEFINE f == Content(m, d).entry
           g == [f EXCEPT ![e] = v]
<1>1. f \in [Entries -> EntryValues] /\ Content(m, d) = [kind |-> "directory", entry |-> f]
  BY DirectoryFacts
<1> HIDE DEF f
<1>2. SetEntry(m, d, e, v) = [kind |-> "directory", entry |-> g]
  BY <1>1 DEF SetEntry
<1>3. g \in [Entries -> EntryValues]
      /\ \A x \in Entries : g[x] = IF x = e THEN v ELSE f[x]
  BY <1>1
<1> HIDE DEF g
<1>4. [kind |-> "directory", entry |-> g] \in BlockValues
  BY <1>3 DEF BlockValues
<1>5. QED
  BY <1>2, <1>3, <1>4 DEF f

LEMMA EmptyDirectoryFacts ==
  /\ EmptyDirectory \in BlockValues
  /\ EmptyDirectory.kind = "directory"
  /\ \A e \in Entries : EmptyDirectory.entry[e].inodeID = -1
<1>1. NoEntry \in EntryValues /\ NoEntry.inodeID = -1
  BY DEF NoEntry, EntryValues
<1> DEFINE f == [e \in Entries |-> NoEntry]
<1>2. f \in [Entries -> EntryValues] /\ \A e \in Entries : f[e].inodeID = -1
  BY <1>1
<1> HIDE DEF f
<1>3. [kind |-> "directory", entry |-> f] \in BlockValues
  BY <1>2 DEF BlockValues
<1>4. EmptyDirectory = [kind |-> "directory", entry |-> f]
  BY DEF EmptyDirectory, f
<1>5. QED
  BY <1>2, <1>3, <1>4

LEMMA BlankFacts == Blank \in BlockValues /\ Blank.kind = "data"
  BY DEF Blank, Data, BlockValues

(* What createDirectory and createFile do to the memory.                   *)
Entered(m, n, d, name, type, e, b, i) ==
  /\ n = [c \in Cells |-> n[c]]
  /\ n[InodeCell(i)] = [blockID |-> b, fileType |-> type]
  /\ \A j \in Inodes : j # i => n[InodeCell(j)] = m[InodeCell(j)]
  /\ n[BlockCell(b)] = NewContent(type)
  /\ n[BlockCell(BlockOf(m, d))] = SetEntry(m, d, e, [fileName |-> name, inodeID |-> i])
  /\ \A a \in Blocks : a # b /\ a # BlockOf(m, d) => n[BlockCell(a)] = m[BlockCell(a)]
  /\ n[BitCell(b)] = 1
  /\ \A a \in Blocks : a # b => n[BitCell(a)] = m[BitCell(a)]

LEMMA EnterFacts ==
  ASSUME Good(mem), NEW d \in Inodes, IsDirectory(mem, d), NEW name, NEW type, NEW e,
         FreeBlocks(mem) # {}, FreeInodes(mem) # {}, Enter(d, name, type, e)
  PROVE  \E b \in Blocks, i \in Inodes :
           /\ b = Min(FreeBlocks(mem)) /\ i = Min(FreeInodes(mem))
           /\ i \notin Alloc(mem) /\ Bit(mem, b) = 0
           /\ b # BlockOf(mem, d) /\ BlockOf(mem, d) \in Blocks
           /\ Entered(mem, mem', d, name, type, e, b, i)
           /\ stack' = stack \o <<SaveInode(mem, d), Saved(mem, b, i)>>
<1> DEFINE b == Min(FreeBlocks(mem))
           i == Min(FreeInodes(mem))
           k == BlockOf(mem, d)
           v == SetEntry(mem, d, e, [fileName |-> name, inodeID |-> i])
<1>1. b \in Blocks /\ i \in Inodes /\ i \notin Alloc(mem) /\ Bit(mem, b) = 0
  <2>1. FreeBlocks(mem) \in SUBSET Nat /\ FreeInodes(mem) \in SUBSET Nat
    BY SizesAssumption DEF FreeBlocks, FreeInodes, Blocks, Inodes
  <2>2. b \in FreeBlocks(mem) /\ i \in FreeInodes(mem)
    BY <2>1, MinFacts
  <2>3. QED
    BY <2>2 DEF FreeBlocks, FreeInodes, Alloc, Bit
<1>2. k \in Blocks /\ Bit(mem, k) = 1
  <2>1. d \in Alloc(mem)
    BY DirectoryFacts DEF Good
  <2>2. Owns(mem, d, k)
    BY <2>1 DEF Owns
  <2>3. QED
    BY <2>2, OwnsFacts DEF Good, BlocksApart
<1>3. b # k
  BY <1>1, <1>2
<1>4. /\ mem' = [c \in Cells |->
           CASE c = InodeCell(i) -> [blockID |-> b, fileType |-> type]
             [] c = BlockCell(b) -> NewContent(type)
             [] c = BitCell(b) -> 1
             [] c = BlockCell(k) -> v
             [] OTHER -> mem[c]]
      /\ stack' = stack \o <<SaveInode(mem, d), Saved(mem, b, i)>>
  BY DEF Enter, Take
<1> HIDE DEF b, i, k, v
<1>5. "inode" # "block" /\ "inode" # "bit" /\ "block" # "bit"
  OBVIOUS
<1>6. mem'[InodeCell(i)] = [blockID |-> b, fileType |-> type]
  BY <1>1, <1>2, <1>4, <1>5, CellFacts
<1>7. \A j \in Inodes : j # i => mem'[InodeCell(j)] = mem[InodeCell(j)]
  BY <1>1, <1>2, <1>4, <1>5, CellFacts
<1>8. mem'[BlockCell(b)] = NewContent(type)
  BY <1>1, <1>2, <1>3, <1>4, <1>5, CellFacts
<1>9. mem'[BlockCell(k)] = v
  BY <1>1, <1>2, <1>3, <1>4, <1>5, CellFacts
<1>10. \A a \in Blocks : a # b /\ a # k => mem'[BlockCell(a)] = mem[BlockCell(a)]
  BY <1>1, <1>2, <1>4, <1>5, CellFacts
<1>11. mem'[BitCell(b)] = 1
  BY <1>1, <1>2, <1>4, <1>5, CellFacts
<1>12. \A a \in Blocks : a # b => mem'[BitCell(a)] = mem[BitCell(a)]
  BY <1>1, <1>2, <1>4, <1>5, CellFacts
<1>13. mem' = [c \in Cells |-> mem'[c]]
  BY <1>4
<1>14. Entered(mem, mem', d, name, type, e, b, i)
  BY <1>6, <1>7, <1>8, <1>9, <1>10, <1>11, <1>12, <1>13 DEF Entered, k, v
<1>15. QED
  BY <1>1, <1>2, <1>3, <1>4, <1>14 DEF b, i, k

LEMMA NewContentFacts ==
  ASSUME NEW type \in {0, 1}
  PROVE  /\ NewContent(type) \in BlockValues
         /\ type = 0 => NewContent(type) = EmptyDirectory
         /\ type = 1 => NewContent(type).kind = "data"
  BY EmptyDirectoryFacts, BlankFacts DEF NewContent

LEMMA EnteredMemory ==
  ASSUME NEW m, NEW n, IsMemory(m), NEW d \in Inodes, IsDirectory(m, d),
         NEW name \in Names, NEW type \in {0, 1}, NEW e \in Entries,
         NEW b \in Blocks, NEW i \in Inodes, Entered(m, n, d, name, type, e, b, i)
  PROVE  IsMemory(n)
<1>1. [blockID |-> b, fileType |-> type] \in InodeValues
  BY DEF InodeValues
<1>2. [fileName |-> name, inodeID |-> i] \in EntryValues
  BY DEF EntryValues
<1>3. SetEntry(m, d, e, [fileName |-> name, inodeID |-> i]) \in BlockValues
  BY <1>2, SetEntryFacts
<1>4. \A j \in Inodes : n[InodeCell(j)] \in InodeValues
  BY <1>1 DEF Entered, IsMemory
<1>5. \A a \in Blocks : n[BlockCell(a)] \in BlockValues
  BY <1>3, NewContentFacts DEF Entered, IsMemory
<1>6. \A a \in Blocks : n[BitCell(a)] \in {0, 1}
  BY DEF Entered, IsMemory
<1>7. QED
  BY <1>4, <1>5, <1>6 DEF Entered, IsMemory

LEMMA EnteredGood ==
  ASSUME NEW m, NEW n, Good(m), NEW d \in Inodes, IsDirectory(m, d),
         NEW name \in Names, NEW type \in {0, 1},
         NEW e \in Entries, e \notin Used(m, d),
         NEW b \in Blocks, NEW i \in Inodes, i \notin Alloc(m), Bit(m, b) = 0,
         b # BlockOf(m, d), Entered(m, n, d, name, type, e, b, i)
  PROVE  Good(n)
<1>1. IsMemory(m) /\ KindsTrue(m) /\ BlocksApart(m) /\ Tree(m)
  BY DEF Good
<1>2. IsMemory(n)
  BY <1>1, EnteredMemory
<1>3. d \in Alloc(m) /\ d # i /\ Content(m, d).kind = "directory" /\ FileType(m, d) = 0
  BY <1>1, DirectoryFacts DEF IsDirectory
<1> DEFINE v == [fileName |-> name, inodeID |-> i]
<1>4. /\ BlockOf(n, i) = b /\ FileType(n, i) = type
      /\ \A j \in Inodes : j # i => /\ BlockOf(n, j) = BlockOf(m, j)
                                    /\ FileType(n, j) = FileType(m, j)
  BY DEF Entered, BlockOf, FileType
<1>5. Alloc(n) = Alloc(m) \cup {i}
  <2>1. b # -1
    BY SizesAssumption DEF Blocks
  <2>2. QED
    BY <1>4, <2>1 DEF Alloc
<1>6. \A j \in Alloc(m) : /\ j \in Inodes /\ j # i /\ BlockOf(m, j) \in Blocks
                          /\ BlockOf(m, j) # b
                          /\ j # d => BlockOf(m, j) # BlockOf(m, d)
  <2>1. \A j \in Alloc(m) : j \in Inodes /\ j # i /\ Owns(m, j, BlockOf(m, j))
    BY DEF Alloc, Owns
  <2>2. \A j \in Alloc(m) : BlockOf(m, j) \in Blocks
    BY <1>1, MemoryFacts
  <2>3. QED
    BY <1>1, <1>3, <2>1, <2>2 DEF BlocksApart
<1>7. /\ Content(n, i) = NewContent(type)
      /\ Content(n, d) = SetEntry(m, d, e, v)
      /\ \A j \in Alloc(m) : j # d => Content(n, j) = Content(m, j)
  <2>1. Content(n, i) = NewContent(type)
    BY <1>4 DEF Entered, Content
  <2>2. Content(n, d) = SetEntry(m, d, e, v)
    BY <1>3, <1>4, <1>6 DEF Entered, Content
  <2>3. \A j \in Alloc(m) : j # d => Content(n, j) = Content(m, j)
    BY <1>4, <1>6 DEF Entered, Content
  <2>4. QED
    BY <2>1, <2>2, <2>3
<1>8. /\ Content(n, d).kind = "directory"
      /\ \A x \in Entries : Content(n, d).entry[x].inodeID =
                              IF x = e THEN i ELSE Content(m, d).entry[x].inodeID
  <2>1. v \in EntryValues /\ v.inodeID = i
    BY DEF EntryValues
  <2> HIDE DEF v
  <2>2. /\ SetEntry(m, d, e, v).kind = "directory"
        /\ \A x \in Entries : SetEntry(m, d, e, v).entry[x] =
                                IF x = e THEN v ELSE Content(m, d).entry[x]
    BY <1>1, <2>1, SetEntryFacts
  <2>3. QED
    BY <1>7, <2>1, <2>2
<1>9. KindsTrue(n)
  <2>1. ASSUME NEW j \in Alloc(m), j # d
        PROVE  /\ FileType(n, j) = 0 => Content(n, j).kind = "directory"
               /\ FileType(n, j) = 1 => Content(n, j).kind = "data"
               /\ FileType(n, j) = 2 => Content(n, j).kind = "index"
    BY <1>1, <1>4, <1>6, <1>7, <2>1 DEF KindsTrue
  <2>2. FileType(n, d) = 0 /\ Content(n, d).kind = "directory"
    BY <1>3, <1>4, <1>8
  <2>3. /\ type = 0 => Content(n, i).kind = "directory"
        /\ type = 1 => Content(n, i).kind = "data"
    BY <1>7, NewContentFacts, EmptyDirectoryFacts
  <2>4. QED
    BY <1>4, <1>5, <2>1, <2>2, <2>3 DEF KindsTrue
<1>10. /\ DataBlocks(n, i) = {}
       /\ \A j \in Alloc(m) : DataBlocks(n, j) = DataBlocks(m, j)
  <2>1. DataBlocks(n, i) = {}
    BY <1>4 DEF DataBlocks, IsIndexed
  <2>2. DataBlocks(n, d) = {} /\ DataBlocks(m, d) = {}
    BY <1>3, <1>4 DEF DataBlocks, IsIndexed
  <2>3. ASSUME NEW j \in Alloc(m), j # d PROVE DataBlocks(n, j) = DataBlocks(m, j)
    BY <1>4, <1>6, <1>7, <2>3 DEF DataBlocks, IsIndexed
  <2>4. QED
    BY <2>1, <2>2, <2>3
<1>11. \A j, a : Owns(n, j, a) <=> Owns(m, j, a) \/ (j = i /\ a = b)
  BY <1>4, <1>5, <1>6, <1>10 DEF Owns
<1>12. BlocksApart(n)
  <2>1. \A j : ~ Owns(m, j, b)
    BY <1>1 DEF BlocksApart
  <2>2. \A j : ~ Owns(m, i, j)
    BY DEF Owns
  <2>3. \A j, a : Owns(n, j, a) => Bit(n, a) = 1
    <3>1. ASSUME NEW j, NEW a, Owns(m, j, a) PROVE Bit(n, a) = 1
      <4>1. a \in Blocks /\ a # b /\ Bit(m, a) = 1
        BY <1>1, <2>1, <3>1, OwnsFacts DEF BlocksApart
      <4>2. QED
        BY <4>1 DEF Entered, Bit
    <3>2. Bit(n, b) = 1
      BY DEF Entered, Bit
    <3>3. QED
      BY <1>11, <3>1, <3>2
  <2>4. \A j \in Alloc(n) : BlockOf(n, j) \notin DataBlocks(n, j)
    BY <1>1, <1>4, <1>5, <1>6, <1>10 DEF BlocksApart
  <2>5. \A j, k, a : Owns(n, j, a) /\ Owns(n, k, a) => j = k
    BY <1>1, <1>11, <2>1, <2>2 DEF BlocksApart
  <2>6. QED
    BY <2>3, <2>4, <2>5 DEF BlocksApart
<1>13. Tree(n)
  <2>1. /\ IsDirectory(n, d)
        /\ \A j \in Alloc(m) : j # d => (IsDirectory(n, j) <=> IsDirectory(m, j))
        /\ \A j \in Inodes : IsDirectory(n, j) => j \in Alloc(n)
        /\ \A j \in Inodes : IsDirectory(m, j) => j \in Alloc(m)
    <3>1. IsDirectory(n, d)
      BY <1>3, <1>4, <1>8 DEF IsDirectory
    <3>2. \A j \in Alloc(m) : j # d => (IsDirectory(n, j) <=> IsDirectory(m, j))
      BY <1>4, <1>6, <1>7 DEF IsDirectory
    <3>3. QED
      BY <1>1, <1>2, <3>1, <3>2, DirectoryFacts
  <2>2. Content(m, d).entry[e].inodeID = -1
    BY DEF Used
  <2>3. i # -1
    BY SizesAssumption DEF Inodes
  <2>4. \A x, k : Link(n, d, x, k) <=> Link(m, d, x, k) \/ (x = e /\ k = i)
    <3>1. ASSUME NEW x \in Entries, NEW k
          PROVE  Link(n, d, x, k) <=> Link(m, d, x, k) \/ (x = e /\ k = i)
      BY <1>8, <2>1, <2>2, <2>3 DEF Link
    <3>2. QED
      BY <3>1 DEF Link
  <2>5. \A x, k : ~ Link(n, i, x, k)
    <3>1. CASE type = 0
      BY <1>7, <3>1, NewContentFacts, EmptyDirectoryFacts DEF Link
    <3>2. CASE type = 1
      BY <1>4, <3>2 DEF Link, IsDirectory
    <3>3. QED
      BY <3>1, <3>2
  <2>6. ASSUME NEW j, j # d, NEW x, NEW k
        PROVE  Link(n, j, x, k) <=> Link(m, j, x, k)
    <3>1. CASE j \in Alloc(m)
      BY <1>6, <1>7, <2>1, <2>6, <3>1 DEF Link
    <3>2. CASE j \notin Alloc(m)
      <4>1. ~ Link(m, j, x, k)
        BY <2>1, <3>2 DEF Link
      <4>2. ~ Link(n, j, x, k)
        BY <1>5, <2>1, <2>5, <3>2 DEF Link
      <4>3. QED
        BY <4>1, <4>2
    <3>3. QED
      BY <3>1, <3>2
  <2>7. \A j, x, k : Link(n, j, x, k) <=>
                       \/ Link(m, j, x, k)
                       \/ j = d /\ x = e /\ k = i
    BY <2>4, <2>6
  <2>8. \A k : ~ Link(m, d, e, k)
    BY <2>2 DEF Link
  <2>9. FileType(n, 0) = 0
    <3>1. 0 \in Alloc(m) /\ FileType(m, 0) = 0
      BY <1>1 DEF Tree
    <3>2. QED
      BY <1>4, <1>6, <3>1
  <2>10. QED
    BY <1>1, <1>2, <1>3, <1>5, <2>7, <2>8, <2>9, TreeGrows
<1>14. QED
  BY <1>2, <1>9, <1>12, <1>13 DEF Good

-----------------------------------------------------------------------------
(* Records save cells with what such cells can hold.                       *)
AnyValue == InodeValues \cup BlockValues \cup {0, 1}
Records == {r \in UNION {[S -> AnyValue] : S \in SUBSET Cells} :
              \A c \in DOMAIN r : r[c] \in CellValues(c)}

LEMMA RecordFacts ==
  ASSUME NEW r
  PROVE  r \in Records <=> /\ r = [c \in DOMAIN r |-> r[c]]
                           /\ DOMAIN r \subseteq Cells
                           /\ \A c \in DOMAIN r : Inhabits(r, c)
<1>1. ASSUME r \in Records
      PROVE  /\ r = [c \in DOMAIN r |-> r[c]]
             /\ DOMAIN r \subseteq Cells
             /\ \A c \in DOMAIN r : Inhabits(r, c)
  <2>1. PICK S \in SUBSET Cells : r \in [S -> AnyValue]
    BY <1>1 DEF Records
  <2>2. QED
    BY <1>1, <2>1 DEF Records, Inhabits
<1>2. ASSUME r = [c \in DOMAIN r |-> r[c]], DOMAIN r \subseteq Cells,
             \A c \in DOMAIN r : Inhabits(r, c)
      PROVE  r \in Records
  <2>1. \A c \in Cells : CellValues(c) \subseteq AnyValue
    BY CellCases, ValuesOfCells DEF AnyValue
  <2>2. \A c \in DOMAIN r : r[c] \in CellValues(c) /\ r[c] \in AnyValue
    BY <1>2, <2>1 DEF Inhabits
  <2>3. r \in [DOMAIN r -> AnyValue]
    BY <1>2, <2>2
  <2>4. QED
    BY <1>2, <2>2, <2>3 DEF Records
<1>3. QED
  BY <1>1, <1>2

LEMMA TagFacts == Tag \in Records /\ DOMAIN Tag = {}
<1>1. DOMAIN Tag = {} /\ Tag = [c \in {} |-> Tag[c]]
  BY DEF Tag
<1>2. QED
  BY <1>1, RecordFacts

LEMMA SavedFacts ==
  ASSUME NEW m, IsMemory(m), NEW b \in Blocks, NEW i \in Inodes
  PROVE  /\ Saved(m, b, i) \in Records
         /\ DOMAIN Saved(m, b, i) = {InodeCell(i), BlockCell(b), BitCell(b)}
         /\ \A c \in DOMAIN Saved(m, b, i) : Value(Saved(m, b, i), c) = Value(m, c)
         /\ Saved(m, b, i) # Tag
<1> DEFINE r == Saved(m, b, i)
<1>1. DOMAIN r = {InodeCell(i), BlockCell(b), BitCell(b)} /\ r = [c \in DOMAIN r |-> r[c]]
  BY DEF Saved
<1>2. \A c \in DOMAIN r : r[c] = m[c]
  BY DEF Saved
<1> HIDE DEF r
<1>3. DOMAIN r \subseteq Cells
  BY <1>1, CellFacts
<1>4. \A c \in Cells : Inhabits(m, c)
  BY MemoryCells DEF IsMemory
<1>5. \A c \in DOMAIN r : Inhabits(r, c)
  BY <1>2, <1>3, <1>4 DEF Inhabits
<1>6. r \in Records
  BY <1>1, <1>3, <1>5, RecordFacts
<1>7. r # Tag
  BY <1>1, TagFacts
<1>8. QED
  BY <1>1, <1>2, <1>6, <1>7 DEF r, Value

LEMMA UndoMemory ==
  ASSUME NEW m, IsMemory(m), NEW s \in Seq(Records), NEW p \in Nat
  PROVE  IsMemory(UndoTo(m, s, p))
<1> DEFINE u == UndoTo(m, s, p)
<1>1. u = [c \in Cells |-> u[c]]
  BY DEF UndoTo
<1>2. ASSUME NEW c \in Cells PROVE Inhabits(u, c)
  <2>0. Len(s) \in Nat
    BY LenProperties
  <2>1. CASE Unsaved(c, s, p)
    <3>1. Value(u, c) = Value(m, c)
      BY <2>1, UndoUnsaved
    <3>2. Inhabits(m, c)
      BY MemoryCells DEF IsMemory
    <3> HIDE DEF u
    <3>3. QED
      BY <3>1, <3>2 DEF Inhabits, Value
  <2>2. CASE ~ Unsaved(c, s, p)
    <3>1. PICK k \in Nat : First(c, s, p, k)
      BY <2>0, <2>2, UnsavedOrFirst
    <3>2. Value(u, c) = SavedIn(s, k, c)
      BY <2>0, <3>1, UndoFirst
    <3>3. k \in 1 .. Len(s) /\ c \in DOMAIN s[k]
      BY <3>1 DEF First
    <3>4. s[k] \in Records
      BY <3>3
    <3>5. Inhabits(s[k], c)
      BY <3>3, <3>4, RecordFacts
    <3> HIDE DEF u
    <3>6. QED
      BY <3>2, <3>5 DEF Inhabits, Value, SavedIn
  <2>3. QED
    BY <2>1, <2>2
<1> HIDE DEF u
<1>3. QED
  BY <1>1, <1>2, MemoryCells DEF u

(* The tags of a stack.                                                    *)
LEMMA TagsFacts ==
  ASSUME NEW s, Len(s) \in Nat
  PROVE  /\ Tags(s) \subseteq 0 .. Len(s)
         /\ 0 \in Tags(s)
         /\ LastTag(s) \in Tags(s)
         /\ \A p \in Tags(s) : p <= LastTag(s)
<1>1. Tags(s) \subseteq 0 .. Len(s) /\ 0 \in Tags(s)
  BY DEF Tags
<1> DEFINE K == {Len(s) - p : p \in Tags(s)}
<1>2. K \in SUBSET Nat /\ K # {}
  BY <1>1
<1>3. PICK k \in K : \A j \in K : k <= j
  <2> HIDE DEF K
  <2>1. QED
    BY <1>2, MinFacts
<1>4. PICK q \in Tags(s) : k = Len(s) - q
  BY <1>3
<1>5. ASSUME NEW p \in Tags(s) PROVE p <= q
  <2>1. Len(s) - q <= Len(s) - p
    BY <1>3, <1>4
  <2>2. p \in 0 .. Len(s) /\ q \in 0 .. Len(s)
    BY <1>1
  <2>3. QED
    BY <2>1, <2>2
<1>6. LastTag(s) \in Tags(s) /\ \A p \in Tags(s) : p <= LastTag(s)
  BY <1>4, <1>5 DEF LastTag
<1>7. QED
  BY <1>1, <1>6

LEMMA TagsOfMore ==
  ASSUME NEW S, NEW s \in Seq(S), NEW new \in Seq(S),
         \A k \in 1 .. Len(new) : new[k] # Tag
  PROVE  Tags(s \o new) = Tags(s)
<1> DEFINE t == s \o new
<1>1. /\ Len(s) \in Nat /\ Len(new) \in Nat /\ Len(t) = Len(s) + Len(new)
      /\ \A k \in 1 .. Len(s) : t[k] = s[k]
      /\ \A k \in 1 .. Len(new) : t[Len(s) + k] = new[k]
  BY ConcatProperties, LenProperties
<1> HIDE DEF t
<1>2. ASSUME NEW k \in Len(s) + 1 .. Len(t) PROVE t[k] # Tag
  <2>1. k - Len(s) \in 1 .. Len(new) /\ k = Len(s) + (k - Len(s))
    BY <1>1
  <2>2. QED
    BY <1>1, <2>1
<1>3. \A k \in 1 .. Len(t) : k \in 1 .. Len(s) \/ k \in Len(s) + 1 .. Len(t)
  BY <1>1
<1>4. \A k \in 1 .. Len(s) : k \in 1 .. Len(t)
  BY <1>1
<1>5. \A k : k \in 1 .. Len(t) /\ t[k] = Tag <=> k \in 1 .. Len(s) /\ s[k] = Tag
  BY <1>1, <1>2, <1>3, <1>4
<1>6. QED
  BY <1>5 DEF Tags, t

-----------------------------------------------------------------------------
(***************************************************************************)
(* The inductive invariant.  The memory is good, and so is what undoing to *)
(* any tag would give, unless a mistaken record is in the way.             *)
(***************************************************************************)
Typed ==
  /\ IsMemory(mem)
  /\ stack \in Seq(Records)
  /\ Len(stack) <= MaxRecords

Reliable ==
  /\ Good(mem)
  /\ \A p \in Tags(stack) : MistakenAbove(p) \/ Good(UndoTo(mem, stack, p))

IInv ==
  /\ undefined \in BOOLEAN /\ misled \in BOOLEAN
  /\ ~ misled => Typed
  /\ Sound => Reliable

(* An operation that appends records keeps what undoing to any tag gives,  *)
(* but for bits it may raise.                                              *)
LEMMA OperationUndone ==
  ASSUME Typed, NEW new \in Seq(Records), stack' = stack \o new,
         \A k \in 1 .. Len(new) : new[k] # Tag,
         NEW B, Covers(mem, mem', new, B)
  PROVE  /\ Tags(stack') = Tags(stack)
         /\ \A p \in Tags(stack) :
              Raised(UndoTo(mem, stack, p), UndoTo(mem', stack', p), B)
<1>1. stack \in Seq(Records) /\ Len(stack) \in Nat
  BY LenProperties DEF Typed
<1>2. Tags(stack') = Tags(stack)
  BY <1>1, TagsOfMore
<1>3. ASSUME NEW p \in Tags(stack)
      PROVE  Raised(UndoTo(mem, stack, p), UndoTo(mem', stack', p), B)
  <2>1. p \in Nat /\ p <= Len(stack)
    BY <1>1, TagsFacts
  <2>2. QED
    BY <1>1, <2>1, UndoMore
<1>4. QED
  BY <1>2, <1>3

LEMMA MistakenMore ==
  ASSUME NEW S, stack \in Seq(S), NEW new \in Seq(S), stack' = stack \o new,
         NEW p \in Tags(stack)
  PROVE  /\ MistakenAbove(p) => MistakenAbove(p)'
         /\ (\E k \in 1 .. Len(new) : Mistaken(new[k])) => MistakenAbove(p)'
<1>1. /\ Len(stack) \in Nat /\ Len(new) \in Nat
      /\ Len(stack') = Len(stack) + Len(new)
      /\ \A k \in 1 .. Len(stack) : stack'[k] = stack[k]
      /\ \A k \in 1 .. Len(new) : stack'[Len(stack) + k] = new[k]
  BY ConcatProperties, LenProperties
<1>2. p \in 0 .. Len(stack)
  BY <1>1, TagsFacts
<1>3. ASSUME NEW k \in p + 1 .. Len(stack), Mistaken(stack[k])
      PROVE  MistakenAbove(p)'
  <2>1. k \in p + 1 .. Len(stack') /\ stack'[k] = stack[k]
    BY <1>1, <1>2
  <2>2. Mistaken(stack'[k])
    BY <1>3, <2>1
  <2>3. QED
    BY <2>1, <2>2 DEF MistakenAbove
<1>4. ASSUME NEW k \in 1 .. Len(new), Mistaken(new[k])
      PROVE  MistakenAbove(p)'
  <2>1. Len(stack) + k \in p + 1 .. Len(stack') /\ stack'[Len(stack) + k] = new[k]
    BY <1>1, <1>2
  <2>2. Mistaken(stack'[Len(stack) + k])
    BY <1>4, <2>1
  <2>3. QED
    BY <2>1, <2>2 DEF MistakenAbove
<1>5. QED
  BY <1>3, <1>4 DEF MistakenAbove

LEMMA OperationReliable ==
  ASSUME Typed, Reliable, NEW new \in Seq(Records), stack' = stack \o new,
         \A k \in 1 .. Len(new) : new[k] # Tag, Good(mem'),
         \/ \E k \in 1 .. Len(new) : Mistaken(new[k])
         \/ Covers(mem, mem', new, BitCells)
  PROVE  Reliable'
<1>1. stack \in Seq(Records)
  BY DEF Typed
<1>2. Tags(stack') = Tags(stack)
  BY <1>1, TagsOfMore
<1>3. ASSUME NEW p \in Tags(stack')
      PROVE  MistakenAbove(p)' \/ Good(UndoTo(mem', stack', p))
  <2>1. p \in Tags(stack)
    BY <1>2, <1>3
  <2>2. CASE \E k \in 1 .. Len(new) : Mistaken(new[k])
    BY <1>1, <2>1, <2>2, MistakenMore
  <2>3. CASE MistakenAbove(p)
    BY <1>1, <2>1, <2>3, MistakenMore
  <2>4. CASE ~ MistakenAbove(p) /\ Covers(mem, mem', new, BitCells)
    <3>1. Good(UndoTo(mem, stack, p))
      BY <2>1, <2>4 DEF Reliable
    <3>2. Raised(UndoTo(mem, stack, p), UndoTo(mem', stack', p), BitCells)
      BY <2>1, <2>4, OperationUndone
    <3>3. QED
      BY <3>1, <3>2, RaisedGood
  <2>5. QED
    BY <2>2, <2>3, <2>4
<1>4. QED
  BY <1>3 DEF Reliable

LEMMA OperationTyped ==
  ASSUME Typed, NEW new \in Seq(Records), stack' = stack \o new,
         IsMemory(mem'), Len(stack') <= MaxRecords
  PROVE  Typed'
<1>1. stack' \in Seq(Records)
  BY ConcatProperties DEF Typed
<1>2. QED
  BY <1>1 DEF Typed

LEMMA WithinBound ==
  ASSUME Typed, NEW new \in Seq(Records), stack' = stack \o new, Room
  PROVE  Len(stack') <= MaxRecords
<1>1. Len(stack') \in Nat
  BY ConcatProperties, LenProperties DEF Typed
<1>2. QED
  BY <1>1, SizesAssumption DEF Room

(* Records that hold what is in memory m.                                  *)
Plain(m, s) ==
  \A k \in 1 .. Len(s) : /\ s[k] # Tag
                         /\ \A c \in DOMAIN s[k] : SavedIn(s, k, c) = Value(m, c)

(* What most operations do: every cell they change is in a record, and     *)
(* every record holds what the memory held.                                *)
SavesChanges(new) ==
  /\ new \in Seq(Records) /\ stack' = stack \o new
  /\ Plain(mem, new)
  /\ \A c \in Cells : \/ Value(mem', c) = Value(mem, c)
                      \/ \E k \in 1 .. Len(new) : c \in DOMAIN new[k]

LEMMA SavesChangesFacts ==
  ASSUME NEW new, SavesChanges(new), NEW B
  PROVE  /\ new \in Seq(Records) /\ stack' = stack \o new
         /\ \A k \in 1 .. Len(new) : new[k] # Tag
         /\ Covers(mem, mem', new, B)
  BY DEF SavesChanges, Plain, Covers

LEMMA SavesChangesStep ==
  ASSUME Typed, Reliable, Sound, NEW new, SavesChanges(new), Room, Good(mem'),
         undefined' \in BOOLEAN, misled' \in BOOLEAN
  PROVE  IInv'
<1>1. /\ new \in Seq(Records) /\ stack' = stack \o new
      /\ \A k \in 1 .. Len(new) : new[k] # Tag
      /\ Covers(mem, mem', new, BitCells)
  BY SavesChangesFacts
<1>2. Typed'
  BY <1>1, OperationTyped, WithinBound DEF Good
<1>3. Reliable'
  BY <1>1, OperationReliable
<1>4. QED
  BY <1>2, <1>3 DEF IInv

-----------------------------------------------------------------------------
(* createDirectory and createFile.                                         *)
LEMMA DirectoriesFacts ==
  ASSUME IsMemory(mem), NEW d \in Directories
  PROVE  d \in Inodes /\ IsDirectory(mem, d) /\ d \in Alloc(mem)
         /\ BlockOf(mem, d) \in Blocks
<1>1. 0 \in Inodes
  BY SizesAssumption DEF Inodes
<1>2. d \in Inodes /\ IsDirectory(mem, d)
  BY <1>1, BelowFacts DEF Directories
<1>3. QED
  BY <1>2, DirectoryFacts, MemoryFacts

TwoSaved(m, a, d, b, i) == <<Saved(m, a, d), Saved(m, b, i)>>

LEMMA TwoRecords ==
  ASSUME NEW m, IsMemory(m), NEW a \in Blocks, NEW d \in Inodes,
         NEW b \in Blocks, NEW i \in Inodes
  PROVE  LET new == TwoSaved(m, a, d, b, i)
         IN  /\ new \in Seq(Records) /\ Len(new) = 2
             /\ \A k \in 1 .. Len(new) : new[k] # Tag
             /\ \A k \in 1 .. Len(new) : \A c \in DOMAIN new[k] :
                  SavedIn(new, k, c) = Value(m, c)
             /\ DOMAIN new[1] = {InodeCell(d), BlockCell(a), BitCell(a)}
             /\ DOMAIN new[2] = {InodeCell(i), BlockCell(b), BitCell(b)}
<1> DEFINE r == Saved(m, a, d)
           t == Saved(m, b, i)
<1>1. /\ r \in Records /\ r # Tag
      /\ DOMAIN r = {InodeCell(d), BlockCell(a), BitCell(a)}
      /\ \A c \in DOMAIN r : Value(r, c) = Value(m, c)
  BY SavedFacts
<1>2. /\ t \in Records /\ t # Tag
      /\ DOMAIN t = {InodeCell(i), BlockCell(b), BitCell(b)}
      /\ \A c \in DOMAIN t : Value(t, c) = Value(m, c)
  BY SavedFacts
<1> HIDE DEF r, t
<1>3. <<r, t>> \in Seq(Records) /\ Len(<<r, t>>) = 2
      /\ <<r, t>>[1] = r /\ <<r, t>>[2] = t
  BY <1>1, <1>2
<1>4. \A k \in 1 .. 2 : k = 1 \/ k = 2
  OBVIOUS
<1>5. \A k \in 1 .. 2 : <<r, t>>[k] # Tag
  BY <1>1, <1>2, <1>3, <1>4
<1>6. ASSUME NEW k \in 1 .. 2, NEW c \in DOMAIN <<r, t>>[k]
      PROVE  SavedIn(<<r, t>>, k, c) = Value(m, c)
  <2>1. CASE k = 1
    BY <1>1, <1>3, <1>6, <2>1 DEF SavedIn, Value
  <2>2. CASE k = 2
    BY <1>2, <1>3, <1>6, <2>2 DEF SavedIn, Value
  <2>3. QED
    BY <1>4, <2>1, <2>2
<1> DEFINE new == <<r, t>>
<1>7. /\ new \in Seq(Records) /\ Len(new) = 2
      /\ \A k \in 1 .. Len(new) : new[k] # Tag
      /\ \A k \in 1 .. Len(new) : \A c \in DOMAIN new[k] :
           SavedIn(new, k, c) = Value(m, c)
      /\ DOMAIN new[1] = DOMAIN r /\ DOMAIN new[2] = DOMAIN t
  BY <1>1, <1>2, <1>3, <1>5, <1>6
<1> HIDE DEF new
<1>8. QED
  BY <1>1, <1>2, <1>7 DEF TwoSaved, new, r, t

LEMMA EnterSaved ==
  ASSUME Typed, Reliable, NEW d \in Inodes, IsDirectory(mem, d), NEW name, NEW type, NEW e,
         FreeBlocks(mem) # {}, FreeInodes(mem) # {}, Enter(d, name, type, e)
  PROVE  \E new : SavesChanges(new)
<1>1. PICK b \in Blocks, i \in Inodes :
        /\ BlockOf(mem, d) \in Blocks
        /\ Entered(mem, mem', d, name, type, e, b, i)
        /\ stack' = stack \o <<SaveInode(mem, d), Saved(mem, b, i)>>
  BY EnterFacts DEF Reliable
<1> DEFINE a == BlockOf(mem, d)
<1>a. IsMemory(mem) /\ a \in Blocks
  BY <1>1 DEF Typed
<1> HIDE DEF a
<1> DEFINE new == TwoSaved(mem, a, d, b, i)
<1>2. /\ new \in Seq(Records) /\ Len(new) = 2
      /\ \A k \in 1 .. Len(new) : new[k] # Tag
      /\ \A k \in 1 .. Len(new) : \A c \in DOMAIN new[k] :
           SavedIn(new, k, c) = Value(mem, c)
      /\ DOMAIN new[1] = {InodeCell(d), BlockCell(a), BitCell(a)}
      /\ DOMAIN new[2] = {InodeCell(i), BlockCell(b), BitCell(b)}
  BY <1>a, TwoRecords
<1>3. stack' = stack \o new
  BY <1>1 DEF SaveInode, TwoSaved, a
<1> HIDE DEF new
<1>4. ASSUME NEW c \in Cells
      PROVE  Value(mem', c) = Value(mem, c) \/ \E k \in 1 .. Len(new) : c \in DOMAIN new[k]
  <2>1. c \in DOMAIN new[1] \/ c \in DOMAIN new[2]
          => \E k \in 1 .. Len(new) : c \in DOMAIN new[k]
    BY <1>2
  <2>2. CASE \E j \in Inodes : c = InodeCell(j)
    BY <1>1, <1>2, <2>1, <2>2 DEF Entered, Value
  <2>3. CASE \E j \in Blocks : c = BlockCell(j)
    BY <1>1, <1>2, <2>1, <2>3 DEF Entered, Value, a
  <2>4. CASE \E j \in Blocks : c = BitCell(j)
    BY <1>1, <1>2, <2>1, <2>4 DEF Entered, Value
  <2>5. QED
    BY <2>2, <2>3, <2>4, CellCases
<1>5. SavesChanges(new)
  BY <1>2, <1>3, <1>4 DEF SavesChanges, Plain
<1>6. QED
  BY <1>5

LEMMA CreateStep ==
  ASSUME Typed, Reliable, Sound, undefined \in BOOLEAN, misled \in BOOLEAN,
         NEW d \in Directories, NEW name \in Names,
         NEW type \in {0, 1}, Create(d, name, type)
  PROVE  IInv'
<1>1. d \in Inodes /\ IsDirectory(mem, d)
  BY DirectoriesFacts DEF Typed
<1> DEFINE e == Min(Entries \ Used(mem, d))
<1>2. e \in Entries \ Used(mem, d)
  <2>1. Entries \ Used(mem, d) # {}
    BY DEF Create
  <2>2. Entries \ Used(mem, d) \in SUBSET Nat
    BY SizesAssumption DEF Entries
  <2>3. QED
    BY <2>1, <2>2, MinFacts
<1>3. /\ FreeBlocks(mem) # {} /\ FreeInodes(mem) # {}
      /\ Enter(d, name, type, e) /\ Room
      /\ undefined' = undefined /\ misled' = misled
  BY DEF Create
<1> HIDE DEF e
<1>4. PICK b \in Blocks, i \in Inodes :
        /\ i \notin Alloc(mem) /\ Bit(mem, b) = 0 /\ b # BlockOf(mem, d)
        /\ Entered(mem, mem', d, name, type, e, b, i)
  BY <1>1, <1>3, EnterFacts DEF Reliable
<1>5. Good(mem')
  BY <1>1, <1>2, <1>4, EnteredGood DEF Reliable
<1>6. QED
  BY <1>1, <1>3, <1>5, EnterSaved, SavesChangesStep

LEMMA CreateOverEntryStep ==
  ASSUME Typed, Reliable, Sound, undefined \in BOOLEAN, misled \in BOOLEAN,
         NEW d \in Directories, NEW name \in Names,
         CreateOverEntry(d, name)
  PROVE  IInv'
<1>1. d \in Inodes /\ IsDirectory(mem, d)
  BY DirectoriesFacts DEF Typed
<1>2. PICK e \in Entries : Enter(d, name, 0, e)
  BY DEF CreateOverEntry
<1>3. /\ FreeBlocks(mem) # {} /\ FreeInodes(mem) # {}
      /\ Room
      /\ undefined' = TRUE /\ misled' = misled
  BY DEF CreateOverEntry
<1>4. PICK new \in Seq(Records) : stack' = stack \o new
  BY <1>1, <1>2, <1>3, EnterSaved, SavesChangesFacts
<1>5. IsMemory(mem')
  <2>1. PICK b \in Blocks, i \in Inodes : Entered(mem, mem', d, name, 0, e, b, i)
    BY <1>1, <1>2, <1>3, EnterFacts DEF Reliable
  <2>2. QED
    BY <1>1, <2>1, EnteredMemory DEF Typed
<1>6. Typed'
  BY <1>3, <1>4, <1>5, OperationTyped, WithinBound
<1>7. QED
  BY <1>3, <1>6 DEF IInv, Sound

LEMMA OneRecord ==
  ASSUME Typed, NEW r \in Records, r # Tag
  PROVE  \E new \in Seq(Records) :
           /\ Append(stack, r) = stack \o new
           /\ Len(new) = 1 /\ new[1] = r
           /\ \A k \in 1 .. Len(new) : new[k] # Tag
<1> DEFINE new == <<r>>
<1>1. new \in Seq(Records) /\ Len(new) = 1 /\ new[1] = r
  OBVIOUS
<1>2. Append(stack, r) = stack \o new
  BY AppendIsConcat DEF Typed
<1>3. \A k \in 1 .. Len(new) : new[k] # Tag
  <2>1. \A k \in 1 .. 1 : k = 1
    OBVIOUS
  <2>2. QED
    BY <1>1, <2>1
<1> HIDE DEF new
<1>4. QED
  BY <1>1, <1>2, <1>3

LEMMA SaveInodeFacts ==
  ASSUME IsMemory(mem), NEW d \in Alloc(mem)
  PROVE  /\ SaveInode(mem, d) \in Records
         /\ SaveInode(mem, d) # Tag
         /\ DOMAIN SaveInode(mem, d) =
              {InodeCell(d), BlockCell(BlockOf(mem, d)), BitCell(BlockOf(mem, d))}
         /\ \A c \in DOMAIN SaveInode(mem, d) : Value(SaveInode(mem, d), c) = Value(mem, c)
<1>1. d \in Inodes /\ BlockOf(mem, d) \in Blocks
  BY MemoryFacts
<1>2. QED
  BY <1>1, SavedFacts DEF SaveInode

LEMMA CreateWithoutSpaceSaved ==
  ASSUME Typed, NEW d \in Directories, NEW name, CreateWithoutSpace(d, name)
  PROVE  \E new : SavesChanges(new)
<1> DEFINE r == SaveInode(mem, d)
<1>1. /\ r \in Records /\ r # Tag
      /\ \A c \in DOMAIN r : Value(r, c) = Value(mem, c)
  BY DirectoriesFacts, SaveInodeFacts DEF Typed
<1>2. stack' = Append(stack, r) /\ mem' = mem
  BY DEF CreateWithoutSpace
<1> HIDE DEF r
<1>3. PICK new \in Seq(Records) :
        /\ stack' = stack \o new
        /\ Len(new) = 1 /\ new[1] = r
        /\ \A k \in 1 .. Len(new) : new[k] # Tag
  BY <1>1, <1>2, OneRecord
<1>4. ASSUME NEW k \in 1 .. Len(new), NEW c \in DOMAIN new[k]
      PROVE  SavedIn(new, k, c) = Value(mem, c)
  <2>1. k = 1
    BY <1>3
  <2>2. QED
    BY <1>1, <1>3, <1>4, <2>1 DEF SavedIn, Value
<1>5. SavesChanges(new)
  BY <1>2, <1>3, <1>4 DEF SavesChanges, Plain
<1>6. QED
  BY <1>5

LEMMA CreateWithoutSpaceStep ==
  ASSUME Typed, Reliable, Sound, undefined \in BOOLEAN, misled \in BOOLEAN,
         NEW d \in Directories, NEW name \in Names,
         CreateWithoutSpace(d, name)
  PROVE  IInv'
<1>1. /\ Room /\ undefined' \in BOOLEAN /\ misled' = misled /\ mem' = mem
  BY DEF CreateWithoutSpace
<1>2. Good(mem')
  BY <1>1 DEF Reliable
<1>3. PICK new : SavesChanges(new)
  BY CreateWithoutSpaceSaved
<1>4. misled' \in BOOLEAN
  BY <1>1
<1>5. QED
  BY <1>1, <1>2, <1>3, <1>4, SavesChangesStep

(* Blocks taken first fit.                                                 *)
LEMMA FreeFacts ==
  ASSUME NEW m, NEW n, n \in 0 .. Cardinality(FreeBlocks(m))
  PROVE  /\ Cardinality(FreeBlocks(m)) \in Nat
         /\ n \in Nat
         /\ \A k \in 1 .. n : LeastOf(FreeBlocks(m), n)[k] \in FreeBlocks(m)
         /\ \A j, k \in 1 .. n : LeastOf(FreeBlocks(m), n)[j] = LeastOf(FreeBlocks(m), n)[k]
                                   => j = k
         /\ DOMAIN LeastOf(FreeBlocks(m), n) = 1 .. n
<1>1. FreeBlocks(m) \in SUBSET Nat /\ IsFiniteSet(FreeBlocks(m))
  <2>1. FreeBlocks(m) \in SUBSET Blocks
    BY DEF FreeBlocks
  <2>2. IsFiniteSet(Blocks) /\ Blocks \in SUBSET Nat
    <3>1. 0 \in Int /\ BLOCK_NUMBER - 1 \in Int
      BY SizesAssumption
    <3>2. QED
      BY <3>1, FS_Interval DEF Blocks
  <2>3. QED
    BY <2>1, <2>2, FS_Subset
<1>2. Cardinality(FreeBlocks(m)) \in Nat
  BY <1>1, FS_CardinalityType
<1>3. n \in Nat
  BY <1>2
<1>4. /\ LeastOf(FreeBlocks(m), n) \in [1 .. n -> FreeBlocks(m)]
      /\ \A j, k \in 1 .. n : LeastOf(FreeBlocks(m), n)[j] = LeastOf(FreeBlocks(m), n)[k]
                                => j = k
  BY <1>1, LeastOfFacts
<1>5. QED
  BY <1>2, <1>3, <1>4

(* The pointers of an index block.                                         *)
LEMMA IndexFacts ==
  ASSUME NEW n \in Nat, NEW new, \A k \in 1 .. n : new[k] \in Blocks
  PROVE  LET f == [k \in Pointers |-> IF k < n THEN new[k + 1] ELSE -1]
         IN  /\ Index(f) \in BlockValues
             /\ Index(f).kind = "index"
             /\ Index(f).blockPointers = f
             /\ \A b : b \in Range(f) \ {-1} => \E k \in 1 .. n : b = new[k]
<1> DEFINE f == [k \in Pointers |-> IF k < n THEN new[k + 1] ELSE -1]
<1>1. ASSUME NEW k \in Pointers PROVE f[k] = -1 \/ \E j \in 1 .. n : f[k] = new[j]
  <2>1. CASE k < n
    <3>1. k + 1 \in 1 .. n
      BY <2>1, SizesAssumption DEF Pointers
    <3>2. QED
      BY <2>1, <3>1
  <2>2. CASE ~ (k < n)
    BY <2>2
  <2>3. QED
    BY <2>1, <2>2
<1>2. f = [k \in Pointers |-> f[k]]
  OBVIOUS
<1> HIDE DEF f
<1>3. \A k \in Pointers : f[k] \in Blocks \cup {-1}
  BY <1>1
<1>4. f \in [Pointers -> Blocks \cup {-1}]
  BY <1>2, <1>3
<1>5. Index(f) \in BlockValues
  BY <1>4 DEF Index, BlockValues
<1>6. Index(f).kind = "index" /\ Index(f).blockPointers = f
  BY DEF Index
<1>7. ASSUME NEW b \in Range(f), b # -1 PROVE \E k \in 1 .. n : b = new[k]
  <2>1. PICK k \in Pointers : b = f[k]
    BY <1>4, <1>7 DEF Range
  <2>2. QED
    BY <1>1, <1>7, <2>1
<1>8. QED
  BY <1>5, <1>6, <1>7 DEF f

LEMMA CreateInFullDirectoryStep ==
  ASSUME Typed, Reliable, Sound, undefined \in BOOLEAN, misled \in BOOLEAN,
         NEW d \in Directories, NEW name \in Names,
         CreateInFullDirectory(d, name)
  PROVE  IInv'
<1> DEFINE n == AtMost(Cardinality(FreeBlocks(mem)), 2)
           new == LeastOf(FreeBlocks(mem), n)
           f == [k \in Pointers |-> IF k < n THEN new[k + 1] ELSE -1]
           index == Index(f)
           a == BlockOf(mem, d)
           r == SaveInode(mem, d)
<1>1. /\ stack' = Append(stack, r) /\ Room
      /\ undefined' = TRUE /\ misled' = misled
      /\ mem' = [c \in Cells |->
                   CASE c = InodeCell(d) -> [mem[c] EXCEPT !.fileType = 2]
                     [] c = BlockCell(a) -> index
                     [] n = 2 /\ c = BlockCell(new[1]) -> index
                     [] \E k \in 1 .. n : c = BitCell(new[k]) -> 1
                     [] OTHER -> mem[c]]
  BY DEF CreateInFullDirectory
<1>2. d \in Inodes /\ d \in Alloc(mem) /\ a \in Blocks /\ FileType(mem, d) = 0
  BY DirectoriesFacts DEF Typed, IsDirectory
<1>3. r \in Records /\ r # Tag
  BY <1>2, SaveInodeFacts DEF Typed
<1>4. n \in Nat /\ \A k \in 1 .. n : new[k] \in Blocks
  <2>1. Cardinality(FreeBlocks(mem)) \in Nat
    <3>1. FreeBlocks(mem) \in SUBSET Blocks
      BY DEF FreeBlocks
    <3>2. IsFiniteSet(Blocks)
      <4>1. 0 \in Int /\ BLOCK_NUMBER - 1 \in Int
        BY SizesAssumption
      <4>2. QED
        BY <4>1, FS_Interval DEF Blocks
    <3>3. QED
      BY <3>1, <3>2, FS_Subset, FS_CardinalityType
  <2>2. n \in 0 .. Cardinality(FreeBlocks(mem))
    BY <2>1 DEF AtMost
  <2> HIDE DEF n
  <2>3. n \in Nat /\ \A k \in 1 .. n : new[k] \in FreeBlocks(mem)
    BY <2>2, FreeFacts
  <2>4. QED
    BY <2>3 DEF FreeBlocks
<1> HIDE DEF new
<1>5. index \in BlockValues
  <2> HIDE DEF n
  <2>1. QED
    BY <1>4, IndexFacts
<1> HIDE DEF n, index, a, r
<1>6. "inode" # "block" /\ "inode" # "bit" /\ "block" # "bit"
  OBVIOUS
<1>7. IsMemory(mem')
  <2>1. mem' = [c \in Cells |-> mem'[c]]
    BY <1>1
  <2>2. \A i \in Inodes : mem'[InodeCell(i)] \in InodeValues
    <3>1. ASSUME NEW i \in Inodes PROVE mem'[InodeCell(i)] \in InodeValues
      <4>1. InodeCell(i) # BlockCell(a) /\ \A k \in 1 .. n : /\ InodeCell(i) # BlockCell(new[k])
                                                             /\ InodeCell(i) # BitCell(new[k])
        BY <1>2, <1>4, <1>6, CellFacts
      <4>2. n = 2 => InodeCell(i) # BlockCell(new[1])
        BY <4>1
      <4>3. mem'[InodeCell(i)] = IF i = d THEN [mem[InodeCell(d)] EXCEPT !.fileType = 2]
                                          ELSE mem[InodeCell(i)]
        BY <1>1, <1>2, <4>1, <4>2, CellFacts
      <4>4. mem[InodeCell(i)] \in InodeValues
        BY DEF Typed, IsMemory
      <4>5. CASE i = d
        <5>1. mem[InodeCell(d)] \in [blockID : Blocks, fileType : {0, 1, 2}]
          <6>1. mem[InodeCell(d)] # NoInode
            BY <1>2 DEF FileType, NoInode
          <6>2. QED
            BY <4>4, <4>5, <6>1 DEF InodeValues
        <5>2. [mem[InodeCell(d)] EXCEPT !.fileType = 2] \in [blockID : Blocks, fileType : {0, 1, 2}]
          BY <5>1
        <5>3. QED
          BY <4>3, <4>5, <5>2 DEF InodeValues
      <4>6. QED
        BY <4>3, <4>4, <4>5
    <3>2. QED
      BY <3>1
  <2>3. \A b \in Blocks : mem'[BlockCell(b)] \in BlockValues
    <3>1. ASSUME NEW b \in Blocks PROVE mem'[BlockCell(b)] \in BlockValues
      <4>1. BlockCell(b) # InodeCell(d) /\ \A k \in 1 .. n : BlockCell(b) # BitCell(new[k])
        BY <1>2, <1>4, <1>6, CellFacts
      <4>2. mem'[BlockCell(b)] = index \/ mem'[BlockCell(b)] = mem[BlockCell(b)]
        BY <1>1, <4>1, CellFacts
      <4>3. QED
        BY <1>5, <4>2 DEF Typed, IsMemory
    <3>2. QED
      BY <3>1
  <2>4. \A b \in Blocks : mem'[BitCell(b)] \in {0, 1}
    <3>1. ASSUME NEW b \in Blocks PROVE mem'[BitCell(b)] \in {0, 1}
      <4>1. BitCell(b) # InodeCell(d) /\ BitCell(b) # BlockCell(a)
            /\ \A k \in 1 .. n : BitCell(b) # BlockCell(new[k])
        BY <1>2, <1>4, <1>6, CellFacts
      <4>2. n = 2 => BitCell(b) # BlockCell(new[1])
        BY <4>1
      <4>3. mem'[BitCell(b)] = 1 \/ mem'[BitCell(b)] = mem[BitCell(b)]
        BY <1>1, <4>1, <4>2, CellFacts
      <4>4. QED
        BY <4>3 DEF Typed, IsMemory
    <3>2. QED
      BY <3>1
  <2>5. QED
    BY <2>1, <2>2, <2>3, <2>4 DEF IsMemory
<1>8. PICK more \in Seq(Records) : stack' = stack \o more
  BY <1>1, <1>3, OneRecord
<1>9. Typed'
  BY <1>1, <1>7, <1>8, OperationTyped, WithinBound
<1>10. QED
  BY <1>1, <1>9 DEF IInv, Sound

-----------------------------------------------------------------------------
(* Sequences joined.                                                       *)
LEMMA Joined ==
  ASSUME NEW S, NEW s \in Seq(S), NEW t \in Seq(S)
  PROVE  /\ s \o t \in Seq(S)
         /\ Len(s) \in Nat /\ Len(t) \in Nat /\ Len(s \o t) = Len(s) + Len(t)
         /\ \A k \in 1 .. Len(s) : k \in 1 .. Len(s \o t) /\ (s \o t)[k] = s[k]
         /\ \A k \in 1 .. Len(t) : /\ Len(s) + k \in 1 .. Len(s \o t)
                                   /\ (s \o t)[Len(s) + k] = t[k]
         /\ \A k \in 1 .. Len(s \o t) : \/ k \in 1 .. Len(s)
                                        \/ \E j \in 1 .. Len(t) : k = Len(s) + j
<1>1. /\ s \o t \in Seq(S)
      /\ Len(s) \in Nat /\ Len(t) \in Nat /\ Len(s \o t) = Len(s) + Len(t)
  BY ConcatProperties, LenProperties
<1>2. \A i \in 1 .. Len(s) + Len(t) : (s \o t)[i] =
                     IF i <= Len(s) THEN s[i] ELSE t[i - Len(s)]
  BY ConcatProperties
<1>3. \A k \in 1 .. Len(s) : k \in 1 .. Len(s \o t) /\ (s \o t)[k] = s[k]
  BY <1>1, <1>2
<1>4. \A k \in 1 .. Len(t) : /\ Len(s) + k \in 1 .. Len(s \o t)
                             /\ (s \o t)[Len(s) + k] = t[k]
  <2>1. ASSUME NEW k \in 1 .. Len(t)
        PROVE  /\ Len(s) + k \in 1 .. Len(s) + Len(t)
               /\ ~ (Len(s) + k <= Len(s)) /\ (Len(s) + k) - Len(s) = k
    BY <1>1
  <2>2. QED
    BY <1>1, <1>2, <2>1
<1>5. ASSUME NEW k \in 1 .. Len(s \o t), k \notin 1 .. Len(s)
      PROVE  \E j \in 1 .. Len(t) : k = Len(s) + j
  <2>1. k - Len(s) \in 1 .. Len(t) /\ k = Len(s) + (k - Len(s))
    BY <1>1, <1>5
  <2>2. QED
    BY <2>1
<1>6. QED
  BY <1>1, <1>3, <1>4, <1>5

LEMMA PlainJoined ==
  ASSUME NEW m, NEW s \in Seq(Records), NEW t \in Seq(Records), Plain(m, s), Plain(m, t)
  PROVE  Plain(m, s \o t)
<1> DEFINE u == s \o t
<1>1. /\ Len(s) \in Nat /\ Len(t) \in Nat
      /\ \A k \in 1 .. Len(s) : u[k] = s[k]
      /\ \A k \in 1 .. Len(t) : u[Len(s) + k] = t[k]
      /\ \A k \in 1 .. Len(u) : k \in 1 .. Len(s) \/ \E j \in 1 .. Len(t) : k = Len(s) + j
  BY Joined
<1> HIDE DEF u
<1>2. ASSUME NEW k \in 1 .. Len(u)
      PROVE  u[k] # Tag /\ \A c \in DOMAIN u[k] : SavedIn(u, k, c) = Value(m, c)
  <2>1. CASE k \in 1 .. Len(s)
    BY <1>1, <2>1 DEF Plain, SavedIn
  <2>2. CASE \E j \in 1 .. Len(t) : k = Len(s) + j
    <3>1. PICK j \in 1 .. Len(t) : k = Len(s) + j
      BY <2>2
    <3>2. u[k] = t[j]
      BY <1>1, <3>1
    <3>3. \A c : SavedIn(u, k, c) = SavedIn(t, j, c)
      BY <3>2 DEF SavedIn
    <3>4. QED
      BY <3>2, <3>3 DEF Plain
  <2>3. QED
    BY <1>1, <2>1, <2>2
<1>3. QED
  BY <1>2 DEF Plain, u

(* What deleteDirectory does to the memory, where G is what is freed.      *)
Deleted(m, n, d, e, G) ==
  /\ n = [c \in Cells |-> n[c]]
  /\ \A i \in Inodes : n[InodeCell(i)] = IF i \in G THEN NoInode ELSE m[InodeCell(i)]
  /\ \A b \in Blocks : n[BitCell(b)] = IF \E i \in G : b = BlockOf(m, i) THEN 0
                                                                        ELSE m[BitCell(b)]
  /\ n[BlockCell(BlockOf(m, d))] = SetEntry(m, d, e, NoEntry)
  /\ \A b \in Blocks : b # BlockOf(m, d) =>
       \/ n[BlockCell(b)] = m[BlockCell(b)]
       \/ n[BlockCell(b)] = EmptyDirectory /\ \E i \in G : b = BlockOf(m, i)

LEMMA DeleteFacts ==
  ASSUME Good(mem), NEW d \in Inodes, IsDirectory(mem, d), NEW name,
         DeleteDirectory(d, name)
  PROVE  \E e \in Entries, t \in Inodes :
           /\ Link(mem, d, e, t)
           /\ Deleted(mem, mem', d, e, Below(mem, t))
           /\ stack' = Append(stack, SaveInode(mem, d))
                       \o [k \in 1 .. Len(SetToSeq(Below(mem, t))) |->
                             SaveInode(mem, SetToSeq(Below(mem, t))[k])]
<1> DEFINE e == Min(Named(mem, d, name))
           t == Content(mem, d).entry[e].inodeID
           G == Below(mem, t)
           a == BlockOf(mem, d)
           IC == {InodeCell(i) : i \in G}
           UC == {BitCell(BlockOf(mem, i)) : i \in G}
           BC == {BlockCell(BlockOf(mem, i)) : i \in {j \in G : IsDirectory(mem, j)}}
           v == SetEntry(mem, d, e, NoEntry)
<1>1. e \in Entries /\ t # -1
  <2>1. Named(mem, d, name) # {}
    BY DEF DeleteDirectory
  <2>2. Named(mem, d, name) \in SUBSET Nat
    BY SizesAssumption DEF Named, Used, Entries
  <2>3. e \in Named(mem, d, name)
    BY <2>1, <2>2, MinFacts
  <2>4. QED
    BY <2>3 DEF Named, Used
<1>2. /\ mem' = [c \in Cells |->
                  CASE c \in IC -> NoInode
                    [] c \in UC -> 0
                    [] c \in BC -> EmptyDirectory
                    [] c = BlockCell(a) -> v
                    [] OTHER -> mem[c]]
      /\ stack' = Append(stack, SaveInode(mem, d))
                    \o [k \in 1 .. Len(SetToSeq(G)) |-> SaveInode(mem, SetToSeq(G)[k])]
  BY DEF DeleteDirectory, Removed
<1> HIDE DEF e
<1>3. Link(mem, d, e, t)
  BY <1>1 DEF Link
<1> HIDE DEF t
<1>4. G \subseteq Alloc(mem) /\ d \notin G
  BY <1>3, NoCycle DEF Good
<1>5. t \in Inodes
  BY <1>3, LinkFacts DEF Good
<1> HIDE DEF G
<1>6. /\ d \in Alloc(mem) /\ a \in Blocks
      /\ \A i \in G : i \in Inodes /\ BlockOf(mem, i) \in Blocks /\ BlockOf(mem, i) # a
  <2>1. d \in Alloc(mem) /\ a \in Blocks
    BY DirectoryFacts, MemoryFacts DEF Good
  <2>2. \A i \in G : i \in Inodes /\ BlockOf(mem, i) \in Blocks
    BY <1>4, MemoryFacts DEF Good
  <2>3. ASSUME NEW i \in G, BlockOf(mem, i) = a PROVE FALSE
    <3>1. Owns(mem, i, a) /\ Owns(mem, d, a)
      BY <1>4, <2>1, <2>3 DEF Owns
    <3>2. QED
      BY <1>4, <3>1 DEF Good, BlocksApart
  <2>4. QED
    BY <2>1, <2>2, <2>3
<1>7. "inode" # "block" /\ "inode" # "bit" /\ "block" # "bit"
  OBVIOUS
<1>8. /\ \A c \in IC : Kind(c) = "inode"
      /\ \A c \in UC : Kind(c) = "bit"
      /\ \A c \in BC : Kind(c) = "block"
      /\ Kind(BlockCell(a)) = "block" /\ BlockCell(a) \notin BC
  BY <1>6, CellFacts
<1>9. \A i \in Inodes : InodeCell(i) \in IC <=> i \in G
  BY <1>6, CellFacts
<1>10. \A b \in Blocks : BitCell(b) \in UC <=> \E i \in G : b = BlockOf(mem, i)
  BY <1>6, CellFacts
<1>11. \A b \in Blocks : BlockCell(b) \in BC => \E i \in G : b = BlockOf(mem, i)
  BY <1>6, CellFacts
<1> HIDE DEF IC, UC, BC, a, v
<1>12. \A i \in Inodes : mem'[InodeCell(i)] = IF i \in G THEN NoInode ELSE mem[InodeCell(i)]
  <2>1. ASSUME NEW i \in Inodes
        PROVE  /\ InodeCell(i) \in Cells /\ InodeCell(i) \notin UC
               /\ InodeCell(i) \notin BC /\ InodeCell(i) # BlockCell(a)
    BY <1>6, <1>7, <1>8, CellFacts
  <2>2. QED
    BY <1>2, <1>9, <2>1
<1>13. \A b \in Blocks : mem'[BitCell(b)] = IF \E i \in G : b = BlockOf(mem, i) THEN 0
                                                                          ELSE mem[BitCell(b)]
  <2>1. ASSUME NEW b \in Blocks
        PROVE  /\ BitCell(b) \in Cells /\ BitCell(b) \notin IC
               /\ BitCell(b) \notin BC /\ BitCell(b) # BlockCell(a)
    BY <1>6, <1>7, <1>8, CellFacts
  <2>2. QED
    BY <1>2, <1>10, <2>1
<1>14. \A b \in Blocks : /\ BlockCell(b) \in Cells /\ BlockCell(b) \notin IC
                         /\ BlockCell(b) \notin UC
                         /\ b # a => BlockCell(b) # BlockCell(a)
  BY <1>6, <1>7, <1>8, CellFacts
<1>15. mem'[BlockCell(a)] = v
  BY <1>2, <1>6, <1>8, <1>14
<1>16. \A b \in Blocks : b # a =>
         \/ mem'[BlockCell(b)] = mem[BlockCell(b)]
         \/ mem'[BlockCell(b)] = EmptyDirectory /\ \E i \in G : b = BlockOf(mem, i)
  BY <1>2, <1>11, <1>14
<1>17. mem' = [c \in Cells |-> mem'[c]]
  BY <1>2
<1>18. Deleted(mem, mem', d, e, G)
  BY <1>12, <1>13, <1>15, <1>16, <1>17 DEF Deleted, a, v
<1>19. QED
  BY <1>1, <1>2, <1>3, <1>5, <1>18 DEF G

LEMMA DeletedGood ==
  ASSUME NEW m, NEW n, Good(m), NEW d \in Inodes, NEW e \in Entries, NEW t \in Inodes,
         Link(m, d, e, t), Deleted(m, n, d, e, Below(m, t))
  PROVE  Good(n)
<1> DEFINE G == Below(m, t)
<1>1. IsMemory(m) /\ KindsTrue(m) /\ BlocksApart(m) /\ Tree(m)
  BY DEF Good
<1>2. /\ G \subseteq Alloc(m) \ {0} /\ d \notin G
      /\ IsDirectory(m, d) /\ d \in Alloc(m) /\ t # -1
      /\ Content(m, d).entry[e].inodeID = t
  BY <1>1, NoCycle, LinkFacts DEF Link
<1>3. Deleted(m, n, d, e, G)
  OBVIOUS
<1> HIDE DEF G
<1>4. /\ FileType(m, d) = 0
      /\ Content(m, d).kind = "directory"
      /\ BlockOf(m, d) \in Blocks
  BY <1>1, <1>2, MemoryFacts DEF IsDirectory
<1>5. NoEntry \in EntryValues /\ NoEntry.inodeID = -1
  BY DEF EntryValues, NoEntry
<1> DEFINE v == SetEntry(m, d, e, NoEntry)
<1>6. /\ v \in BlockValues /\ v.kind = "directory"
      /\ \A x \in Entries : v.entry[x] = IF x = e THEN NoEntry ELSE Content(m, d).entry[x]
  BY <1>1, <1>2, <1>5, SetEntryFacts
<1>7. n[BlockCell(BlockOf(m, d))] = v
  BY <1>3 DEF Deleted
<1> HIDE DEF v
<1>8. IsMemory(n)
  <2>1. \A i \in Inodes : n[InodeCell(i)] \in InodeValues
    BY <1>1, <1>3 DEF Deleted, IsMemory, InodeValues
  <2>2. \A b \in Blocks : n[BitCell(b)] \in {0, 1}
    BY <1>1, <1>3 DEF Deleted, IsMemory
  <2>3. \A b \in Blocks : n[BlockCell(b)] \in BlockValues
    BY <1>1, <1>3, <1>6, <1>7, EmptyDirectoryFacts DEF Deleted, IsMemory
  <2>4. QED
    BY <1>3, <2>1, <2>2, <2>3 DEF Deleted, IsMemory
<1>9. /\ \A i \in Inodes : i \notin G => /\ BlockOf(n, i) = BlockOf(m, i)
                                         /\ FileType(n, i) = FileType(m, i)
      /\ \A i \in Inodes : i \in G => BlockOf(n, i) = -1
  BY <1>3 DEF Deleted, BlockOf, FileType, NoInode
<1>10. Alloc(n) = Alloc(m) \ G
  BY <1>9 DEF Alloc
<1>11. \A j \in Alloc(m) : /\ j \in Inodes /\ BlockOf(m, j) \in Blocks
                           /\ Owns(m, j, BlockOf(m, j))
  BY <1>1, MemoryFacts DEF Owns
<1>12. \A j, b : Owns(m, j, b) /\ j \notin G => \A i \in G : b # BlockOf(m, i)
  BY <1>1, <1>2, <1>11 DEF BlocksApart
<1>13. /\ Content(n, d) = v
       /\ \A j \in Alloc(n) : j # d => Content(n, j) = Content(m, j)
  <2>1. Content(n, d) = v
    BY <1>2, <1>7, <1>9 DEF Content
  <2>2. ASSUME NEW j \in Alloc(n), j # d PROVE Content(n, j) = Content(m, j)
    <3>1. j \in Alloc(m) /\ j \notin G
      BY <1>10
    <3>2. BlockOf(m, j) # BlockOf(m, d) /\ BlockOf(m, j) \in Blocks
          /\ \A i \in G : BlockOf(m, j) # BlockOf(m, i)
      BY <1>1, <1>2, <1>11, <1>12, <2>2, <3>1 DEF BlocksApart
    <3>3. n[BlockCell(BlockOf(m, j))] = m[BlockCell(BlockOf(m, j))]
      BY <1>3, <3>2 DEF Deleted
    <3>4. QED
      BY <1>9, <1>11, <3>1, <3>3 DEF Content
  <2>3. QED
    BY <2>1, <2>2
<1>14. KindsTrue(n)
  <2>1. ASSUME NEW j \in Alloc(n), j # d
        PROVE  /\ FileType(n, j) = 0 => Content(n, j).kind = "directory"
               /\ FileType(n, j) = 1 => Content(n, j).kind = "data"
               /\ FileType(n, j) = 2 => Content(n, j).kind = "index"
    BY <1>1, <1>9, <1>10, <1>11, <1>13, <2>1 DEF KindsTrue
  <2>2. FileType(n, d) = 0 /\ Content(n, d).kind = "directory"
    BY <1>2, <1>4, <1>6, <1>9, <1>13
  <2>3. QED
    BY <2>1, <2>2 DEF KindsTrue
<1>15. \A j \in Alloc(n) : DataBlocks(n, j) = DataBlocks(m, j)
  <2>1. DataBlocks(n, d) = {} /\ DataBlocks(m, d) = {}
    BY <1>2, <1>4, <1>9 DEF DataBlocks, IsIndexed
  <2>2. ASSUME NEW j \in Alloc(n), j # d PROVE DataBlocks(n, j) = DataBlocks(m, j)
    BY <1>9, <1>10, <1>11, <1>13, <2>2 DEF DataBlocks, IsIndexed
  <2>3. QED
    BY <2>1, <2>2
<1>16. \A j, a : Owns(n, j, a) => Owns(m, j, a) /\ j \notin G
  BY <1>9, <1>10, <1>11, <1>15 DEF Owns
<1>17. BlocksApart(n)
  <2>1. ASSUME NEW j, NEW a, Owns(n, j, a) PROVE Bit(n, a) = 1
    <3>1. Owns(m, j, a) /\ j \notin G /\ \A i \in G : a # BlockOf(m, i)
      BY <1>12, <1>16, <2>1
    <3>2. a \in Blocks /\ Bit(m, a) = 1
      BY <1>1, <3>1, OwnsFacts DEF BlocksApart
    <3>3. QED
      BY <1>3, <3>1, <3>2 DEF Deleted, Bit
  <2>2. \A j \in Alloc(n) : BlockOf(n, j) \notin DataBlocks(n, j)
    BY <1>1, <1>9, <1>10, <1>11, <1>15 DEF BlocksApart
  <2>3. QED
    BY <1>1, <1>16, <2>1, <2>2 DEF BlocksApart
<1>18. Tree(n)
  <2>1. /\ \A j \in Inodes : IsDirectory(n, j) => j \in Alloc(n)
        /\ \A j \in Inodes : IsDirectory(m, j) => j \in Alloc(m)
    BY <1>1, <1>8, DirectoryFacts
  <2>2. IsDirectory(n, d)
    BY <1>2, <1>4, <1>6, <1>9, <1>13 DEF IsDirectory
  <2>3. \A j \in Alloc(n) : j # d => (IsDirectory(n, j) <=> IsDirectory(m, j))
    BY <1>9, <1>10, <1>11, <1>13 DEF IsDirectory
  <2>4. \A x, k : Link(n, d, x, k) <=> Link(m, d, x, k) /\ x # e
    <3>1. ASSUME NEW x \in Entries, NEW k
          PROVE  Link(n, d, x, k) <=> Link(m, d, x, k) /\ x # e
      <4>1. CASE x = e
        BY <1>5, <1>6, <1>13, <4>1 DEF Link
      <4>2. CASE x # e
        BY <1>2, <1>6, <1>13, <2>2, <4>2 DEF Link
      <4>3. QED
        BY <4>1, <4>2
    <3>2. QED
      BY <3>1 DEF Link
  <2>5. ASSUME NEW j, j # d, NEW x, NEW k
        PROVE  Link(n, j, x, k) <=> Link(m, j, x, k) /\ j \notin G
    <3>1. CASE j \in Alloc(n)
      BY <1>10, <1>11, <1>13, <2>3, <2>5, <3>1 DEF Link
    <3>2. CASE j \notin Alloc(n)
      <4>1. ~ Link(n, j, x, k)
        BY <2>1, <3>2 DEF Link
      <4>2. Link(m, j, x, k) => j \in G
        BY <1>10, <2>1, <3>2 DEF Link
      <4>3. QED
        BY <4>1, <4>2
    <3>3. QED
      BY <3>1, <3>2
  <2>6. \A j, x, k : Link(n, j, x, k) <=> /\ Link(m, j, x, k)
                                          /\ j \notin G
                                          /\ ~ (j = d /\ x = e)
    BY <1>2, <2>4, <2>5
  <2>7. FileType(n, 0) = 0
    <3>1. 0 \in Alloc(m) /\ FileType(m, 0) = 0 /\ 0 \notin G
      BY <1>1, <1>2 DEF Tree
    <3>2. QED
      BY <1>9, <1>11, <3>1
  <2>8. QED
    BY <1>1, <1>8, <1>10, <2>6, <2>7, TreeShrinks DEF G
<1>19. QED
  BY <1>8, <1>14, <1>17, <1>18 DEF Good

-----------------------------------------------------------------------------
(* A sequence of calls of pushBlockAndInode.                               *)
SavedEach(m, n, B, I) == [k \in 1 .. n |-> Saved(m, B[k], I[k])]

LEMMA SavedSequence ==
  ASSUME NEW m, IsMemory(m), NEW n \in Nat,
         NEW B \in [1 .. n -> Blocks], NEW I \in [1 .. n -> Inodes]
  PROVE  LET s == SavedEach(m, n, B, I)
         IN  /\ s \in Seq(Records) /\ Len(s) = n /\ Plain(m, s)
             /\ \A k \in 1 .. n : DOMAIN s[k] =
                  {InodeCell(I[k]), BlockCell(B[k]), BitCell(B[k])}
<1> DEFINE s == SavedEach(m, n, B, I)
<1>1. ASSUME NEW k \in 1 .. n, NEW b \in Blocks, b = B[k], NEW i \in Inodes, i = I[k]
      PROVE  /\ s[k] \in Records /\ s[k] # Tag
             /\ DOMAIN s[k] = {InodeCell(i), BlockCell(b), BitCell(b)}
             /\ \A c \in DOMAIN s[k] : Value(s[k], c) = Value(m, c)
  <2>1. s[k] = Saved(m, b, i)
    BY <1>1 DEF SavedEach
  <2> HIDE DEF s
  <2>2. /\ Saved(m, b, i) \in Records /\ Saved(m, b, i) # Tag
        /\ DOMAIN Saved(m, b, i) = {InodeCell(i), BlockCell(b), BitCell(b)}
        /\ \A c \in DOMAIN Saved(m, b, i) : Value(Saved(m, b, i), c) = Value(m, c)
    BY SavedFacts
  <2>3. QED
    BY <2>1, <2>2
<1>2. s = [k \in 1 .. n |-> s[k]]
  BY DEF SavedEach
<1> HIDE DEF s
<1>3. \A k \in 1 .. n : s[k] \in Records
  BY <1>1
<1>4. s \in [1 .. n -> Records]
  BY <1>2, <1>3
<1>5. s \in Seq(Records) /\ Len(s) = n
  BY <1>4
<1>6. Plain(m, s)
  BY <1>1, <1>5 DEF Plain, SavedIn, Value
<1>7. \A k \in 1 .. n : DOMAIN s[k] = {InodeCell(I[k]), BlockCell(B[k]), BitCell(B[k])}
  BY <1>1
<1>8. QED
  BY <1>5, <1>6, <1>7 DEF s

(* The inodes of a set and their blocks are saved one by one.              *)
LEMMA AllSaved ==
  ASSUME IsMemory(mem), NEW G, G \subseteq Alloc(mem)
  PROVE  LET s == [k \in 1 .. Len(SetToSeq(G)) |-> SaveInode(mem, SetToSeq(G)[k])]
         IN  /\ s \in Seq(Records) /\ Plain(mem, s)
             /\ \A i \in G : \E k \in 1 .. Len(s) : DOMAIN s[k] =
                  {InodeCell(i), BlockCell(BlockOf(mem, i)), BitCell(BlockOf(mem, i))}
<1> DEFINE n == Cardinality(G)
           order == SetToSeq(G)
<1>1. IsFiniteSet(G)
  <2>1. IsFiniteSet(Inodes)
    <3>1. 0 \in Int /\ INODE_NUMBER - 1 \in Int
      BY SizesAssumption
    <3>2. QED
      BY <3>1, FS_Interval DEF Inodes
  <2>2. \A i \in G : i \in Inodes
    BY MemoryFacts
  <2>3. G \in SUBSET Inodes
    BY <2>2
  <2>4. QED
    BY <2>1, <2>3, FS_Subset
<1>2. /\ n \in Nat /\ order \in [1 .. n -> G]
      /\ \A x \in G : \E k \in 1 .. n : order[k] = x
  BY <1>1, ListedFacts
<1> HIDE DEF n, order
<1>3. order \in Seq(G) /\ Len(order) = n
  BY <1>2
<1> DEFINE B == [k \in 1 .. n |-> BlockOf(mem, order[k])]
           s == SavedEach(mem, n, B, order)
<1>4. \A i \in G : i \in Inodes /\ BlockOf(mem, i) \in Blocks
  BY MemoryFacts
<1>5. order \in [1 .. n -> Inodes] /\ B \in [1 .. n -> Blocks]
  BY <1>2, <1>4
<1>6. /\ \A k \in 1 .. n : B[k] = BlockOf(mem, order[k])
      /\ s = [k \in 1 .. Len(order) |-> SaveInode(mem, order[k])]
  BY <1>3 DEF SaveInode, SavedEach
<1> HIDE DEF B
<1>7. /\ s \in Seq(Records) /\ Len(s) = n /\ Plain(mem, s)
      /\ \A k \in 1 .. n : DOMAIN s[k] =
           {InodeCell(order[k]), BlockCell(B[k]), BitCell(B[k])}
  BY <1>2, <1>5, SavedSequence
<1> HIDE DEF s
<1>8. ASSUME NEW i \in G
      PROVE  \E k \in 1 .. Len(s) : DOMAIN s[k] =
               {InodeCell(i), BlockCell(BlockOf(mem, i)), BitCell(BlockOf(mem, i))}
  <2>1. PICK k \in 1 .. n : order[k] = i
    BY <1>2
  <2>2. DOMAIN s[k] = {InodeCell(i), BlockCell(BlockOf(mem, i)), BitCell(BlockOf(mem, i))}
    BY <1>6, <1>7, <2>1
  <2>3. QED
    BY <1>7, <2>2
<1>9. QED
  BY <1>6, <1>7, <1>8 DEF order

(* A first record and more after it.                                       *)
LEMMA FirstAndMore ==
  ASSUME Typed, NEW r \in Records, r # Tag, \A c \in DOMAIN r : Value(r, c) = Value(mem, c),
         NEW s \in Seq(Records), Plain(mem, s)
  PROVE  \E new \in Seq(Records) :
           /\ Append(stack, r) \o s = stack \o new
           /\ Plain(mem, new) /\ \A k \in 1 .. Len(new) : new[k] # Tag
           /\ 1 \in 1 .. Len(new) /\ new[1] = r
           /\ \A k \in 1 .. Len(s) : 1 + k \in 1 .. Len(new) /\ new[1 + k] = s[k]
<1> DEFINE first == <<r>>
           new == first \o s
<1>1. first \in Seq(Records) /\ Len(first) = 1 /\ first[1] = r
  OBVIOUS
<1>2. Append(stack, r) = stack \o first
  BY AppendIsConcat DEF Typed
<1> HIDE DEF first
<1>3. Plain(mem, first)
  <2>1. \A k \in 1 .. 1 : k = 1
    OBVIOUS
  <2>2. QED
    BY <1>1, <2>1 DEF Plain, SavedIn, Value
<1>4. Append(stack, r) \o s = stack \o new
  BY <1>1, <1>2, ConcatAssociative DEF Typed
<1>5. new \in Seq(Records) /\ Plain(mem, new)
  BY <1>1, <1>3, PlainJoined, Joined
<1>6. /\ 1 \in 1 .. Len(new) /\ new[1] = r
      /\ \A k \in 1 .. Len(s) : 1 + k \in 1 .. Len(new) /\ new[1 + k] = s[k]
  <2>1. /\ \A k \in 1 .. Len(first) : k \in 1 .. Len(new) /\ new[k] = first[k]
        /\ \A k \in 1 .. Len(s) : /\ Len(first) + k \in 1 .. Len(new)
                                  /\ new[Len(first) + k] = s[k]
    <3>1. first \in Seq(Records)
      BY <1>1
    <3>2. QED
      BY <3>1, Joined
  <2> HIDE DEF new
  <2>2. QED
    BY <1>1, <2>1
<1> HIDE DEF new
<1>7. QED
  BY <1>4, <1>5, <1>6 DEF Plain

LEMMA DeleteDirectorySaved ==
  ASSUME Typed, Reliable, NEW d \in Directories, NEW name, DeleteDirectory(d, name)
  PROVE  \E new : SavesChanges(new)
<1>1. d \in Inodes /\ IsDirectory(mem, d) /\ d \in Alloc(mem) /\ BlockOf(mem, d) \in Blocks
  BY DirectoriesFacts DEF Typed
<1>2. PICK e \in Entries, t \in Inodes :
        /\ Link(mem, d, e, t)
        /\ Deleted(mem, mem', d, e, Below(mem, t))
        /\ stack' = Append(stack, SaveInode(mem, d))
                    \o [k \in 1 .. Len(SetToSeq(Below(mem, t))) |->
                          SaveInode(mem, SetToSeq(Below(mem, t))[k])]
  BY <1>1, DeleteFacts DEF Reliable
<1> DEFINE G == Below(mem, t)
           r == SaveInode(mem, d)
           s == [k \in 1 .. Len(SetToSeq(G)) |-> SaveInode(mem, SetToSeq(G)[k])]
<1>4. G \subseteq Alloc(mem)
  BY <1>2, NoCycle DEF Reliable, Good
<1>5. stack' = Append(stack, r) \o s /\ Deleted(mem, mem', d, e, G)
  BY <1>2
<1>6. /\ r \in Records /\ r # Tag
      /\ DOMAIN r = {InodeCell(d), BlockCell(BlockOf(mem, d)), BitCell(BlockOf(mem, d))}
      /\ \A c \in DOMAIN r : Value(r, c) = Value(mem, c)
  BY <1>1, SaveInodeFacts DEF Typed
<1> HIDE DEF G, r
<1>7. /\ s \in Seq(Records) /\ Plain(mem, s)
      /\ \A i \in G : \E k \in 1 .. Len(s) : DOMAIN s[k] =
           {InodeCell(i), BlockCell(BlockOf(mem, i)), BitCell(BlockOf(mem, i))}
  BY <1>4, AllSaved DEF Typed
<1> HIDE DEF s
<1>a. PICK new \in Seq(Records) :
        /\ Append(stack, r) \o s = stack \o new
        /\ Plain(mem, new) /\ \A k \in 1 .. Len(new) : new[k] # Tag
        /\ 1 \in 1 .. Len(new) /\ new[1] = r
        /\ \A k \in 1 .. Len(s) : 1 + k \in 1 .. Len(new) /\ new[1 + k] = s[k]
  <2>1. Plain(mem, s) /\ s \in Seq(Records) /\ r \in Records /\ r # Tag
        /\ \A c \in DOMAIN r : Value(r, c) = Value(mem, c)
    BY <1>6, <1>7
  <2>2. QED
    BY <2>1, FirstAndMore
<1>8. stack' = stack \o new
  BY <1>5, <1>a
<1>9. ASSUME NEW i \in G
      PROVE  \E k \in 1 .. Len(new) : DOMAIN new[k] =
               {InodeCell(i), BlockCell(BlockOf(mem, i)), BitCell(BlockOf(mem, i))}
  <2>1. PICK k \in 1 .. Len(s) : DOMAIN s[k] =
          {InodeCell(i), BlockCell(BlockOf(mem, i)), BitCell(BlockOf(mem, i))}
    BY <1>7
  <2>2. 1 + k \in 1 .. Len(new) /\ new[1 + k] = s[k]
    BY <1>8, <1>a
  <2>3. QED
    BY <2>1, <2>2
<1>10. ASSUME NEW c \in Cells
       PROVE  Value(mem', c) = Value(mem, c) \/ \E k \in 1 .. Len(new) : c \in DOMAIN new[k]
  <2>1. CASE \E i \in Inodes : c = InodeCell(i)
    BY <1>5, <1>9, <2>1 DEF Deleted, Value
  <2>2. CASE \E b \in Blocks : c = BlockCell(b)
    <3>1. PICK b \in Blocks : c = BlockCell(b)
      BY <2>2
    <3>2. CASE b = BlockOf(mem, d)
      BY <1>6, <1>8, <1>a, <3>1, <3>2
    <3>3. CASE b # BlockOf(mem, d)
      <4>1. CASE mem'[BlockCell(b)] = mem[BlockCell(b)]
        BY <3>1, <4>1 DEF Value
      <4>2. CASE \E i \in G : b = BlockOf(mem, i)
        <5>1. PICK i \in G : b = BlockOf(mem, i)
          BY <4>2
        <5>2. QED
          BY <1>9, <3>1, <5>1
      <4>3. QED
        BY <1>5, <3>3, <4>1, <4>2 DEF Deleted
    <3>4. QED
      BY <3>2, <3>3
  <2>3. CASE \E b \in Blocks : c = BitCell(b)
    BY <1>5, <1>9, <2>3 DEF Deleted, Value
  <2>4. QED
    BY <2>1, <2>2, <2>3, CellCases
<1>11. SavesChanges(new)
  BY <1>8, <1>a, <1>10 DEF SavesChanges
<1>12. QED
  BY <1>11

LEMMA DeleteDirectoryStep ==
  ASSUME Typed, Reliable, Sound, undefined \in BOOLEAN, misled \in BOOLEAN,
         NEW d \in Directories, NEW name \in Names, DeleteDirectory(d, name)
  PROVE  IInv'
<1>1. Room /\ undefined' \in BOOLEAN /\ misled' \in BOOLEAN
  BY DEF DeleteDirectory
<1>2. d \in Inodes /\ IsDirectory(mem, d)
  BY DirectoriesFacts DEF Typed
<1>3. PICK e \in Entries, t \in Inodes :
        Link(mem, d, e, t) /\ Deleted(mem, mem', d, e, Below(mem, t))
  BY <1>2, DeleteFacts DEF Reliable
<1>4. Good(mem')
  BY <1>2, <1>3, DeletedGood DEF Reliable
<1>5. PICK new : SavesChanges(new)
  BY DeleteDirectorySaved
<1>6. QED
  BY <1>1, <1>4, <1>5, SavesChangesStep

-----------------------------------------------------------------------------
(* What writeFile does to the memory: New are the blocks it takes, none of *)
(* which may be in use by another file.                                    *)
Written(m, n, f, type, v, New) ==
  /\ n = [c \in Cells |-> n[c]]
  /\ n[InodeCell(f)] = [blockID |-> BlockOf(m, f), fileType |-> type]
  /\ \A i \in Inodes : i # f => n[InodeCell(i)] = m[InodeCell(i)]
  /\ n[BlockCell(BlockOf(m, f))] = v
  /\ \A b \in Blocks : b # BlockOf(m, f) =>
       \/ n[BlockCell(b)] = m[BlockCell(b)]
       \/ b \in New /\ n[BlockCell(b)] \in BlockValues
  /\ \A b \in Blocks : n[BitCell(b)] = IF b \in New THEN 1
                                       ELSE IF b \in DataBlocks(m, f) THEN 0
                                       ELSE m[BitCell(b)]

(* The blocks writeFile may take: those free once the old text is freed.   *)
MayTake(m, f, New) == \A b \in New : b \in Blocks /\ (Bit(m, b) = 0 \/ b \in DataBlocks(m, f))

(* The type of the file says what its own block holds.                     *)
TypeTrue(type, v, New) ==
  \/ type = 1 /\ v.kind = "data"
  \/ type = 2 /\ v.kind = "index" /\ \A b \in Range(v.blockPointers) \ {-1} : b \in New

LEMMA WrittenGood ==
  ASSUME NEW m, NEW n, Good(m), NEW f \in Alloc(m), FileType(m, f) \in {1, 2},
         NEW type \in {1, 2}, NEW v \in BlockValues, NEW New,
         TypeTrue(type, v, New), MayTake(m, f, New), Written(m, n, f, type, v, New)
  PROVE  Good(n)
<1> DEFINE a == BlockOf(m, f)
           old == DataBlocks(m, f)
<1>1. IsMemory(m) /\ KindsTrue(m) /\ BlocksApart(m) /\ Tree(m)
  BY DEF Good
<1>2. f \in Inodes /\ a \in Blocks /\ a # -1
  <2>1. f \in Inodes /\ a \in Blocks
    BY <1>1, MemoryFacts
  <2>2. QED
    BY <2>1, SizesAssumption DEF Blocks
<1>3. /\ n = [c \in Cells |-> n[c]]
      /\ n[InodeCell(f)] = [blockID |-> a, fileType |-> type]
      /\ \A i \in Inodes : i # f => n[InodeCell(i)] = m[InodeCell(i)]
      /\ n[BlockCell(a)] = v
      /\ \A b \in Blocks : b # a =>
           \/ n[BlockCell(b)] = m[BlockCell(b)]
           \/ b \in New /\ n[BlockCell(b)] \in BlockValues
      /\ \A b \in Blocks : n[BitCell(b)] = IF b \in New THEN 1
                                           ELSE IF b \in old THEN 0
                                           ELSE m[BitCell(b)]
  BY DEF Written
<1>4. IsMemory(n)
  <2>1. [blockID |-> a, fileType |-> type] \in InodeValues
    BY <1>2 DEF InodeValues
  <2>2. \A i \in Inodes : n[InodeCell(i)] \in InodeValues
    BY <1>1, <1>3, <2>1 DEF IsMemory
  <2>3. \A b \in Blocks : n[BlockCell(b)] \in BlockValues
    BY <1>1, <1>3 DEF IsMemory
  <2>4. \A b \in Blocks : n[BitCell(b)] \in {0, 1}
    BY <1>1, <1>3 DEF IsMemory
  <2>5. QED
    BY <1>3, <2>2, <2>3, <2>4 DEF IsMemory
<1>5. /\ BlockOf(n, f) = a /\ FileType(n, f) = type
      /\ \A i \in Inodes : i # f => /\ BlockOf(n, i) = BlockOf(m, i)
                                    /\ FileType(n, i) = FileType(m, i)
  BY <1>3 DEF BlockOf, FileType
<1>6. Alloc(n) = Alloc(m)
  BY <1>2, <1>5 DEF Alloc
<1>7. /\ Owns(m, f, a) /\ \A b \in old : Owns(m, f, b)
      /\ a \notin old /\ a \notin New
  <2>1. Owns(m, f, a) /\ (\A b \in old : Owns(m, f, b)) /\ a \notin old /\ Bit(m, a) = 1
    BY <1>1 DEF Owns, BlocksApart
  <2>2. QED
    BY <2>1 DEF MayTake
<1> HIDE DEF a, old
<1>8. ASSUME NEW j, NEW b, Owns(m, j, b), j # f
      PROVE  b # a /\ b \notin old /\ b \notin New /\ b \in Blocks
  <2>1. b # a /\ b \notin old /\ Bit(m, b) = 1
    BY <1>1, <1>7, <1>8 DEF BlocksApart
  <2>2. QED
    BY <1>1, <1>8, <2>1, OwnsFacts DEF MayTake, old
<1>9. /\ Content(n, f) = v
      /\ \A j \in Alloc(m) : j # f => Content(n, j) = Content(m, j)
  <2>1. Content(n, f) = v
    BY <1>3, <1>5 DEF Content
  <2>2. ASSUME NEW j \in Alloc(m), j # f PROVE Content(n, j) = Content(m, j)
    <3>1. Owns(m, j, BlockOf(m, j)) /\ j \in Inodes
      BY DEF Owns, Alloc
    <3>2. n[BlockCell(BlockOf(m, j))] = m[BlockCell(BlockOf(m, j))]
      BY <1>3, <1>8, <2>2, <3>1
    <3>3. QED
      BY <1>5, <2>2, <3>1, <3>2 DEF Content
  <2>3. QED
    BY <2>1, <2>2
<1>10. KindsTrue(n)
  <2>1. ASSUME NEW j \in Alloc(m), j # f
        PROVE  /\ FileType(n, j) = 0 => Content(n, j).kind = "directory"
               /\ FileType(n, j) = 1 => Content(n, j).kind = "data"
               /\ FileType(n, j) = 2 => Content(n, j).kind = "index"
    BY <1>1, <1>5, <1>9, <2>1 DEF KindsTrue, Alloc
  <2>2. /\ FileType(n, f) = type /\ Content(n, f) = v
        /\ type = 1 => v.kind = "data"
        /\ type = 2 => v.kind = "index"
    BY <1>5, <1>9 DEF TypeTrue
  <2>3. QED
    BY <1>6, <2>1, <2>2 DEF KindsTrue
<1>11. /\ \A b \in DataBlocks(n, f) : b \in New
       /\ \A j \in Alloc(m) : j # f => DataBlocks(n, j) = DataBlocks(m, j)
  <2>1. ASSUME NEW b \in DataBlocks(n, f) PROVE b \in New
    BY <1>5, <1>9, <2>1 DEF DataBlocks, IsIndexed, TypeTrue
  <2>2. ASSUME NEW j \in Alloc(m), j # f PROVE DataBlocks(n, j) = DataBlocks(m, j)
    BY <1>5, <1>9, <2>2 DEF DataBlocks, IsIndexed, Alloc
  <2>3. QED
    BY <2>1, <2>2
<1>12. ASSUME NEW j, NEW b, Owns(n, j, b)
       PROVE  \/ j # f /\ Owns(m, j, b)
              \/ j = f /\ (b = a \/ b \in New)
  BY <1>5, <1>6, <1>11, <1>12 DEF Owns, Alloc
<1>13. BlocksApart(n)
  <2>1. ASSUME NEW i, NEW j, NEW b, Owns(n, i, b), Owns(n, j, b) PROVE i = j
    <3>1. CASE i # f /\ j # f
      BY <1>1, <1>12, <2>1, <3>1 DEF BlocksApart
    <3>2. CASE i # f /\ j = f
      BY <1>8, <1>12, <2>1, <3>2
    <3>3. CASE i = f /\ j # f
      BY <1>8, <1>12, <2>1, <3>3
    <3>4. QED
      BY <3>1, <3>2, <3>3
  <2>2. ASSUME NEW j \in Alloc(n) PROVE BlockOf(n, j) \notin DataBlocks(n, j)
    <3>1. CASE j = f
      BY <1>5, <1>7, <1>11, <3>1
    <3>2. CASE j # f
      BY <1>1, <1>5, <1>6, <1>11, <2>2, <3>2 DEF BlocksApart, Alloc
    <3>3. QED
      BY <3>1, <3>2
  <2>3. ASSUME NEW j, NEW b, Owns(n, j, b) PROVE Bit(n, b) = 1
    <3>1. CASE j # f
      <4>1. Owns(m, j, b)
        BY <1>12, <2>3, <3>1
      <4>2. b \in Blocks /\ b \notin New /\ b \notin old /\ Bit(m, b) = 1
        BY <1>1, <1>8, <3>1, <4>1 DEF BlocksApart
      <4>3. QED
        BY <1>3, <4>2 DEF Bit
    <3>2. CASE j = f /\ b = a
      <4>1. Bit(m, a) = 1
        BY <1>1, <1>7 DEF BlocksApart
      <4>2. QED
        BY <1>2, <1>3, <1>7, <3>2, <4>1 DEF Bit
    <3>3. CASE j = f /\ b \in New
      BY <1>3, <3>3 DEF Bit, MayTake
    <3>4. QED
      BY <1>12, <2>3, <3>1, <3>2, <3>3
  <2>4. QED
    BY <2>1, <2>2, <2>3 DEF BlocksApart
<1>14. \A j, e, k : Link(n, j, e, k) <=> Link(m, j, e, k)
  <2>1. ~ IsDirectory(m, f) /\ ~ IsDirectory(n, f)
    BY <1>5 DEF IsDirectory
  <2>2. ASSUME NEW j, j # f, NEW e, NEW k PROVE Link(n, j, e, k) <=> Link(m, j, e, k)
    <3>1. CASE j \in Alloc(m)
      <4>1. IsDirectory(n, j) <=> IsDirectory(m, j)
        BY <1>5, <1>9, <2>2, <3>1 DEF IsDirectory, Alloc
      <4>2. QED
        BY <1>9, <2>2, <3>1, <4>1 DEF Link
    <3>2. CASE j \notin Alloc(m)
      BY <1>1, <1>4, <1>6, <3>2, LinkFacts
    <3>3. QED
      BY <3>1, <3>2
  <2>3. QED
    BY <2>1, <2>2 DEF Link
<1>15. Tree(n)
  <2>1. 0 \in Alloc(m) /\ FileType(m, 0) = 0 /\ 0 \in Inodes
    BY <1>1 DEF Tree, Alloc
  <2>2. Below(n, 0) = Below(m, 0)
    BY <1>1, <1>4, <1>14, <2>1, SameBelow
  <2>3. FileType(n, 0) = 0
    BY <1>5, <2>1
  <2>4. QED
    BY <1>1, <1>6, <1>14, <2>2, <2>3 DEF Tree
<1>16. QED
  BY <1>4, <1>10, <1>13, <1>15 DEF Good

(* The files that operations are given.                                    *)
LEMMA FilesFacts ==
  ASSUME IsMemory(mem), NEW f \in Files
  PROVE  /\ f \in Alloc(mem) /\ f \in Inodes /\ f \in Blocks
         /\ BlockOf(mem, f) \in Blocks
         /\ FileType(mem, f) \in {1, 2}
<1>1. 0 \in Inodes
  BY SizesAssumption DEF Inodes
<1>2. f \in Inodes /\ FileType(mem, f) \in {1, 2}
  BY <1>1, BelowFacts DEF Files
<1>3. BlockOf(mem, f) \in Blocks
  BY <1>2, MemoryFacts
<1>4. f \in Alloc(mem)
  BY <1>2, <1>3, SizesAssumption DEF Alloc, Blocks
<1>5. f \in Blocks
  BY <1>2, SizesAssumption DEF Inodes, Blocks
<1>6. QED
  BY <1>2, <1>3, <1>4, <1>5

(* The blocks of the old text, in order.                                   *)
LEMMA OldBlocksFacts ==
  ASSUME IsMemory(mem), NEW f \in Inodes
  PROVE  \E n \in Nat : /\ OldBlocks(f) \in [1 .. n -> Blocks] /\ Len(OldBlocks(f)) = n
                        /\ \A b \in DataBlocks(mem, f) : \E k \in 1 .. n : OldBlocks(f)[k] = b
<1>1. CASE ~ IsIndexed(mem, f)
  <2>1. OldBlocks(f) = <<>> /\ DataBlocks(mem, f) = {}
    BY <1>1 DEF OldBlocks, DataBlocks
  <2>2. <<>> \in [1 .. 0 -> Blocks] /\ Len(<<>>) = 0
    OBVIOUS
  <2>3. QED
    BY <2>1, <2>2
<1>2. CASE IsIndexed(mem, f)
  <2> DEFINE p == Content(mem, f).blockPointers
             inUse == {k \in Pointers : p[k] # -1}
             n == Cardinality(inUse)
             at == LeastOf(inUse, n)
  <2>1. p \in [Pointers -> Blocks \cup {-1}]
    BY <1>2, DataBlocksFacts
  <2>2. inUse \in SUBSET Nat /\ IsFiniteSet(inUse)
    <3>1. IsFiniteSet(Pointers) /\ Pointers \in SUBSET Nat
      <4>1. 0 \in Int /\ INDEX_SIZE - 1 \in Int
        BY SizesAssumption
      <4>2. QED
        BY <4>1, FS_Interval DEF Pointers
    <3>2. inUse \in SUBSET Pointers
      OBVIOUS
    <3>3. QED
      BY <3>1, <3>2, FS_Subset
  <2>3. OldBlocks(f) = [k \in 1 .. Len(at) |-> p[at[k]]]
    BY <1>2 DEF OldBlocks
  <2>4. \A b \in DataBlocks(mem, f) : \E k \in inUse : b = p[k]
    BY <1>2, <2>1 DEF DataBlocks, Range
  <2>5. \A k \in inUse : p[k] \in Blocks
    BY <2>1
  <2> HIDE DEF p, inUse
  <2>6. n \in Nat
    BY <2>2, FS_CardinalityType
  <2>7. /\ at \in [1 .. n -> inUse]
        /\ \A k \in inUse : \E j \in 1 .. n : at[j] = k
    <3>1. n \in 0 .. Cardinality(inUse)
      BY <2>6
    <3>2. QED
      BY <2>2, <3>1, LeastOfFacts
  <2> HIDE DEF n, at
  <2>8. Len(at) = n
    BY <2>6, <2>7
  <2>9. OldBlocks(f) = [k \in 1 .. n |-> p[at[k]]]
    BY <2>3, <2>8
  <2>10. \A k \in 1 .. n : p[at[k]] \in Blocks
    BY <2>5, <2>7
  <2>11. OldBlocks(f) \in [1 .. n -> Blocks]
    BY <2>9, <2>10
  <2>12. Len(OldBlocks(f)) = n
    BY <2>6, <2>11
  <2>13. ASSUME NEW b \in DataBlocks(mem, f)
         PROVE  \E k \in 1 .. n : OldBlocks(f)[k] = b
    <3>1. PICK k \in inUse : b = p[k]
      BY <2>4
    <3>2. PICK j \in 1 .. n : at[j] = k
      BY <2>7
    <3>3. OldBlocks(f)[j] = p[at[j]]
      BY <2>9
    <3>4. QED
      BY <3>1, <3>2, <3>3
  <2>14. QED
    BY <2>6, <2>11, <2>12, <2>13
<1>3. QED
  BY <1>1, <1>2

LEMMA EmptiedFacts ==
  ASSUME IsMemory(mem), NEW f \in Files
  PROVE  LET m == Emptied(f)
         IN  /\ m = [c \in Cells |-> m[c]]
             /\ m[InodeCell(f)] = [blockID |-> BlockOf(mem, f), fileType |-> 1]
             /\ \A i \in Inodes : i # f => m[InodeCell(i)] = mem[InodeCell(i)]
             /\ \A b \in Blocks : b # BlockOf(mem, f) => m[BlockCell(b)] = mem[BlockCell(b)]
             /\ \A b \in Blocks : m[BitCell(b)] = IF b \in DataBlocks(mem, f) THEN 0
                                                  ELSE mem[BitCell(b)]
             /\ m[BlockCell(BlockOf(mem, f))] \in BlockValues
<1> DEFINE m == Emptied(f)
           a == BlockOf(mem, f)
           old == DataBlocks(mem, f)
           UC == {BitCell(b) : b \in old}
<1>1. f \in Inodes /\ a \in Blocks /\ old \subseteq Blocks /\ FileType(mem, f) \in {1, 2}
  BY FilesFacts, DataBlocksFacts
<1>2. m = [c \in Cells |->
             CASE c \in UC -> 0
               [] c = InodeCell(f) -> [mem[c] EXCEPT !.fileType = 1]
               [] c = BlockCell(a) /\ FileType(mem, f) = 2 -> Blank
               [] OTHER -> mem[c]]
  BY DEF Emptied
<1>3. [mem[InodeCell(f)] EXCEPT !.fileType = 1] = [blockID |-> a, fileType |-> 1]
  <2>1. mem[InodeCell(f)] \in InodeValues /\ mem[InodeCell(f)] # NoInode
    BY <1>1 DEF IsMemory, FileType, NoInode
  <2>2. mem[InodeCell(f)] \in [blockID : Blocks, fileType : {0, 1, 2}]
    BY <2>1 DEF InodeValues
  <2>3. QED
    BY <2>2 DEF BlockOf
<1> HIDE DEF m, a, old
<1>4. "inode" # "block" /\ "inode" # "bit" /\ "block" # "bit"
  OBVIOUS
<1>5. /\ \A c \in UC : Kind(c) = "bit"
      /\ \A b \in Blocks : BitCell(b) \in UC <=> b \in old
  BY <1>1, CellFacts
<1> HIDE DEF UC
<1>6. m[InodeCell(f)] = [blockID |-> a, fileType |-> 1]
  <2>1. /\ InodeCell(f) \in Cells /\ InodeCell(f) \notin UC
        /\ InodeCell(f) # BlockCell(a)
    BY <1>1, <1>4, <1>5, CellFacts
  <2>2. m[InodeCell(f)] = [mem[InodeCell(f)] EXCEPT !.fileType = 1]
    BY <1>2, <2>1
  <2>3. QED
    BY <1>3, <2>2
<1>7. \A i \in Inodes : i # f => m[InodeCell(i)] = mem[InodeCell(i)]
  <2>1. ASSUME NEW i \in Inodes, i # f
        PROVE  /\ InodeCell(i) \in Cells /\ InodeCell(i) \notin UC
               /\ InodeCell(i) # InodeCell(f) /\ InodeCell(i) # BlockCell(a)
    BY <1>1, <1>4, <1>5, <2>1, CellFacts
  <2>2. QED
    BY <1>2, <2>1
<1>8. \A b \in Blocks : b # a => m[BlockCell(b)] = mem[BlockCell(b)]
  <2>1. ASSUME NEW b \in Blocks, b # a
        PROVE  /\ BlockCell(b) \in Cells /\ BlockCell(b) \notin UC
               /\ BlockCell(b) # InodeCell(f) /\ BlockCell(b) # BlockCell(a)
    BY <1>1, <1>4, <1>5, <2>1, CellFacts
  <2>2. QED
    BY <1>2, <2>1
<1>9. \A b \in Blocks : m[BitCell(b)] = IF b \in old THEN 0 ELSE mem[BitCell(b)]
  <2>1. ASSUME NEW b \in Blocks
        PROVE  /\ BitCell(b) \in Cells
               /\ BitCell(b) # InodeCell(f) /\ BitCell(b) # BlockCell(a)
    BY <1>1, <1>4, <1>5, CellFacts
  <2>2. QED
    BY <1>2, <1>5, <2>1
<1>10. m = [c \in Cells |-> m[c]]
  BY <1>2
<1>11. m[BlockCell(a)] \in BlockValues
  <2>1. /\ BlockCell(a) \in Cells /\ BlockCell(a) \notin UC
        /\ BlockCell(a) # InodeCell(f)
    BY <1>1, <1>4, <1>5, CellFacts
  <2>2. m[BlockCell(a)] = Blank \/ m[BlockCell(a)] = mem[BlockCell(a)]
    BY <1>2, <2>1
  <2>3. QED
    BY <1>1, <2>2, BlankFacts DEF IsMemory
<1>12. QED
  BY <1>6, <1>7, <1>8, <1>9, <1>10, <1>11 DEF m, a, old

LEMMA DataFacts ==
  ASSUME NEW text \in Texts, NEW part \in Nat, part <= text.blocks
  PROVE  Data(text.value, part) \in BlockValues /\ Data(text.value, part).kind = "data"
<1>1. part \in 0 .. text.blocks
  BY TextsAssumption
<1>2. Data(text.value, part) \in BlockValues
  BY <1>1 DEF BlockValues
<1>3. QED
  BY <1>2 DEF Data

LEMMA WriteFileWritten ==
  ASSUME IsMemory(mem), NEW f \in Files, NEW text \in Texts, WriteFile(f, text)
  PROVE  Written(mem, mem', f, 1, Data(text.value, 0), {})
<1> DEFINE m == Emptied(f)
           a == BlockOf(mem, f)
           v == Data(text.value, 0)
<1>1. f \in Inodes /\ a \in Blocks
  BY FilesFacts
<1>2. mem' = [m EXCEPT ![BlockCell(a)] = v]
  BY DEF WriteFile
<1>3. /\ m = [c \in Cells |-> m[c]]
      /\ m[InodeCell(f)] = [blockID |-> a, fileType |-> 1]
      /\ \A i \in Inodes : i # f => m[InodeCell(i)] = mem[InodeCell(i)]
      /\ \A b \in Blocks : b # a => m[BlockCell(b)] = mem[BlockCell(b)]
      /\ \A b \in Blocks : m[BitCell(b)] = IF b \in DataBlocks(mem, f) THEN 0
                                           ELSE mem[BitCell(b)]
  BY EmptiedFacts
<1> HIDE DEF m, v
<1>4. \A c \in Cells : mem'[c] = IF c = BlockCell(a) THEN v ELSE m[c]
  BY <1>2, <1>3
<1>5. mem' = [c \in Cells |-> mem'[c]]
  BY <1>2, <1>3
<1>6. "inode" # "block" /\ "inode" # "bit" /\ "block" # "bit"
  OBVIOUS
<1>7. /\ \A i \in Inodes : InodeCell(i) \in Cells /\ InodeCell(i) # BlockCell(a)
      /\ \A b \in Blocks : BitCell(b) \in Cells /\ BitCell(b) # BlockCell(a)
      /\ \A b \in Blocks : /\ BlockCell(b) \in Cells
                           /\ b # a => BlockCell(b) # BlockCell(a)
  BY <1>1, <1>6, CellFacts
<1>8. QED
  BY <1>1, <1>3, <1>4, <1>5, <1>7 DEF Written, a, v

(* The number of the inode saved instead of the number of its block.       *)
LEMMA SavedByNumberFacts ==
  ASSUME IsMemory(mem), NEW f \in Files
  PROVE  /\ SavedByNumber(f) \in Records /\ SavedByNumber(f) # Tag
         /\ DOMAIN SavedByNumber(f) = {InodeCell(f), BlockCell(f), BitCell(f)}
         /\ \A c \in DOMAIN SavedByNumber(f) : Value(SavedByNumber(f), c) = Value(mem, c)
         /\ Mistaken(SavedByNumber(f)) <=> BlockOf(mem, f) # f
<1> DEFINE r == SavedByNumber(f)
<1>1. f \in Inodes /\ f \in Blocks /\ BlockOf(mem, f) \in Blocks
  BY FilesFacts
<1>2. /\ r \in Records /\ r # Tag
      /\ DOMAIN r = {InodeCell(f), BlockCell(f), BitCell(f)}
      /\ \A c \in DOMAIN r : Value(r, c) = Value(mem, c)
  BY <1>1, SavedFacts DEF SavedByNumber
<1> HIDE DEF r
<1>3. r[InodeCell(f)].blockID = BlockOf(mem, f)
  BY <1>2 DEF Value, BlockOf
<1>4. BlockOf(mem, f) # -1
  BY <1>1, SizesAssumption DEF Blocks
<1>5. ASSUME NEW i \in Inodes, DOMAIN r = {InodeCell(i), BlockCell(i), BitCell(i)}
      PROVE  i = f
  <2>1. i \in Blocks
    BY SizesAssumption DEF Inodes, Blocks
  <2>2. "inode" # "block" /\ "inode" # "bit"
    OBVIOUS
  <2>3. InodeCell(i) = InodeCell(f)
    BY <1>1, <1>2, <1>5, <2>1, <2>2, CellFacts
  <2>4. QED
    BY <1>1, <2>3, CellFacts
<1>6. Mistaken(r) <=> BlockOf(mem, f) # f
  BY <1>1, <1>2, <1>3, <1>4, <1>5 DEF Mistaken
<1>7. QED
  BY <1>2, <1>6 DEF r

LEMMA SavedOldFacts ==
  ASSUME IsMemory(mem), NEW f \in Files
  PROVE  /\ SavedOld(f) \in Seq(Records) /\ Plain(mem, SavedOld(f))
         /\ \A b \in DataBlocks(mem, f) : \E k \in 1 .. Len(SavedOld(f)) :
              BitCell(b) \in DOMAIN SavedOld(f)[k]
<1>1. f \in Inodes
  BY FilesFacts
<1>2. PICK n \in Nat :
        /\ OldBlocks(f) \in [1 .. n -> Blocks] /\ Len(OldBlocks(f)) = n
        /\ \A b \in DataBlocks(mem, f) : \E k \in 1 .. n : OldBlocks(f)[k] = b
  BY <1>1, OldBlocksFacts
<1> DEFINE I == [k \in 1 .. n |-> f]
           s == SavedEach(mem, n, OldBlocks(f), I)
<1>3. I \in [1 .. n -> Inodes]
  BY <1>1
<1>4. SavedOld(f) = s
  BY <1>2 DEF SavedOld, SavedEach
<1> HIDE DEF I
<1>5. /\ s \in Seq(Records) /\ Len(s) = n /\ Plain(mem, s)
      /\ \A k \in 1 .. n : DOMAIN s[k] =
           {InodeCell(I[k]), BlockCell(OldBlocks(f)[k]), BitCell(OldBlocks(f)[k])}
  BY <1>2, <1>3, SavedSequence
<1> HIDE DEF s
<1>6. ASSUME NEW b \in DataBlocks(mem, f)
      PROVE  \E k \in 1 .. Len(s) : BitCell(b) \in DOMAIN s[k]
  <2>1. PICK k \in 1 .. n : OldBlocks(f)[k] = b
    BY <1>2
  <2>2. BitCell(b) \in DOMAIN s[k]
    BY <1>5, <2>1
  <2>3. QED
    BY <1>5, <2>2
<1>7. QED
  BY <1>4, <1>5, <1>6

(* What writeFile changes is saved when its first record is not mistaken.  *)
LEMMA WrittenSaved ==
  ASSUME IsMemory(mem), NEW n, NEW f \in Files, NEW type, NEW v, NEW New,
         Written(mem, n, f, type, v, New), BlockOf(mem, f) = f, NEW new,
         1 \in 1 .. Len(new), new[1] = SavedByNumber(f),
         \A b \in DataBlocks(mem, f) : \E k \in 1 .. Len(new) : BitCell(b) \in DOMAIN new[k],
         \A b \in New : \E k \in 1 .. Len(new) : /\ BlockCell(b) \in DOMAIN new[k]
                                                 /\ BitCell(b) \in DOMAIN new[k],
         NEW c \in Cells
  PROVE  Value(n, c) = Value(mem, c) \/ \E k \in 1 .. Len(new) : c \in DOMAIN new[k]
<1>1. /\ f \in Inodes /\ f \in Blocks
      /\ DOMAIN new[1] = {InodeCell(f), BlockCell(f), BitCell(f)}
  BY FilesFacts, SavedByNumberFacts
<1>2. c \in DOMAIN new[1] => \E k \in 1 .. Len(new) : c \in DOMAIN new[k]
  OBVIOUS
<1>3. CASE \E i \in Inodes : c = InodeCell(i)
  BY <1>1, <1>2, <1>3 DEF Written, Value
<1>4. CASE \E b \in Blocks : c = BlockCell(b)
  <2>1. PICK b \in Blocks : c = BlockCell(b)
    BY <1>4
  <2>2. CASE b = f
    BY <1>1, <1>2, <2>1, <2>2
  <2>3. CASE b # f
    BY <2>1, <2>3 DEF Written, Value
  <2>4. QED
    BY <2>2, <2>3
<1>5. CASE \E b \in Blocks : c = BitCell(b)
  BY <1>5 DEF Written, Value
<1>6. QED
  BY <1>3, <1>4, <1>5, CellCases

LEMMA WriteFileRecords ==
  ASSUME Typed, NEW f \in Files, NEW text \in Texts, WriteFile(f, text)
  PROVE  \E new \in Seq(Records) :
           /\ stack' = stack \o new
           /\ Plain(mem, new)
           /\ 1 \in 1 .. Len(new) /\ new[1] = SavedByNumber(f)
           /\ BlockOf(mem, f) = f => SavesChanges(new)
<1> DEFINE r == SavedByNumber(f)
           s == SavedOld(f)
<1>1. IsMemory(mem)
  BY DEF Typed
<1>2. stack' = Append(stack, r) \o s
  BY DEF WriteFile
<1>3. Written(mem, mem', f, 1, Data(text.value, 0), {})
  BY <1>1, WriteFileWritten
<1>4. /\ r \in Records /\ r # Tag
      /\ \A c \in DOMAIN r : Value(r, c) = Value(mem, c)
  BY <1>1, SavedByNumberFacts
<1>5. /\ s \in Seq(Records) /\ Plain(mem, s)
      /\ \A b \in DataBlocks(mem, f) : \E k \in 1 .. Len(s) : BitCell(b) \in DOMAIN s[k]
  BY <1>1, SavedOldFacts
<1> HIDE DEF r, s
<1>6. PICK new \in Seq(Records) :
        /\ Append(stack, r) \o s = stack \o new
        /\ Plain(mem, new) /\ \A k \in 1 .. Len(new) : new[k] # Tag
        /\ 1 \in 1 .. Len(new) /\ new[1] = r
        /\ \A k \in 1 .. Len(s) : 1 + k \in 1 .. Len(new) /\ new[1 + k] = s[k]
  BY <1>4, <1>5, FirstAndMore
<1>7. ASSUME BlockOf(mem, f) = f PROVE SavesChanges(new)
  <2>1. ASSUME NEW b \in DataBlocks(mem, f)
        PROVE  \E k \in 1 .. Len(new) : BitCell(b) \in DOMAIN new[k]
    <3>1. PICK k \in 1 .. Len(s) : BitCell(b) \in DOMAIN s[k]
      BY <1>5
    <3>2. 1 + k \in 1 .. Len(new) /\ new[1 + k] = s[k]
      BY <1>6
    <3>3. QED
      BY <3>1, <3>2
  <2>2. \A c \in Cells : \/ Value(mem', c) = Value(mem, c)
                         \/ \E k \in 1 .. Len(new) : c \in DOMAIN new[k]
    BY <1>1, <1>3, <1>6, <1>7, <2>1, WrittenSaved DEF r
  <2>3. QED
    BY <1>2, <1>6, <2>2 DEF SavesChanges
<1>8. QED
  BY <1>2, <1>6, <1>7 DEF r

LEMMA WriteFileStep ==
  ASSUME Typed, Reliable, Sound, undefined \in BOOLEAN, misled \in BOOLEAN,
         NEW f \in Files, NEW text \in Texts, WriteFile(f, text)
  PROVE  IInv'
<1> DEFINE v == Data(text.value, 0)
<1>1. IsMemory(mem)
  BY DEF Typed
<1>2. Room /\ undefined' = undefined /\ misled' = misled
  BY DEF WriteFile
<1>3. Written(mem, mem', f, 1, v, {})
  BY <1>1, WriteFileWritten
<1>4. v \in BlockValues /\ v.kind = "data"
  <2>1. 0 \in Nat /\ 0 <= text.blocks
    BY TextsAssumption
  <2>2. QED
    BY <2>1, DataFacts
<1> HIDE DEF v
<1>5. Good(mem')
  <2>1. TypeTrue(1, v, {}) /\ MayTake(mem, f, {}) /\ 1 \in {1, 2}
    BY <1>4 DEF TypeTrue, MayTake
  <2>2. f \in Alloc(mem) /\ FileType(mem, f) \in {1, 2}
    BY <1>1, FilesFacts
  <2>3. QED
    BY <1>3, <1>4, <2>1, <2>2, WrittenGood DEF Reliable
<1>6. PICK new \in Seq(Records) :
           /\ stack' = stack \o new
           /\ Plain(mem, new)
           /\ 1 \in 1 .. Len(new) /\ new[1] = SavedByNumber(f)
           /\ BlockOf(mem, f) = f => SavesChanges(new)
  BY WriteFileRecords
<1>7. CASE BlockOf(mem, f) = f
  <2>1. SavesChanges(new) /\ undefined' \in BOOLEAN /\ misled' \in BOOLEAN
    BY <1>2, <1>6, <1>7
  <2>2. QED
    BY <1>2, <1>5, <2>1, SavesChangesStep
<1>8. CASE BlockOf(mem, f) # f
  <2>1. Mistaken(new[1])
    BY <1>1, <1>6, <1>8, SavedByNumberFacts
  <2>2. Typed'
    BY <1>2, <1>5, <1>6, OperationTyped, WithinBound DEF Good
  <2>3. Reliable'
    <3>1. \A k \in 1 .. Len(new) : new[k] # Tag
      BY <1>6 DEF Plain
    <3>2. QED
      BY <1>5, <1>6, <2>1, <3>1, OperationReliable
  <2>4. QED
    BY <1>2, <2>2, <2>3 DEF IInv, Sound
<1>9. QED
  BY <1>7, <1>8

(* The records of the blocks a large text takes.                           *)
MarkedEach(m, f, n, new) ==
  [k \in 1 .. n |-> [Saved(m, new[k], f) EXCEPT ![BitCell(new[k])] = 1]]

LEMMA MarkedFacts ==
  ASSUME NEW m, IsMemory(m), NEW f \in Inodes, NEW n \in Nat, NEW new,
         \A k \in 1 .. n : new[k] \in Blocks
  PROVE  LET s == MarkedEach(m, f, n, new)
         IN  /\ s \in Seq(Records) /\ Len(s) = n
             /\ \A k \in 1 .. n :
                  /\ s[k] # Tag
                  /\ DOMAIN s[k] = {InodeCell(f), BlockCell(new[k]), BitCell(new[k])}
                  /\ SavedIn(s, k, BitCell(new[k])) = 1
                  /\ SavedIn(s, k, BlockCell(new[k])) = Value(m, BlockCell(new[k]))
<1> DEFINE s == MarkedEach(m, f, n, new)
<1>1. ASSUME NEW k \in 1 .. n, NEW b \in Blocks, b = new[k]
      PROVE  /\ s[k] \in Records /\ s[k] # Tag
             /\ DOMAIN s[k] = {InodeCell(f), BlockCell(b), BitCell(b)}
             /\ s[k][BitCell(b)] = 1
             /\ s[k][BlockCell(b)] = m[BlockCell(b)]
  <2> DEFINE r == Saved(m, b, f)
             t == [r EXCEPT ![BitCell(b)] = 1]
  <2>1. /\ r \in Records
        /\ DOMAIN r = {InodeCell(f), BlockCell(b), BitCell(b)}
        /\ \A c \in DOMAIN r : Value(r, c) = Value(m, c)
    BY SavedFacts
  <2>2. s[k] = t
    BY <1>1 DEF MarkedEach
  <2> HIDE DEF r, s
  <2>3. r = [c \in DOMAIN r |-> r[c]] /\ \A c \in DOMAIN r : Inhabits(r, c)
    BY <2>1, RecordFacts
  <2>4. t = [c \in DOMAIN t |-> t[c]] /\ DOMAIN t = DOMAIN r
    OBVIOUS
  <2>5. \A c \in DOMAIN r : t[c] = IF c = BitCell(b) THEN 1 ELSE r[c]
    BY <2>3
  <2> HIDE DEF t
  <2>6. "block" # "bit" /\ "inode" # "bit"
    OBVIOUS
  <2>7. BitCell(b) # BlockCell(b) /\ DOMAIN r \subseteq Cells
    BY <2>1, <2>6, CellFacts
  <2>8. t[BitCell(b)] = 1 /\ t[BlockCell(b)] = m[BlockCell(b)]
    BY <2>1, <2>5, <2>7 DEF Value
  <2>9. \A c \in DOMAIN t : Inhabits(t, c)
    BY <2>3, <2>4, <2>5, ValuesOfCells DEF Inhabits
  <2>10. t \in Records
    BY <2>4, <2>7, <2>9, RecordFacts
  <2>11. t # Tag
    BY <2>1, <2>4, TagFacts
  <2>12. QED
    BY <2>1, <2>2, <2>4, <2>8, <2>10, <2>11
<1>2. s = [k \in 1 .. n |-> s[k]]
  BY DEF MarkedEach
<1> HIDE DEF s
<1>3. \A k \in 1 .. n : s[k] \in Records
  BY <1>1
<1>4. s \in [1 .. n -> Records]
  BY <1>2, <1>3
<1>5. s \in Seq(Records) /\ Len(s) = n
  BY <1>4
<1>6. ASSUME NEW k \in 1 .. n
      PROVE  /\ s[k] # Tag
             /\ DOMAIN s[k] = {InodeCell(f), BlockCell(new[k]), BitCell(new[k])}
             /\ SavedIn(s, k, BitCell(new[k])) = 1
             /\ SavedIn(s, k, BlockCell(new[k])) = Value(m, BlockCell(new[k]))
  BY <1>1 DEF SavedIn, Value
<1>7. QED
  BY <1>5, <1>6 DEF s

(* Each block that a large text takes has a record, in which it is used.   *)
TakenRecords(s, f, New) ==
  /\ \A k \in 1 .. Len(s) :
       /\ s[k] # Tag
       /\ \E b \in New :
            /\ DOMAIN s[k] = {InodeCell(f), BlockCell(b), BitCell(b)}
            /\ SavedIn(s, k, BitCell(b)) = 1
            /\ SavedIn(s, k, BlockCell(b)) = Value(mem, BlockCell(b))
  /\ \A b \in New : \E k \in 1 .. Len(s) : /\ BlockCell(b) \in DOMAIN s[k]
                                           /\ BitCell(b) \in DOMAIN s[k]

(* What a large text does to the memory, and what it saves.                *)
LEMMA WriteLargeFileWritten ==
  ASSUME Typed, Good(mem), NEW f \in Files, NEW text \in Texts, WriteLargeFile(f, text)
  PROVE  \E New, v, s :
           /\ v \in BlockValues /\ s \in Seq(Records)
           /\ Written(mem, mem', f, 2, v, New)
           /\ TypeTrue(2, v, New) /\ MayTake(mem, f, New)
           /\ stack' = (Append(stack, SavedByNumber(f)) \o SavedOld(f)) \o s
           /\ TakenRecords(s, f, New)
<1> DEFINE a == BlockOf(mem, f)
           emptied == Emptied(f)
           m == [emptied EXCEPT ![InodeCell(f)].fileType = 2]
           wanted == AtMost(INDEX_SIZE, text.blocks)
           n == AtMost(wanted, Cardinality(FreeBlocks(m)))
           new == LeastOf(FreeBlocks(m), n)
           p == [k \in Pointers |-> IF k < n THEN new[k + 1] ELSE -1]
           index == Index(p)
           New == {new[k] : k \in 1 .. n}
           part(c) == CHOOSE k \in 1 .. n : c = BlockCell(new[k])
           s == MarkedEach(m, f, n, new)
<1>1. IsMemory(mem) /\ f \in Inodes /\ a \in Blocks /\ f \in Alloc(mem)
  BY FilesFacts DEF Typed
<1>2. /\ mem' = [c \in Cells |->
                   CASE c = BlockCell(a) -> index
                     [] c \in {BlockCell(b) : b \in Range(new)} -> Data(text.value, part(c))
                     [] c \in {BitCell(b) : b \in Range(new)} -> 1
                     [] OTHER -> m[c]]
      /\ stack' = (Append(stack, SavedByNumber(f)) \o SavedOld(f)) \o s
  BY DEF WriteLargeFile, MarkedEach
<1>3. /\ emptied = [c \in Cells |-> emptied[c]]
      /\ emptied[InodeCell(f)] = [blockID |-> a, fileType |-> 1]
      /\ \A i \in Inodes : i # f => emptied[InodeCell(i)] = mem[InodeCell(i)]
      /\ \A b \in Blocks : b # a => emptied[BlockCell(b)] = mem[BlockCell(b)]
      /\ \A b \in Blocks : emptied[BitCell(b)] = IF b \in DataBlocks(mem, f) THEN 0
                                                 ELSE mem[BitCell(b)]
      /\ emptied[BlockCell(a)] \in BlockValues
  BY <1>1, EmptiedFacts
<1>a. "inode" # "block" /\ "inode" # "bit" /\ "block" # "bit"
  OBVIOUS
<1>4. /\ m = [c \in Cells |-> m[c]]
      /\ m[InodeCell(f)] = [blockID |-> a, fileType |-> 2]
      /\ \A i \in Inodes : i # f => m[InodeCell(i)] = mem[InodeCell(i)]
      /\ \A b \in Blocks : b # a => m[BlockCell(b)] = mem[BlockCell(b)]
      /\ \A b \in Blocks : m[BitCell(b)] = IF b \in DataBlocks(mem, f) THEN 0
                                           ELSE mem[BitCell(b)]
      /\ m[BlockCell(a)] \in BlockValues
  <2> HIDE DEF emptied
  <2>1. InodeCell(f) \in Cells
    BY <1>1, CellFacts
  <2>2. \A c \in Cells : m[c] = IF c = InodeCell(f) THEN [emptied[c] EXCEPT !.fileType = 2]
                                                    ELSE emptied[c]
    BY <1>3
  <2>3. [emptied[InodeCell(f)] EXCEPT !.fileType = 2] = [blockID |-> a, fileType |-> 2]
    BY <1>3
  <2>4. m = [c \in Cells |-> m[c]]
    BY <1>3
  <2> HIDE DEF m
  <2>5. /\ \A i \in Inodes : InodeCell(i) \in Cells
        /\ \A i \in Inodes : i # f => InodeCell(i) # InodeCell(f)
        /\ \A b \in Blocks : BlockCell(b) \in Cells /\ BlockCell(b) # InodeCell(f)
        /\ \A b \in Blocks : BitCell(b) \in Cells /\ BitCell(b) # InodeCell(f)
    BY <1>1, <1>a, CellFacts
  <2>6. m[InodeCell(f)] = [blockID |-> a, fileType |-> 2]
    BY <2>1, <2>2, <2>3
  <2>7. QED
    BY <1>1, <1>3, <2>2, <2>4, <2>5, <2>6
<1> HIDE DEF emptied
<1>5. /\ n \in Nat /\ n <= text.blocks
      /\ n \in 0 .. Cardinality(FreeBlocks(m))
  <2>1. text.blocks \in Nat /\ INDEX_SIZE \in Nat
    BY TextsAssumption, SizesAssumption
  <2>2. wanted \in Nat /\ wanted <= text.blocks
    BY <2>1 DEF AtMost
  <2> HIDE DEF wanted, m
  <2>3. Cardinality(FreeBlocks(m)) \in Nat
    <3>1. FreeBlocks(m) \in SUBSET Blocks
      BY DEF FreeBlocks
    <3>2. IsFiniteSet(Blocks)
      <4>1. 0 \in Int /\ BLOCK_NUMBER - 1 \in Int
        BY SizesAssumption
      <4>2. QED
        BY <4>1, FS_Interval DEF Blocks
    <3>3. QED
      BY <3>1, <3>2, FS_Subset, FS_CardinalityType
  <2>4. QED
    BY <2>1, <2>2, <2>3 DEF AtMost
<1> HIDE DEF m, n
<1>6. /\ \A k \in 1 .. n : new[k] \in FreeBlocks(m)
      /\ DOMAIN new = 1 .. n
  BY <1>5, FreeFacts
<1> HIDE DEF new
<1>7. Range(new) = New
  BY <1>6 DEF Range
<1>8. \A b \in New : b \in Blocks /\ m[BitCell(b)] = 0
  BY <1>6 DEF FreeBlocks
<1>9. MayTake(mem, f, New)
  BY <1>4, <1>8 DEF MayTake, Bit
<1>10. a \notin New
  <2>1. Owns(mem, f, a) /\ Bit(mem, a) = 1 /\ a \notin DataBlocks(mem, f)
    BY <1>1 DEF Good, BlocksApart, Owns
  <2>2. QED
    BY <1>9, <2>1 DEF MayTake
<1>11. \A k \in 1 .. n : new[k] \in Blocks
  BY <1>6 DEF FreeBlocks
<1>12. /\ index \in BlockValues /\ index.kind = "index"
       /\ \A b : b \in Range(index.blockPointers) \ {-1} => \E k \in 1 .. n : b = new[k]
  BY <1>5, <1>11, IndexFacts
<1>13. TypeTrue(2, index, New)
  BY <1>12 DEF TypeTrue
<1> HIDE DEF index
<1> DEFINE BC == {BlockCell(b) : b \in New}
           UC == {BitCell(b) : b \in New}
<1>14. mem' = [c \in Cells |->
                 CASE c = BlockCell(a) -> index
                   [] c \in BC -> Data(text.value, part(c))
                   [] c \in UC -> 1
                   [] OTHER -> m[c]]
  BY <1>2, <1>7
<1>15. \A b \in New : Data(text.value, part(BlockCell(b))) \in BlockValues
  <2>1. ASSUME NEW b \in New
        PROVE  Data(text.value, part(BlockCell(b))) \in BlockValues
    <3>1. \E k \in 1 .. n : BlockCell(b) = BlockCell(new[k])
      OBVIOUS
    <3>2. part(BlockCell(b)) \in 1 .. n
      BY <3>1
    <3> HIDE DEF part
    <3>3. part(BlockCell(b)) \in Nat /\ part(BlockCell(b)) <= text.blocks
      BY <1>5, <3>2, TextsAssumption
    <3>4. QED
      BY <3>3, DataFacts
  <2>2. QED
    BY <2>1
<1> HIDE DEF part, New
<1>16. /\ \A i \in Inodes : /\ InodeCell(i) \in Cells /\ InodeCell(i) # BlockCell(a)
                            /\ InodeCell(i) \notin BC /\ InodeCell(i) \notin UC
       /\ \A b \in Blocks : /\ BitCell(b) \in Cells /\ BitCell(b) # BlockCell(a)
                            /\ BitCell(b) \notin BC
                            /\ BitCell(b) \in UC <=> b \in New
       /\ \A b \in Blocks : /\ BlockCell(b) \in Cells
                            /\ b # a => BlockCell(b) # BlockCell(a)
                            /\ BlockCell(b) \in BC <=> b \in New
                            /\ BlockCell(b) \notin UC
  <2>1. ASSUME NEW i \in Inodes
        PROVE  /\ InodeCell(i) \in Cells /\ InodeCell(i) # BlockCell(a)
               /\ InodeCell(i) \notin BC /\ InodeCell(i) \notin UC
    BY <1>1, <1>8, <1>a, CellFacts
  <2>2. ASSUME NEW b \in Blocks
        PROVE  /\ BitCell(b) \in Cells /\ BitCell(b) # BlockCell(a)
               /\ BitCell(b) \notin BC
               /\ BitCell(b) \in UC <=> b \in New
    BY <1>1, <1>8, <1>a, CellFacts
  <2>3. ASSUME NEW b \in Blocks
        PROVE  /\ BlockCell(b) \in Cells
               /\ b # a => BlockCell(b) # BlockCell(a)
               /\ BlockCell(b) \in BC <=> b \in New
               /\ BlockCell(b) \notin UC
    BY <1>1, <1>8, <1>a, CellFacts
  <2>4. QED
    BY <2>1, <2>2, <2>3
<1> HIDE DEF BC, UC
<1>17. Written(mem, mem', f, 2, index, New)
  <2>1. mem' = [c \in Cells |-> mem'[c]]
    BY <1>14
  <2>2. \A i \in Inodes : mem'[InodeCell(i)] = m[InodeCell(i)]
    BY <1>14, <1>16
  <2>3. mem'[BlockCell(a)] = index
    BY <1>1, <1>10, <1>14, <1>16
  <2>4. \A b \in Blocks : b # a => \/ mem'[BlockCell(b)] = m[BlockCell(b)]
                                   \/ b \in New /\ mem'[BlockCell(b)] \in BlockValues
    BY <1>14, <1>15, <1>16
  <2>5. \A b \in Blocks : mem'[BitCell(b)] = IF b \in New THEN 1 ELSE m[BitCell(b)]
    BY <1>14, <1>16
  <2>6. /\ mem'[InodeCell(f)] = [blockID |-> a, fileType |-> 2]
        /\ \A i \in Inodes : i # f => mem'[InodeCell(i)] = mem[InodeCell(i)]
    BY <1>1, <1>4, <2>2
  <2>7. \A b \in Blocks : b # a => \/ mem'[BlockCell(b)] = mem[BlockCell(b)]
                                   \/ b \in New /\ mem'[BlockCell(b)] \in BlockValues
    BY <1>4, <2>4
  <2>8. \A b \in Blocks : mem'[BitCell(b)] = IF b \in New THEN 1
                                             ELSE IF b \in DataBlocks(mem, f) THEN 0
                                             ELSE mem[BitCell(b)]
    BY <1>4, <2>5
  <2>9. QED
    BY <2>1, <2>3, <2>6, <2>7, <2>8 DEF Written, a
<1>18. IsMemory(m)
  <2>1. [blockID |-> a, fileType |-> 2] \in InodeValues
    BY <1>1 DEF InodeValues
  <2>2. \A i \in Inodes : m[InodeCell(i)] \in InodeValues
    BY <1>1, <1>4, <2>1 DEF IsMemory
  <2>3. \A b \in Blocks : m[BlockCell(b)] \in BlockValues
    BY <1>1, <1>4 DEF IsMemory
  <2>4. \A b \in Blocks : m[BitCell(b)] \in {0, 1}
    BY <1>1, <1>4 DEF IsMemory
  <2>5. QED
    BY <1>4, <2>2, <2>3, <2>4 DEF IsMemory
<1>19. /\ s \in Seq(Records) /\ Len(s) = n
       /\ \A k \in 1 .. n :
            /\ s[k] # Tag
            /\ DOMAIN s[k] = {InodeCell(f), BlockCell(new[k]), BitCell(new[k])}
            /\ SavedIn(s, k, BitCell(new[k])) = 1
            /\ SavedIn(s, k, BlockCell(new[k])) = Value(m, BlockCell(new[k]))
  BY <1>1, <1>5, <1>11, <1>18, MarkedFacts
<1> HIDE DEF s
<1>20. ASSUME NEW k \in 1 .. Len(s)
       PROVE  /\ s[k] # Tag
              /\ \E b \in New :
                   /\ DOMAIN s[k] = {InodeCell(f), BlockCell(b), BitCell(b)}
                   /\ SavedIn(s, k, BitCell(b)) = 1
                   /\ SavedIn(s, k, BlockCell(b)) = Value(mem, BlockCell(b))
  <2> DEFINE b == new[k]
  <2>1. b \in New /\ b \in Blocks
    BY <1>8, <1>19 DEF New
  <2>2. /\ s[k] # Tag
        /\ DOMAIN s[k] = {InodeCell(f), BlockCell(b), BitCell(b)}
        /\ SavedIn(s, k, BitCell(b)) = 1
        /\ SavedIn(s, k, BlockCell(b)) = Value(m, BlockCell(b))
    BY <1>19
  <2> HIDE DEF b
  <2>3. Value(m, BlockCell(b)) = Value(mem, BlockCell(b))
    BY <1>4, <1>10, <2>1 DEF Value
  <2>4. QED
    BY <2>1, <2>2, <2>3
<1>21. ASSUME NEW b \in New
       PROVE  \E k \in 1 .. Len(s) : BlockCell(b) \in DOMAIN s[k] /\ BitCell(b) \in DOMAIN s[k]
  <2>1. PICK k \in 1 .. n : b = new[k]
    BY DEF New
  <2>2. BlockCell(b) \in DOMAIN s[k] /\ BitCell(b) \in DOMAIN s[k]
    BY <1>19, <2>1
  <2>3. QED
    BY <1>19, <2>2
<1>22. TakenRecords(s, f, New)
  BY <1>20, <1>21 DEF TakenRecords
<1>23. s \in Seq(Records) /\ index \in BlockValues
  BY <1>12, <1>19
<1>24. stack' = (Append(stack, SavedByNumber(f)) \o SavedOld(f)) \o s
  BY <1>2
<1>25. QED
  <2> HIDE DEF a
  <2>1. QED
    BY <1>9, <1>13, <1>17, <1>22, <1>23, <1>24

LEMMA WriteLargeFileStep ==
  ASSUME Typed, Reliable, Sound, undefined \in BOOLEAN, misled \in BOOLEAN,
         NEW f \in Files, NEW text \in Texts, WriteLargeFile(f, text)
  PROVE  IInv'
<1> DEFINE r == SavedByNumber(f)
           old == SavedOld(f)
<1>1. IsMemory(mem)
  BY DEF Typed
<1>2. Room /\ undefined' = undefined /\ misled' = misled
  BY DEF WriteLargeFile
<1>3. PICK New, v, s :
        /\ v \in BlockValues /\ s \in Seq(Records)
        /\ Written(mem, mem', f, 2, v, New)
        /\ TypeTrue(2, v, New) /\ MayTake(mem, f, New)
        /\ stack' = (Append(stack, r) \o old) \o s
        /\ TakenRecords(s, f, New)
  BY WriteLargeFileWritten DEF Reliable
<1>4. /\ r \in Records /\ r # Tag
      /\ DOMAIN r = {InodeCell(f), BlockCell(f), BitCell(f)}
      /\ \A c \in DOMAIN r : Value(r, c) = Value(mem, c)
      /\ Mistaken(r) <=> BlockOf(mem, f) # f
  BY <1>1, SavedByNumberFacts
<1>5. /\ old \in Seq(Records) /\ Plain(mem, old)
      /\ \A b \in DataBlocks(mem, f) : \E k \in 1 .. Len(old) : BitCell(b) \in DOMAIN old[k]
  BY <1>1, SavedOldFacts
<1> HIDE DEF r, old
<1>6. PICK first \in Seq(Records) :
        /\ Append(stack, r) \o old = stack \o first
        /\ Plain(mem, first) /\ \A k \in 1 .. Len(first) : first[k] # Tag
        /\ 1 \in 1 .. Len(first) /\ first[1] = r
        /\ \A k \in 1 .. Len(old) : 1 + k \in 1 .. Len(first) /\ first[1 + k] = old[k]
  BY <1>4, <1>5, FirstAndMore
<1> DEFINE new == first \o s
<1>7. /\ new \in Seq(Records)
      /\ Len(first) \in Nat /\ Len(s) \in Nat /\ Len(new) = Len(first) + Len(s)
      /\ \A k \in 1 .. Len(first) : k \in 1 .. Len(new) /\ new[k] = first[k]
      /\ \A k \in 1 .. Len(s) : /\ Len(first) + k \in 1 .. Len(new)
                                /\ new[Len(first) + k] = s[k]
      /\ \A k \in 1 .. Len(new) : \/ k \in 1 .. Len(first)
                                  \/ \E j \in 1 .. Len(s) : k = Len(first) + j
  BY <1>3, Joined
<1>8. stack' = stack \o new
  <2>1. (stack \o first) \o s = stack \o (first \o s)
    BY <1>3, ConcatAssociative DEF Typed
  <2>2. QED
    BY <1>3, <1>6, <2>1
<1> HIDE DEF new
<1>9. \A k \in 1 .. Len(new) : new[k] # Tag
  <2>1. \A k \in 1 .. Len(s) : s[k] # Tag
    BY <1>3 DEF TakenRecords
  <2>2. ASSUME NEW k \in 1 .. Len(new) PROVE new[k] # Tag
    <3>1. CASE k \in 1 .. Len(first)
      BY <1>6, <1>7, <3>1
    <3>2. CASE \E j \in 1 .. Len(s) : k = Len(first) + j
      BY <1>7, <2>1, <3>2
    <3>3. QED
      BY <1>7, <3>1, <3>2
  <2>3. QED
    BY <2>2
<1>10. 1 \in 1 .. Len(new) /\ new[1] = r
  BY <1>6, <1>7
<1>11. Good(mem')
  <2>1. f \in Alloc(mem) /\ FileType(mem, f) \in {1, 2} /\ 2 \in {1, 2}
    BY <1>1, FilesFacts
  <2>2. QED
    BY <1>3, <2>1, WrittenGood DEF Reliable
<1>12. ASSUME BlockOf(mem, f) = f
       PROVE  Covers(mem, mem', new, BitCells)
  <2>1. ASSUME NEW b \in DataBlocks(mem, f)
        PROVE  \E k \in 1 .. Len(new) : BitCell(b) \in DOMAIN new[k]
    <3>1. PICK k \in 1 .. Len(old) : BitCell(b) \in DOMAIN old[k]
      BY <1>5
    <3>2. 1 + k \in 1 .. Len(first) /\ first[1 + k] = old[k]
      BY <1>6
    <3>3. 1 + k \in 1 .. Len(new) /\ new[1 + k] = old[k]
      BY <1>7, <3>2
    <3>4. QED
      BY <3>1, <3>3
  <2>2. ASSUME NEW b \in New
        PROVE  \E k \in 1 .. Len(new) : BlockCell(b) \in DOMAIN new[k] /\ BitCell(b) \in DOMAIN new[k]
    <3>1. PICK k \in 1 .. Len(s) : BlockCell(b) \in DOMAIN s[k] /\ BitCell(b) \in DOMAIN s[k]
      BY <1>3 DEF TakenRecords
    <3>2. Len(first) + k \in 1 .. Len(new) /\ new[Len(first) + k] = s[k]
      BY <1>7
    <3>3. QED
      BY <3>1, <3>2
  <2>3. \A c \in Cells : \/ Value(mem', c) = Value(mem, c)
                         \/ \E k \in 1 .. Len(new) : c \in DOMAIN new[k]
    BY <1>1, <1>3, <1>10, <1>12, <2>1, <2>2, WrittenSaved DEF r
  <2>4. ASSUME NEW k \in 1 .. Len(new), NEW c \in DOMAIN new[k]
        PROVE  \/ SavedIn(new, k, c) = Value(mem, c)
               \/ c \in BitCells /\ SavedIn(new, k, c) = 1
               \/ \E j \in 1 .. k - 1 : c \in DOMAIN new[j]
    <3>1. CASE k \in 1 .. Len(first)
      BY <1>6, <1>7, <2>4, <3>1 DEF Plain, SavedIn
    <3>2. CASE \E j \in 1 .. Len(s) : k = Len(first) + j
      <4>1. PICK j \in 1 .. Len(s) : k = Len(first) + j
        BY <3>2
      <4>2. new[k] = s[j]
        BY <1>7, <4>1
      <4>3. PICK b \in New :
              /\ DOMAIN s[j] = {InodeCell(f), BlockCell(b), BitCell(b)}
              /\ SavedIn(s, j, BitCell(b)) = 1
              /\ SavedIn(s, j, BlockCell(b)) = Value(mem, BlockCell(b))
        BY <1>3 DEF TakenRecords
      <4>4. b \in Blocks
        BY <1>3 DEF MayTake
      <4>5. SavedIn(new, k, c) = SavedIn(s, j, c)
        BY <4>2 DEF SavedIn
      <4>6. CASE c = InodeCell(f)
        <5>1. 1 \in 1 .. k - 1
          BY <1>6, <1>7, <4>1
        <5>2. c \in DOMAIN new[1]
          BY <1>4, <1>10, <4>6
        <5>3. QED
          BY <5>1, <5>2
      <4>7. CASE c = BlockCell(b)
        BY <4>3, <4>5, <4>7
      <4>8. CASE c = BitCell(b)
        BY <4>3, <4>4, <4>5, <4>8 DEF BitCells
      <4>9. QED
        BY <2>4, <4>2, <4>3, <4>6, <4>7, <4>8
    <3>3. QED
      BY <1>7, <3>1, <3>2
  <2>5. QED
    BY <2>3, <2>4 DEF Covers
<1>13. \/ \E k \in 1 .. Len(new) : Mistaken(new[k])
       \/ Covers(mem, mem', new, BitCells)
  BY <1>4, <1>10, <1>12
<1>14. Typed'
  BY <1>2, <1>7, <1>8, <1>11, OperationTyped, WithinBound DEF Good
<1>15. Reliable'
  BY <1>7, <1>8, <1>9, <1>11, <1>13, OperationReliable
<1>16. QED
  BY <1>2, <1>14, <1>15 DEF IInv, Sound

-----------------------------------------------------------------------------
(* Tags and revocation.                                                    *)
LEMMA UndoNothing ==
  ASSUME NEW m, m = [c \in Cells |-> m[c]], NEW s, Len(s) \in Nat
  PROVE  UndoTo(m, s, Len(s)) = m
<1>1. \A c \in Cells : SaversOf(c, s, Len(s)) = {}
  BY DEF SaversOf
<1>2. UndoTo(m, s, Len(s)) = [c \in Cells |-> m[c]]
  BY <1>1 DEF UndoTo
<1>3. QED
  BY <1>2

(* A tag saves nothing.                                                    *)
LEMMA UndoTagged ==
  ASSUME NEW m, NEW s \in Seq(Records), NEW p \in Nat, p <= Len(s)
  PROVE  UndoTo(m, Append(s, Tag), p) = UndoTo(m, s, p)
<1> DEFINE new == <<Tag>>
           u == UndoTo(m, s, p)
<1>1. Append(s, Tag) = s \o new /\ new \in Seq(Records)
  BY TagFacts, AppendIsConcat
<1>2. Covers(m, m, new, {})
  <2>1. \A k \in 1 .. Len(new) : DOMAIN new[k] = {}
    BY TagFacts
  <2>2. QED
    BY <2>1 DEF Covers
<1> HIDE DEF new
<1>3. Raised(u, UndoTo(m, s \o new, p), {})
  BY <1>1, <1>2, UndoMore
<1>4. u = [c \in Cells |-> u[c]]
  BY DEF UndoTo
<1> HIDE DEF u
<1>5. UndoTo(m, s \o new, p) = u
  BY <1>3, <1>4, RaisedNothing
<1>6. QED
  BY <1>1, <1>5 DEF u

LEMMA FrontFacts ==
  ASSUME NEW S, NEW s \in Seq(S), s # <<>>
  PROVE  /\ Len(s) \in Nat \ {0}
         /\ Front(s) \in Seq(S) /\ Len(Front(s)) = Len(s) - 1
         /\ \A k \in 1 .. Len(s) - 1 : Front(s)[k] = s[k]
         /\ s = Append(Front(s), s[Len(s)])
<1>1. Len(s) \in Nat \ {0} /\ \A k \in 1 .. Len(s) : s[k] \in S
  BY EmptySeq, ElementOfSeq
<1> DEFINE n == Len(s)
           t == Front(s)
<1>2. t = SubSeq(s, 1, n - 1)
  BY DEF Front
<1>3. n - 1 \in Int /\ 1 \in Int /\ \A k \in 1 .. n - 1 : s[k] \in S
  BY <1>1
<1> HIDE DEF n
<1>4. /\ t \in Seq(S)
      /\ Len(t) = IF 1 <= n - 1 THEN (n - 1) - 1 + 1 ELSE 0
      /\ \A k \in 1 .. (n - 1) - 1 + 1 : t[k] = s[1 + k - 1]
  BY <1>2, <1>3, SubSeqProperties
<1> HIDE DEF t
<1>5. Len(t) = n - 1 /\ n \in Nat \ {0}
  <2>1. n \in Nat \ {0}
    BY <1>1 DEF n
  <2>2. QED
    BY <1>4, <2>1
<1>6. \A k \in 1 .. n - 1 : t[k] = s[k]
  <2>1. ASSUME NEW k \in 1 .. n - 1
        PROVE  k \in 1 .. (n - 1) - 1 + 1 /\ 1 + k - 1 = k
    BY <1>5
  <2>2. QED
    BY <1>4, <2>1
<1>7. s = Append(t, s[n])
  <2> DEFINE a == Append(t, s[n])
  <2>1. s[n] \in S
    BY <1>1, <1>5 DEF n
  <2>2. /\ a \in Seq(S) /\ Len(a) = Len(t) + 1
        /\ \A k \in 1 .. Len(t) : a[k] = t[k]
        /\ a[Len(t) + 1] = s[n]
    BY <1>4, <2>1, AppendProperties
  <2> HIDE DEF a
  <2>3. Len(a) = Len(s)
    BY <1>5, <2>2 DEF n
  <2>4. ASSUME NEW k \in 1 .. Len(s) PROVE a[k] = s[k]
    <3>1. k = n \/ k \in 1 .. n - 1
      BY <1>5 DEF n
    <3>2. QED
      BY <1>5, <1>6, <2>2, <3>1
  <2>5. QED
    BY <2>2, <2>3, <2>4, SeqEqual DEF a
<1>8. QED
  BY <1>4, <1>5, <1>6, <1>7 DEF n, t

LEMMA PushTagStep ==
  ASSUME Typed, undefined \in BOOLEAN, misled \in BOOLEAN, Sound => Reliable, PushTag
  PROVE  IInv'
<1>1. /\ stack \in Seq(Records) /\ Len(stack) \in Nat /\ IsMemory(mem)
      /\ Len(stack) < MaxRecords
      /\ stack' = Append(stack, Tag) /\ mem' = mem
      /\ undefined' = undefined /\ misled' = misled
  BY LenProperties DEF Typed, PushTag
<1> DEFINE n == Len(stack)
<1>2. /\ stack' \in Seq(Records) /\ Len(stack') = n + 1
      /\ \A k \in 1 .. n : stack'[k] = stack[k]
      /\ stack'[n + 1] = Tag
  BY <1>1, TagFacts, AppendProperties
<1>3. Typed'
  BY <1>1, <1>2, SizesAssumption DEF Typed
<1>4. Tags(stack') \subseteq Tags(stack) \cup {n + 1}
  BY <1>1, <1>2 DEF Tags
<1>5. ASSUME Reliable PROVE Reliable'
  <2>1. ASSUME NEW p \in Tags(stack)
        PROVE  MistakenAbove(p)' \/ Good(UndoTo(mem', stack', p))
    <3>1. p \in Nat /\ p <= n
      BY <1>1, TagsFacts
    <3>2. UndoTo(mem', stack', p) = UndoTo(mem, stack, p)
      BY <1>1, <3>1, UndoTagged
    <3>3. MistakenAbove(p) => MistakenAbove(p)'
      BY <1>1, <1>2, <3>1 DEF MistakenAbove, Mistaken
    <3>4. QED
      BY <1>5, <3>2, <3>3 DEF Reliable
  <2>2. UndoTo(mem', stack', n + 1) = mem
    <3>1. mem = [c \in Cells |-> mem[c]]
      BY <1>1 DEF IsMemory
    <3>2. Len(stack') \in Nat
      BY <1>1, <1>2
    <3>3. QED
      BY <1>1, <1>2, <3>1, <3>2, UndoNothing
  <2>3. Good(mem) /\ Good(mem')
    BY <1>1, <1>5 DEF Reliable
  <2>4. ASSUME NEW p \in Tags(stack')
        PROVE  MistakenAbove(p)' \/ Good(UndoTo(mem', stack', p))
    BY <1>4, <2>1, <2>2, <2>3
  <2>5. QED
    BY <2>3, <2>4 DEF Reliable
<1>6. Sound' <=> Sound
  BY <1>1 DEF Sound
<1>7. QED
  BY <1>1, <1>3, <1>5, <1>6 DEF IInv

(* The tag that revoke goes back to, and what undoing to it and to an      *)
(* earlier tag gives.                                                      *)
LEMMA RevokeFacts ==
  ASSUME Typed, Revoke
  PROVE  \E p \in Tags(stack) :
           /\ p \in Nat /\ p < Len(stack)
           /\ mem' = UndoTo(mem, stack, p)
           /\ stack' = SubSeq(stack, 1, p)
           /\ stack' \in Seq(Records) /\ Len(stack') = p
           /\ \A k \in 1 .. p : stack'[k] = stack[k]
           /\ Tags(stack') = {q \in Tags(stack) : q <= p}
           /\ \A q \in Tags(stack') : UndoTo(mem', stack', q) = UndoTo(mem, stack, q)
           /\ \A q \in Tags(stack) : q <= p \/ q = Len(stack)
           /\ misled' = (misled \/ MistakenAbove(p))
           /\ undefined' = undefined
<1> DEFINE above == Front(stack)
           p == LastTag(above)
           n == Len(stack)
<1>1. stack \in Seq(Records) /\ stack # <<>> /\ stack[n] = Tag
  <2>1. stack \in Seq(Records) /\ stack # <<>> /\ AtTag
    BY DEF Typed, Revoke
  <2>2. Len(stack) > 0
    BY <2>1, FrontFacts
  <2>3. QED
    BY <2>1, <2>2 DEF AtTag
<1>2. /\ mem' = UndoTo(mem, above, p)
      /\ stack' = SubSeq(stack, 1, p)
      /\ misled' = (misled \/ MistakenAbove(p))
      /\ undefined' = undefined
  BY DEF Revoke
<1>3. /\ n \in Nat \ {0}
      /\ above \in Seq(Records) /\ Len(above) = n - 1
      /\ \A k \in 1 .. n - 1 : above[k] = stack[k]
      /\ stack = Append(above, Tag)
  BY <1>1, FrontFacts
<1> HIDE DEF above
<1>4. /\ Tags(above) \subseteq 0 .. n - 1
      /\ p \in Tags(above)
      /\ \A q \in Tags(above) : q <= p
  <2>1. Len(above) \in Nat
    BY <1>3
  <2>2. QED
    BY <1>3, <2>1, TagsFacts
<1> HIDE DEF p, n
<1>5. p \in Nat /\ p < n /\ p <= Len(above)
  BY <1>3, <1>4
<1>6. \A q \in Nat : q \in Tags(stack) <=> q \in Tags(above) \/ q = n
  BY <1>1, <1>3 DEF Tags, n
<1>7. p \in Tags(stack) /\ \A q \in Tags(stack) : q \in Nat /\ (q <= p \/ q = n)
  <2>1. \A q \in Tags(stack) : q \in Nat
    BY <1>3, TagsFacts DEF n
  <2>2. QED
    BY <1>4, <1>5, <1>6, <2>1
<1>8. mem' = UndoTo(mem, stack, p)
  BY <1>2, <1>3, <1>5, UndoTagged
<1>9. /\ stack' \in Seq(Records) /\ Len(stack') = p
      /\ \A k \in 1 .. p : stack'[k] = stack[k]
  <2>1. \A k \in 1 .. p : stack[k] \in Records
    BY <1>1, <1>3, <1>5, ElementOfSeq DEF n
  <2>2. p \in Int /\ 1 \in Int
    BY <1>5
  <2>3. /\ SubSeq(stack, 1, p) \in Seq(Records)
        /\ Len(SubSeq(stack, 1, p)) = IF 1 <= p THEN p - 1 + 1 ELSE 0
        /\ \A i \in 1 .. p - 1 + 1 : SubSeq(stack, 1, p)[i] = stack[1 + i - 1]
    BY <2>1, <2>2, SubSeqProperties
  <2>4. \A k \in 1 .. p : k \in 1 .. p - 1 + 1 /\ 1 + k - 1 = k
    BY <1>5
  <2>5. QED
    BY <1>2, <1>5, <2>3, <2>4
<1>10. Tags(stack') = {q \in Tags(stack) : q <= p}
  BY <1>3, <1>5, <1>9 DEF Tags, n
<1>11. ASSUME NEW q \in Tags(stack')
       PROVE  UndoTo(mem', stack', q) = UndoTo(mem, stack, q)
  <2>1. q \in Nat /\ q <= p /\ p <= Len(stack)
    BY <1>3, <1>5, <1>7, <1>10 DEF n
  <2>2. UndoTo(UndoTo(mem, stack, p), SubSeq(stack, 1, p), q) = UndoTo(mem, stack, q)
    BY <1>1, <1>5, <2>1, UndoPrefix
  <2>3. QED
    BY <1>2, <1>8, <2>2
<1>12. QED
  BY <1>2, <1>5, <1>7, <1>8, <1>9, <1>10, <1>11 DEF n

LEMMA RevokeStep ==
  ASSUME Typed, undefined \in BOOLEAN, misled \in BOOLEAN, Sound => Reliable, Revoke
  PROVE  IInv'
<1>1. PICK p \in Tags(stack) :
           /\ p \in Nat /\ p < Len(stack)
           /\ mem' = UndoTo(mem, stack, p)
           /\ stack' = SubSeq(stack, 1, p)
           /\ stack' \in Seq(Records) /\ Len(stack') = p
           /\ \A k \in 1 .. p : stack'[k] = stack[k]
           /\ Tags(stack') = {q \in Tags(stack) : q <= p}
           /\ \A q \in Tags(stack') : UndoTo(mem', stack', q) = UndoTo(mem, stack, q)
           /\ \A q \in Tags(stack) : q <= p \/ q = Len(stack)
           /\ misled' = (misled \/ MistakenAbove(p))
           /\ undefined' = undefined
  BY RevokeFacts
<1>2. undefined' \in BOOLEAN /\ misled' \in BOOLEAN
  BY <1>1
<1>3. Len(stack) \in Nat /\ Len(stack) <= MaxRecords
  BY LenProperties DEF Typed
<1>4. Typed'
  <2>1. IsMemory(mem')
    BY <1>1, UndoMemory DEF Typed
  <2>2. Len(stack') <= MaxRecords
    BY <1>1, <1>3, SizesAssumption
  <2>3. QED
    BY <1>1, <2>1, <2>2 DEF Typed
<1>5. ASSUME Sound' PROVE Reliable'
  <2>1. Sound /\ ~ MistakenAbove(p)
    BY <1>1, <1>5 DEF Sound
  <2>2. Good(mem')
    BY <1>1, <2>1 DEF Reliable
  <2>3. ASSUME NEW q \in Tags(stack')
        PROVE  MistakenAbove(q)' \/ Good(UndoTo(mem', stack', q))
    <3>1. q \in Tags(stack)
      BY <1>1
    <3>2. CASE Good(UndoTo(mem, stack, q))
      BY <1>1, <3>2
    <3>3. CASE MistakenAbove(q)
      <4>1. PICK k \in q + 1 .. Len(stack) : Mistaken(stack[k])
        BY <3>3 DEF MistakenAbove
      <4>2. q \in Nat /\ k \in Nat /\ q + 1 <= k /\ k <= Len(stack)
        BY <1>1, <1>3, <3>1, TagsFacts
      <4>3. ~ (k > p)
        BY <1>1, <2>1, <4>1, <4>2 DEF MistakenAbove
      <4>4. k \in 1 .. p /\ k \in q + 1 .. Len(stack')
        BY <1>1, <4>2, <4>3
      <4>5. Mistaken(stack'[k])
        BY <1>1, <4>1, <4>4
      <4>6. QED
        BY <4>4, <4>5 DEF MistakenAbove, Mistaken
    <3>4. QED
      BY <2>1, <3>1, <3>2, <3>3 DEF Reliable
  <2>4. QED
    BY <2>2, <2>3 DEF Reliable
<1>6. QED
  BY <1>2, <1>4, <1>5 DEF IInv

LEMMA InitializeSnapshotStep ==
  ASSUME Typed, undefined \in BOOLEAN, misled \in BOOLEAN, Sound => Reliable,
         InitializeSnapshot
  PROVE  IInv'
<1>1. /\ stack' = <<>> /\ mem' = mem /\ undefined' = undefined /\ misled' = misled
      /\ Len(stack') = 0 /\ stack' \in Seq(Records)
  BY DEF InitializeSnapshot
<1>2. Typed'
  BY <1>1, SizesAssumption DEF Typed
<1>3. Tags(stack') = {0}
  BY <1>1 DEF Tags
<1>4. UndoTo(mem', stack', 0) = mem
  <2>1. mem = [c \in Cells |-> mem[c]] /\ Len(<<>>) = 0 /\ 0 \in Nat
    BY DEF Typed, IsMemory
  <2>2. QED
    BY <1>1, <2>1, UndoNothing
<1>5. Reliable => Reliable'
  BY <1>1, <1>3, <1>4 DEF Reliable
<1>6. QED
  BY <1>1, <1>2, <1>5 DEF IInv, Sound

-----------------------------------------------------------------------------
(* The invariant is inductive.                                             *)
LEMMA InitialMemory ==
  ASSUME Init
  PROVE  /\ IsMemory(mem)
         /\ mem[InodeCell(0)] = [blockID |-> 0, fileType |-> 0]
         /\ \A i \in Inodes : i # 0 => mem[InodeCell(i)] = NoInode
         /\ mem[BlockCell(0)] = EmptyDirectory
         /\ mem[BitCell(0)] = 1
         /\ \A b \in Blocks : b # 0 => mem[BitCell(b)] = 0
<1> DEFINE BC == {BlockCell(b) : b \in Blocks \ {0}}
           UC == {BitCell(b) : b \in Blocks \ {0}}
<1>1. mem = [c \in Cells |->
               CASE c = InodeCell(0) -> [blockID |-> 0, fileType |-> 0]
                 [] c = BlockCell(0) -> EmptyDirectory
                 [] c = BitCell(0) -> 1
                 [] c \in 1 .. INODE_NUMBER - 1 -> NoInode
                 [] c \in BC -> Blank
                 [] c \in UC -> 0]
  BY DEF Init
<1>2. 0 \in Inodes /\ 0 \in Blocks
  BY SizesAssumption DEF Inodes, Blocks
<1>3. "inode" # "block" /\ "inode" # "bit" /\ "block" # "bit"
  OBVIOUS
<1>4. \A c \in 1 .. INODE_NUMBER - 1 : c \in Inodes /\ Kind(c) = "inode"
  <2>1. \A c \in 1 .. INODE_NUMBER - 1 : c \in Inodes /\ InodeCell(c) = c
    BY SizesAssumption DEF Inodes, InodeCell
  <2>2. QED
    BY <2>1, CellFacts
<1>5. /\ \A c \in BC : Kind(c) = "block"
      /\ \A c \in UC : Kind(c) = "bit"
      /\ BlockCell(0) \notin BC /\ BitCell(0) \notin UC
      /\ \A b \in Blocks : b # 0 => BlockCell(b) \in BC /\ BitCell(b) \in UC
      /\ Kind(InodeCell(0)) = "inode" /\ Kind(BlockCell(0)) = "block"
      /\ Kind(BitCell(0)) = "bit"
  BY <1>2, CellFacts
<1>6. /\ InodeCell(0) \in Cells /\ BlockCell(0) \in Cells /\ BitCell(0) \in Cells
      /\ InodeCell(0) \notin 1 .. INODE_NUMBER - 1
      /\ \A i \in Inodes : i # 0 => InodeCell(i) \in 1 .. INODE_NUMBER - 1
  <2>1. \A i \in Inodes : i # 0 => InodeCell(i) \in 1 .. INODE_NUMBER - 1
    BY SizesAssumption DEF Inodes, InodeCell
  <2>2. InodeCell(0) \notin 1 .. INODE_NUMBER - 1
    BY DEF InodeCell
  <2>3. QED
    BY <1>2, <2>1, <2>2, CellFacts
<1> HIDE DEF BC, UC
<1>7. mem[InodeCell(0)] = [blockID |-> 0, fileType |-> 0]
  BY <1>1, <1>3, <1>5, <1>6
<1>8. mem[BlockCell(0)] = EmptyDirectory
  BY <1>1, <1>3, <1>4, <1>5, <1>6
<1>9. mem[BitCell(0)] = 1
  BY <1>1, <1>3, <1>4, <1>5, <1>6
<1>10. ASSUME NEW i \in Inodes, i # 0 PROVE mem[InodeCell(i)] = NoInode
  <2>1. /\ InodeCell(i) \in Cells /\ InodeCell(i) \in 1 .. INODE_NUMBER - 1
        /\ InodeCell(i) # InodeCell(0) /\ InodeCell(i) # BlockCell(0)
        /\ InodeCell(i) # BitCell(0) /\ InodeCell(i) \notin BC /\ InodeCell(i) \notin UC
    BY <1>2, <1>3, <1>5, <1>6, <1>10, CellFacts
  <2>2. QED
    BY <1>1, <2>1
<1>11. ASSUME NEW b \in Blocks, b # 0 PROVE mem[BlockCell(b)] = Blank
  <2>1. /\ BlockCell(b) \in Cells /\ BlockCell(b) \in BC
        /\ BlockCell(b) # InodeCell(0) /\ BlockCell(b) # BlockCell(0)
        /\ BlockCell(b) # BitCell(0) /\ BlockCell(b) \notin 1 .. INODE_NUMBER - 1
        /\ BlockCell(b) \notin UC
    BY <1>2, <1>3, <1>4, <1>5, <1>11, CellFacts
  <2>2. QED
    BY <1>1, <2>1
<1>12. ASSUME NEW b \in Blocks, b # 0 PROVE mem[BitCell(b)] = 0
  <2>1. /\ BitCell(b) \in Cells /\ BitCell(b) \in UC
        /\ BitCell(b) # InodeCell(0) /\ BitCell(b) # BlockCell(0)
        /\ BitCell(b) # BitCell(0) /\ BitCell(b) \notin 1 .. INODE_NUMBER - 1
        /\ BitCell(b) \notin BC
    BY <1>2, <1>3, <1>4, <1>5, <1>12, CellFacts
  <2>2. QED
    BY <1>1, <2>1
<1>13. IsMemory(mem)
  <2>1. mem = [c \in Cells |-> mem[c]]
    <3> DEFINE value(c) == CASE c = InodeCell(0) -> [blockID |-> 0, fileType |-> 0]
                             [] c = BlockCell(0) -> EmptyDirectory
                             [] c = BitCell(0) -> 1
                             [] c \in 1 .. INODE_NUMBER - 1 -> NoInode
                             [] c \in BC -> Blank
                             [] c \in UC -> 0
    <3>1. mem = [c \in Cells |-> value(c)]
      BY <1>1
    <3> HIDE DEF value
    <3>2. QED
      BY <3>1
  <2>2. \A i \in Inodes : mem[InodeCell(i)] \in InodeValues
    BY <1>2, <1>7, <1>10 DEF InodeValues
  <2>3. \A b \in Blocks : mem[BlockCell(b)] \in BlockValues
    BY <1>8, <1>11, EmptyDirectoryFacts, BlankFacts
  <2>4. \A b \in Blocks : mem[BitCell(b)] \in {0, 1}
    BY <1>9, <1>12
  <2>5. QED
    BY <2>1, <2>2, <2>3, <2>4 DEF IsMemory
<1>14. QED
  BY <1>7, <1>8, <1>9, <1>10, <1>12, <1>13

LEMMA InitialGood ==
  ASSUME Init
  PROVE  Good(mem)
<1>1. /\ IsMemory(mem)
      /\ mem[InodeCell(0)] = [blockID |-> 0, fileType |-> 0]
      /\ \A i \in Inodes : i # 0 => mem[InodeCell(i)] = NoInode
      /\ mem[BlockCell(0)] = EmptyDirectory
      /\ mem[BitCell(0)] = 1
  BY InitialMemory
<1>2. BlockOf(mem, 0) = 0 /\ FileType(mem, 0) = 0 /\ Content(mem, 0) = EmptyDirectory
  BY <1>1 DEF BlockOf, FileType, Content
<1>3. 0 \in Inodes /\ -1 # 0
  BY SizesAssumption DEF Inodes
<1>4. Alloc(mem) = {0}
  BY <1>1, <1>2, <1>3 DEF Alloc, BlockOf, NoInode
<1>5. KindsTrue(mem)
  BY <1>2, <1>4, EmptyDirectoryFacts DEF KindsTrue
<1>6. DataBlocks(mem, 0) = {}
  BY <1>2 DEF DataBlocks, IsIndexed
<1>7. BlocksApart(mem)
  BY <1>1, <1>2, <1>4, <1>6 DEF BlocksApart, Owns, Bit
<1>8. \A d, e, k : ~ Link(mem, d, e, k)
  <2>1. \A d \in Inodes : IsDirectory(mem, d) => d = 0
    BY <1>1, <1>4, DirectoryFacts
  <2>2. QED
    BY <1>2, <2>1, EmptyDirectoryFacts DEF Link
<1>9. Tree(mem)
  BY <1>1, <1>2, <1>3, <1>4, <1>8, BelowFacts DEF Tree
<1>10. QED
  BY <1>1, <1>5, <1>7, <1>9 DEF Good

LEMMA InitIInv == Init => IInv
<1>1. SUFFICES ASSUME Init PROVE IInv
  OBVIOUS
<1>2. /\ stack = <<>> /\ undefined = FALSE /\ misled = FALSE
      /\ Good(mem) /\ IsMemory(mem)
  <2>1. stack = <<>> /\ undefined = FALSE /\ misled = FALSE
    BY <1>1 DEF Init
  <2>2. Good(mem)
    BY <1>1, InitialGood
  <2>3. QED
    BY <2>1, <2>2 DEF Good
<1>3. Len(stack) = 0 /\ stack \in Seq(Records) /\ Tags(stack) = {0}
  BY <1>2 DEF Tags
<1>4. Typed
  BY <1>2, <1>3, SizesAssumption DEF Typed
<1>5. UndoTo(mem, stack, 0) = mem
  <2>1. mem = [c \in Cells |-> mem[c]] /\ Len(stack) \in Nat
    BY <1>2, <1>3 DEF IsMemory
  <2>2. QED
    BY <1>3, <2>1, UndoNothing
<1>6. Reliable
  BY <1>2, <1>3, <1>5 DEF Reliable
<1>7. QED
  BY <1>2, <1>4, <1>6 DEF IInv

(* Once a mistaken record has been restored nothing is claimed.            *)
LEMMA MisledStays ==
  ASSUME undefined \in BOOLEAN, misled, misled \in BOOLEAN, Next
  PROVE  IInv'
<1>1. undefined' \in BOOLEAN /\ misled' = TRUE
  BY DEF Next, Create, CreateWithoutSpace, CreateInFullDirectory, CreateOverEntry,
         DeleteDirectory, WriteFile, WriteLargeFile, WriteLostFile, PushTag, Revoke,
         InitializeSnapshot
<1>2. QED
  BY <1>1 DEF IInv, Sound

LEMMA NextIInv == IInv /\ [Next]_vars => IInv'
<1>1. SUFFICES ASSUME IInv, [Next]_vars PROVE IInv'
  OBVIOUS
<1>2. undefined \in BOOLEAN /\ misled \in BOOLEAN
  BY <1>1 DEF IInv
<1>3. CASE UNCHANGED vars
  <2>1. mem' = mem /\ stack' = stack /\ undefined' = undefined /\ misled' = misled
    BY <1>3 DEF vars
  <2>2. Typed => Typed'
    BY <2>1 DEF Typed
  <2>3. Reliable => Reliable'
    BY <2>1 DEF Reliable, MistakenAbove, Mistaken
  <2>4. QED
    BY <1>1, <2>1, <2>2, <2>3 DEF IInv, Sound
<1>4. CASE misled /\ Next
  BY <1>2, <1>4, MisledStays
<1>5. CASE ~ misled /\ Next
  <2>1. Typed /\ (Sound => Reliable)
    BY <1>1, <1>5 DEF IInv
  <2>2. ~ undefined => Sound /\ Reliable
    BY <1>5, <2>1 DEF Sound
  <2>3. ASSUME NEW d \in Directories, NEW name \in Names, NEW type \in {0, 1},
               Create(d, name, type)
        PROVE  IInv'
    BY <1>2, <2>1, <2>2, <2>3, CreateStep DEF Create, MayCreate
  <2>4. ASSUME NEW d \in Directories, NEW name \in Names, CreateWithoutSpace(d, name)
        PROVE  IInv'
    BY <1>2, <2>1, <2>2, <2>4, CreateWithoutSpaceStep DEF CreateWithoutSpace, MayCreate
  <2>5. ASSUME NEW d \in Directories, NEW name \in Names, CreateInFullDirectory(d, name)
        PROVE  IInv'
    BY <1>2, <2>1, <2>2, <2>5, CreateInFullDirectoryStep DEF CreateInFullDirectory, MayCreate
  <2>6. ASSUME NEW d \in Directories, NEW name \in Names, CreateOverEntry(d, name)
        PROVE  IInv'
    BY <1>2, <2>1, <2>2, <2>6, CreateOverEntryStep DEF CreateOverEntry, MayCreate
  <2>7. ASSUME NEW d \in Directories, NEW name \in Names, DeleteDirectory(d, name)
        PROVE  IInv'
    BY <1>2, <2>1, <2>2, <2>7, DeleteDirectoryStep DEF DeleteDirectory
  <2>8. ASSUME NEW f \in Files, NEW text \in Texts, WriteFile(f, text)
        PROVE  IInv'
    BY <1>2, <2>1, <2>2, <2>8, WriteFileStep DEF WriteFile
  <2>9. ASSUME NEW f \in Files, NEW text \in Texts, WriteLargeFile(f, text)
        PROVE  IInv'
    BY <1>2, <2>1, <2>2, <2>9, WriteLargeFileStep DEF WriteLargeFile
  <2>10. ASSUME NEW f \in Files, WriteLostFile(f)
         PROVE  IInv'
    <3>1. mem' = mem /\ stack' = stack /\ misled' = misled /\ undefined' = TRUE
      BY <2>10 DEF WriteLostFile
    <3>2. QED
      BY <1>2, <2>1, <3>1 DEF IInv, Sound, Typed
  <2>11. CASE PushTag
    BY <1>2, <2>1, <2>11, PushTagStep
  <2>12. CASE Revoke
    BY <1>2, <2>1, <2>12, RevokeStep
  <2>13. CASE InitializeSnapshot
    BY <1>2, <2>1, <2>13, InitializeSnapshotStep
  <2>14. QED
    BY <1>5, <2>3, <2>4, <2>5, <2>6, <2>7, <2>8, <2>9, <2>10, <2>11, <2>12, <2>13 DEF Next
<1>6. QED
  BY <1>1, <1>2, <1>3, <1>4, <1>5

-----------------------------------------------------------------------------
LEMMA Invariant == Spec => []IInv
BY InitIInv, NextIInv, PTL DEF Spec

LEMMA IInvTypeOK == IInv => TypeOK
<1>1. SUFFICES ASSUME IInv PROVE TypeOK
  OBVIOUS
<1>2. undefined \in BOOLEAN /\ misled \in BOOLEAN
  BY <1>1 DEF IInv
<1>3. ASSUME ~ misled
      PROVE  /\ DOMAIN mem = Cells
             /\ \A c \in Cells : mem[c] \in CellValues(c)
             /\ Len(stack) <= MaxRecords
             /\ \A k \in DOMAIN stack :
                  /\ DOMAIN stack[k] \subseteq Cells
                  /\ \A c \in DOMAIN stack[k] : stack[k][c] \in CellValues(c)
  <2>1. IsMemory(mem) /\ stack \in Seq(Records) /\ Len(stack) <= MaxRecords
    BY <1>1, <1>3 DEF IInv, Typed
  <2>2. mem = [c \in Cells |-> mem[c]] /\ \A c \in Cells : mem[c] \in CellValues(c)
    BY <2>1, MemoryCells DEF IsMemory, Inhabits
  <2>3. ASSUME NEW k \in DOMAIN stack
        PROVE  /\ DOMAIN stack[k] \subseteq Cells
               /\ \A c \in DOMAIN stack[k] : stack[k][c] \in CellValues(c)
    <3>1. k \in 1 .. Len(stack)
      BY <2>1
    <3>2. stack[k] \in Records
      BY <2>1, <3>1, ElementOfSeq
    <3>3. QED
      BY <3>2, RecordFacts DEF Inhabits
  <2>4. DOMAIN mem = Cells
    BY <2>2
  <2>5. QED
    BY <2>1, <2>2, <2>3, <2>4
<1>4. QED
  BY <1>2, <1>3 DEF TypeOK

LEMMA IInvTreeOK == IInv => TreeOK
<1>1. SUFFICES ASSUME IInv, Sound
               PROVE  /\ Below(mem, 0) = Allocated
                      /\ \A link \in Links : Target(link) # 0
                      /\ \A link, other \in Links : Target(link) = Target(other) => link = other
  BY DEF TreeOK
<1>2. IsMemory(mem) /\ Tree(mem)
  BY <1>1 DEF IInv, Reliable, Good
<1>3. Allocated = Alloc(mem)
  BY DEF Allocated, Alloc
<1>4. Below(mem, 0) = Allocated
  <2>1. 0 \in Inodes /\ 0 \in Alloc(mem) /\ Alloc(mem) \in SUBSET Inodes
    BY <1>2 DEF Tree, Alloc
  <2>2. Shut(mem, Alloc(mem))
    BY <1>2 DEF Shut, Tree
  <2>3. Below(mem, 0) \subseteq Alloc(mem)
    BY <1>2, <2>1, <2>2, BelowFacts
  <2>4. QED
    BY <1>2, <1>3, <2>3 DEF Tree
<1>5. \A link \in Links : /\ link = <<link[1], link[2]>>
                          /\ Link(mem, link[1], link[2], Target(link))
  <2>1. ASSUME NEW link \in Links
        PROVE  /\ link = <<link[1], link[2]>>
               /\ Link(mem, link[1], link[2], Target(link))
    <3>1. /\ link = <<link[1], link[2]>>
          /\ link[1] \in Inodes /\ link[2] \in Entries
          /\ IsDirectory(mem, link[1]) /\ link[2] \in Used(mem, link[1])
      BY DEF Links, Allocated
    <3>2. QED
      BY <3>1 DEF Link, Target, Used
  <2>2. QED
    BY <2>1
<1>6. \A link \in Links : Target(link) # 0
  BY <1>2, <1>5 DEF Tree
<1>7. ASSUME NEW link \in Links, NEW other \in Links, Target(link) = Target(other)
      PROVE  link = other
  <2>1. link[1] = other[1] /\ link[2] = other[2]
    BY <1>2, <1>5, <1>7 DEF Tree
  <2>2. QED
    BY <1>5, <2>1
<1>8. QED
  BY <1>4, <1>6, <1>7

LEMMA IInvNoSharing == IInv => NoSharing
<1>1. SUFFICES ASSUME IInv, Sound
               PROVE  /\ \A b \in Blocks : \A i, j \in OwnersOf(b) : i = j
                      /\ \A b \in Blocks : OwnersOf(b) # {} => b \in UsedBlocks
  BY DEF NoSharing
<1>2. BlocksApart(mem)
  BY <1>1 DEF IInv, Reliable, Good
<1>3. \A b \in Blocks : \A i \in OwnersOf(b) : Owns(mem, i, b)
  BY DEF OwnersOf, Owns, Allocated, Alloc
<1>4. \A b \in Blocks : \A i, j \in OwnersOf(b) : i = j
  BY <1>2, <1>3 DEF BlocksApart
<1>5. \A b \in Blocks : OwnersOf(b) # {} => b \in UsedBlocks
  BY <1>2, <1>3 DEF BlocksApart, UsedBlocks, Bit
<1>6. QED
  BY <1>4, <1>5

(***************************************************************************)
(* The memory and every saved record are typed.                            *)
(***************************************************************************)
THEOREM TypeCorrect == Spec => []TypeOK
BY Invariant, IInvTypeOK, PTL

(***************************************************************************)
(* Whatever is created, deleted, written and revoked, the inodes in use    *)
(* stay a tree below the root, as long as no directory has been full and   *)
(* no mistaken record of writeFile has been restored.                      *)
(***************************************************************************)
THEOREM TreeCorrect == Spec => []TreeOK
BY Invariant, IInvTreeOK, PTL

(***************************************************************************)
(* Under the same conditions no block has two uses, for texts of any       *)
(* number of blocks: createDirectory, createFile, writeFile and revoke     *)
(* never give away a block that something uses.                            *)
(***************************************************************************)
THEOREM BlocksNotShared == Spec => []NoSharing
BY Invariant, IInvNoSharing, PTL

-----------------------------------------------------------------------------
(***************************************************************************)
(* While every text fits in one block.  Inodes and blocks are then         *)
(* allocated and freed in pairs of the same number, in the memory and in   *)
(* what undoing to any tag gives, so no record is mistaken.                *)
(***************************************************************************)
OneBlock == \A text \in Texts : text.blocks = 1

Exact(m) ==
  /\ \A i \in Alloc(m) : BlockOf(m, i) = i /\ FileType(m, i) # 2
  /\ \A b \in Blocks : Bit(m, b) = 1 => b \in Alloc(m)

NoneMistaken == \A k \in 1 .. Len(stack) : ~ Mistaken(stack[k])
AllExact ==
  /\ Exact(mem)
  /\ \A p \in Tags(stack) : Exact(UndoTo(mem, stack, p))

EInv ==
  /\ IInv /\ ~ misled
  /\ Aligned
  /\ ~ undefined => NoneMistaken /\ AllExact

(* What SavesChanges says of tags when nothing is raised.                  *)
LEMMA SavesChangesUndone ==
  ASSUME Typed, NEW new, SavesChanges(new)
  PROVE  /\ Tags(stack') = Tags(stack)
         /\ \A p \in Tags(stack) : UndoTo(mem', stack', p) = UndoTo(mem, stack, p)
<1>1. /\ new \in Seq(Records) /\ stack' = stack \o new
      /\ \A k \in 1 .. Len(new) : new[k] # Tag
      /\ Covers(mem, mem', new, {})
  BY SavesChangesFacts
<1>2. /\ Tags(stack') = Tags(stack)
      /\ \A p \in Tags(stack) :
           Raised(UndoTo(mem, stack, p), UndoTo(mem', stack', p), {})
  BY <1>1, OperationUndone
<1>3. ASSUME NEW p \in Tags(stack)
      PROVE  UndoTo(mem', stack', p) = UndoTo(mem, stack, p)
  <2> DEFINE u == UndoTo(mem, stack, p)
  <2>1. u = [c \in Cells |-> u[c]]
    BY DEF UndoTo
  <2>2. Raised(u, UndoTo(mem', stack', p), {})
    BY <1>2
  <2> HIDE DEF u
  <2>3. UndoTo(mem', stack', p) = u
    BY <2>1, <2>2, RaisedNothing
  <2>4. QED
    BY <2>3 DEF u
<1>4. QED
  BY <1>2, <1>3

(* A record of what the memory holds is not mistaken while inodes have the *)
(* blocks of their numbers.                                                *)
LEMMA PlainNotMistaken ==
  ASSUME IsMemory(mem), Aligned, NEW new, Plain(mem, new)
  PROVE  \A k \in 1 .. Len(new) : ~ Mistaken(new[k])
<1>1. ASSUME NEW k \in 1 .. Len(new), Mistaken(new[k]) PROVE FALSE
  <2>1. PICK i \in Inodes : /\ DOMAIN new[k] = {InodeCell(i), BlockCell(i), BitCell(i)}
                            /\ new[k][InodeCell(i)].blockID \notin {i, -1}
    BY <1>1 DEF Mistaken
  <2>2. new[k][InodeCell(i)] = mem[InodeCell(i)]
    BY <2>1 DEF Plain, SavedIn, Value
  <2>3. BlockOf(mem, i) \notin {i, -1}
    BY <2>1, <2>2 DEF BlockOf
  <2>4. QED
    BY <2>3 DEF Aligned, Allocated
<1>2. QED
  BY <1>1

LEMMA SavesChangesExact ==
  ASSUME EInv, ~ undefined, NEW new, SavesChanges(new), Exact(mem')
  PROVE  NoneMistaken' /\ AllExact'
<1>1. Typed /\ NoneMistaken /\ AllExact /\ Aligned
  BY DEF EInv, IInv
<1>2. new \in Seq(Records) /\ stack' = stack \o new /\ Plain(mem, new)
  BY DEF SavesChanges
<1>3. AllExact'
  BY <1>1, SavesChangesUndone DEF AllExact
<1>4. NoneMistaken'
  <2>1. \A k \in 1 .. Len(new) : ~ Mistaken(new[k])
    BY <1>1, <1>2, PlainNotMistaken DEF Typed
  <2>2. /\ \A k \in 1 .. Len(stack) : stack'[k] = stack[k]
        /\ \A k \in 1 .. Len(new) : stack'[Len(stack) + k] = new[k]
        /\ \A k \in 1 .. Len(stack') : \/ k \in 1 .. Len(stack)
                                       \/ \E j \in 1 .. Len(new) : k = Len(stack) + j
    BY <1>1, <1>2, Joined DEF Typed
  <2>3. ASSUME NEW k \in 1 .. Len(stack') PROVE ~ Mistaken(stack'[k])
    <3>1. CASE k \in 1 .. Len(stack)
      BY <1>1, <2>2, <3>1 DEF NoneMistaken
    <3>2. CASE \E j \in 1 .. Len(new) : k = Len(stack) + j
      BY <2>1, <2>2, <3>2
    <3>3. QED
      BY <2>2, <3>1, <3>2
  <2>4. QED
    BY <2>3 DEF NoneMistaken, Mistaken
<1>5. QED
  BY <1>3, <1>4

LEMMA ExactAligned ==
  ASSUME Exact(mem)
  PROVE  Aligned
BY DEF Exact, Aligned, Allocated, Alloc

(* The first free inode and the first free block have the same number.     *)
LEMMA EnteredExact ==
  ASSUME Good(mem), Exact(mem), NEW d \in Inodes, IsDirectory(mem, d), NEW name,
         NEW type \in {0, 1}, NEW e, FreeBlocks(mem) # {}, FreeInodes(mem) # {},
         Enter(d, name, type, e)
  PROVE  Exact(mem')
<1>1. PICK b \in Blocks, i \in Inodes :
           /\ b = Min(FreeBlocks(mem)) /\ i = Min(FreeInodes(mem))
           /\ i \notin Alloc(mem) /\ Bit(mem, b) = 0
           /\ Entered(mem, mem', d, name, type, e, b, i)
  BY EnterFacts
<1>2. IsMemory(mem) /\ BlocksApart(mem)
  BY DEF Good
<1>3. b = i
  <2>1. FreeBlocks(mem) \in SUBSET Nat /\ FreeInodes(mem) \in SUBSET Nat
    BY SizesAssumption DEF FreeBlocks, FreeInodes, Blocks, Inodes
  <2>2. i \in Blocks
    BY SizesAssumption DEF Inodes, Blocks
  <2>3. i \in FreeBlocks(mem)
    <3>1. Bit(mem, i) # 1
      BY <1>1, <2>2 DEF Exact
    <3>2. QED
      BY <1>2, <2>2, <3>1, MemoryFacts DEF FreeBlocks, Bit
  <2>4. b <= i
    BY <1>1, <2>1, <2>3, MinFacts
  <2>5. b \in Inodes
    BY <2>4, SizesAssumption DEF Inodes, Blocks
  <2>6. b \in FreeInodes(mem)
    <3>1. b \notin Alloc(mem)
      <4>1. b \in Alloc(mem) => Owns(mem, b, b)
        BY DEF Exact, Owns
      <4>2. QED
        BY <1>1, <1>2, <4>1 DEF BlocksApart
    <3>2. QED
      BY <2>5, <3>1 DEF Alloc, FreeInodes
  <2>7. i <= b
    BY <1>1, <2>1, <2>6, MinFacts
  <2>8. QED
    BY <2>4, <2>7, SizesAssumption DEF Inodes, Blocks
<1>4. /\ BlockOf(mem', i) = b /\ FileType(mem', i) = type
      /\ \A j \in Inodes : j # i => /\ BlockOf(mem', j) = BlockOf(mem, j)
                                    /\ FileType(mem', j) = FileType(mem, j)
  BY <1>1 DEF Entered, BlockOf, FileType
<1>5. \A j : j \in Alloc(mem') <=> j \in Alloc(mem) \/ j = i
  <2>1. b # -1
    BY SizesAssumption DEF Blocks
  <2>2. QED
    BY <1>4, <2>1 DEF Alloc
<1>6. \A j \in Alloc(mem') : BlockOf(mem', j) = j /\ FileType(mem', j) # 2
  BY <1>3, <1>4, <1>5 DEF Exact, Alloc
<1>7. \A a \in Blocks : Bit(mem', a) = 1 => a \in Alloc(mem')
  BY <1>1, <1>3, <1>5 DEF Exact, Entered, Bit
<1>8. QED
  BY <1>6, <1>7 DEF Exact

LEMMA DeletedExact ==
  ASSUME NEW m, NEW n, Good(m), Exact(m), NEW d \in Inodes, NEW e \in Entries,
         NEW t \in Inodes, Link(m, d, e, t), Deleted(m, n, d, e, Below(m, t))
  PROVE  Exact(n)
<1> DEFINE G == Below(m, t)
<1>1. G \subseteq Alloc(m)
  BY NoCycle DEF Good
<1>2. Deleted(m, n, d, e, G)
  OBVIOUS
<1> HIDE DEF G
<1>3. /\ \A i \in Inodes : i \notin G => /\ BlockOf(n, i) = BlockOf(m, i)
                                         /\ FileType(n, i) = FileType(m, i)
      /\ \A i \in Inodes : i \in G => BlockOf(n, i) = -1
  BY <1>2 DEF Deleted, BlockOf, FileType, NoInode
<1>4. Alloc(n) = Alloc(m) \ G
  BY <1>3 DEF Alloc
<1>5. \A i \in Alloc(n) : BlockOf(n, i) = i /\ FileType(n, i) # 2
  BY <1>3, <1>4 DEF Exact, Alloc
<1>6. ASSUME NEW b \in Blocks, Bit(n, b) = 1 PROVE b \in Alloc(n)
  <2>1. Bit(m, b) = 1 /\ \A i \in G : b # BlockOf(m, i)
    BY <1>2, <1>6 DEF Deleted, Bit
  <2>2. b \in Alloc(m) /\ BlockOf(m, b) = b
    BY <2>1 DEF Exact
  <2>3. QED
    BY <1>4, <2>1, <2>2
<1>7. QED
  BY <1>5, <1>6 DEF Exact

LEMMA WrittenExact ==
  ASSUME NEW m, NEW n, Exact(m), NEW f \in Alloc(m), BlockOf(m, f) # -1, NEW v,
         Written(m, n, f, 1, v, {})
  PROVE  Exact(n)
<1>1. f \in Inodes
  BY DEF Alloc
<1>2. /\ BlockOf(n, f) = BlockOf(m, f) /\ FileType(n, f) = 1
      /\ \A i \in Inodes : i # f => /\ BlockOf(n, i) = BlockOf(m, i)
                                    /\ FileType(n, i) = FileType(m, i)
  BY DEF Written, BlockOf, FileType
<1>3. Alloc(n) = Alloc(m)
  BY <1>1, <1>2 DEF Alloc
<1>4. \A i \in Alloc(n) : BlockOf(n, i) = i /\ FileType(n, i) # 2
  BY <1>2, <1>3 DEF Exact, Alloc
<1>5. \A b \in Blocks : Bit(n, b) = 1 => Bit(m, b) = 1
  BY DEF Written, Bit
<1>6. QED
  BY <1>3, <1>4, <1>5 DEF Exact

(* What is left of the invariant when a directory has been full.           *)
LEMMA FullDirectoryAligned ==
  ASSUME EInv, ~ undefined, NEW d \in Directories, NEW name \in Names,
         CreateInFullDirectory(d, name) \/ CreateOverEntry(d, name)
  PROVE  Aligned' /\ ~ misled'
<1>1. IsMemory(mem) /\ Good(mem) /\ Exact(mem)
  BY DEF EInv, IInv, Typed, Reliable, Sound, AllExact
<1>2. d \in Inodes /\ IsDirectory(mem, d) /\ BlockOf(mem, d) \in Blocks
  BY <1>1, DirectoriesFacts
<1>3. CASE CreateOverEntry(d, name)
  <2>1. PICK e \in Entries : Enter(d, name, 0, e)
    BY <1>3 DEF CreateOverEntry
  <2>2. FreeBlocks(mem) # {} /\ FreeInodes(mem) # {} /\ misled' = misled
    BY <1>3 DEF CreateOverEntry
  <2>3. 0 \in {0, 1}
    OBVIOUS
  <2>4. Exact(mem')
    BY <1>1, <1>2, <2>1, <2>2, <2>3, EnteredExact
  <2>5. QED
    BY <2>2, <2>4 DEF EInv, Exact, Aligned, Allocated, Alloc
<1>4. CASE CreateInFullDirectory(d, name)
  <2> DEFINE n == AtMost(Cardinality(FreeBlocks(mem)), 2)
             new == LeastOf(FreeBlocks(mem), n)
             index == Index([k \in Pointers |-> IF k < n THEN new[k + 1] ELSE -1])
             a == BlockOf(mem, d)
  <2>1. /\ misled' = misled
        /\ mem' = [c \in Cells |->
                     CASE c = InodeCell(d) -> [mem[c] EXCEPT !.fileType = 2]
                       [] c = BlockCell(a) -> index
                       [] n = 2 /\ c = BlockCell(new[1]) -> index
                       [] \E k \in 1 .. n : c = BitCell(new[k]) -> 1
                       [] OTHER -> mem[c]]
    BY <1>4 DEF CreateInFullDirectory
  <2>2. \A k \in 1 .. n : new[k] \in Blocks
    <3>1. Cardinality(FreeBlocks(mem)) \in Nat
      <4>1. FreeBlocks(mem) \in SUBSET Blocks
        BY DEF FreeBlocks
      <4>2. IsFiniteSet(Blocks)
        <5>1. 0 \in Int /\ BLOCK_NUMBER - 1 \in Int
          BY SizesAssumption
        <5>2. QED
          BY <5>1, FS_Interval DEF Blocks
      <4>3. QED
        BY <4>1, <4>2, FS_Subset, FS_CardinalityType
    <3>2. n \in 0 .. Cardinality(FreeBlocks(mem))
      BY <3>1 DEF AtMost
    <3> HIDE DEF n
    <3>3. QED
      BY <3>2, FreeFacts DEF FreeBlocks
  <2> HIDE DEF n, new, index, a
  <2>3. "inode" # "block" /\ "inode" # "bit" /\ "block" # "bit"
    OBVIOUS
  <2>4. ASSUME NEW i \in Inodes
        PROVE  BlockOf(mem', i) = BlockOf(mem, i)
    <3>1. /\ InodeCell(i) \in Cells /\ InodeCell(i) # BlockCell(a)
          /\ \A k \in 1 .. n : InodeCell(i) # BlockCell(new[k]) /\ InodeCell(i) # BitCell(new[k])
      BY <1>2, <2>2, <2>3, CellFacts DEF a
    <3>2. n = 2 => InodeCell(i) # BlockCell(new[1])
      BY <3>1
    <3>3. mem'[InodeCell(i)] = IF i = d THEN [mem[InodeCell(d)] EXCEPT !.fileType = 2]
                                        ELSE mem[InodeCell(i)]
      BY <1>2, <2>1, <3>1, <3>2, CellFacts
    <3>4. mem[InodeCell(i)] \in InodeValues
      BY <1>1 DEF IsMemory
    <3>5. \A r \in InodeValues : [r EXCEPT !.fileType = 2].blockID = r.blockID
      BY DEF InodeValues, NoInode
    <3>6. QED
      BY <3>3, <3>4, <3>5 DEF BlockOf
  <2>5. QED
    BY <2>1, <2>4 DEF EInv, Aligned, Allocated
<1>5. QED
  BY <1>3, <1>4

(* An operation that saves all it changes and keeps the memory exact.      *)
LEMMA OperationExact ==
  ASSUME EInv, ~ undefined, IInv', misled' = misled, NEW new, SavesChanges(new), Exact(mem')
  PROVE  EInv'
<1>1. NoneMistaken' /\ AllExact'
  BY SavesChangesExact
<1>2. Aligned'
  BY DEF Exact, Aligned, Allocated, Alloc
<1>3. QED
  BY <1>1, <1>2 DEF EInv

LEMMA PushTagExact ==
  ASSUME EInv, ~ undefined, IInv', PushTag
  PROVE  EInv'
<1>1. /\ stack \in Seq(Records) /\ Len(stack) \in Nat
      /\ stack' = Append(stack, Tag) /\ mem' = mem /\ misled' = misled
  BY LenProperties DEF EInv, IInv, Typed, PushTag
<1> DEFINE n == Len(stack)
<1>2. /\ stack' \in Seq(Records) /\ Len(stack') = n + 1
      /\ \A k \in 1 .. n : stack'[k] = stack[k]
      /\ stack'[n + 1] = Tag
  BY <1>1, TagFacts, AppendProperties
<1>3. NoneMistaken /\ AllExact /\ ~ misled /\ Aligned
  BY DEF EInv
<1>4. NoneMistaken'
  <2>1. ~ Mistaken(Tag)
    BY TagFacts DEF Mistaken
  <2>2. ASSUME NEW k \in 1 .. Len(stack') PROVE ~ Mistaken(stack'[k])
    <3>1. k \in 1 .. n \/ k = n + 1
      BY <1>1, <1>2
    <3>2. QED
      BY <1>2, <1>3, <2>1, <3>1 DEF NoneMistaken
  <2>3. QED
    BY <2>2 DEF NoneMistaken, Mistaken
<1>5. ASSUME NEW p \in Tags(stack') PROVE Exact(UndoTo(mem', stack', p))
  <2>1. p \in Tags(stack) \/ p = n + 1
    BY <1>1, <1>2, <1>5 DEF Tags
  <2>2. CASE p \in Tags(stack)
    <3>1. p \in Nat /\ p <= n
      BY <1>1, <2>2, TagsFacts
    <3>2. UndoTo(mem', stack', p) = UndoTo(mem, stack, p)
      BY <1>1, <3>1, UndoTagged
    <3>3. QED
      BY <1>3, <2>2, <3>2 DEF AllExact
  <2>3. CASE p = n + 1
    <3>1. mem = [c \in Cells |-> mem[c]] /\ Len(stack') \in Nat
      BY <1>1, <1>2 DEF EInv, IInv, Typed, IsMemory
    <3>2. UndoTo(mem', stack', p) = mem
      BY <1>1, <1>2, <2>3, <3>1, UndoNothing
    <3>3. QED
      BY <1>3, <3>2 DEF AllExact
  <2>4. QED
    BY <2>1, <2>2, <2>3
<1>6. Exact(mem') /\ Aligned'
  BY <1>1, <1>3 DEF AllExact, Aligned, Allocated
<1>7. QED
  BY <1>1, <1>3, <1>4, <1>5, <1>6 DEF EInv, AllExact

LEMMA RevokeExact ==
  ASSUME EInv, ~ undefined, IInv', Revoke
  PROVE  EInv'
<1>1. PICK p \in Tags(stack) :
           /\ p \in Nat /\ p < Len(stack)
           /\ mem' = UndoTo(mem, stack, p)
           /\ stack' = SubSeq(stack, 1, p)
           /\ stack' \in Seq(Records) /\ Len(stack') = p
           /\ \A k \in 1 .. p : stack'[k] = stack[k]
           /\ Tags(stack') = {q \in Tags(stack) : q <= p}
           /\ \A q \in Tags(stack') : UndoTo(mem', stack', q) = UndoTo(mem, stack, q)
           /\ \A q \in Tags(stack) : q <= p \/ q = Len(stack)
           /\ misled' = (misled \/ MistakenAbove(p))
           /\ undefined' = undefined
  BY RevokeFacts DEF EInv, IInv
<1>2. NoneMistaken /\ AllExact /\ ~ misled /\ Len(stack) \in Nat
  BY LenProperties DEF EInv, IInv, Typed
<1>3. ~ misled'
  <2>1. \A k \in p + 1 .. Len(stack) : k \in 1 .. Len(stack)
    BY <1>1, <1>2
  <2>2. QED
    BY <1>1, <1>2, <2>1 DEF MistakenAbove, NoneMistaken
<1>4. NoneMistaken'
  <2>1. \A k \in 1 .. p : k \in 1 .. Len(stack)
    BY <1>1, <1>2
  <2>2. QED
    BY <1>1, <1>2, <2>1 DEF NoneMistaken, Mistaken
<1>5. AllExact'
  BY <1>1, <1>2 DEF AllExact
<1>6. Aligned'
  BY <1>5 DEF AllExact, Exact, Aligned, Allocated, Alloc
<1>7. QED
  BY <1>3, <1>4, <1>5, <1>6 DEF EInv

LEMMA InitializeSnapshotExact ==
  ASSUME EInv, ~ undefined, IInv', InitializeSnapshot
  PROVE  EInv'
<1>1. /\ stack' = <<>> /\ mem' = mem /\ misled' = misled
      /\ Len(stack') = 0
  BY DEF InitializeSnapshot
<1>2. Exact(mem) /\ ~ misled /\ Aligned
  BY DEF EInv, AllExact
<1>3. Tags(stack') = {0}
  BY <1>1 DEF Tags
<1>4. UndoTo(mem', stack', 0) = mem
  <2>1. mem = [c \in Cells |-> mem[c]] /\ Len(<<>>) = 0 /\ 0 \in Nat
    BY DEF EInv, IInv, Typed, IsMemory
  <2>2. QED
    BY <1>1, <2>1, UndoNothing
<1>5. NoneMistaken' /\ AllExact' /\ Aligned'
  BY <1>1, <1>2, <1>3, <1>4 DEF NoneMistaken, AllExact, Aligned, Allocated
<1>6. QED
  BY <1>1, <1>2, <1>5 DEF EInv

LEMMA InitEInv == Init => EInv
<1>1. SUFFICES ASSUME Init PROVE EInv
  OBVIOUS
<1>2. /\ IsMemory(mem)
      /\ mem[InodeCell(0)] = [blockID |-> 0, fileType |-> 0]
      /\ \A i \in Inodes : i # 0 => mem[InodeCell(i)] = NoInode
      /\ mem[BitCell(0)] = 1
      /\ \A b \in Blocks : b # 0 => mem[BitCell(b)] = 0
  BY <1>1, InitialMemory
<1>3. stack = <<>> /\ misled = FALSE /\ IInv
  <2>1. stack = <<>> /\ misled = FALSE
    BY <1>1 DEF Init
  <2>2. QED
    BY <1>1, <2>1, InitIInv
<1>4. BlockOf(mem, 0) = 0 /\ FileType(mem, 0) = 0
  BY <1>2 DEF BlockOf, FileType
<1>5. Alloc(mem) = {0}
  <2>1. 0 \in Inodes /\ -1 # 0
    BY SizesAssumption DEF Inodes
  <2>2. QED
    BY <1>2, <1>4, <2>1 DEF Alloc, BlockOf, NoInode
<1>6. Exact(mem)
  <2>1. \A b \in Blocks : Bit(mem, b) = 1 => b = 0
    BY <1>2 DEF Bit
  <2>2. QED
    BY <1>4, <1>5, <2>1 DEF Exact
<1>7. Len(stack) = 0 /\ Tags(stack) = {0}
  BY <1>3 DEF Tags
<1>8. UndoTo(mem, stack, 0) = mem
  <2>1. mem = [c \in Cells |-> mem[c]] /\ Len(stack) \in Nat
    BY <1>2, <1>7 DEF IsMemory
  <2>2. QED
    BY <1>7, <2>1, UndoNothing
<1>9. NoneMistaken /\ AllExact
  BY <1>6, <1>7, <1>8 DEF NoneMistaken, AllExact
<1>10. QED
  BY <1>3, <1>6, <1>9, ExactAligned DEF EInv

LEMMA NextEInv ==
  ASSUME OneBlock, EInv, [Next]_vars
  PROVE  EInv'
<1>1. /\ IInv' /\ ~ misled
      /\ Typed
  BY NextIInv DEF EInv, IInv
<1>2. CASE UNCHANGED vars
  <2>1. mem' = mem /\ stack' = stack /\ undefined' = undefined /\ misled' = misled
    BY <1>2 DEF vars
  <2>2. Aligned' /\ (~ undefined' => NoneMistaken' /\ AllExact')
    BY <2>1 DEF EInv, Aligned, Allocated, NoneMistaken, Mistaken, AllExact
  <2>3. QED
    BY <1>1, <2>1, <2>2 DEF EInv
<1>3. ASSUME ~ undefined, Next PROVE EInv'
  <2>1. /\ IsMemory(mem) /\ Reliable /\ Good(mem) /\ Exact(mem) /\ Aligned
    BY <1>1, <1>3 DEF EInv, IInv, Sound, Reliable, Typed, AllExact
  <2>2. \A d \in Directories : d \in Inodes /\ IsDirectory(mem, d)
    BY <2>1, DirectoriesFacts
  <2>3. ASSUME NEW d \in Directories, NEW name \in Names, NEW type \in {0, 1},
               Create(d, name, type)
        PROVE  EInv'
    <3>1. PICK e : Enter(d, name, type, e)
      BY <2>3 DEF Create
    <3>2. FreeBlocks(mem) # {} /\ FreeInodes(mem) # {} /\ misled' = misled
      BY <2>3 DEF Create
    <3>3. PICK new : SavesChanges(new)
      BY <1>1, <2>1, <2>2, <3>1, <3>2, EnterSaved
    <3>4. Exact(mem')
      BY <2>1, <2>2, <3>1, <3>2, EnteredExact
    <3>5. QED
      BY <1>1, <1>3, <3>2, <3>3, <3>4, OperationExact
  <2>4. ASSUME NEW d \in Directories, NEW name \in Names, CreateWithoutSpace(d, name)
        PROVE  EInv'
    <3>1. mem' = mem /\ misled' = misled
      BY <2>4 DEF CreateWithoutSpace
    <3>2. PICK new : SavesChanges(new)
      BY <1>1, <2>4, CreateWithoutSpaceSaved
    <3>3. Exact(mem')
      BY <2>1, <3>1
    <3>4. QED
      BY <1>1, <1>3, <3>1, <3>2, <3>3, OperationExact
  <2>5. ASSUME NEW d \in Directories, NEW name \in Names,
               CreateInFullDirectory(d, name) \/ CreateOverEntry(d, name)
        PROVE  EInv'
    <3>1. undefined' = TRUE
      BY <2>5 DEF CreateInFullDirectory, CreateOverEntry
    <3>2. Aligned' /\ ~ misled'
      BY <1>3, <2>5, FullDirectoryAligned
    <3>3. QED
      BY <1>1, <3>1, <3>2 DEF EInv
  <2>6. ASSUME NEW d \in Directories, NEW name \in Names, DeleteDirectory(d, name)
        PROVE  EInv'
    <3>1. PICK e \in Entries, t \in Inodes :
            /\ Link(mem, d, e, t)
            /\ Deleted(mem, mem', d, e, Below(mem, t))
      BY <2>1, <2>2, <2>6, DeleteFacts
    <3>2. Exact(mem')
      BY <2>1, <2>2, <3>1, DeletedExact
    <3>3. PICK new : SavesChanges(new)
      BY <1>1, <2>1, <2>6, DeleteDirectorySaved
    <3>4. misled' = misled
      BY <2>6 DEF DeleteDirectory
    <3>5. QED
      BY <1>1, <1>3, <3>2, <3>3, <3>4, OperationExact
  <2>7. ASSUME NEW f \in Files, NEW text \in Texts, WriteFile(f, text)
        PROVE  EInv'
    <3>1. f \in Alloc(mem) /\ BlockOf(mem, f) = f /\ BlockOf(mem, f) # -1
      <4>1. f \in Alloc(mem)
        BY <2>1, FilesFacts
      <4>2. QED
        BY <2>1, <4>1 DEF Exact, Alloc
    <3>2. Written(mem, mem', f, 1, Data(text.value, 0), {})
      BY <2>1, <2>7, WriteFileWritten
    <3>3. Exact(mem')
      BY <2>1, <3>1, <3>2, WrittenExact
    <3>4. PICK new : SavesChanges(new)
      BY <1>1, <2>7, <3>1, WriteFileRecords
    <3>5. misled' = misled
      BY <2>7 DEF WriteFile
    <3>6. QED
      BY <1>1, <1>3, <3>3, <3>4, <3>5, OperationExact
  <2>8. ASSUME NEW f \in Files, NEW text \in Texts, WriteLargeFile(f, text)
        PROVE  FALSE
    BY <2>8 DEF WriteLargeFile, OneBlock
  <2>9. ASSUME NEW f \in Files, WriteLostFile(f)
        PROVE  FALSE
    <3>1. f \in Alloc(mem)
      BY <2>1, FilesFacts
    <3>2. FileType(mem, f) # 2
      BY <2>1, <3>1 DEF Exact
    <3>3. QED
      BY <2>9, <3>2 DEF WriteLostFile
  <2>10. CASE PushTag
    BY <1>1, <1>3, <2>10, PushTagExact
  <2>11. CASE Revoke
    BY <1>1, <1>3, <2>11, RevokeExact
  <2>12. CASE InitializeSnapshot
    BY <1>1, <1>3, <2>12, InitializeSnapshotExact
  <2>13. QED
    BY <1>3, <2>3, <2>4, <2>5, <2>6, <2>7, <2>8, <2>9, <2>10, <2>11, <2>12 DEF Next
<1>4. Next => ~ undefined
  BY DEF Next, Create, CreateWithoutSpace, CreateInFullDirectory, CreateOverEntry, MayCreate,
         DeleteDirectory, WriteFile, WriteLargeFile, WriteLostFile, PushTag, Revoke,
         InitializeSnapshot
<1>5. QED
  BY <1>2, <1>3, <1>4

LEMMA ExactInvariant ==
  ASSUME OneBlock
  PROVE  Spec => []EInv
<1>1. OneBlock /\ EInv /\ [Next]_vars => EInv'
  BY NextEInv
<1>2. QED
  BY <1>1, InitEInv, PTL DEF Spec

(***************************************************************************)
(* The block of an inode has the number of the inode, for any memory, any  *)
(* number of names and any one-block texts, even after a directory has     *)
(* been full: writeFile, which saves the block with the number of the      *)
(* inode, saves the right one.                                             *)
(***************************************************************************)
THEOREM BlocksAligned ==
  ASSUME OneBlock
  PROVE  Spec => []Aligned
<1>1. EInv => Aligned
  BY DEF EInv
<1>2. QED
  BY <1>1, ExactInvariant, PTL

(***************************************************************************)
(* No block is lost by createDirectory, createFile, deleteDirectory,       *)
(* writeFile and revoke: a block that is marked used has an inode.         *)
(***************************************************************************)
THEOREM BlocksNotLost ==
  ASSUME OneBlock
  PROVE  Spec => []NoLeak
<1>1. EInv => NoLeak
  <2>1. SUFFICES ASSUME EInv, Sound, NEW b \in UsedBlocks PROVE OwnersOf(b) # {}
    BY DEF NoLeak
  <2>2. Exact(mem) /\ b \in Blocks /\ Bit(mem, b) = 1
    BY <2>1 DEF EInv, Sound, AllExact, UsedBlocks, Bit
  <2>3. b \in Alloc(mem) /\ BlockOf(mem, b) = b
    BY <2>2 DEF Exact
  <2>4. QED
    BY <2>3 DEF OwnersOf, Allocated, Alloc
<1>2. QED
  BY <1>1, ExactInvariant, PTL

-----------------------------------------------------------------------------
(* Revocation, step by step.                                               *)
Past == [p \in Tags(stack) |-> UndoTo(mem, stack, p)]

LEMMA OperationKeepsPast ==
  ASSUME Typed, NEW new, SavesChanges(new)
  PROVE  Past' = Past
<1>1. /\ Tags(stack') = Tags(stack)
      /\ \A p \in Tags(stack) : UndoTo(mem', stack', p) = UndoTo(mem, stack, p)
  BY SavesChangesUndone
<1>2. QED
  BY <1>1 DEF Past

LEMMA PushTagCommits ==
  ASSUME Typed, PushTag
  PROVE  CP!Commit
<1> DEFINE n == Len(stack) + 1
<1>1. /\ stack \in Seq(Records) /\ Len(stack) \in Nat
      /\ mem = [c \in Cells |-> mem[c]]
      /\ stack' = Append(stack, Tag) /\ mem' = mem
      /\ Len(stack) < MaxRecords
  BY LenProperties DEF Typed, PushTag, IsMemory
<1>2. /\ Len(stack') = n /\ stack'[n] = Tag
      /\ \A k \in 1 .. Len(stack) : stack'[k] = stack[k]
  BY <1>1, TagFacts, AppendProperties
<1>3. Tags(stack') = Tags(stack) \cup {n}
  <2>1. \A k : k \in 1 .. n <=> k \in 1 .. Len(stack) \/ k = n
    BY <1>1
  <2> HIDE DEF n
  <2>2. QED
    BY <1>2, <2>1 DEF Tags
<1>4. \A p \in Tags(stack) : p \in Nat /\ p <= Len(stack) /\ p < n
  <2>1. \A p \in Tags(stack) : p \in Nat /\ p <= Len(stack)
    BY <1>1, TagsFacts
  <2>2. QED
    BY <1>1, <2>1
<1>5. \A p \in Tags(stack) : UndoTo(mem', stack', p) = UndoTo(mem, stack, p)
  BY <1>1, <1>4, UndoTagged
<1>6. UndoTo(mem', stack', n) = mem
  <2>1. Len(stack') \in Nat
    BY <1>1, <1>2
  <2>2. QED
    BY <1>1, <1>2, <2>1, UndoNothing
<1>7. n \in 0 .. MaxRecords
  BY <1>1, SizesAssumption
<1> HIDE DEF n
<1>8. Past' = [q \in Tags(stack) \cup {n} |-> IF q = n THEN mem ELSE Past[q]]
  <2>1. Past' = [q \in Tags(stack') |-> UndoTo(mem', stack', q)]
    BY DEF Past
  <2>2. \A q \in Tags(stack') :
          UndoTo(mem', stack', q) = IF q = n THEN mem ELSE Past[q]
    BY <1>3, <1>5, <1>6 DEF Past
  <2>3. QED
    BY <1>3, <2>1, <2>2
<1>9. DOMAIN Past = Tags(stack)
  BY DEF Past
<1>10. \E p \in 0 .. MaxRecords :
         /\ \A q \in DOMAIN Past : q < p
         /\ Past' = [q \in DOMAIN Past \cup {p} |-> IF q = p THEN mem ELSE Past[q]]
         /\ UNCHANGED mem
  BY <1>1, <1>4, <1>7, <1>8, <1>9
<1>11. QED
  BY <1>10 DEF CP!Commit, CP!Numbers, Past

LEMMA RevokeRevokes ==
  ASSUME Typed, Revoke
  PROVE  CP!Revoke
<1> DEFINE last == Len(stack)
<1>1. PICK p \in Tags(stack) :
           /\ p \in Nat /\ p < Len(stack)
           /\ mem' = UndoTo(mem, stack, p)
           /\ Tags(stack') = {q \in Tags(stack) : q <= p}
           /\ \A q \in Tags(stack') : UndoTo(mem', stack', q) = UndoTo(mem, stack, q)
           /\ \A q \in Tags(stack) : q <= p \/ q = Len(stack)
  BY RevokeFacts
<1>2. /\ stack \in Seq(Records) /\ last \in Nat
      /\ mem = [c \in Cells |-> mem[c]]
      /\ stack # <<>> /\ AtTag
  BY LenProperties DEF Typed, Revoke, IsMemory
<1>3. \A q \in Tags(stack) : q \in Nat /\ q <= last
  BY <1>2, TagsFacts
<1>4. last \in Tags(stack)
  <2>1. last \in Nat \ {0}
    BY <1>2, EmptySeq
  <2>2. last > 0 /\ last \in 1 .. last
    BY <2>1
  <2>3. QED
    BY <1>2, <2>2 DEF AtTag, Tags
<1>5. UndoTo(mem, stack, last) = mem
  BY <1>2, UndoNothing
<1>6. Tags(stack') = Tags(stack) \ {last}
  <2>1. \A q \in Tags(stack) : q <= p <=> q # last
    BY <1>1, <1>2, <1>3
  <2>2. QED
    BY <1>1, <2>1
<1>7. p < last
  BY <1>1
<1> HIDE DEF last
<1>8. Past' = [q \in Tags(stack) \ {last} |-> Past[q]]
  <2>1. Past' = [q \in Tags(stack') |-> UndoTo(mem', stack', q)]
    BY DEF Past
  <2>2. QED
    BY <1>1, <1>6, <2>1 DEF Past
<1>9. Past[last] = mem /\ Past[p] = mem'
  BY <1>1, <1>4, <1>5 DEF Past
<1>10. DOMAIN Past = Tags(stack)
  BY DEF Past
<1>11. \A q \in Tags(stack) : q <= p \/ q = last
  BY <1>1 DEF last
<1>12. \E l, r \in DOMAIN Past :
         /\ \A q \in DOMAIN Past : q <= l
         /\ mem = Past[l]
         /\ r < l
         /\ \A q \in DOMAIN Past : q <= r \/ q = l
         /\ Past' = [q \in DOMAIN Past \ {l} |-> Past[q]]
         /\ mem' = Past[r]
  BY <1>1, <1>3, <1>4, <1>7, <1>8, <1>9, <1>10, <1>11
<1>13. QED
  BY <1>12 DEF CP!Revoke, CP!Numbers, CP!Latest, Past

LEMMA InitializeSnapshotForgets ==
  ASSUME Typed, InitializeSnapshot
  PROVE  CP!Forget
<1>1. stack' = <<>> /\ mem' = mem /\ mem = [c \in Cells |-> mem[c]]
  BY DEF InitializeSnapshot, Typed, IsMemory
<1>2. Len(stack') = 0 /\ Tags(stack') = {0}
  BY <1>1 DEF Tags
<1>3. UndoTo(mem', stack', 0) = mem
  <2>1. Len(stack') \in Nat
    BY <1>2
  <2>2. QED
    BY <1>1, <1>2, <2>1, UndoNothing
<1>4. Past' = [p \in {0} |-> mem]
  BY <1>2, <1>3 DEF Past
<1>5. QED
  BY <1>1, <1>4 DEF CP!Forget, Past

LEMMA StepRevokesExactly ==
  ASSUME OneBlock, EInv, [Next]_vars
  PROVE  [CP!Next \/ undefined']_(CP!checkpointVars)
<1>1. Typed
  BY DEF EInv, IInv
<1>2. \A new : SavesChanges(new) => CP!Change
  BY <1>1, OperationKeepsPast DEF CP!Change, Past
<1>3. CASE UNCHANGED vars
  BY <1>3 DEF vars, CP!checkpointVars
<1>4. CASE Next /\ ~ undefined
  <2>1. IsMemory(mem) /\ Reliable /\ Exact(mem)
    BY <1>1, <1>4 DEF EInv, IInv, Sound, Typed, AllExact
  <2>2. ASSUME NEW d \in Directories, NEW name \in Names, NEW type \in {0, 1},
               Create(d, name, type)
        PROVE  CP!Change
    <3>1. PICK e : Enter(d, name, type, e)
      BY <2>2 DEF Create
    <3>2. FreeBlocks(mem) # {} /\ FreeInodes(mem) # {}
      BY <2>2 DEF Create
    <3>3. d \in Inodes /\ IsDirectory(mem, d)
      BY <2>1, DirectoriesFacts
    <3>4. QED
      BY <1>1, <1>2, <2>1, <3>1, <3>2, <3>3, EnterSaved
  <2>3. ASSUME NEW d \in Directories, NEW name \in Names, CreateWithoutSpace(d, name)
        PROVE  CP!Change
    BY <1>1, <1>2, <2>3, CreateWithoutSpaceSaved
  <2>4. ASSUME NEW d \in Directories, NEW name \in Names,
               CreateInFullDirectory(d, name) \/ CreateOverEntry(d, name)
        PROVE  undefined'
    BY <2>4 DEF CreateInFullDirectory, CreateOverEntry
  <2>5. ASSUME NEW d \in Directories, NEW name \in Names, DeleteDirectory(d, name)
        PROVE  CP!Change
    BY <1>1, <1>2, <2>1, <2>5, DeleteDirectorySaved
  <2>6. ASSUME NEW f \in Files, NEW text \in Texts, WriteFile(f, text)
        PROVE  CP!Change
    <3>1. BlockOf(mem, f) = f
      BY <2>1, FilesFacts DEF Exact
    <3>2. QED
      BY <1>1, <1>2, <2>6, <3>1, WriteFileRecords
  <2>7. ASSUME NEW f \in Files, NEW text \in Texts, WriteLargeFile(f, text)
        PROVE  FALSE
    BY <2>7 DEF WriteLargeFile, OneBlock
  <2>8. ASSUME NEW f \in Files, WriteLostFile(f)
        PROVE  undefined'
    BY <2>8 DEF WriteLostFile
  <2>9. PushTag => CP!Commit
    BY <1>1, PushTagCommits
  <2>10. Revoke => CP!Revoke
    BY <1>1, RevokeRevokes
  <2>11. InitializeSnapshot => CP!Forget
    BY <1>1, InitializeSnapshotForgets
  <2>12. QED
    BY <1>4, <2>2, <2>3, <2>4, <2>5, <2>6, <2>7, <2>8, <2>9, <2>10, <2>11
    DEF Next, CP!Next
<1>5. Next => ~ undefined
  BY DEF Next, Create, CreateWithoutSpace, CreateInFullDirectory, CreateOverEntry, MayCreate,
         DeleteDirectory, WriteFile, WriteLargeFile, WriteLostFile, PushTag, Revoke,
         InitializeSnapshot
<1>6. QED
  BY <1>3, <1>4, <1>5

(***************************************************************************)
(* The file system implements the abstract revocation: each revoke gives   *)
(* back exactly the memory before the last command that was not undone,    *)
(* whatever that command created, deleted or wrote, as long as no          *)
(* directory is full.                                                      *)
(***************************************************************************)
THEOREM RevocationExact ==
  ASSUME OneBlock
  PROVE  Spec => RevokeIsExact
<1>1. Init => CP!Init
  <2>1. SUFFICES ASSUME Init PROVE CP!Init
    OBVIOUS
  <2>2. stack = <<>> /\ IsMemory(mem)
    <3>1. stack = <<>>
      BY <2>1 DEF Init
    <3>2. QED
      BY <2>1, <3>1, InitialMemory
  <2>3. mem = [c \in Cells |-> mem[c]] /\ Len(stack) = 0 /\ Tags(stack) = {0}
    BY <2>2 DEF IsMemory, Tags
  <2>4. UndoTo(mem, stack, 0) = mem
    <3>1. Len(stack) \in Nat
      BY <2>3
    <3>2. QED
      BY <2>3, <3>1, UndoNothing
  <2>5. QED
    BY <2>3, <2>4 DEF CP!Init
<1>2. OneBlock /\ EInv /\ [Next]_vars => [CP!Next \/ undefined']_(CP!checkpointVars)
  BY StepRevokesExactly
<1>3. QED
  BY <1>1, <1>2, ExactInvariant, PTL DEF Spec, RevokeIsExact
=============================================================================
