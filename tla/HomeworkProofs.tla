--------------------------- MODULE HomeworkProofs ---------------------------
(***************************************************************************)
(* Theorems about Homework, for any sets of homeworks, students and texts  *)
(* and any length of a block: that the directories and files fit together, *)
(* and that the texts the requests cut and join stand for the grades that  *)
(* Grades promises.                                                        *)
(***************************************************************************)
EXTENDS Homework, SequenceTheorems, WellFoundedInduction, TLAPS

-----------------------------------------------------------------------------
(* The texts, symbol by symbol.                                            *)
LEMMA Lengths ==
  /\ Len(Label) = 1 /\ Len(Heading) = 4 /\ FieldLength = 3 /\ Position = 4
BY DEF Label, Heading, FieldLength, Position

LEMMA TextsTyped == \A text \in Texts : text \in Seq(Symbols)
<1> SUFFICES ASSUME NEW text \in Texts PROVE text \in Seq(Symbols)
  OBVIOUS
<1>1. text \in Seq(Range(text))
  BY TextsAssumption
<1>2. Range(text) \subseteq Symbols
  BY DEF Symbols
<1>3. QED
  BY <1>1, <1>2, SeqMonotonic

LEMMA Typing ==
  /\ Label \in Seq(Symbols) /\ Heading \in Seq(Symbols) /\ Blank \in Symbols
  /\ \A text \in Scores \cup Answers \cup Comments \cup Leftovers : text \in Seq(Symbols)
<1>1. Label \in Seq(Symbols) /\ Heading \in Seq(Symbols) /\ <<Blank>> \in Seq(Symbols)
  BY TextsTyped DEF Texts
<1>2. Blank \in Symbols
  <2>1. Len(<<Blank>>) = 1 /\ <<Blank>>[1] = Blank
    OBVIOUS
  <2>2. 1 \in 1 .. Len(<<Blank>>)
    BY <2>1
  <2>3. <<Blank>>[1] \in Symbols
    BY ONLY <1>1, <2>2, ElementOfSeq
  <2>4. QED
    BY <2>1, <2>3
<1>3. QED
  BY <1>1, <1>2, TextsTyped DEF Texts

(* The sequence that has n times x.                                        *)
LEMMA RepeatFacts ==
  ASSUME NEW S, NEW x \in S, NEW n \in Nat
  PROVE  LET s == [k \in 1 .. n |-> x]
         IN  s \in Seq(S) /\ Len(s) = n /\ \A k \in 1 .. n : s[k] = x
OBVIOUS

LEMMA FieldFacts ==
  ASSUME NEW score \in Seq(Symbols), NEW gap \in 0 .. 3, Len(score) = 3 - gap
  PROVE  /\ Field(score) \in Seq(Symbols) /\ Len(Field(score)) = 3
         /\ \A k \in 1 .. gap : Field(score)[k] = Blank
         /\ \A k \in 1 .. 3 - gap : Field(score)[gap + k] = score[k]
<1> DEFINE blanks == [k \in 1 .. gap |-> Blank]
<1>1. blanks \in Seq(Symbols) /\ Len(blanks) = gap /\ \A k \in 1 .. gap : blanks[k] = Blank
  <2>1. gap \in Nat
    OBVIOUS
  <2>2. QED
    BY ONLY <2>1, Typing, RepeatFacts
<1>2. Field(score) = blanks \o score
  <2>1. FieldLength - Len(score) = gap
    BY Lengths
  <2>2. QED
    BY <2>1 DEF Field
<1> HIDE DEF blanks
<1>3. /\ blanks \o score \in Seq(Symbols) /\ Len(blanks \o score) = gap + Len(score)
      /\ \A k \in 1 .. gap + Len(score) :
           (blanks \o score)[k] = IF k <= gap THEN blanks[k] ELSE score[k - gap]
  BY <1>1, ConcatProperties
<1>4. gap + Len(score) = 3
  OBVIOUS
<1>5. \A k \in 1 .. gap : Field(score)[k] = Blank
  BY <1>1, <1>2, <1>3, <1>4
<1>6. ASSUME NEW k \in 1 .. 3 - gap PROVE Field(score)[gap + k] = score[k]
  <2>1. gap + k \in 1 .. 3 /\ ~ (gap + k <= gap) /\ (gap + k) - gap = k
    OBVIOUS
  <2>2. QED
    BY <1>2, <1>3, <1>4, <2>1
<1>7. QED
  BY <1>2, <1>3, <1>4, <1>5, <1>6

(* What the sheet shows for the score that was put into it.                *)
LEMMA ShownFacts ==
  ASSUME NEW score \in Seq(Symbols), NEW gap \in 0 .. 3, Len(score) = 3 - gap,
         Blank \notin Range(score)
  PROVE  Shown(Field(score)) = score
<1> DEFINE field == Field(score)
           IsFirst(k) == /\ \A j \in 1 .. k - 1 : field[j] = Blank
                         /\ k <= 3 => field[k] # Blank
<1>1. /\ field \in Seq(Symbols) /\ Len(field) = 3
      /\ \A k \in 1 .. gap : field[k] = Blank
      /\ \A k \in 1 .. 3 - gap : field[gap + k] = score[k]
  BY FieldFacts
<1>2. \A k \in 1 .. 3 - gap : score[k] # Blank
  <2>1. \A k \in DOMAIN score : score[k] \in Range(score)
    BY DEF Range
  <2>2. DOMAIN score = 1 .. 3 - gap
    BY LenProperties
  <2>3. QED
    BY <2>1, <2>2
<1>3. Shown(field) = SubSeq(field, CHOOSE k \in 1 .. 4 : IsFirst(k), 3)
  <2>1. FieldLength = 3 /\ FieldLength + 1 = 4
    BY Lengths
  <2>2. QED
    BY <2>1 DEF Shown
<1>4. \A k \in 1 .. 3 - gap : field[gap + k] # Blank
  BY <1>1, <1>2
<1> HIDE DEF field
<1>5. gap + 1 \in 1 .. 4 /\ IsFirst(gap + 1)
  <2>1. \A j \in 1 .. (gap + 1) - 1 : field[j] = Blank
    BY <1>1
  <2>2. gap + 1 <= 3 => field[gap + 1] # Blank
    <3>1. gap + 1 <= 3 => 1 \in 1 .. 3 - gap
      OBVIOUS
    <3>2. QED
      BY <1>4, <3>1
  <2>3. QED
    BY <2>1, <2>2
<1>6. ASSUME NEW k \in 1 .. 4, IsFirst(k) PROVE k = gap + 1
  <2>1. ~ (k <= gap)
    <3>1. k <= gap => k \in 1 .. gap /\ k <= 3
      OBVIOUS
    <3>2. QED
      BY <1>1, <1>6, <3>1
  <2>2. ~ (k > gap + 1)
    <3>1. k > gap + 1 => gap + 1 \in 1 .. k - 1 /\ 1 \in 1 .. 3 - gap
      OBVIOUS
    <3>2. QED
      BY <1>4, <1>6, <3>1
  <2>3. QED
    BY <2>1, <2>2
<1>7. (CHOOSE k \in 1 .. 4 : IsFirst(k)) = gap + 1
  BY <1>5, <1>6
<1>8. SubSeq(field, gap + 1, 3) = score
  <2>1. \A j \in gap + 1 .. 3 : field[j] \in Symbols
    <3>1. \A j \in gap + 1 .. 3 : j \in 1 .. Len(field)
      BY <1>1
    <3>2. QED
      BY <1>1, <3>1, ElementOfSeq
  <2>2. /\ SubSeq(field, gap + 1, 3) \in Seq(Symbols)
        /\ Len(SubSeq(field, gap + 1, 3)) = IF gap + 1 <= 3 THEN 3 - (gap + 1) + 1 ELSE 0
        /\ \A k \in 1 .. 3 - (gap + 1) + 1 :
             SubSeq(field, gap + 1, 3)[k] = field[gap + 1 + k - 1]
    <3>1. gap + 1 \in Int /\ 3 \in Int
      OBVIOUS
    <3>2. QED
      BY ONLY <2>1, <3>1, SubSeqProperties
  <2>3. Len(SubSeq(field, gap + 1, 3)) = Len(score)
    BY <2>2
  <2>4. \A k \in 1 .. Len(score) : SubSeq(field, gap + 1, 3)[k] = score[k]
    <3>1. ASSUME NEW k \in 1 .. Len(score)
          PROVE  k \in 1 .. 3 - gap /\ k \in 1 .. 3 - (gap + 1) + 1 /\ gap + 1 + k - 1 = gap + k
      OBVIOUS
    <3>2. QED
      BY <1>1, <2>2, <3>1
  <2>5. QED
    BY <2>2, <2>3, <2>4, SeqEqual
<1>9. QED
  BY <1>3, <1>7, <1>8 DEF field

-----------------------------------------------------------------------------
(* Cutting.                                                                *)
LEMMA CutFacts ==
  ASSUME NEW t \in Seq(Symbols), NEW m \in Nat \ {0}, NEW n \in Nat, n <= Len(t)
  PROVE  /\ SubSeq(t, m, n) \in Seq(Symbols)
         /\ Len(SubSeq(t, m, n)) = IF m <= n THEN n - m + 1 ELSE 0
         /\ \A k \in 1 .. n - m + 1 : SubSeq(t, m, n)[k] = t[m + k - 1]
<1>1. Len(t) \in Nat
  BY LenProperties
<1>2. \A j \in m .. n : t[j] \in Symbols
  <2>1. \A j \in m .. n : j \in 1 .. Len(t)
    BY <1>1
  <2>2. QED
    BY <2>1, ElementOfSeq
<1>3. m \in Int /\ n \in Int
  OBVIOUS
<1>4. QED
  BY ONLY <1>2, <1>3, SubSeqProperties

LEMMA DropFacts ==
  ASSUME NEW t \in Seq(Symbols)
  PROVE  /\ Drop(t) \in Seq(Symbols)
         /\ Len(Drop(t)) = IF Len(t) >= 4 THEN Len(t) - 4 ELSE 0
         /\ \A k \in 1 .. Len(t) - 4 : Drop(t)[k] = t[4 + k]
<1>1. Len(t) \in Nat
  BY LenProperties
<1>2. Drop(t) = SubSeq(t, 5, Len(t))
  <2>1. Position + 1 = 5
    BY Lengths
  <2>2. QED
    BY <2>1 DEF Drop
<1>3. /\ SubSeq(t, 5, Len(t)) \in Seq(Symbols)
      /\ Len(SubSeq(t, 5, Len(t))) = IF 5 <= Len(t) THEN Len(t) - 5 + 1 ELSE 0
      /\ \A k \in 1 .. Len(t) - 5 + 1 : SubSeq(t, 5, Len(t))[k] = t[5 + k - 1]
  <2>1. 5 \in Nat \ {0} /\ Len(t) <= Len(t)
    BY <1>1
  <2>2. QED
    BY <1>1, <2>1, CutFacts
<1>4. Len(Drop(t)) = IF Len(t) >= 4 THEN Len(t) - 4 ELSE 0
  BY <1>1, <1>2, <1>3
<1>5. ASSUME NEW k \in 1 .. Len(t) - 4 PROVE Drop(t)[k] = t[4 + k]
  <2>1. k \in 1 .. Len(t) - 5 + 1 /\ 5 + k - 1 = 4 + k
    BY <1>1
  <2>2. QED
    BY <1>2, <1>3, <2>1
<1>6. QED
  BY <1>2, <1>3, <1>4, <1>5

LEMMA TakeFacts ==
  ASSUME NEW t \in Seq(Symbols)
  PROVE  /\ Take(t) \in Seq(Symbols)
         /\ Len(t) >= 4 => /\ Len(Take(t)) = 4
                           /\ \A k \in 1 .. 4 : Take(t)[k] = t[k]
<1>1. Len(t) \in Nat
  BY LenProperties
<1> DEFINE n == IF Len(t) < 4 THEN Len(t) ELSE 4
<1>2. Take(t) = SubSeq(t, 1, n)
  BY Lengths DEF Take
<1>3. n \in Nat /\ n <= Len(t) /\ (Len(t) >= 4 => n = 4)
  BY <1>1
<1> HIDE DEF n
<1>4. /\ SubSeq(t, 1, n) \in Seq(Symbols)
      /\ Len(SubSeq(t, 1, n)) = IF 1 <= n THEN n - 1 + 1 ELSE 0
      /\ \A k \in 1 .. n - 1 + 1 : SubSeq(t, 1, n)[k] = t[1 + k - 1]
  <2>1. 1 \in Nat \ {0}
    OBVIOUS
  <2>2. QED
    BY <1>3, <2>1, CutFacts
<1>5. SUFFICES ASSUME Len(t) >= 4
               PROVE  /\ Len(Take(t)) = 4
                      /\ \A k \in 1 .. 4 : Take(t)[k] = t[k]
  BY <1>2, <1>4
<1>6. n = 4
  BY <1>3, <1>5
<1>7. ASSUME NEW k \in 1 .. 4 PROVE k \in 1 .. 4 - 1 + 1 /\ 1 + k - 1 = k
  OBVIOUS
<1>8. QED
  BY <1>2, <1>4, <1>6, <1>7

(* A sheet is a text with the label and the heading in their places.       *)
Framed(t) ==
  /\ Len(t) >= 8 /\ t[1] = Label[1]
  /\ \A k \in 1 .. 4 : t[4 + k] = Heading[k]

LEMMA PrefixFacts ==
  ASSUME NEW s \in Seq(Symbols), NEW t \in Seq(Symbols)
  PROVE  IsPrefix(s, t) <=> (Len(s) <= Len(t) /\ \A k \in 1 .. Len(s) : t[k] = s[k])
<1>1. Len(s) \in Nat /\ Len(t) \in Nat
  BY LenProperties
<1>2. SUFFICES ASSUME Len(s) <= Len(t)
               PROVE  SubSeq(s, 1, Len(s)) = SubSeq(t, 1, Len(s))
                        <=> \A k \in 1 .. Len(s) : t[k] = s[k]
  BY DEF IsPrefix
<1> DEFINE front == SubSeq(t, 1, Len(s))
<1>3. SubSeq(s, 1, Len(s)) = s
  BY SubSeqFull
<1>4. /\ front \in Seq(Symbols) /\ Len(front) = Len(s)
      /\ \A k \in 1 .. Len(s) : front[k] = t[k]
  <2>1. 1 \in Nat \ {0}
    OBVIOUS
  <2>2. /\ front \in Seq(Symbols)
        /\ Len(front) = IF 1 <= Len(s) THEN Len(s) - 1 + 1 ELSE 0
        /\ \A k \in 1 .. Len(s) - 1 + 1 : front[k] = t[1 + k - 1]
    BY <1>1, <1>2, <2>1, CutFacts
  <2>3. \A k \in 1 .. Len(s) : k \in 1 .. Len(s) - 1 + 1 /\ 1 + k - 1 = k
    BY <1>1
  <2> HIDE DEF front
  <2>4. QED
    BY <1>1, <2>2, <2>3
<1> HIDE DEF front
<1>5. s = front <=> \A k \in 1 .. Len(s) : t[k] = s[k]
  <2>1. ASSUME \A k \in 1 .. Len(s) : t[k] = s[k] PROVE s = front
    <3>1. \A k \in 1 .. Len(s) : s[k] = front[k]
      BY <1>4, <2>1
    <3>2. QED
      BY <1>4, <3>1, SeqEqual
  <2>2. QED
    BY <1>4, <2>1
<1>6. QED
  BY <1>3, <1>5 DEF front

LEMMA SheetByPosition ==
  ASSUME NEW t \in Seq(Symbols)
  PROVE  IsSheet(t) <=> Framed(t)
<1>1. Len(t) \in Nat
  BY LenProperties
<1>2. IsPrefix(Label, t) <=> (1 <= Len(t) /\ t[1] = Label[1])
  <2>1. IsPrefix(Label, t) <=> (Len(Label) <= Len(t) /\ \A k \in 1 .. Len(Label) : t[k] = Label[k])
    BY Typing, PrefixFacts
  <2>2. \A k \in 1 .. 1 : k = 1
    OBVIOUS
  <2>3. 1 \in 1 .. 1
    OBVIOUS
  <2>4. QED
    BY <2>1, <2>2, <2>3, Lengths
<1>3. IsPrefix(Heading, Drop(t))
        <=> (4 <= Len(Drop(t)) /\ \A k \in 1 .. 4 : Drop(t)[k] = Heading[k])
  <2>1. IsPrefix(Heading, Drop(t))
          <=> (Len(Heading) <= Len(Drop(t)) /\ \A k \in 1 .. Len(Heading) : Drop(t)[k] = Heading[k])
    BY Typing, PrefixFacts, DropFacts
  <2>2. QED
    BY <2>1, Lengths
<1>4. 4 <= Len(Drop(t)) <=> Len(t) >= 8
  BY <1>1, DropFacts
<1>5. Len(t) >= 8 => \A k \in 1 .. 4 : Drop(t)[k] = t[4 + k]
  <2>1. Len(t) >= 8 => \A k \in 1 .. 4 : k \in 1 .. Len(t) - 4
    BY <1>1
  <2>2. QED
    BY <2>1, DropFacts
<1>6. QED
  BY <1>1, <1>2, <1>3, <1>4, <1>5 DEF IsSheet, Framed

-----------------------------------------------------------------------------
(* Joining the pieces that readFile reads.                                 *)
LEMMA MinFacts ==
  ASSUME NEW K \in SUBSET Nat, K # {}
  PROVE  \E k \in K : \A j \in K : k <= j
<1>1. \E k \in K : \A j \in K : ~ (<<j, k>> \in OpToRel(<, Nat))
  BY NatLessThanWellFounded, WFMin
<1>2. \A j, k \in Nat : j < k => <<j, k>> \in OpToRel(<, Nat)
  BY DEF OpToRel
<1>3. \E k \in K : \A j \in K : ~ (j < k)
  BY <1>1, <1>2
<1>4. QED
  BY <1>3

(* The function by which FlattenSeq is defined, and that there is one.     *)
Joins(f, seqs, n) ==
  f = [i \in 1 .. n |-> IF i = 1 THEN seqs[i] ELSE f[i - 1] \o seqs[i]]
HasJoins(seqs, n) == \E f : Joins(f, seqs, n)

LEMMA JoinsExtended ==
  ASSUME NEW seqs, NEW m \in Nat \ {0}, HasJoins(seqs, m)
  PROVE  HasJoins(seqs, m + 1)
<1>1. PICK f : Joins(f, seqs, m)
  BY DEF HasJoins
<1> DEFINE g == [i \in 1 .. m + 1 |-> IF i <= m THEN f[i] ELSE f[m] \o seqs[i]]
           h == [i \in 1 .. m + 1 |-> IF i = 1 THEN seqs[i] ELSE g[i - 1] \o seqs[i]]
<1>2. \A i \in 1 .. m : f[i] = IF i = 1 THEN seqs[i] ELSE f[i - 1] \o seqs[i]
  BY <1>1 DEF Joins
<1>3. ASSUME NEW i \in 1 .. m + 1 PROVE g[i] = h[i]
  <2>1. CASE i = 1
    <3>1. i <= m /\ i \in 1 .. m
      BY <2>1
    <3>2. QED
      BY <1>2, <2>1, <3>1
  <2>2. CASE i # 1 /\ i <= m
    <3>1. i \in 1 .. m /\ i - 1 \in 1 .. m + 1 /\ i - 1 <= m
      BY <2>2
    <3>2. QED
      BY <1>2, <2>2, <3>1
  <2>3. CASE i = m + 1
    <3>1. i # 1 /\ ~ (i <= m) /\ i - 1 = m /\ m \in 1 .. m + 1 /\ m <= m
      BY <2>3
    <3>2. QED
      BY <2>3, <3>1
  <2>4. QED
    BY <2>1, <2>2, <2>3
<1>4. g = h
  <2>1. g = [i \in 1 .. m + 1 |-> g[i]] /\ h = [i \in 1 .. m + 1 |-> h[i]]
    OBVIOUS
  <2> HIDE DEF g, h
  <2>2. QED
    BY <1>3, <2>1
<1>5. Joins(g, seqs, m + 1)
  <2>1. g = h
    BY <1>4
  <2> HIDE DEF g
  <2>2. QED
    BY <2>1 DEF Joins
<1>6. QED
  <2> HIDE DEF g
  <2>1. QED
    BY <1>5 DEF HasJoins

LEMMA JoinsExist ==
  ASSUME NEW seqs, NEW n \in Nat \ {0}
  PROVE  HasJoins(seqs, n)
<1> DEFINE Missing == {m \in Nat \ {0} : ~ HasJoins(seqs, m)}
<1>1. SUFFICES ASSUME Missing # {} PROVE FALSE
  OBVIOUS
<1>2. PICK m \in Missing : \A j \in Missing : m <= j
  <2>1. Missing \in SUBSET Nat
    OBVIOUS
  <2> HIDE DEF Missing
  <2>2. QED
    BY <1>1, <2>1, MinFacts
<1>3. HasJoins(seqs, 1)
  <2> DEFINE f == [i \in 1 .. 1 |-> seqs[i]]
  <2>1. f = [i \in 1 .. 1 |-> IF i = 1 THEN seqs[i] ELSE f[i - 1] \o seqs[i]]
    <3>1. \A i \in 1 .. 1 : i = 1
      OBVIOUS
    <3>2. \A i \in 1 .. 1 : seqs[i] = IF i = 1 THEN seqs[i] ELSE f[i - 1] \o seqs[i]
      BY <3>1
    <3>3. QED
      BY <3>2
  <2> HIDE DEF f
  <2>2. QED
    BY <2>1 DEF HasJoins, Joins
<1>4. m # 1 /\ ~ HasJoins(seqs, m) /\ m \in Nat \ {0}
  BY <1>2, <1>3
<1>5. m - 1 \in Nat \ {0} /\ m - 1 \notin Missing /\ (m - 1) + 1 = m
  BY <1>2, <1>4
<1>6. HasJoins(seqs, m - 1)
  BY <1>5
<1>7. HasJoins(seqs, (m - 1) + 1)
  BY <1>5, <1>6, JoinsExtended
<1>8. QED
  BY <1>4, <1>5, <1>7

(* What is joined begins with the first of the sequences.                  *)
StartsWith(s, t) == Len(t) <= Len(s) /\ \A k \in 1 .. Len(t) : s[k] = t[k]

LEMMA StartsWithConcat ==
  ASSUME NEW S, NEW s \in Seq(S), NEW t \in Seq(S), NEW u \in Seq(S), StartsWith(s, t)
  PROVE  s \o u \in Seq(S) /\ StartsWith(s \o u, t)
<1>1. Len(s) \in Nat /\ Len(t) \in Nat /\ Len(u) \in Nat
  BY LenProperties
<1>2. /\ s \o u \in Seq(S) /\ Len(s \o u) = Len(s) + Len(u)
      /\ \A k \in 1 .. Len(s) + Len(u) :
           (s \o u)[k] = IF k <= Len(s) THEN s[k] ELSE u[k - Len(s)]
  BY ConcatProperties
<1>3. Len(t) <= Len(s)
  BY DEF StartsWith
<1>4. ASSUME NEW k \in 1 .. Len(t) PROVE (s \o u)[k] = t[k]
  <2>1. k \in 1 .. Len(s) + Len(u) /\ k <= Len(s)
    BY <1>1, <1>3
  <2>2. QED
    BY <1>2, <2>1 DEF StartsWith
<1>5. QED
  BY <1>1, <1>2, <1>3, <1>4 DEF StartsWith

LEMMA FlattenFacts ==
  ASSUME NEW S, NEW n \in Nat \ {0}, NEW seqs \in [1 .. n -> Seq(S)]
  PROVE  FlattenSeq(seqs) \in Seq(S) /\ StartsWith(FlattenSeq(seqs), seqs[1])
<1>1. Len(seqs) = n
  OBVIOUS
<1> DEFINE f == CHOOSE g : g = [i \in 1 .. n |-> IF i = 1 THEN seqs[i] ELSE g[i - 1] \o seqs[i]]
<1>2. Joins(f, seqs, n)
  BY JoinsExist DEF HasJoins, Joins
<1>3. FlattenSeq(seqs) = f[n]
  BY <1>1 DEF FlattenSeq
<1> HIDE DEF f
<1> DEFINE Fine(i) == f[i] \in Seq(S) /\ StartsWith(f[i], seqs[1])
           Wrong == {i \in 1 .. n : ~ Fine(i)}
<1>4. SUFFICES ASSUME Wrong # {} PROVE FALSE
  <2>1. n \in 1 .. n
    OBVIOUS
  <2>2. QED
    BY <1>3, <2>1
<1>5. PICK i \in Wrong : \A j \in Wrong : i <= j
  <2>1. Wrong \in SUBSET Nat
    OBVIOUS
  <2> HIDE DEF Wrong
  <2>2. QED
    BY <1>4, <2>1, MinFacts
<1>6. i \in 1 .. n /\ ~ Fine(i)
  BY <1>5
<1>7. f[i] = IF i = 1 THEN seqs[i] ELSE f[i - 1] \o seqs[i]
  BY <1>2, <1>6 DEF Joins
<1>8. seqs[1] \in Seq(S) /\ StartsWith(seqs[1], seqs[1])
  <2>1. 1 \in 1 .. n
    OBVIOUS
  <2>2. seqs[1] \in Seq(S)
    BY <2>1
  <2>3. QED
    BY <2>2, LenProperties DEF StartsWith
<1>9. i # 1
  BY <1>6, <1>7, <1>8
<1>10. i - 1 \in 1 .. n /\ i - 1 \notin Wrong
  BY <1>5, <1>6, <1>9
<1>11. Fine(i - 1)
  BY <1>10
<1>12. Fine(i)
  <2>1. seqs[i] \in Seq(S)
    BY <1>6
  <2>2. f[i - 1] \o seqs[i] \in Seq(S) /\ StartsWith(f[i - 1] \o seqs[i], seqs[1])
    BY <1>8, <1>11, <2>1, StartsWithConcat
  <2>3. QED
    BY <1>7, <1>9, <2>2
<1>13. QED
  BY <1>6, <1>12

-----------------------------------------------------------------------------
(* What is read of a text that was written: all of it if it is short, else *)
(* nothing or at least its first block.                                    *)
LEMMA BlockFacts == BlockLength \in Nat /\ BlockLength > 8
BY TextsAssumption, Lengths

LEMMA PiecesFacts ==
  ASSUME NEW t \in Seq(Symbols)
  PROVE  /\ Pieces(t) \in Nat \ {0}
         /\ (Pieces(t) - 1) * BlockLength <= Len(t)
         /\ Len(t) >= BlockLength => Pieces(t) > 1
<1> DEFINE q == Len(t) \div BlockLength
<1>1. Len(t) \in Nat /\ BlockLength \in Nat \ {0}
  BY BlockFacts, LenProperties
<1>2. q \in Nat /\ q * BlockLength <= Len(t) /\ Len(t) < (q + 1) * BlockLength
  <2>1. \A a \in Nat, b \in Nat \ {0} :
          /\ a \div b \in Nat
          /\ (a \div b) * b <= a /\ a < ((a \div b) + 1) * b
    OBVIOUS
  <2>2. QED
    BY <1>1, <2>1
<1>3. Pieces(t) = q + 1
  BY DEF Pieces
<1> HIDE DEF q
<1>4. Len(t) >= BlockLength => q # 0
  BY <1>1, <1>2
<1>5. QED
  BY <1>2, <1>3, <1>4

LEMMA TimesFacts ==
  ASSUME NEW a \in Nat, NEW b \in Nat, NEW c \in Nat, a <= b
  PROVE  a * c \in Nat /\ b * c \in Nat /\ a * c <= b * c
OBVIOUS

LEMMA PieceFacts ==
  ASSUME NEW t \in Seq(Symbols), NEW k \in 1 .. Pieces(t)
  PROVE  Piece(t, k) \in Seq(Symbols)
<1> DEFINE m == (k - 1) * BlockLength + 1
           n == IF k = Pieces(t) THEN Len(t) ELSE k * BlockLength
<1>1. Len(t) \in Nat /\ BlockLength \in Nat \ {0} /\ Pieces(t) \in Nat \ {0}
  BY BlockFacts, LenProperties, PiecesFacts
<1>3. k - 1 \in Nat /\ k \in Nat /\ Pieces(t) - 1 \in Nat
  BY <1>1
<1>4. m \in Nat \ {0}
  <2>1. (k - 1) * BlockLength \in Nat
    BY <1>1, <1>3, TimesFacts
  <2>2. QED
    BY <2>1
<1>5. n \in Nat /\ n <= Len(t)
  <2>1. CASE k = Pieces(t)
    BY <1>1, <2>1
  <2>2. CASE k # Pieces(t)
    <3>1. k <= Pieces(t) - 1
      BY <1>1, <2>2
    <3>2. k * BlockLength \in Nat /\ k * BlockLength <= (Pieces(t) - 1) * BlockLength
          /\ (Pieces(t) - 1) * BlockLength \in Nat
      BY ONLY <1>1, <1>3, <3>1, TimesFacts
    <3>3. (Pieces(t) - 1) * BlockLength <= Len(t)
      BY PiecesFacts
    <3>4. QED
      BY <1>1, <2>2, <3>2, <3>3
  <2>3. QED
    BY <2>1, <2>2
<1>6. Piece(t, k) = SubSeq(t, m, n)
  BY DEF Piece
<1> HIDE DEF m, n
<1>7. QED
  BY <1>4, <1>5, <1>6, CutFacts

LEMMA FirstPiece ==
  ASSUME NEW t \in Seq(Symbols), Len(t) >= BlockLength
  PROVE  /\ Len(Piece(t, 1)) = BlockLength
         /\ \A k \in 1 .. BlockLength : Piece(t, 1)[k] = t[k]
<1>1. BlockLength \in Nat \ {0} /\ Pieces(t) # 1
  BY BlockFacts, PiecesFacts
<1>2. Piece(t, 1) = SubSeq(t, 1, BlockLength)
  <2>1. (1 - 1) * BlockLength + 1 = 1 /\ 1 * BlockLength = BlockLength
    BY <1>1
  <2>2. QED
    BY <1>1, <2>1 DEF Piece
<1>3. /\ Len(SubSeq(t, 1, BlockLength)) = IF 1 <= BlockLength THEN BlockLength - 1 + 1 ELSE 0
      /\ \A k \in 1 .. BlockLength - 1 + 1 : SubSeq(t, 1, BlockLength)[k] = t[1 + k - 1]
  BY <1>1, CutFacts
<1>4. \A k \in 1 .. BlockLength : k \in 1 .. BlockLength - 1 + 1 /\ 1 + k - 1 = k
  BY <1>1
<1>5. QED
  BY <1>1, <1>2, <1>3, <1>4

(* Text f keeps the first n symbols of t.                                  *)
KeepsFirst(f, t, n) == Len(f) >= n /\ \A k \in 1 .. n : f[k] = t[k]

LEMMA LaidFacts ==
  ASSUME NEW t \in Seq(Symbols), Len(t) >= BlockLength,
         NEW n \in 0 .. Pieces(t), NEW f \in Laid(t, n)
  PROVE  f = <<>> \/ (f \in Seq(Symbols) /\ KeepsFirst(f, t, BlockLength))
<1>1. PICK left \in [1 .. n -> Leftovers] :
             f = FlattenSeq([k \in 1 .. n |-> Piece(t, k) \o left[k]])
  BY DEF Laid
<1> DEFINE seqs == [k \in 1 .. n |-> Piece(t, k) \o left[k]]
<1>2. Pieces(t) \in Nat \ {0} /\ BlockLength \in Nat \ {0}
  BY BlockFacts, PiecesFacts
<1>3. CASE n = 0
  <2>1. Len(seqs) = 0 /\ seqs = <<>>
    BY <1>3
  <2>2. f = seqs
    BY <1>1, <2>1 DEF FlattenSeq
  <2>3. QED
    BY <2>1, <2>2
<1>4. CASE n # 0
  <2>1. n \in Nat \ {0} /\ 1 \in 1 .. n /\ 1 .. n \subseteq 1 .. Pieces(t)
    BY <1>2, <1>4
  <2>2. \A k \in 1 .. n : Piece(t, k) \o left[k] \in Seq(Symbols)
    <3>1. SUFFICES ASSUME NEW k \in 1 .. n PROVE Piece(t, k) \o left[k] \in Seq(Symbols)
      OBVIOUS
    <3>2. Piece(t, k) \in Seq(Symbols) /\ left[k] \in Seq(Symbols)
      BY <2>1, PieceFacts, Typing
    <3>3. QED
      BY <3>2, ConcatProperties
  <2>3. seqs \in [1 .. n -> Seq(Symbols)]
    BY <2>2
  <2>4. seqs[1] = Piece(t, 1) \o left[1]
    BY <2>1
  <2> HIDE DEF seqs
  <2>5. FlattenSeq(seqs) \in Seq(Symbols) /\ StartsWith(FlattenSeq(seqs), seqs[1])
    BY <2>1, <2>3, FlattenFacts
  <2>6. Piece(t, 1) \in Seq(Symbols) /\ left[1] \in Seq(Symbols)
    BY <2>1, PieceFacts, Typing
  <2>7. StartsWith(seqs[1], Piece(t, 1))
    <3>1. StartsWith(Piece(t, 1), Piece(t, 1))
      BY <2>6, LenProperties DEF StartsWith
    <3>2. QED
      BY <2>4, <2>6, <3>1, StartsWithConcat
  <2>8. Len(seqs[1]) \in Nat /\ Len(FlattenSeq(seqs)) \in Nat
    BY <2>1, <2>3, <2>5, LenProperties
  <2>9. KeepsFirst(FlattenSeq(seqs), t, BlockLength)
    <3>1. Len(seqs[1]) >= BlockLength /\ \A k \in 1 .. BlockLength : seqs[1][k] = t[k]
      BY <1>2, <2>7, <2>8, FirstPiece DEF StartsWith
    <3>2. \A k \in 1 .. BlockLength : k \in 1 .. Len(seqs[1])
      BY <1>2, <2>8, <3>1
    <3>3. Len(seqs[1]) <= Len(FlattenSeq(seqs))
          /\ \A k \in 1 .. Len(seqs[1]) : FlattenSeq(seqs)[k] = seqs[1][k]
      BY <2>5 DEF StartsWith
    <3>4. Len(FlattenSeq(seqs)) >= BlockLength
      BY <1>2, <2>8, <3>1, <3>3
    <3>5. \A k \in 1 .. BlockLength : FlattenSeq(seqs)[k] = t[k]
      BY <3>1, <3>2, <3>3
    <3>6. QED
      BY <3>4, <3>5 DEF KeepsFirst
  <2>10. QED
    BY <1>1, <2>5, <2>9 DEF seqs
<1>5. QED
  BY <1>3, <1>4

LEMMA StoredFacts ==
  ASSUME NEW t \in Seq(Symbols), NEW f \in Stored(t)
  PROVE  /\ f \in Seq(Symbols)
         /\ Len(t) < BlockLength => f = t
         /\ Len(t) >= BlockLength => f = <<>> \/ KeepsFirst(f, t, BlockLength)
<1>1. Len(t) \in Nat /\ BlockLength \in Nat /\ Pieces(t) \in Nat \ {0}
  BY BlockFacts, LenProperties, PiecesFacts
<1>2. CASE Len(t) < BlockLength
  <2>1. f = t
    BY <1>2 DEF Stored
  <2>2. ~ (Len(t) >= BlockLength)
    BY <1>1, <1>2
  <2>3. QED
    BY <2>1, <2>2
<1>3. CASE Len(t) >= BlockLength
  <2>1. PICK n \in IF MayRunOut THEN 0 .. Pieces(t) ELSE {Pieces(t)} : f \in Laid(t, n)
    BY <1>1, <1>3 DEF Stored
  <2>2. n \in 0 .. Pieces(t)
    BY <1>1
  <2>3. f = <<>> \/ (f \in Seq(Symbols) /\ KeepsFirst(f, t, BlockLength))
    BY <1>3, <2>1, <2>2, LaidFacts
  <2>4. f \in Seq(Symbols)
    <3>1. <<>> \in Seq(Symbols)
      BY EmptySeq
    <3>2. QED
      BY ONLY <2>3, <3>1
  <2>5. ~ (Len(t) < BlockLength)
    BY <1>1, <1>3
  <2>6. QED
    BY <2>3, <2>4, <2>5
<1>4. QED
  BY <1>1, <1>2, <1>3

-----------------------------------------------------------------------------
(* What a sheet says.                                                      *)
LEMMA JoinFacts ==
  ASSUME NEW a \in Seq(Symbols), NEW b \in Seq(Symbols), NEW c \in Seq(Symbols)
  PROVE  /\ a \o b \o c \in Seq(Symbols)
         /\ Len(a \o b \o c) = Len(a) + Len(b) + Len(c)
         /\ \A k \in 1 .. Len(a) : (a \o b \o c)[k] = a[k]
         /\ \A k \in 1 .. Len(b) : (a \o b \o c)[Len(a) + k] = b[k]
         /\ \A k \in 1 .. Len(c) : (a \o b \o c)[Len(a) + Len(b) + k] = c[k]
<1> DEFINE i == Len(a)
           j == Len(b)
           ab == a \o b
<1>0. i \in Nat /\ j \in Nat /\ Len(c) \in Nat
  BY LenProperties
<1>1. /\ ab \in Seq(Symbols) /\ Len(ab) = i + j
      /\ \A k \in 1 .. i + j : ab[k] = IF k <= i THEN a[k] ELSE b[k - i]
  BY ConcatProperties
<1>2. a \o b \o c = ab \o c
  OBVIOUS
<1> HIDE DEF ab
<1> HIDE DEF i, j
<1>3. /\ ab \o c \in Seq(Symbols) /\ Len(ab \o c) = Len(ab) + Len(c)
      /\ \A k \in 1 .. Len(ab) + Len(c) :
           (ab \o c)[k] = IF k <= Len(ab) THEN ab[k] ELSE c[k - Len(ab)]
  <2>1. ab \in Seq(Symbols)
    BY <1>1
  <2>2. QED
    BY <2>1, ConcatProperties
<1>4. ASSUME NEW k \in 1 .. i PROVE (ab \o c)[k] = a[k]
  <2>1. k \in 1 .. i + j /\ k <= i /\ k \in 1 .. Len(ab) + Len(c) /\ k <= Len(ab)
    BY <1>0, <1>1
  <2>2. QED
    BY <1>1, <1>3, <2>1
<1>5. ASSUME NEW k \in 1 .. j PROVE (ab \o c)[i + k] = b[k]
  <2>1. i + k \in 1 .. i + j /\ ~ (i + k <= i) /\ i + k \in 1 .. Len(ab) + Len(c)
        /\ i + k <= Len(ab) /\ (i + k) - i = k
    BY <1>0, <1>1
  <2>2. QED
    BY <1>1, <1>3, <2>1
<1>6. ASSUME NEW k \in 1 .. Len(c) PROVE (ab \o c)[i + j + k] = c[k]
  <2>1. i + j + k \in 1 .. Len(ab) + Len(c) /\ ~ (i + j + k <= Len(ab))
        /\ (i + j + k) - Len(ab) = k
    BY <1>0, <1>1
  <2>2. QED
    BY <1>3, <2>1
<1>7. Len(ab \o c) = i + j + Len(c)
  BY <1>1, <1>3
<1>8. QED
  BY <1>2, <1>3, <1>4, <1>5, <1>6, <1>7 DEF i, j

LEMMA GradeFacts ==
  ASSUME NEW t \in Seq(Symbols), Framed(t)
  PROVE  LET field == SubSeq(t, 2, 4)
         IN  /\ Grade(t).score = Shown(field)
             /\ field \in Seq(Symbols) /\ Len(field) = 3
             /\ \A k \in 1 .. 3 : field[k] = t[1 + k]
             /\ Grade(t).comment \in Seq(Symbols)
             /\ Len(Grade(t).comment) = Len(t) - 8
             /\ \A k \in 1 .. Len(t) - 8 : Grade(t).comment[k] = t[8 + k]
<1>1. Len(t) \in Nat /\ Len(t) >= 8
  BY LenProperties DEF Framed
<1>2. Grade(t) = [score |-> Shown(SubSeq(t, 2, 4)), comment |-> SubSeq(t, 9, Len(t))]
  <2>1. Len(Label) + 1 = 2 /\ Position = 4 /\ Position + Len(Heading) + 1 = 9
    BY Lengths
  <2>2. QED
    BY <2>1 DEF Grade
<1>3. /\ SubSeq(t, 2, 4) \in Seq(Symbols)
      /\ Len(SubSeq(t, 2, 4)) = IF 2 <= 4 THEN 4 - 2 + 1 ELSE 0
      /\ \A k \in 1 .. 4 - 2 + 1 : SubSeq(t, 2, 4)[k] = t[2 + k - 1]
  <2>1. 2 \in Nat \ {0} /\ 4 \in Nat /\ 4 <= Len(t)
    BY <1>1
  <2>2. QED
    BY <2>1, CutFacts
<1>4. /\ SubSeq(t, 9, Len(t)) \in Seq(Symbols)
      /\ Len(SubSeq(t, 9, Len(t))) = IF 9 <= Len(t) THEN Len(t) - 9 + 1 ELSE 0
      /\ \A k \in 1 .. Len(t) - 9 + 1 : SubSeq(t, 9, Len(t))[k] = t[9 + k - 1]
  <2>1. 9 \in Nat \ {0} /\ Len(t) <= Len(t)
    BY <1>1
  <2>2. QED
    BY <1>1, <2>1, CutFacts
<1>5. \A k \in 1 .. 3 : k \in 1 .. 4 - 2 + 1 /\ 2 + k - 1 = 1 + k
  OBVIOUS
<1>6. \A k \in 1 .. Len(t) - 8 : k \in 1 .. Len(t) - 9 + 1 /\ 9 + k - 1 = 8 + k
  BY <1>1
<1>7. Len(SubSeq(t, 9, Len(t))) = Len(t) - 8
  <2>1. \A n \in Nat : n >= 8 => (IF 9 <= n THEN n - 9 + 1 ELSE 0) = n - 8
    OBVIOUS
  <2>2. (IF 9 <= Len(t) THEN Len(t) - 9 + 1 ELSE 0) = Len(t) - 8
    BY <1>1, <2>1
  <2>3. QED
    BY <1>4, <2>2
<1>8. Len(SubSeq(t, 2, 4)) = 3
  BY <1>3
<1>9. Grade(t).score = Shown(SubSeq(t, 2, 4)) /\ Grade(t).comment = SubSeq(t, 9, Len(t))
  BY <1>2
<1>10. QED
  BY <1>3, <1>4, <1>5, <1>6, <1>7, <1>8, <1>9

(* The score is in the second to fourth symbol, the comment behind the     *)
(* eighth.                                                                 *)
LEMMA SameScore ==
  ASSUME NEW t \in Seq(Symbols), NEW u \in Seq(Symbols), Framed(t), Framed(u),
         \A k \in 1 .. 3 : t[1 + k] = u[1 + k]
  PROVE  Grade(t).score = Grade(u).score
<1> DEFINE ft == SubSeq(t, 2, 4)
           fu == SubSeq(u, 2, 4)
<1>1. /\ ft \in Seq(Symbols) /\ Len(ft) = 3 /\ \A k \in 1 .. 3 : ft[k] = t[1 + k]
      /\ fu \in Seq(Symbols) /\ Len(fu) = 3 /\ \A k \in 1 .. 3 : fu[k] = u[1 + k]
      /\ Grade(t).score = Shown(ft) /\ Grade(u).score = Shown(fu)
  BY GradeFacts
<1> HIDE DEF ft, fu
<1>2. \A k \in 1 .. Len(ft) : ft[k] = fu[k]
  BY <1>1
<1>3. ft = fu
  BY <1>1, <1>2, SeqEqual
<1>4. QED
  BY <1>1, <1>3

LEMMA SameComment ==
  ASSUME NEW t \in Seq(Symbols), Framed(t), NEW c \in Seq(Symbols),
         Len(t) = 8 + Len(c), \A k \in 1 .. Len(c) : t[8 + k] = c[k]
  PROVE  Grade(t).comment = c
<1>1. Len(c) \in Nat /\ Len(t) - 8 = Len(c)
  BY LenProperties
<1> DEFINE d == Grade(t).comment
<1>2. d \in Seq(Symbols) /\ Len(d) = Len(t) - 8 /\ \A k \in 1 .. Len(t) - 8 : d[k] = t[8 + k]
  BY GradeFacts
<1> HIDE DEF d
<1>3. Len(d) = Len(c) /\ \A k \in 1 .. Len(d) : d[k] = c[k]
  BY <1>1, <1>2
<1>4. d = c
  BY <1>2, <1>3, SeqEqual
<1>5. QED
  BY <1>4 DEF d

LEMMA PutScore ==
  ASSUME NEW t \in Seq(Symbols), Framed(t), NEW score \in Seq(Symbols),
         Len(score) \in 0 .. 3, Blank \notin Range(score),
         \A k \in 1 .. 3 : t[1 + k] = Field(score)[k]
  PROVE  Grade(t).score = score
<1>1. PICK gap \in 0 .. 3 : Len(score) = 3 - gap
  <2>1. \A n \in 0 .. 3 : 3 - n \in 0 .. 3 /\ n = 3 - (3 - n)
    OBVIOUS
  <2>2. QED
    BY <2>1
<1> DEFINE ft == SubSeq(t, 2, 4)
<1>2. /\ ft \in Seq(Symbols) /\ Len(ft) = 3 /\ \A k \in 1 .. 3 : ft[k] = t[1 + k]
      /\ Grade(t).score = Shown(ft)
  BY GradeFacts
<1> HIDE DEF ft
<1>3. Field(score) \in Seq(Symbols) /\ Len(Field(score)) = 3
  BY <1>1, FieldFacts
<1>4. \A k \in 1 .. Len(ft) : ft[k] = Field(score)[k]
  BY <1>2
<1>5. ft = Field(score)
  BY <1>2, <1>3, <1>4, SeqEqual
<1>6. QED
  BY <1>1, <1>2, <1>5, ShownFacts

-----------------------------------------------------------------------------
(* What the requests write and what is found of it.                        *)
LEMMA FramedByParts ==
  ASSUME NEW b \in Seq(Symbols), NEW c \in Seq(Symbols), Len(b) = 3, Len(c) >= 4,
         \A k \in 1 .. 4 : c[k] = Heading[k]
  PROVE  LET t == Label \o b \o c
         IN  /\ t \in Seq(Symbols) /\ Framed(t) /\ Len(t) = 4 + Len(c)
             /\ \A k \in 1 .. 3 : t[1 + k] = b[k]
             /\ \A k \in 1 .. Len(c) : t[4 + k] = c[k]
<1> DEFINE t == Label \o b \o c
<1>0. Len(c) \in Nat
  BY LenProperties
<1>1. /\ t \in Seq(Symbols) /\ Len(t) = 1 + 3 + Len(c)
      /\ \A k \in 1 .. 1 : t[k] = Label[k]
      /\ \A k \in 1 .. 3 : t[1 + k] = b[k]
      /\ \A k \in 1 .. Len(c) : t[1 + 3 + k] = c[k]
  <2>1. Len(Label) = 1 /\ Len(b) = 3
    BY Lengths
  <2>2. Label \in Seq(Symbols) /\ b \in Seq(Symbols) /\ c \in Seq(Symbols)
    BY Typing
  <2>3. /\ t \in Seq(Symbols) /\ Len(t) = Len(Label) + Len(b) + Len(c)
        /\ \A k \in 1 .. Len(Label) : t[k] = Label[k]
        /\ \A k \in 1 .. Len(b) : t[Len(Label) + k] = b[k]
        /\ \A k \in 1 .. Len(c) : t[Len(Label) + Len(b) + k] = c[k]
    BY ONLY <2>2, JoinFacts DEF t
  <2> HIDE DEF t
  <2>4. QED
    BY <2>1, <2>2, <2>3
<1> HIDE DEF t
<1>2. \A k \in 1 .. Len(c) : t[4 + k] = c[k]
  <2>1. \A k \in 1 .. Len(c) : 1 + 3 + k = 4 + k
    BY <1>0
  <2>2. QED
    BY <1>1, <2>1
<1>3. \A k \in 1 .. 4 : t[4 + k] = Heading[k]
  <2>1. \A k \in 1 .. 4 : k \in 1 .. Len(c)
    BY <1>0
  <2>2. QED
    BY <1>2, <2>1
<1>4. t[1] = Label[1]
  <2>1. 1 \in 1 .. 1
    OBVIOUS
  <2>2. QED
    BY <1>1, <2>1
<1>5. Len(t) = 4 + Len(c) /\ Len(t) >= 8
  BY <1>0, <1>1
<1>6. QED
  BY <1>1, <1>2, <1>3, <1>4, <1>5 DEF Framed, t

LEMMA NewSheetFacts ==
  /\ NewSheet \in Seq(Symbols) /\ Framed(NewSheet) /\ Len(NewSheet) = 8
  /\ Grade(NewSheet) = [score |-> <<>>, comment |-> <<>>]
<1>1. <<>> \in Seq(Symbols) /\ Len(<<>>) = 0
  BY EmptySeq
<1>2. Field(<<>>) \in Seq(Symbols) /\ Len(Field(<<>>)) = 3
  <2>1. 3 \in 0 .. 3 /\ Len(<<>>) = 3 - 3
    BY <1>1
  <2>2. QED
    BY ONLY <1>1, <2>1, FieldFacts
<1> DEFINE b == Field(<<>>)
<1>3. /\ NewSheet \in Seq(Symbols) /\ Framed(NewSheet) /\ Len(NewSheet) = 4 + Len(Heading)
      /\ \A k \in 1 .. 3 : NewSheet[1 + k] = b[k]
  <2>1. Len(Heading) >= 4 /\ \A k \in 1 .. 4 : Heading[k] = Heading[k]
    BY Lengths
  <2>2. b \in Seq(Symbols) /\ Len(b) = 3
    BY <1>2
  <2>3. NewSheet = Label \o b \o Heading
    BY DEF NewSheet
  <2> HIDE DEF b
  <2>4. QED
    BY <2>1, <2>2, <2>3, Typing, FramedByParts
<1>4. Len(NewSheet) = 8
  BY <1>3, Lengths
<1>5. Grade(NewSheet).score = <<>>
  <2>1. Blank \notin Range(<<>>)
    BY DEF Range
  <2>2. Len(<<>>) \in 0 .. 3
    BY <1>1
  <2>3. QED
    BY <1>1, <1>3, <2>1, <2>2, PutScore
<1>6. Grade(NewSheet).comment = <<>>
  <2>1. Len(NewSheet) = 8 + Len(<<>>) /\ \A k \in 1 .. Len(<<>>) : NewSheet[8 + k] = <<>>[k]
    BY <1>1, <1>4
  <2>2. QED
    BY <1>1, <1>3, <2>1, SameComment
<1>7. Grade(NewSheet) = [score |-> Grade(NewSheet).score, comment |-> Grade(NewSheet).comment]
  BY DEF Grade
<1>8. QED
  BY <1>3, <1>4, <1>5, <1>6, <1>7

LEMMA ScoreFacts ==
  ASSUME NEW score \in Scores
  PROVE  /\ score \in Seq(Symbols) /\ Len(score) \in 0 .. 3 /\ Blank \notin Range(score)
         /\ Field(score) \in Seq(Symbols) /\ Len(Field(score)) = 3
<1>1. score \in Seq(Symbols) /\ Len(score) \in 1 .. 3 /\ Blank \notin Range(score)
  BY Typing, TextsAssumption, Lengths
<1>2. PICK gap \in 0 .. 3 : Len(score) = 3 - gap
  <2>1. \A n \in 1 .. 3 : 3 - n \in 0 .. 3 /\ n = 3 - (3 - n)
    OBVIOUS
  <2>2. QED
    BY <1>1, <2>1
<1>3. Field(score) \in Seq(Symbols) /\ Len(Field(score)) = 3
  BY <1>1, <1>2, FieldFacts
<1>4. \A n \in 1 .. 3 : n \in 0 .. 3
  OBVIOUS
<1>5. QED
  BY <1>1, <1>3, <1>4

(* mark: the comment stays.                                                *)
LEMMA MarkedSheet ==
  ASSUME NEW o \in Seq(Symbols), Framed(o), NEW score \in Scores
  PROVE  LET t == Label \o Field(score) \o Drop(o)
         IN  /\ t \in Seq(Symbols) /\ Framed(t)
             /\ Grade(t).score = score /\ Grade(t).comment = Grade(o).comment
<1> DEFINE t == Label \o Field(score) \o Drop(o)
<1>1. Len(o) \in Nat /\ Len(o) >= 8
  BY LenProperties DEF Framed
<1>2. /\ Drop(o) \in Seq(Symbols) /\ Len(Drop(o)) = Len(o) - 4
      /\ \A k \in 1 .. Len(o) - 4 : Drop(o)[k] = o[4 + k]
  BY <1>1, DropFacts
<1>3. Len(Drop(o)) >= 4 /\ \A k \in 1 .. 4 : Drop(o)[k] = Heading[k]
  <2>1. \A k \in 1 .. 4 : k \in 1 .. Len(o) - 4
    BY <1>1
  <2>2. QED
    BY <1>1, <1>2, <2>1 DEF Framed
<1>4. /\ t \in Seq(Symbols) /\ Framed(t) /\ Len(t) = 4 + Len(Drop(o))
      /\ \A k \in 1 .. 3 : t[1 + k] = Field(score)[k]
      /\ \A k \in 1 .. Len(Drop(o)) : t[4 + k] = Drop(o)[k]
  BY <1>2, <1>3, ScoreFacts, FramedByParts
<1> HIDE DEF t
<1>5. Grade(t).score = score
  BY <1>4, ScoreFacts, PutScore
<1>6. Grade(t).comment = Grade(o).comment
  <2> DEFINE c == Grade(o).comment
  <2>1. c \in Seq(Symbols) /\ Len(c) = Len(o) - 8 /\ \A k \in 1 .. Len(o) - 8 : c[k] = o[8 + k]
    BY GradeFacts
  <2> HIDE DEF c
  <2>2. Len(t) = 8 + Len(c)
    BY <1>1, <1>2, <1>4, <2>1
  <2>3. ASSUME NEW k \in 1 .. Len(c) PROVE t[8 + k] = c[k]
    <3>1. k \in 1 .. Len(o) - 8 /\ 4 + k \in 1 .. Len(o) - 4 /\ 4 + (4 + k) = 8 + k
      BY <1>1, <2>1
    <3>2. t[4 + (4 + k)] = Drop(o)[4 + k] /\ Drop(o)[4 + k] = o[4 + (4 + k)]
      BY <1>2, <1>4, <3>1
    <3>3. QED
      BY <2>1, <3>1, <3>2
  <2>4. QED
    BY <1>4, <2>1, <2>2, <2>3, SameComment DEF c
<1>7. QED
  BY <1>4, <1>5, <1>6 DEF t

(* writeComment: the score stays.                                          *)
LEMMA CommentedSheet ==
  ASSUME NEW o \in Seq(Symbols), Framed(o), NEW content \in Seq(Symbols)
  PROVE  LET t == Take(o) \o Heading \o content
         IN  /\ t \in Seq(Symbols) /\ Framed(t)
             /\ Grade(t).score = Grade(o).score /\ Grade(t).comment = content
<1> DEFINE t == Take(o) \o Heading \o content
<1>1. Len(o) \in Nat /\ Len(o) >= 8 /\ Len(o) >= 4 /\ Len(content) \in Nat
  BY LenProperties DEF Framed
<1>2. Take(o) \in Seq(Symbols) /\ Len(Take(o)) = 4 /\ \A k \in 1 .. 4 : Take(o)[k] = o[k]
  BY <1>1, TakeFacts
<1>3. /\ t \in Seq(Symbols) /\ Len(t) = 4 + 4 + Len(content)
      /\ \A k \in 1 .. 4 : t[k] = Take(o)[k]
      /\ \A k \in 1 .. 4 : t[4 + k] = Heading[k]
      /\ \A k \in 1 .. Len(content) : t[4 + 4 + k] = content[k]
  <2>1. Len(Take(o)) = 4 /\ Len(Heading) = 4
    BY <1>2, Lengths
  <2>2. Take(o) \in Seq(Symbols) /\ Heading \in Seq(Symbols) /\ content \in Seq(Symbols)
    BY <1>2, Typing
  <2>3. /\ t \in Seq(Symbols) /\ Len(t) = Len(Take(o)) + Len(Heading) + Len(content)
        /\ \A k \in 1 .. Len(Take(o)) : t[k] = Take(o)[k]
        /\ \A k \in 1 .. Len(Heading) : t[Len(Take(o)) + k] = Heading[k]
        /\ \A k \in 1 .. Len(content) : t[Len(Take(o)) + Len(Heading) + k] = content[k]
    BY ONLY <2>2, JoinFacts DEF t
  <2> HIDE DEF t
  <2>4. QED
    BY <2>1, <2>2, <2>3
<1> HIDE DEF t
<1>4. Framed(t)
  <2>1. t[1] = Label[1]
    <3>1. 1 \in 1 .. 4
      OBVIOUS
    <3>2. QED
      BY <1>2, <1>3, <3>1 DEF Framed
  <2>2. Len(t) >= 8
    BY <1>1, <1>3
  <2>3. QED
    BY <1>3, <2>1, <2>2 DEF Framed
<1>5. Grade(t).score = Grade(o).score
  <2>1. \A k \in 1 .. 3 : 1 + k \in 1 .. 4
    OBVIOUS
  <2>2. \A k \in 1 .. 3 : t[1 + k] = o[1 + k]
    BY <1>2, <1>3, <2>1
  <2>3. QED
    BY <1>3, <1>4, <2>2, SameScore
<1>6. Grade(t).comment = content
  <2>1. Len(t) = 8 + Len(content) /\ \A k \in 1 .. Len(content) : 4 + 4 + k = 8 + k
    BY <1>1, <1>3
  <2>2. \A k \in 1 .. Len(content) : t[8 + k] = content[k]
    BY <1>3, <2>1
  <2>3. QED
    BY <1>3, <1>4, <2>1, <2>2, SameComment
<1>7. QED
  BY <1>3, <1>4, <1>5, <1>6 DEF t

-----------------------------------------------------------------------------
(* What is found of a text that was written keeps what Grades promises.    *)
LEMMA SameFront ==
  ASSUME NEW t \in Seq(Symbols), NEW f \in Seq(Symbols), NEW n \in Nat,
         n <= Len(t), n <= Len(f), \A k \in 1 .. n : f[k] = t[k]
  PROVE  SubSeq(f, 1, n) = SubSeq(t, 1, n)
<1> DEFINE ff == SubSeq(f, 1, n)
           ft == SubSeq(t, 1, n)
<1>1. /\ ff \in Seq(Symbols) /\ ft \in Seq(Symbols)
      /\ Len(ff) = IF 1 <= n THEN n - 1 + 1 ELSE 0
      /\ Len(ft) = IF 1 <= n THEN n - 1 + 1 ELSE 0
      /\ \A k \in 1 .. n - 1 + 1 : ff[k] = f[1 + k - 1]
      /\ \A k \in 1 .. n - 1 + 1 : ft[k] = t[1 + k - 1]
  BY CutFacts
<1>2. \A m \in Nat : (IF 1 <= m THEN m - 1 + 1 ELSE 0) = m
  OBVIOUS
<1>3. Len(ff) = n /\ Len(ft) = n
  BY <1>1, <1>2
<1>4. \A k \in 1 .. n : k \in 1 .. n - 1 + 1 /\ 1 + k - 1 = k
  OBVIOUS
<1>5. \A k \in 1 .. Len(ff) : ff[k] = ft[k]
  BY <1>1, <1>3, <1>4
<1> HIDE DEF ff, ft
<1>6. ff = ft
  BY <1>1, <1>3, <1>5, SeqEqual
<1>7. QED
  BY <1>6 DEF ff, ft

LEMMA StoredAnswer ==
  ASSUME NEW t \in Seq(Symbols), NEW f \in Stored(t)
  PROVE  G!Kept(t, f, BlockLength) \/ (Len(t) >= BlockLength /\ f = <<>>)
<1>1. Len(t) \in Nat /\ BlockLength \in Nat
  BY BlockFacts, LenProperties
<1>2. CASE Len(t) < BlockLength
  BY <1>2, StoredFacts DEF G!Kept
<1>3. CASE Len(t) >= BlockLength /\ f # <<>>
  <2>1. f \in Seq(Symbols) /\ Len(f) >= BlockLength /\ \A k \in 1 .. BlockLength : f[k] = t[k]
    BY <1>3, StoredFacts DEF KeepsFirst
  <2>2. BlockLength <= Len(t) /\ BlockLength <= Len(f) /\ ~ (Len(t) < BlockLength)
    BY <1>1, <1>3, <2>1, LenProperties
  <2>3. SubSeq(f, 1, BlockLength) = SubSeq(t, 1, BlockLength)
    BY <1>1, <2>1, <2>2, SameFront
  <2>4. QED
    BY <2>1, <2>2, <2>3 DEF G!Kept
<1>4. QED
  BY <1>1, <1>2, <1>3

(* A sheet of which anything is found is found with its score.             *)
LEMMA StoredGrade ==
  ASSUME NEW t \in Seq(Symbols), Framed(t), NEW f \in Stored(t), f # <<>>
  PROVE  /\ f \in Seq(Symbols) /\ Framed(f)
         /\ Grade(f).score = Grade(t).score
         /\ G!Kept(Grade(t).comment, Grade(f).comment, BlockLength - 8)
<1>1. Len(t) \in Nat /\ BlockLength \in Nat /\ BlockLength > 8 /\ Len(t) >= 8
  BY BlockFacts, LenProperties DEF Framed
<1> DEFINE ct == Grade(t).comment
           cf == Grade(f).comment
<1>2. /\ ct \in Seq(Symbols) /\ Len(ct) = Len(t) - 8
      /\ \A k \in 1 .. Len(t) - 8 : ct[k] = t[8 + k]
  BY GradeFacts
<1>3. CASE Len(t) < BlockLength
  <2>1. f = t
    BY <1>3, StoredFacts
  <2>2. Len(ct) < BlockLength - 8
    BY <1>1, <1>2, <1>3
  <2>3. QED
    BY <2>1, <2>2 DEF G!Kept
<1>4. CASE Len(t) >= BlockLength
  <2>1. f \in Seq(Symbols) /\ Len(f) >= BlockLength /\ \A k \in 1 .. BlockLength : f[k] = t[k]
    BY <1>4, StoredFacts DEF KeepsFirst
  <2>2. Len(f) \in Nat /\ Len(f) >= 8
    BY <1>1, <2>1, LenProperties
  <2>3. \A k \in 1 .. 8 : f[k] = t[k]
    <3>1. \A k \in 1 .. 8 : k \in 1 .. BlockLength
      BY <1>1
    <3>2. QED
      BY <2>1, <3>1
  <2>4. Framed(f)
    <3>1. \A k \in 1 .. 4 : 4 + k \in 1 .. 8
      OBVIOUS
    <3>2. 1 \in 1 .. 8
      OBVIOUS
    <3>3. QED
      BY <2>2, <2>3, <3>1, <3>2 DEF Framed
  <2>5. Grade(f).score = Grade(t).score
    <3>1. \A k \in 1 .. 3 : 1 + k \in 1 .. 8
      OBVIOUS
    <3>2. \A k \in 1 .. 3 : f[1 + k] = t[1 + k]
      BY <2>3, <3>1
    <3>3. QED
      BY <2>1, <2>4, <3>2, SameScore
  <2>6. /\ cf \in Seq(Symbols) /\ Len(cf) = Len(f) - 8
        /\ \A k \in 1 .. Len(f) - 8 : cf[k] = f[8 + k]
    BY <2>1, <2>4, GradeFacts
  <2> HIDE DEF ct, cf
  <2> DEFINE n == BlockLength - 8
  <2>7. n \in Nat /\ n <= Len(ct) /\ n <= Len(cf) /\ ~ (Len(ct) < n) /\ Len(cf) >= n
    BY <1>1, <1>2, <1>4, <2>1, <2>2, <2>6
  <2>8. ASSUME NEW k \in 1 .. n PROVE cf[k] = ct[k]
    <3>1. k \in 1 .. Len(t) - 8 /\ k \in 1 .. Len(f) - 8 /\ 8 + k \in 1 .. BlockLength
      BY <1>1, <1>4, <2>1, <2>2
    <3>2. QED
      BY <1>2, <2>1, <2>6, <3>1
  <2>9. SubSeq(cf, 1, n) = SubSeq(ct, 1, n)
    BY <1>2, <2>6, <2>7, <2>8, SameFront
  <2>10. G!Kept(ct, cf, n)
    BY <2>7, <2>9 DEF G!Kept
  <2>11. QED
    BY <2>1, <2>4, <2>5, <2>10 DEF ct, cf
<1>5. QED
  BY <1>1, <1>3, <1>4

(* What shows of a score is a piece of it, and never LostGrade.            *)
LEMMA ShownTyped ==
  ASSUME NEW field \in Seq(Symbols), Len(field) = 3
  PROVE  Shown(field) \in Seq(Symbols)
<1> DEFINE IsFirst(k) == /\ \A j \in 1 .. k - 1 : field[j] = Blank
                         /\ k <= 3 => field[k] # Blank
           first == CHOOSE k \in 1 .. 4 : IsFirst(k)
<1>1. \E k \in 1 .. 4 : IsFirst(k)
  <2>1. CASE field[1] # Blank
    <3>1. IsFirst(1)
      BY <2>1
    <3>2. QED
      BY <3>1
  <2>2. CASE field[1] = Blank /\ field[2] # Blank
    <3>1. IsFirst(2)
      BY <2>2
    <3>2. QED
      BY <3>1
  <2>3. CASE field[1] = Blank /\ field[2] = Blank /\ field[3] # Blank
    <3>1. IsFirst(3)
      BY <2>3
    <3>2. QED
      BY <3>1
  <2>4. CASE field[1] = Blank /\ field[2] = Blank /\ field[3] = Blank
    <3>1. IsFirst(4)
      BY <2>4
    <3>2. QED
      BY <3>1
  <2>5. QED
    BY <2>1, <2>2, <2>3, <2>4
<1>2. first \in 1 .. 4
  BY <1>1
<1>3. Shown(field) = SubSeq(field, first, 3)
  BY Lengths DEF Shown
<1> HIDE DEF first, IsFirst
<1>4. first \in Nat \ {0} /\ 3 \in Nat /\ 3 <= Len(field) /\ field \in Seq(Symbols)
  BY <1>2
<1>5. SubSeq(field, first, 3) \in Seq(Symbols)
  BY ONLY <1>4, CutFacts
<1>6. QED
  BY ONLY <1>3, <1>5

LEMMA GradeNotLost ==
  ASSUME NEW t \in Seq(Symbols), Framed(t)
  PROVE  Grade(t) # LostGrade
<1>1. Grade(t).score \in Seq(Symbols)
  BY GradeFacts, ShownTyped
<1>2. <<"lost">> \notin Seq(Symbols)
  <2>1. SUFFICES ASSUME <<"lost">> \in Seq(Symbols) PROVE FALSE
    OBVIOUS
  <2>2. Len(<<"lost">>) = 1 /\ <<"lost">>[1] = "lost"
    OBVIOUS
  <2>3. "lost" \in Symbols
    <3>1. \A s \in Seq(Symbols) : \A k \in 1 .. Len(s) : s[k] \in Symbols
      OBVIOUS
    <3>2. 1 \in 1 .. Len(<<"lost">>)
      BY <2>2
    <3>3. QED
      BY <2>1, <2>2, <3>1, <3>2
  <2>4. QED
    BY <2>3, TextsAssumption
<1>3. LostGrade.score = <<"lost">>
  BY DEF LostGrade
<1>4. QED
  BY <1>1, <1>2, <1>3
-----------------------------------------------------------------------------
(* Every file is a text, and only what was written with no room left is    *)
(* no sheet.                                                               *)
Files ==
  /\ answers \in [DOMAIN answers -> Seq(Symbols)]
  /\ sheets \in [DOMAIN sheets -> Seq(Symbols)]
  /\ \A s \in DOMAIN sheets : IsSheet(sheets[s]) \/ s \in damaged

HInv == TypeOK /\ Files

(* What the sheets say.                                                    *)
Reading(text) == IF IsSheet(text) THEN Grade(text) ELSE LostGrade
Readings(texts) == [s \in DOMAIN texts |-> Reading(texts[s])]

LEMMA EmptyNoSheet == <<>> \in Seq(Symbols) /\ ~ IsSheet(<<>>) /\ Reading(<<>>) = LostGrade
<1>1. <<>> \in Seq(Symbols) /\ Len(<<>>) = 0
  BY EmptySeq
<1>2. ~ Framed(<<>>)
  BY <1>1 DEF Framed
<1>3. QED
  BY <1>1, <1>2, SheetByPosition DEF Reading

LEMMA FramedReading ==
  ASSUME NEW t \in Seq(Symbols), Framed(t)
  PROVE  Reading(t) = Grade(t) /\ Reading(t) # LostGrade
BY SheetByPosition, GradeNotLost DEF Reading

LEMMA GradesAreReadings ==
  /\ Files => GradesRead = Readings(sheets)
  /\ Files' => GradesRead' = Readings(sheets')
<1>1. ASSUME Files PROVE GradesRead = Readings(sheets)
  BY <1>1 DEF Files, GradesRead, Readings, Reading
<1>2. ASSUME Files' PROVE GradesRead' = Readings(sheets')
  BY <1>2 DEF Files, GradesRead, Readings, Reading
<1>3. QED
  BY <1>1, <1>2

LEMMA PutFacts ==
  ASSUME NEW f, NEW s, NEW x
  PROVE  /\ DOMAIN Put(f, s, x) = DOMAIN f \cup {s}
         /\ Put(f, s, x)[s] = x
         /\ \A t \in DOMAIN f : t # s => Put(f, s, x)[t] = f[t]
BY DEF Put

LEMMA PutTyped ==
  ASSUME NEW D, NEW S, NEW f \in [D -> S], NEW s, NEW x \in S
  PROVE  /\ Put(f, s, x) \in [D \cup {s} -> S]
         /\ s \in D => [f EXCEPT ![s] = x] = Put(f, s, x)
BY DEF Put

LEMMA ReadingsPut ==
  ASSUME NEW f, NEW s, NEW x
  PROVE  Readings(Put(f, s, x)) = Put(Readings(f), s, Reading(x))
BY DEF Readings, Put

LEMMA PutInGrades ==
  ASSUME NEW f, NEW s, NEW x
  PROVE  G!Put(f, s, x) = Put(f, s, x)
BY DEF G!Put, Put
-----------------------------------------------------------------------------
(* The requests on the sheet of one submission.                            *)
LEMMA WriteSheetStep ==
  ASSUME HInv, NEW s, NEW text \in Seq(Symbols), WriteSheet(s, text),
         UNCHANGED <<published, submitted, answers>>
  PROVE  \/ s \notin DOMAIN sheets /\ UNCHANGED vars
         \/ /\ s \in DOMAIN sheets
            /\ \E stored \in Stored(text) :
                 /\ stored \in Seq(Symbols) /\ Len(stored) <= MaxSheet
                 /\ sheets' = Put(sheets, s, stored)
                 /\ damaged' = IF stored = <<>> THEN damaged \cup {s} ELSE damaged
<1>1. CASE s \notin DOMAIN sheets
  BY <1>1 DEF WriteSheet, vars
<1>2. CASE s \in DOMAIN sheets
  <2>1. PICK stored \in Stored(text) :
          /\ Len(stored) <= MaxSheet
          /\ sheets' = [sheets EXCEPT ![s] = stored]
          /\ damaged' = IF stored = <<>> THEN damaged \cup {s} ELSE damaged
    BY <1>2 DEF WriteSheet
  <2>2. stored \in Seq(Symbols)
    BY StoredFacts
  <2>3. sheets \in [DOMAIN sheets -> Seq(Symbols)]
    BY DEF HInv, Files
  <2>4. [sheets EXCEPT ![s] = stored] = Put(sheets, s, stored)
    BY <1>2, <2>3 DEF Put
  <2>5. QED
    BY <1>2, <2>1, <2>2, <2>4
<1>3. QED
  BY <1>1, <1>2

LEMMA WriteSheetInv ==
  ASSUME HInv, NEW s, NEW text \in Seq(Symbols), WriteSheet(s, text),
         s \in DOMAIN sheets /\ IsSheet(sheets[s]) => Framed(text),
         UNCHANGED <<published, submitted, answers>>
  PROVE  HInv'
<1>1. CASE UNCHANGED vars
  BY <1>1 DEF HInv, TypeOK, Files, vars
<1>2. CASE s \in DOMAIN sheets /\ ~ UNCHANGED vars
  <2>1. PICK stored \in Stored(text) :
          /\ stored \in Seq(Symbols) /\ Len(stored) <= MaxSheet
          /\ sheets' = Put(sheets, s, stored)
          /\ damaged' = IF stored = <<>> THEN damaged \cup {s} ELSE damaged
    BY <1>2, WriteSheetStep
  <2>2. /\ DOMAIN sheets' = DOMAIN sheets /\ sheets'[s] = stored
        /\ \A t \in DOMAIN sheets : t # s => sheets'[t] = sheets[t]
        /\ sheets' \in [DOMAIN sheets' -> Seq(Symbols)]
    <3>1. sheets \in [DOMAIN sheets -> Seq(Symbols)] /\ DOMAIN sheets \cup {s} = DOMAIN sheets
      BY <1>2 DEF HInv, Files
    <3>2. Put(sheets, s, stored) \in [DOMAIN sheets \cup {s} -> Seq(Symbols)]
      BY <2>1, <3>1 DEF Put
    <3>3. DOMAIN Put(sheets, s, stored) = DOMAIN sheets
      BY <3>1, PutFacts
    <3>4. sheets' = Put(sheets, s, stored)
      BY <2>1
    <3>5. DOMAIN sheets' = DOMAIN sheets
      BY ONLY <3>3, <3>4
    <3>6. sheets' \in [DOMAIN sheets' -> Seq(Symbols)]
      BY ONLY <3>1, <3>2, <3>4, <3>5, Zenon
    <3>7. sheets'[s] = stored /\ \A t \in DOMAIN sheets : t # s => sheets'[t] = sheets[t]
      BY <3>4 DEF Put
    <3>8. QED
      BY <3>5, <3>6, <3>7
  <2>3. TypeOK'
    BY <1>2, <2>1, <2>2 DEF HInv, TypeOK
  <2>4. IsSheet(sheets'[s]) \/ s \in damaged'
    <3>1. CASE stored = <<>>
      BY <2>1, <3>1
    <3>2. CASE stored # <<>> /\ IsSheet(sheets[s])
      <4>1. Framed(stored)
        BY <1>2, <3>2, StoredGrade
      <4>2. QED
        BY <2>1, <2>2, <4>1, SheetByPosition
    <3>3. CASE stored # <<>> /\ ~ IsSheet(sheets[s])
      BY <1>2, <2>1, <3>3 DEF HInv, Files
    <3>4. QED
      BY <3>1, <3>2, <3>3
  <2>5. \A t \in DOMAIN sheets' : IsSheet(sheets'[t]) \/ t \in damaged'
    <3>1. SUFFICES ASSUME NEW t \in DOMAIN sheets', t # s
                   PROVE  IsSheet(sheets'[t]) \/ t \in damaged'
      BY <2>4
    <3>2. t \in DOMAIN sheets /\ sheets'[t] = sheets[t] /\ damaged \subseteq damaged'
      BY <2>1, <2>2, <3>1
    <3>3. QED
      BY <3>2 DEF HInv, Files
  <2>6. answers' \in [DOMAIN answers' -> Seq(Symbols)]
    BY DEF HInv, Files
  <2>7. QED
    BY <2>2, <2>3, <2>5, <2>6 DEF HInv, Files
<1>3. QED
  BY <1>1, <1>2, WriteSheetStep

LEMMA SheetTyped ==
  ASSUME HInv, NEW s
  PROVE  /\ ReadSheet(s) \in Seq(Symbols)
         /\ s \in DOMAIN sheets =>
              /\ ReadSheet(s) = sheets[s] /\ sheets[s] \in Seq(Symbols)
              /\ IsSheet(sheets[s]) <=> Framed(sheets[s])
<1>1. CASE s \in DOMAIN sheets
  <2>1. sheets[s] \in Seq(Symbols)
    BY <1>1 DEF HInv, Files
  <2>2. QED
    BY <1>1, <2>1, SheetByPosition DEF ReadSheet
<1>2. CASE s \notin DOMAIN sheets
  BY <1>2, EmptyNoSheet DEF ReadSheet
<1>3. QED
  BY <1>1, <1>2

LEMMA MarkWrites ==
  ASSUME HInv, NEW s, NEW score \in Scores
  PROVE  LET text == Label \o Field(score) \o Drop(ReadSheet(s))
         IN  /\ text \in Seq(Symbols)
             /\ s \in DOMAIN sheets /\ IsSheet(sheets[s]) =>
                  /\ Framed(text) /\ Grade(text).score = score
                  /\ Grade(text).comment = Grade(sheets[s]).comment
<1>1. Label \in Seq(Symbols) /\ Field(score) \in Seq(Symbols) /\ Drop(ReadSheet(s)) \in Seq(Symbols)
  BY Typing, ScoreFacts, SheetTyped, DropFacts
<1>2. Label \o Field(score) \o Drop(ReadSheet(s)) \in Seq(Symbols)
  BY ONLY <1>1, JoinFacts
<1>3. ASSUME s \in DOMAIN sheets, IsSheet(sheets[s])
      PROVE  LET text == Label \o Field(score) \o Drop(sheets[s])
             IN  /\ Framed(text) /\ Grade(text).score = score
                 /\ Grade(text).comment = Grade(sheets[s]).comment
  <2>1. sheets[s] \in Seq(Symbols) /\ Framed(sheets[s])
    BY <1>3, SheetTyped
  <2>2. QED
    BY <2>1, MarkedSheet
<1>4. s \in DOMAIN sheets => ReadSheet(s) = sheets[s]
  BY SheetTyped
<1>5. QED
  BY <1>2, <1>3, <1>4

LEMMA CommentWrites ==
  ASSUME HInv, NEW s, NEW content \in Comments
  PROVE  LET text == Take(ReadSheet(s)) \o Heading \o content
         IN  /\ text \in Seq(Symbols)
             /\ s \in DOMAIN sheets /\ IsSheet(sheets[s]) =>
                  /\ Framed(text) /\ Grade(text).score = Grade(sheets[s]).score
                  /\ Grade(text).comment = content
<1>1. content \in Seq(Symbols) /\ Heading \in Seq(Symbols) /\ Take(ReadSheet(s)) \in Seq(Symbols)
  BY Typing, SheetTyped, TakeFacts
<1>2. Take(ReadSheet(s)) \o Heading \o content \in Seq(Symbols)
  BY ONLY <1>1, JoinFacts
<1>3. ASSUME s \in DOMAIN sheets, IsSheet(sheets[s])
      PROVE  LET text == Take(sheets[s]) \o Heading \o content
             IN  /\ Framed(text) /\ Grade(text).score = Grade(sheets[s]).score
                 /\ Grade(text).comment = content
  <2>1. sheets[s] \in Seq(Symbols) /\ Framed(sheets[s])
    BY <1>3, SheetTyped
  <2>2. QED
    BY <1>1, <2>1, CommentedSheet
<1>4. s \in DOMAIN sheets => ReadSheet(s) = sheets[s]
  BY SheetTyped
<1>5. QED
  BY <1>2, <1>3, <1>4

LEMMA MarkInv ==
  ASSUME HInv, NEW s, NEW score \in Scores, Mark(s, score)
  PROVE  HInv'
<1> DEFINE text == Label \o Field(score) \o Drop(ReadSheet(s))
<1>1. WriteSheet(s, text) /\ UNCHANGED <<published, submitted, answers>>
  BY DEF Mark
<1>2. text \in Seq(Symbols) /\ (s \in DOMAIN sheets /\ IsSheet(sheets[s]) => Framed(text))
  BY MarkWrites
<1> HIDE DEF text
<1>3. QED
  BY <1>1, <1>2, WriteSheetInv

LEMMA WriteCommentInv ==
  ASSUME HInv, NEW s, NEW content \in Comments, WriteComment(s, content)
  PROVE  HInv'
<1> DEFINE text == Take(ReadSheet(s)) \o Heading \o content
<1>1. WriteSheet(s, text) /\ UNCHANGED <<published, submitted, answers>>
  BY DEF WriteComment
<1>2. text \in Seq(Symbols) /\ (s \in DOMAIN sheets /\ IsSheet(sheets[s]) => Framed(text))
  BY CommentWrites
<1> HIDE DEF text
<1>3. QED
  BY <1>1, <1>2, WriteSheetInv
-----------------------------------------------------------------------------
(* The requests on answers and on directories.                             *)
LEMMA InitInv == Init => HInv
<1> SUFFICES ASSUME Init PROVE HInv
  OBVIOUS
<1>1. DOMAIN answers = {} /\ DOMAIN sheets = {}
  BY DEF Init
<1>2. answers \in [{} -> Seq(Symbols)] /\ sheets \in [{} -> Seq(Symbols)]
  BY DEF Init
<1>3. TypeOK
  BY <1>1 DEF Init, TypeOK
<1>4. Files
  BY <1>1, <1>2 DEF Files
<1>5. QED
  BY <1>3, <1>4 DEF HInv

LEMMA PublishInv ==
  ASSUME HInv, NEW h \in Homeworks, Publish(h)
  PROVE  HInv'
BY DEF HInv, TypeOK, Files, Publish

LEMMA SubmitSheets ==
  ASSUME HInv, NEW s \in Submissions, NEW answer \in Answers, Submit(s, answer)
  PROVE  /\ s \notin DOMAIN answers /\ s \notin DOMAIN sheets
         /\ UNCHANGED <<published, damaged>> /\ submitted' = submitted \cup {s}
         /\ s \in published \X Students
         /\ \E stored \in Stored(answer) :
              \/ answers' = answers /\ sheets' = sheets
              \/ /\ answers' = Put(answers, s, stored)
                 /\ sheets' = sheets \/ sheets' = Put(sheets, s, NewSheet)
<1>1. PICK made \in Created, stored \in Stored(answer) :
        /\ answers' = IF made >= 2 THEN Put(answers, s, stored) ELSE answers
        /\ sheets' = IF made = 3 THEN Put(sheets, s, NewSheet) ELSE sheets
  BY DEF Submit
<1>2. made \in 1 .. 3
  BY DEF Created
<1>3. \/ answers' = answers /\ sheets' = sheets
      \/ /\ answers' = Put(answers, s, stored)
         /\ sheets' = sheets \/ sheets' = Put(sheets, s, NewSheet)
  <2>1. made = 1 \/ made = 2 \/ made = 3
    BY <1>2
  <2>2. CASE made = 1
    BY <1>1, <2>2
  <2>3. CASE made = 2
    BY <1>1, <2>3
  <2>4. CASE made = 3
    BY <1>1, <2>4
  <2>5. QED
    BY <2>1, <2>2, <2>3, <2>4
<1>4. s \notin DOMAIN answers /\ s \notin DOMAIN sheets
  BY DEF HInv, TypeOK, Submit
<1>5. s \in published \X Students
  BY DEF Submit, Submissions
<1>6. UNCHANGED <<published, damaged>> /\ submitted' = submitted \cup {s}
  BY DEF Submit
<1>7. QED
  BY <1>3, <1>4, <1>5, <1>6

LEMMA SubmitInv ==
  ASSUME HInv, NEW s \in Submissions, NEW answer \in Answers, Submit(s, answer)
  PROVE  HInv'
<1>1. PICK stored \in Stored(answer) :
        \/ answers' = answers /\ sheets' = sheets
        \/ /\ answers' = Put(answers, s, stored)
           /\ sheets' = sheets \/ sheets' = Put(sheets, s, NewSheet)
  BY SubmitSheets
<1>2. UNCHANGED <<published, damaged>> /\ submitted' = submitted \cup {s}
      /\ s \in published \X Students
  BY SubmitSheets
<1>3. answers \in [DOMAIN answers -> Seq(Symbols)] /\ sheets \in [DOMAIN sheets -> Seq(Symbols)]
  BY DEF HInv, Files
<1>4. stored \in Seq(Symbols)
  BY Typing, StoredFacts
<1>5. NewSheet \in Seq(Symbols) /\ IsSheet(NewSheet) /\ Len(NewSheet) <= MaxSheet
  <2>1. 8 <= MaxSheet
    BY TextsAssumption, Lengths
  <2>2. QED
    BY <2>1, NewSheetFacts, SheetByPosition
<1>6. /\ answers' \in [DOMAIN answers' -> Seq(Symbols)]
      /\ DOMAIN answers \subseteq DOMAIN answers' /\ DOMAIN answers' \subseteq DOMAIN answers \cup {s}
      /\ answers' = answers \/ s \in DOMAIN answers'
  <2>1. CASE answers' = answers
    BY <1>3, <2>1
  <2>2. CASE answers' = Put(answers, s, stored)
    <3>1. /\ Put(answers, s, stored) \in [DOMAIN Put(answers, s, stored) -> Seq(Symbols)]
          /\ DOMAIN Put(answers, s, stored) = DOMAIN answers \cup {s}
      BY <1>3, <1>4 DEF Put
    <3>2. QED
      BY <2>2, <3>1
  <2>3. QED
    BY <1>1, <2>1, <2>2
<1>7. CASE sheets' = sheets
  <2>1. TypeOK'
    BY <1>2, <1>6, <1>7 DEF HInv, TypeOK
  <2>2. Files'
    BY <1>2, <1>6, <1>7 DEF HInv, Files
  <2>3. QED
    BY <2>1, <2>2 DEF HInv
<1>8. CASE sheets' = Put(sheets, s, NewSheet) /\ answers' = Put(answers, s, stored)
  <2>1. /\ sheets' \in [DOMAIN sheets' -> Seq(Symbols)]
        /\ DOMAIN sheets' = DOMAIN sheets \cup {s}
        /\ \A t \in DOMAIN sheets' : sheets'[t] = IF t = s THEN NewSheet ELSE sheets[t]
    <3>1. /\ Put(sheets, s, NewSheet) \in [DOMAIN Put(sheets, s, NewSheet) -> Seq(Symbols)]
          /\ DOMAIN Put(sheets, s, NewSheet) = DOMAIN sheets \cup {s}
          /\ \A t \in DOMAIN sheets \cup {s} :
               Put(sheets, s, NewSheet)[t] = IF t = s THEN NewSheet ELSE sheets[t]
      BY <1>3, <1>5 DEF Put
    <3>2. QED
      BY <1>8, <3>1
  <2>2. DOMAIN answers' = DOMAIN answers \cup {s}
    BY <1>8, PutFacts
  <2>3. TypeOK'
    BY <1>2, <1>5, <2>1, <2>2 DEF HInv, TypeOK
  <2>4. Files'
    BY <1>2, <1>5, <1>6, <2>1 DEF HInv, Files
  <2>5. QED
    BY <2>3, <2>4 DEF HInv
<1>9. QED
  BY <1>1, <1>7, <1>8

LEMMA ResubmitInv ==
  ASSUME HInv, NEW s \in Submissions, NEW answer \in Answers, Resubmit(s, answer)
  PROVE  HInv'
<1>1. UNCHANGED <<published, submitted, sheets, damaged>>
  BY DEF Resubmit
<1>2. /\ DOMAIN answers' = DOMAIN answers
      /\ answers' \in [DOMAIN answers' -> Seq(Symbols)]
  <2>1. answers \in [DOMAIN answers -> Seq(Symbols)]
    BY DEF HInv, Files
  <2>2. CASE s \in DOMAIN answers
    <3>1. PICK stored \in Stored(answer) : answers' = [answers EXCEPT ![s] = stored]
      BY <2>2 DEF Resubmit
    <3>2. stored \in Seq(Symbols)
      BY Typing, StoredFacts
    <3>3. QED
      BY <2>1, <2>2, <3>1, <3>2
  <2>3. CASE s \notin DOMAIN answers
    BY <2>1, <2>3 DEF Resubmit
  <2>4. QED
    BY <2>2, <2>3
<1>3. QED
  BY <1>1, <1>2 DEF HInv, TypeOK, Files

LEMMA RestrictFacts ==
  ASSUME NEW f, NEW S
  PROVE  DOMAIN Restrict(f, S) = S /\ \A t \in S : Restrict(f, S)[t] = f[t]
BY DEF Restrict

LEMMA RemoveAllFiles ==
  ASSUME HInv, NEW gone, RemoveAll(gone)
  PROVE  /\ Files'
         /\ submitted' = submitted \ gone /\ damaged' \subseteq DOMAIN sheets'
         /\ DOMAIN sheets' \subseteq DOMAIN answers' /\ DOMAIN answers' \subseteq submitted'
         /\ \A s \in DOMAIN sheets' : Len(sheets'[s]) <= MaxSheet
<1>1. /\ DOMAIN answers' = DOMAIN answers \ gone
      /\ \A t \in DOMAIN answers' : answers'[t] = answers[t]
      /\ answers' = [t \in DOMAIN answers \ gone |-> answers[t]]
  BY DEF RemoveAll, Restrict
<1>2. /\ DOMAIN sheets' = DOMAIN sheets \ gone
      /\ \A t \in DOMAIN sheets' : sheets'[t] = sheets[t]
      /\ sheets' = [t \in DOMAIN sheets \ gone |-> sheets[t]]
  BY DEF RemoveAll, Restrict
<1>3. submitted' = submitted \ gone /\ damaged' = damaged \ gone
  BY DEF RemoveAll
<1>4. answers' \in [DOMAIN answers' -> Seq(Symbols)]
  BY <1>1 DEF HInv, Files
<1>5. sheets' \in [DOMAIN sheets' -> Seq(Symbols)]
  BY <1>2 DEF HInv, Files
<1>6. \A s \in DOMAIN sheets' : IsSheet(sheets'[s]) \/ s \in damaged'
  BY <1>2, <1>3 DEF HInv, Files
<1>7. QED
  BY <1>1, <1>2, <1>3, <1>4, <1>5, <1>6 DEF HInv, TypeOK, Files

LEMMA DeleteHomeworkInv ==
  ASSUME HInv, NEW h \in Homeworks, DeleteHomework(h)
  PROVE  HInv'
<1>1. RemoveAll({h} \X Students) /\ published' = published \ {h}
  BY DEF DeleteHomework
<1>2. submitted' \subseteq published' \X Students
  <2>1. submitted' = submitted \ ({h} \X Students) /\ submitted \subseteq published \X Students
    BY <1>1, RemoveAllFiles DEF HInv, TypeOK
  <2>2. QED
    BY <1>1, <2>1
<1>3. QED
  BY <1>1, <1>2, RemoveAllFiles DEF HInv, TypeOK

LEMMA LeaveCourseInv ==
  ASSUME HInv, NEW student \in Students, LeaveCourse(student)
  PROVE  HInv'
<1>1. RemoveAll(Homeworks \X {student}) /\ published' = published
  BY DEF LeaveCourse
<1>2. QED
  BY <1>1, RemoveAllFiles DEF HInv, TypeOK

LEMMA DeleteCourseInv ==
  ASSUME HInv, DeleteCourse
  PROVE  HInv'
<1>1. RemoveAll(Submissions) /\ published' = {}
  BY DEF DeleteCourse
<1>2. submitted' = {}
  BY <1>1, RemoveAllFiles DEF HInv, TypeOK, Submissions
<1>3. QED
  BY <1>1, <1>2, RemoveAllFiles DEF HInv, TypeOK

LEMMA NextInv == HInv /\ [Next]_vars => HInv'
<1> SUFFICES ASSUME HInv, [Next]_vars PROVE HInv'
  OBVIOUS
<1>1. ASSUME NEW h \in Homeworks, Publish(h) \/ DeleteHomework(h) PROVE HInv'
  BY <1>1, PublishInv, DeleteHomeworkInv
<1>2. ASSUME NEW s \in Submissions, NEW answer \in Answers, Submit(s, answer) \/ Resubmit(s, answer)
      PROVE  HInv'
  BY <1>2, SubmitInv, ResubmitInv
<1>3. ASSUME NEW s \in Submissions, NEW score \in Scores, Mark(s, score) PROVE HInv'
  BY <1>3, MarkInv
<1>4. ASSUME NEW s \in Submissions, NEW content \in Comments, WriteComment(s, content) PROVE HInv'
  BY <1>4, WriteCommentInv
<1>5. ASSUME NEW student \in Students, LeaveCourse(student) PROVE HInv'
  BY <1>5, LeaveCourseInv
<1>6. CASE DeleteCourse
  BY <1>6, DeleteCourseInv
<1>7. CASE UNCHANGED vars
  BY <1>7 DEF HInv, TypeOK, Files, vars
<1>8. QED
  BY <1>1, <1>2, <1>3, <1>4, <1>5, <1>6, <1>7 DEF Next

(* A submission with files is in a homework that is published, a sheet is  *)
(* there only with an answer, and no deletion leaves a file behind.        *)
THEOREM TypeCorrect == Spec => []TypeOK
<1>1. HInv => TypeOK
  BY DEF HInv
<1>2. QED
  BY <1>1, InitInv, NextInv, PTL DEF Spec
-----------------------------------------------------------------------------
(* Every request is a step of Grades, or changes nothing there.            *)
LEMMA NewAnswerStep ==
  ASSUME NEW s, NEW answer \in Answers, NEW stored \in Stored(answer),
         answers' = Put(answers, s, stored)
  PROVE  G!NewAnswer(s)
<1>1. DOMAIN Put(answers, s, stored) = DOMAIN answers \cup {s} /\ Put(answers, s, stored)[s] = stored
  BY DEF Put
<1>2. s \in DOMAIN answers' /\ answers'[s] = stored
  BY <1>1
<1>3. answers' = G!Put(answers, s, answers'[s])
  BY <1>2, PutInGrades
<1>4. G!Kept(answer, answers'[s], BlockLength) \/ (Len(answer) >= BlockLength /\ answers'[s] = <<>>)
  BY <1>2, Typing, StoredAnswer
<1>5. QED
  BY <1>2, <1>3, <1>4 DEF G!NewAnswer

LEMMA PublishStep ==
  ASSUME HInv, HInv', NEW h \in Homeworks, Publish(h)
  PROVE  UNCHANGED <<answers, GradesRead>>
BY GradesAreReadings DEF Publish, HInv

LEMMA SubmitStep ==
  ASSUME HInv, HInv', NEW s \in Submissions, NEW answer \in Answers, Submit(s, answer)
  PROVE  G!HandIn(s) \/ UNCHANGED <<answers, GradesRead>>
<1>1. PICK stored \in Stored(answer) :
        \/ answers' = answers /\ sheets' = sheets
        \/ /\ answers' = Put(answers, s, stored)
           /\ sheets' = sheets \/ sheets' = Put(sheets, s, NewSheet)
  BY SubmitSheets
<1>2. s \notin DOMAIN answers /\ s \notin DOMAIN sheets
  BY SubmitSheets
<1>3. GradesRead = Readings(sheets) /\ GradesRead' = Readings(sheets')
  BY GradesAreReadings DEF HInv
<1>4. CASE sheets' = sheets
  <2>1. GradesRead' = GradesRead
    BY <1>3, <1>4
  <2>2. CASE answers' = Put(answers, s, stored)
    BY <1>2, <2>1, <2>2, NewAnswerStep DEF G!HandIn
  <2>3. QED
    BY <1>1, <2>1, <2>2
<1>5. CASE sheets' = Put(sheets, s, NewSheet) /\ answers' = Put(answers, s, stored)
  <2>1. Reading(NewSheet) = [score |-> <<>>, comment |-> <<>>]
    BY NewSheetFacts, FramedReading
  <2>2. GradesRead' = G!Put(GradesRead, s, [score |-> <<>>, comment |-> <<>>])
    BY <1>3, <1>5, <2>1, ReadingsPut, PutInGrades
  <2>3. s \notin DOMAIN GradesRead
    BY <1>2, <1>3 DEF Readings
  <2>4. G!Open(s)
    BY <2>2, <2>3 DEF G!Open
  <2>5. QED
    BY <1>2, <1>5, <2>4, NewAnswerStep DEF G!HandIn
<1>6. QED
  BY <1>1, <1>4, <1>5

LEMMA ResubmitStep ==
  ASSUME HInv, HInv', NEW s \in Submissions, NEW answer \in Answers, Resubmit(s, answer)
  PROVE  G!HandInAgain(s) \/ UNCHANGED <<answers, GradesRead>>
<1>1. GradesRead' = GradesRead
  BY GradesAreReadings DEF Resubmit, HInv
<1>2. CASE s \notin DOMAIN answers
  BY <1>1, <1>2 DEF Resubmit
<1>3. CASE s \in DOMAIN answers
  <2>1. PICK stored \in Stored(answer) : answers' = [answers EXCEPT ![s] = stored]
    BY <1>3 DEF Resubmit
  <2>2. answers \in [DOMAIN answers -> Seq(Symbols)]
    BY DEF HInv, Files
  <2>3. [answers EXCEPT ![s] = stored] = Put(answers, s, stored)
    BY <1>3, <2>2 DEF Put
  <2>4. G!NewAnswer(s)
    BY <2>1, <2>3, NewAnswerStep
  <2>5. QED
    BY <1>1, <1>3, <2>4 DEF G!HandInAgain
<1>4. QED
  BY <1>2, <1>3

LEMMA CommentRoomIs == BlockLength - Position - Len(Heading) = BlockLength - 8
BY Lengths, BlockFacts

(* A sheet written anew: its grade is lost, or was lost before, or is the  *)
(* grade of the text.                                                      *)
LEMMA WriteSheetGrades ==
  ASSUME HInv, HInv', NEW s, NEW text \in Seq(Symbols), WriteSheet(s, text),
         s \in DOMAIN sheets /\ IsSheet(sheets[s]) => Framed(text),
         UNCHANGED <<published, submitted, answers>>
  PROVE  \/ UNCHANGED <<answers, GradesRead>>
         \/ G!Lose(s)
         \/ G!Mend(s)
         \/ /\ s \in DOMAIN sheets /\ IsSheet(sheets[s])
            /\ s \in DOMAIN GradesRead /\ GradesRead[s] # LostGrade
            /\ GradesRead[s] = Grade(sheets[s])
            /\ s \in DOMAIN GradesRead' /\ GradesRead' = G!Put(GradesRead, s, GradesRead'[s])
            /\ GradesRead'[s] # LostGrade
            /\ GradesRead'[s].score = Grade(text).score
            /\ G!Kept(Grade(text).comment, GradesRead'[s].comment, BlockLength - 8)
<1>1. CASE UNCHANGED vars
  BY <1>1, GradesAreReadings DEF HInv, vars
<1>2. CASE s \in DOMAIN sheets /\ ~ UNCHANGED vars
  <2>1. PICK stored \in Stored(text) :
          stored \in Seq(Symbols) /\ sheets' = Put(sheets, s, stored)
    BY <1>2, WriteSheetStep
  <2>2. GradesRead = Readings(sheets) /\ GradesRead' = Readings(sheets')
    BY GradesAreReadings DEF HInv
  <2>3. /\ s \in DOMAIN GradesRead
        /\ GradesRead[s] = Reading(sheets[s])
    BY <1>2, <2>2 DEF Readings
  <2>4. GradesRead' = Put(GradesRead, s, Reading(stored))
    BY <2>1, <2>2, ReadingsPut
  <2>5. s \in DOMAIN GradesRead' /\ GradesRead'[s] = Reading(stored)
    <3>1. /\ DOMAIN Put(GradesRead, s, Reading(stored)) = DOMAIN GradesRead \cup {s}
          /\ Put(GradesRead, s, Reading(stored))[s] = Reading(stored)
      BY DEF Put
    <3>2. QED
      BY <2>4, <3>1
  <2>6. GradesRead' = G!Put(GradesRead, s, GradesRead'[s])
    BY <2>4, <2>5, PutInGrades
  <2>7. CASE stored = <<>>
    <3>1. GradesRead' = G!Put(GradesRead, s, LostGrade)
      BY <2>5, <2>6, <2>7, EmptyNoSheet
    <3>2. G!Lose(s)
      BY <2>3, <3>1 DEF G!Lose
    <3>3. QED
      BY <3>2
  <2>8. CASE stored # <<>> /\ ~ IsSheet(sheets[s])
    <3>1. GradesRead[s] = LostGrade
      BY <2>3, <2>8 DEF Reading
    <3>2. G!Mend(s)
      BY <2>3, <2>5, <2>6, <3>1 DEF G!Mend
    <3>3. QED
      BY <3>2
  <2>9. CASE stored # <<>> /\ IsSheet(sheets[s])
    <3>1. sheets[s] \in Seq(Symbols) /\ Framed(sheets[s])
      BY <1>2, <2>9, SheetTyped
    <3>2. GradesRead[s] # LostGrade /\ GradesRead[s] = Grade(sheets[s])
      BY <2>3, <3>1, FramedReading
    <3>3. Framed(text)
      BY <1>2, <2>9
    <3>4. /\ stored \in Seq(Symbols) /\ Framed(stored)
          /\ Grade(stored).score = Grade(text).score
          /\ G!Kept(Grade(text).comment, Grade(stored).comment, BlockLength - 8)
      BY <2>9, <3>3, StoredGrade
    <3>5. GradesRead'[s] = Grade(stored) /\ GradesRead'[s] # LostGrade
      BY <2>5, <3>4, FramedReading
    <3>6. QED
      BY <1>2, <2>3, <2>5, <2>6, <2>9, <3>2, <3>4, <3>5
  <2>10. QED
    BY <2>7, <2>8, <2>9
<1>3. QED
  BY <1>1, <1>2, WriteSheetStep

LEMMA MarkStep ==
  ASSUME HInv, HInv', NEW s, NEW score \in Scores, Mark(s, score)
  PROVE  \/ UNCHANGED <<answers, GradesRead>> \/ G!Lose(s) \/ G!Mend(s)
         \/ s \in DOMAIN GradesRead /\ GradesRead[s] # LostGrade /\ G!Mark(s)
<1> DEFINE text == Label \o Field(score) \o Drop(ReadSheet(s))
<1>1. WriteSheet(s, text) /\ UNCHANGED <<published, submitted, answers>>
  BY DEF Mark
<1>2. /\ text \in Seq(Symbols)
      /\ s \in DOMAIN sheets /\ IsSheet(sheets[s]) =>
           /\ Framed(text) /\ Grade(text).score = score
           /\ Grade(text).comment = Grade(sheets[s]).comment
  BY MarkWrites
<1> HIDE DEF text
<1>3. \/ UNCHANGED <<answers, GradesRead>>
      \/ G!Lose(s)
      \/ G!Mend(s)
      \/ /\ s \in DOMAIN sheets /\ IsSheet(sheets[s])
         /\ s \in DOMAIN GradesRead /\ GradesRead[s] # LostGrade
         /\ GradesRead[s] = Grade(sheets[s])
         /\ s \in DOMAIN GradesRead' /\ GradesRead' = G!Put(GradesRead, s, GradesRead'[s])
         /\ GradesRead'[s] # LostGrade
         /\ GradesRead'[s].score = Grade(text).score
         /\ G!Kept(Grade(text).comment, GradesRead'[s].comment, BlockLength - 8)
  BY <1>1, <1>2, WriteSheetGrades
<1>4. CASE /\ s \in DOMAIN sheets /\ IsSheet(sheets[s])
           /\ s \in DOMAIN GradesRead /\ GradesRead[s] # LostGrade
           /\ GradesRead[s] = Grade(sheets[s])
           /\ s \in DOMAIN GradesRead' /\ GradesRead' = G!Put(GradesRead, s, GradesRead'[s])
           /\ GradesRead'[s] # LostGrade
           /\ GradesRead'[s].score = Grade(text).score
           /\ G!Kept(Grade(text).comment, GradesRead'[s].comment, BlockLength - 8)
  <2>1. GradesRead'[s].score = score
    BY <1>2, <1>4
  <2>2. G!Kept(GradesRead[s].comment, GradesRead'[s].comment, BlockLength - Position - Len(Heading))
    BY <1>2, <1>4, CommentRoomIs
  <2>3. G!Regrade(s, score, GradesRead[s].comment)
    BY <1>1, <1>4, <2>1, <2>2 DEF G!Regrade
  <2>4. QED
    BY <1>4, <2>3 DEF G!Mark
<1>5. QED
  BY <1>3, <1>4

LEMMA WriteCommentStep ==
  ASSUME HInv, HInv', NEW s, NEW content \in Comments, WriteComment(s, content)
  PROVE  \/ UNCHANGED <<answers, GradesRead>> \/ G!Lose(s) \/ G!Mend(s)
         \/ s \in DOMAIN GradesRead /\ GradesRead[s] # LostGrade /\ G!Comment(s)
<1> DEFINE text == Take(ReadSheet(s)) \o Heading \o content
<1>1. WriteSheet(s, text) /\ UNCHANGED <<published, submitted, answers>>
  BY DEF WriteComment
<1>2. /\ text \in Seq(Symbols)
      /\ s \in DOMAIN sheets /\ IsSheet(sheets[s]) =>
           /\ Framed(text) /\ Grade(text).score = Grade(sheets[s]).score
           /\ Grade(text).comment = content
  BY CommentWrites
<1> HIDE DEF text
<1>3. \/ UNCHANGED <<answers, GradesRead>>
      \/ G!Lose(s)
      \/ G!Mend(s)
      \/ /\ s \in DOMAIN sheets /\ IsSheet(sheets[s])
         /\ s \in DOMAIN GradesRead /\ GradesRead[s] # LostGrade
         /\ GradesRead[s] = Grade(sheets[s])
         /\ s \in DOMAIN GradesRead' /\ GradesRead' = G!Put(GradesRead, s, GradesRead'[s])
         /\ GradesRead'[s] # LostGrade
         /\ GradesRead'[s].score = Grade(text).score
         /\ G!Kept(Grade(text).comment, GradesRead'[s].comment, BlockLength - 8)
  BY <1>1, <1>2, WriteSheetGrades
<1>4. CASE /\ s \in DOMAIN sheets /\ IsSheet(sheets[s])
           /\ s \in DOMAIN GradesRead /\ GradesRead[s] # LostGrade
           /\ GradesRead[s] = Grade(sheets[s])
           /\ s \in DOMAIN GradesRead' /\ GradesRead' = G!Put(GradesRead, s, GradesRead'[s])
           /\ GradesRead'[s] # LostGrade
           /\ GradesRead'[s].score = Grade(text).score
           /\ G!Kept(Grade(text).comment, GradesRead'[s].comment, BlockLength - 8)
  <2>1. GradesRead'[s].score = GradesRead[s].score
    BY <1>2, <1>4
  <2>2. G!Kept(content, GradesRead'[s].comment, BlockLength - Position - Len(Heading))
    BY <1>2, <1>4, CommentRoomIs
  <2>3. G!Regrade(s, GradesRead[s].score, content)
    BY <1>1, <1>4, <2>1, <2>2 DEF G!Regrade
  <2>4. QED
    BY <1>4, <2>3 DEF G!Comment
<1>5. QED
  BY <1>3, <1>4

LEMMA RemoveAllStep ==
  ASSUME HInv, HInv', NEW gone, RemoveAll(gone)
  PROVE  G!Clear(gone)
<1>1. GradesRead = Readings(sheets) /\ GradesRead' = Readings(sheets')
  BY GradesAreReadings DEF HInv
<1>2. sheets' = [t \in DOMAIN sheets \ gone |-> sheets[t]]
  BY DEF RemoveAll, Restrict
<1>3. DOMAIN GradesRead = DOMAIN sheets
  BY <1>1 DEF Readings
<1>4. GradesRead' = Restrict(GradesRead, DOMAIN GradesRead \ gone)
  BY <1>1, <1>2, <1>3 DEF Readings, Restrict
<1>5. answers' = Restrict(answers, DOMAIN answers \ gone)
  BY DEF RemoveAll
<1>6. QED
  BY <1>4, <1>5 DEF G!Clear, G!Restrict, Restrict

LEMMA NextStep ==
  HInv /\ HInv' /\ [Next]_vars => [G!Next]_(G!gradeVars)
<1> SUFFICES ASSUME HInv, HInv', [Next]_vars PROVE [G!Next]_(G!gradeVars)
  OBVIOUS
<1>1. ASSUME UNCHANGED <<answers, GradesRead>> PROVE [G!Next]_(G!gradeVars)
  BY <1>1 DEF G!gradeVars
<1>2. ASSUME NEW gone \in {{h} \X Students : h \in Homeworks}
                            \cup {Homeworks \X {student} : student \in Students}
                            \cup {Submissions},
             RemoveAll(gone)
      PROVE  [G!Next]_(G!gradeVars)
  BY <1>2, RemoveAllStep DEF G!Next
<1>3. ASSUME NEW h \in Homeworks, Publish(h) PROVE [G!Next]_(G!gradeVars)
  BY <1>1, <1>3, PublishStep
<1>4. ASSUME NEW h \in Homeworks, DeleteHomework(h) PROVE [G!Next]_(G!gradeVars)
  BY <1>2, <1>4 DEF DeleteHomework
<1>5. ASSUME NEW s \in Submissions, NEW answer \in Answers, Submit(s, answer)
      PROVE  [G!Next]_(G!gradeVars)
  BY <1>1, <1>5, SubmitStep DEF G!Next
<1>6. ASSUME NEW s \in Submissions, NEW answer \in Answers, Resubmit(s, answer)
      PROVE  [G!Next]_(G!gradeVars)
  BY <1>1, <1>6, ResubmitStep DEF G!Next
<1>7. ASSUME NEW s \in Submissions, NEW score \in Scores, Mark(s, score)
      PROVE  [G!Next]_(G!gradeVars)
  BY <1>1, <1>7, MarkStep DEF G!Next
<1>8. ASSUME NEW s \in Submissions, NEW content \in Comments, WriteComment(s, content)
      PROVE  [G!Next]_(G!gradeVars)
  BY <1>1, <1>8, WriteCommentStep DEF G!Next
<1>9. ASSUME NEW student \in Students, LeaveCourse(student) PROVE [G!Next]_(G!gradeVars)
  BY <1>2, <1>9 DEF LeaveCourse
<1>10. CASE DeleteCourse
  BY <1>2, <1>10 DEF DeleteCourse
<1>11. CASE UNCHANGED vars
  BY <1>1, <1>11, GradesAreReadings DEF HInv, vars
<1>12. QED
  BY <1>3, <1>4, <1>5, <1>6, <1>7, <1>8, <1>9, <1>10, <1>11 DEF Next

LEMMA InitStep == Init => G!Init
<1> SUFFICES ASSUME Init PROVE G!Init
  OBVIOUS
<1>1. GradesRead = [s \in {} |-> GradesRead[s]]
  BY DEF Init, GradesRead
<1>2. GradesRead = <<>>
  BY <1>1
<1>3. QED
  BY <1>2 DEF Init, G!Init

(* Marking keeps the comment, commenting keeps the score, handing in again *)
(* keeps both, and nothing a long text leaves or loses reaches the score:  *)
(* what is read of the two files is at every step what Grades allows.      *)
THEOREM Refinement == Spec => ImplementsGrades
<1>1. Init => G!Init
  BY InitStep
<1>2. HInv /\ HInv' /\ [Next]_vars => [G!Next]_(G!gradeVars)
  BY NextStep
<1>3. QED
  BY <1>1, <1>2, InitInv, NextInv, PTL DEF Spec, ImplementsGrades, G!Spec
=============================================================================
