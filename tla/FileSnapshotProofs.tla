------------------------- MODULE FileSnapshotProofs -------------------------
(***************************************************************************)
(* Proofs about FileSnapshot for every set of records and every bound.     *)
(* PointersOK is inductive.  The refinement needs it: with the pointers in *)
(* order, the stretches below and above nowPointer are sequences, and each *)
(* operation moves, adds or drops one record at their border.              *)
(***************************************************************************)
EXTENDS FileSnapshot, SequenceTheorems, TLAPS

LEMMA InitPointers == Init => PointersOK
  BY RecordsAssumption, MaxTopAssumption
  DEF Init, PointersOK, ImageOK, Image, Sentinel

LEMMA PointersInvariant == PointersOK /\ [Next]_vars => PointersOK'
<1> SUFFICES ASSUME PointersOK, [Next]_vars PROVE PointersOK'
  OBVIOUS
<1> USE RecordsAssumption, MaxTopAssumption DEF PointersOK, ImageOK, Image
<1>1. ASSUME NEW r \in Records, Pushcc(r) PROVE PointersOK'
  <2>1. CASE PushBack(r)
    BY <1>1, <2>1 DEF Pushcc, PushBack
  <2>2. CASE Overwrite(r)
    BY <1>1, <2>2 DEF Pushcc, Overwrite
  <2>3. QED
    BY <1>1, <2>1, <2>2 DEF Pushcc
<1>2. CASE Pop
  BY <1>2 DEF Pop
<1>3. CASE RevokePop
  BY <1>3 DEF RevokePop
<1>4. CASE Save
  BY <1>4 DEF Save, WriteToFile
<1>5. CASE ReadFromFile
  BY <1>5 DEF ReadFromFile
<1>6. CASE Clear
  BY <1>6 DEF Clear, WriteToFile, Sentinel
<1>7. CASE UNCHANGED vars
  BY <1>7 DEF vars
<1>8. QED
  BY <1>1, <1>2, <1>3, <1>4, <1>5, <1>6, <1>7 DEF Next

(* The pointers stay in order in memory and in the file, for any history.  *)
THEOREM PointersCorrect == Spec => []PointersOK
  BY InitPointers, PointersInvariant, PTL DEF Spec

-----------------------------------------------------------------------------
(* Functions on 1..n are the sequences of length n, and Append extends one. *)
LEMMA FunctionIsSequence ==
  ASSUME NEW S, NEW n \in Nat, NEW f \in [1 .. n -> S]
  PROVE  f \in Seq(S) /\ Len(f) = n
<1>1. f \in Seq(S)
  BY SeqDef
<1>2. QED
  BY <1>1, LenProperties

LEMMA AppendFacts ==
  ASSUME NEW S, NEW s \in Seq(S), NEW e \in S
  PROVE  Append(s, e) = [i \in 1 .. Len(s) + 1 |->
                           IF i = Len(s) + 1 THEN e ELSE s[i]]
<1>1. /\ Append(s, e) \in Seq(S)
      /\ Len(Append(s, e)) = Len(s) + 1
      /\ \A i \in 1 .. Len(s) + 1 :
           Append(s, e)[i] = IF i = Len(s) + 1 THEN e ELSE s[i]
  BY AppendProperties
<1>2. /\ Len(s) \in Nat
      /\ Append(s, e) \in [1 .. Len(s) + 1 -> S]
  BY <1>1, LenProperties
<1>3. QED
  BY <1>1, <1>2

(* The two stretches of an image are sequences of the expected length.     *)
LEMMA Stretches ==
  ASSUME NEW image, ImageOK(image)
  PROVE  /\ Done(image) \in Seq(Records)
         /\ Len(Done(image)) = image.nowPointer
         /\ Undone(image) \in Seq(Records)
         /\ Len(Undone(image)) = image.maxPointer - image.nowPointer
<1> USE DEF ImageOK
<1>1. /\ image.nowPointer \in Nat
      /\ image.maxPointer - image.nowPointer \in Nat
  BY MaxTopAssumption
<1>2. Done(image) \in [1 .. image.nowPointer -> Records]
  BY <1>1, MaxTopAssumption DEF Done
<1>3. Undone(image) \in [1 .. image.maxPointer - image.nowPointer -> Records]
  BY <1>1, MaxTopAssumption DEF Undone
<1>4. Done(image) \in Seq(Records) /\ Len(Done(image)) = image.nowPointer
  BY <1>1, <1>2, FunctionIsSequence
<1>5. /\ Undone(image) \in Seq(Records)
      /\ Len(Undone(image)) = image.maxPointer - image.nowPointer
  BY <1>1, <1>3, FunctionIsSequence
<1>6. QED
  BY <1>4, <1>5

(* Each operation is one step of the history.                              *)
LEMMA StepSimulation ==
  PointersOK /\ [Next]_vars => [UR!Next]_(UR!historyVars)
<1> SUFFICES ASSUME PointersOK, [Next]_vars
             PROVE  [UR!Next]_(UR!historyVars)
  OBVIOUS
<1> DEFINE kept == [done |-> Done(blockstack), undone |-> Undone(blockstack)]
<1>0. /\ ImageOK(Current) /\ ImageOK(blockstack)
      /\ ImageOK(Current') /\ ImageOK(blockstack')
  BY PointersInvariant DEF PointersOK, Current
<1>1. /\ Current.snapshotStack = snapshotStack
      /\ Current.nowPointer = nowPointer
      /\ Current.maxPointer = maxPointer
      /\ Current.topPointer = topPointer
  BY DEF Current, Image
<1>2. ASSUME NEW r \in Records, Pushcc(r) PROVE UR!Next
  <2>1. Done(Current)' = Append(Done(Current), r)
    <3>1. Done(Current)' = [i \in 1 .. nowPointer + 1 |->
                              IF i = nowPointer + 1 THEN r ELSE snapshotStack[i]]
      BY <1>0, <1>2, MaxTopAssumption
      DEF Pushcc, PushBack, Overwrite, Done, Current, Image, ImageOK
    <3>2. Append(Done(Current), r)
            = [i \in 1 .. nowPointer + 1 |->
                 IF i = nowPointer + 1 THEN r ELSE snapshotStack[i]]
      <4>1. /\ Done(Current) \in Seq(Records)
            /\ Len(Done(Current)) = nowPointer
            /\ nowPointer \in Nat
        <5>1. nowPointer \in Nat
          BY <1>0, <1>1, MaxTopAssumption DEF ImageOK
        <5>2. QED
          BY <5>1, <1>0, <1>1, Stretches
      <4>2. \A i \in 1 .. nowPointer : Done(Current)[i] = snapshotStack[i]
        BY <1>1 DEF Done
      <4>3. QED
        BY <4>1, <4>2, AppendFacts
    <3>3. QED
      BY <3>1, <3>2
  <2>2. Undone(Current)' = <<>>
    BY <1>0, <1>2, Stretches, MaxTopAssumption
    DEF Pushcc, PushBack, Overwrite, Undone, Current, Image, ImageOK
  <2>3. kept' = kept
    BY <1>2 DEF Pushcc
  <2>4. QED
    BY <2>1, <2>2, <2>3 DEF UR!Next, UR!Do
<1>3. ASSUME Pop PROVE UR!Undo
  <2>1. nowPointer \in Nat \ {0} /\ maxPointer \in Nat /\ maxPointer >= nowPointer
    BY <1>0, <1>1, <1>3, MaxTopAssumption DEF Pop, ImageOK
  <2>2. Done(Current) # <<>> /\ Len(Done(Current)) = nowPointer
    BY <1>0, <1>1, <2>1, Stretches
  <2>3. Done(Current)' = [i \in 1 .. nowPointer - 1 |-> snapshotStack[i]]
    BY <1>3 DEF Pop, Done, Current, Image
  <2>4. Done(Current)' = [i \in 1 .. Len(Done(Current)) - 1 |-> Done(Current)[i]]
    <3>1. \A i \in 1 .. nowPointer : Done(Current)[i] = snapshotStack[i]
      BY <1>1 DEF Done
    <3>2. QED
      BY <2>1, <2>2, <2>3, <3>1
  <2>5. Undone(Current)' = [i \in 1 .. maxPointer - nowPointer + 1 |->
                              snapshotStack[nowPointer - 1 + i]]
    BY <1>3, <2>1 DEF Pop, Undone, Current, Image
  <2>6. Undone(Current)'
          = [i \in 1 .. Len(Undone(Current)) + 1 |->
               IF i = 1 THEN Done(Current)[Len(Done(Current))]
                        ELSE Undone(Current)[i - 1]]
    <3>1. /\ Len(Undone(Current)) = maxPointer - nowPointer
          /\ Done(Current)[nowPointer] = snapshotStack[nowPointer]
          /\ \A i \in 1 .. maxPointer - nowPointer :
               Undone(Current)[i] = snapshotStack[nowPointer + i]
      BY <1>0, <1>1, <2>1, Stretches DEF Done, Undone
    <3>2. ASSUME NEW i \in 1 .. maxPointer - nowPointer + 1
          PROVE  snapshotStack[nowPointer - 1 + i]
                   = IF i = 1 THEN Done(Current)[nowPointer]
                              ELSE Undone(Current)[i - 1]
      <4>1. CASE i = 1
        BY <2>1, <3>1, <4>1
      <4>2. CASE i # 1
        <5>1. i - 1 \in 1 .. maxPointer - nowPointer
          BY <2>1, <4>2
        <5>2. Undone(Current)[i - 1] = snapshotStack[nowPointer + (i - 1)]
          BY <3>1, <5>1
        <5>3. nowPointer + (i - 1) = nowPointer - 1 + i
          BY <2>1
        <5>4. QED
          BY <4>2, <5>2, <5>3
      <4>3. QED
        BY <4>1, <4>2
    <3>3. QED
      BY <2>2, <2>5, <3>1, <3>2
  <2>7. kept' = kept
    BY <1>3 DEF Pop
  <2>8. QED
    BY <2>2, <2>4, <2>6, <2>7 DEF UR!Undo
<1>4. ASSUME RevokePop PROVE UR!Redo
  <2>1. nowPointer \in Nat /\ maxPointer \in Nat /\ maxPointer > nowPointer
    BY <1>0, <1>1, <1>4, MaxTopAssumption DEF RevokePop, ImageOK
  <2>2. Undone(Current) # <<>> /\ Len(Undone(Current)) = maxPointer - nowPointer
    <3>1. /\ Undone(Current) \in Seq(Records)
          /\ Len(Undone(Current)) = maxPointer - nowPointer
      BY <1>0, <1>1, Stretches
    <3>2. maxPointer - nowPointer # 0
      BY <2>1
    <3>3. QED
      BY <3>1, <3>2, EmptySeq
  <2>3. Done(Current)' = Append(Done(Current), Undone(Current)[1])
    <3>1. Done(Current)' = [i \in 1 .. nowPointer + 1 |-> snapshotStack[i]]
      BY <1>4 DEF RevokePop, Done, Current, Image
    <3>2. Append(Done(Current), Undone(Current)[1])
            = [i \in 1 .. nowPointer + 1 |-> snapshotStack[i]]
      <4>1. /\ Done(Current) \in Seq(Records)
            /\ Len(Done(Current)) = nowPointer
            /\ Undone(Current) \in Seq(Records)
        BY <1>0, <1>1, Stretches
      <4>2. /\ Undone(Current)[1] = snapshotStack[nowPointer + 1]
            /\ \A i \in 1 .. nowPointer : Done(Current)[i] = snapshotStack[i]
        BY <1>1, <2>1 DEF Done, Undone
      <4>3. Undone(Current)[1] \in Records
        BY <4>1, <2>1, <2>2, ElementOfSeq
      <4>4. QED
        BY <2>1, <4>1, <4>2, <4>3, AppendFacts
    <3>3. QED
      BY <3>1, <3>2
  <2>4. Undone(Current)' = [i \in 1 .. maxPointer - (nowPointer + 1) |->
                              snapshotStack[nowPointer + 1 + i]]
    BY <1>4 DEF RevokePop, Undone, Current, Image
  <2>5. Undone(Current)'
          = [i \in 1 .. Len(Undone(Current)) - 1 |-> Undone(Current)[i + 1]]
    <3>1. \A i \in 1 .. maxPointer - nowPointer :
             Undone(Current)[i] = snapshotStack[nowPointer + i]
      BY <1>1 DEF Undone
    <3>2. ASSUME NEW i \in 1 .. maxPointer - (nowPointer + 1)
          PROVE  snapshotStack[nowPointer + 1 + i] = Undone(Current)[i + 1]
      <4>1. i + 1 \in 1 .. maxPointer - nowPointer
        BY <2>1
      <4>2. Undone(Current)[i + 1] = snapshotStack[nowPointer + (i + 1)]
        BY <3>1, <4>1
      <4>3. nowPointer + (i + 1) = nowPointer + 1 + i
        BY <2>1
      <4>4. QED
        BY <4>2, <4>3
    <3>3. Len(Undone(Current)) - 1 = maxPointer - (nowPointer + 1)
      BY <2>1, <2>2
    <3>4. QED
      BY <2>4, <3>2, <3>3
  <2>6. kept' = kept
    BY <1>4 DEF RevokePop
  <2>7. QED
    BY <2>2, <2>3, <2>5, <2>6 DEF UR!Redo
<1>5. ASSUME Save PROVE UR!Keep
  BY <1>5 DEF Save, WriteToFile, UR!Keep, UR!History, Current
<1>6. ASSUME ReadFromFile PROVE UR!Restart
  BY <1>6 DEF ReadFromFile, UR!Restart, Current, Image, Done, Undone
<1>7. ASSUME Clear PROVE UR!Forget
  <2>1. /\ Current' = Image(Sentinel, 0, 0, 0)
        /\ blockstack' = Image(Sentinel, 0, 0, 0)
    BY <1>7 DEF Clear, WriteToFile, Current
  <2>2. /\ Done(Image(Sentinel, 0, 0, 0)) = <<>>
        /\ Undone(Image(Sentinel, 0, 0, 0)) = <<>>
    BY DEF Image, Done, Undone
  <2>3. QED
    BY <2>1, <2>2 DEF UR!Forget, UR!History
<1>8. ASSUME UNCHANGED vars PROVE UNCHANGED UR!historyVars
  BY <1>8 DEF vars, UR!historyVars, Current
<1>9. QED
  BY <1>2, <1>3, <1>4, <1>5, <1>6, <1>7, <1>8 DEF Next, UR!Next

(* The vector and its pointers are an undo/redo history, also across       *)
(* restarts of the server.                                                 *)
THEOREM Refinement == Spec => ImplementsUndoRedo
<1>1. Init => UR!Init
  <2>1. SUFFICES ASSUME Init PROVE UR!Init
    OBVIOUS
  <2>2. /\ Current = Image(Sentinel, 0, 0, 0)
        /\ blockstack = Image(Sentinel, 0, 0, 0)
    BY <2>1 DEF Init, Current
  <2>3. /\ Done(Image(Sentinel, 0, 0, 0)) = <<>>
        /\ Undone(Image(Sentinel, 0, 0, 0)) = <<>>
    BY DEF Image, Done, Undone
  <2>4. QED
    BY <2>2, <2>3 DEF UR!Init, UR!History
<1>2. QED
  BY <1>1, StepSimulation, PointersCorrect, PTL
  DEF Spec, ImplementsUndoRedo, UR!Spec
=============================================================================
