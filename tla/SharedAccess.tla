---------------------------- MODULE SharedAccess ----------------------------
(***************************************************************************)
(* What the server promises to the bodies of its request handlers: any     *)
(* number of them may read the operating system image together, and one    *)
(* that modifies it is alone.  A step changes the access of one thread.    *)
(***************************************************************************)
CONSTANT Threads

VARIABLES readers, writers

accessVars == <<readers, writers>>

Init == readers = {} /\ writers = {}

Outside(t) == t \notin readers /\ t \notin writers

StartReading(t) ==
  /\ Outside(t)
  /\ writers = {}
  /\ readers' = readers \cup {t}
  /\ UNCHANGED writers

StopReading(t) ==
  /\ t \in readers
  /\ readers' = readers \ {t}
  /\ UNCHANGED writers

StartWriting(t) ==
  /\ readers = {} /\ writers = {}
  /\ writers' = {t}
  /\ UNCHANGED readers

StopWriting(t) ==
  /\ t \in writers
  /\ writers' = writers \ {t}
  /\ UNCHANGED readers

Next == \E t \in Threads :
          \/ StartReading(t) \/ StopReading(t)
          \/ StartWriting(t) \/ StopWriting(t)

Spec == Init /\ [][Next]_accessVars
=============================================================================
