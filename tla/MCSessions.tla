----------------------------- MODULE MCSessions -----------------------------
(* Two numbers for users besides those of the system's own users, so that  *)
(* a teacher and a student exist side by side, three names, so that a      *)
(* number passes to a new user, and two groups for courses, the second of  *)
(* which is the last of all.  Two clients.                                 *)
EXTENDS Sessions, TLC

CONSTANTS n1, n2, n3, c1, c2, p, q, noise, s1, s2

SomeUsers == {n1, n2, n3}
SomeCourses == {c1, c2}
TwoPasswords == {p, q}
TwoClients == {s1, s2}
Symmetry == Permutations(SomeUsers) \cup Permutations(SomeCourses)
              \cup Permutations(TwoPasswords) \cup Permutations(TwoClients)
=============================================================================
