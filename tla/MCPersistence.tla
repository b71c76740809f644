--------------------------- MODULE MCPersistence ---------------------------
(* Two cells that can be saved apart or together, and one backup.          *)
EXTENDS Persistence, TLC

CONSTANTS c1, c2, old, new, k1, latest

TwoCells == {c1, c2}
TwoValues == {old, new}
AllGroups == {{c1}, {c2}, {c1, c2}}
OneCommand == {k1}
OneVersion == {latest}
Symmetry == Permutations(TwoCells) \cup Permutations(TwoValues)
=============================================================================
