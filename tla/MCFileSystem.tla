---------------------------- MODULE MCFileSystem ----------------------------
(* One or two names, texts of one block and of two.                        *)
EXTENDS FileSystem, TLC

CONSTANTS name1, name2, value1, value2

OneName == {name1}
TwoNames == {name1, name2}
SmallText(v) == [value |-> v, blocks |-> 1]
LargeText(v) == [value |-> v, blocks |-> 2]
OneText == {SmallText(value1)}
AllTexts == {SmallText(value1), LargeText(value2)}

(* Where one run stops: the properties say nothing of what follows.        *)
NotMisled == ~ misled

Symmetry == Permutations(TwoNames)
=============================================================================
