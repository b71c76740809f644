----------------------------- MODULE MCHomework -----------------------------
(* Two homeworks of one course, one student.  A comment of two symbols     *)
(* fills the block of the sheet.                                           *)
EXTENDS Homework

MCScores == {<<"7">>, <<"a", "b", "c">>, <<"-", "1">>}
MCDigits == {"7"}
MCAnswers == {<<"x">>, <<"y", "y", "y", "y", "y", "y", "y", "y", "y", "z">>}
MCComments == {<<"k">>, <<"l", "m">>}
MCLeftovers == {<<>>, <<"?">>}
=============================================================================
