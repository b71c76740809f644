----------------------------- MODULE MCDialogue -----------------------------
(* Files with nothing, with text, and with a NUL in front of a chunk.      *)
EXTENDS Dialogue

MCFiles == {<<>>, <<"text", "text">>, <<"text", "binary", "text">>}
=============================================================================
