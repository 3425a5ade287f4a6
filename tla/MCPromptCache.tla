--------------------------- MODULE MCPromptCache ---------------------------
(* PromptCache with small constants for TLC. *)
EXTENDS PromptCache

LongTools   == {<<TRUE, TRUE>>, <<TRUE, FALSE>>, <<>>}
BlankOrNot  == {0, 1}
SomeEfforts == {"", "low", "medium"}
SomeLimits  == {0, 8192}
=============================================================================
