--------------------------- MODULE MCFrameStream ---------------------------
EXTENDS FrameStream

F(t, final) == [turn |-> t, final |-> final]

\* One turn with a partial, and two so short that they are only a terminal.
ThreeTurns == <<F(1, FALSE), F(1, TRUE), F(2, TRUE), F(3, TRUE)>>
=============================================================================
