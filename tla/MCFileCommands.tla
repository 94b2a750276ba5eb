--------------------------- MODULE MCFileCommands ---------------------------
(* Model-checking instances of FileCommands.                               *)
EXTENDS FileCommands

\* Contents that fill the buffer exactly, with a rest, and not at all.
SomeContents == {<<>>, <<1>>, <<1, 2, 3>>, <<4, 5, 6, 7>>}
=============================================================================
