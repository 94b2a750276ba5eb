---------------------------- MODULE MCGlobMatch ----------------------------
(* Model-checking instances of GlobMatch.                                  *)
EXTENDS GlobMatch

a == 97
b == 98

\* Pieces of patterns: characters, wildcards, classes, a range, an empty
\* class, an unclosed bracket and a class with a dash at its end.
Pieces == { <<a>>, <<b>>, <<Star>>, <<Quest>>, <<Open, a, Close>>,
            <<Open, a, Dash, b, Close>>, <<Open, Close>>, <<Open>>,
            <<Open, b, Dash, Close>> }

PiecePatterns == { FlattenSeq(s) : s \in SeqOf(Pieces, 4) }

ShortNames == SeqOf({a, b, Open, Star}, 3)
=============================================================================
