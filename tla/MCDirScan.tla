----------------------------- MODULE MCDirScan -----------------------------
(* Model-checking instances of DirScan.                                    *)
EXTENDS DirScan

Word(n) == Token(FALSE, <<>>, n)
Abs(d, n) == Token(TRUE, d, n)

AnyName == {"a", "b", "c", "ls"}
TheMatches == ("*" :> AnyName) @@ ("?" :> {"a", "b", "c"}) @@ ("b*" :> {"b"})

\* Every directory smaller than a scan, and directories of one, of more
\* than one and of two full scans.
Small == (<<>> :> <<"ls", "a">>) @@ (<<"a">> :> <<"b", "c">>) @@ (<<"a", "b">> :> <<>>)
Large == (<<>> :> <<"a", "b", "c">>) @@ (<<"a">> :> <<"c", "b", "ls", "a">>)
         @@ (<<"b">> :> <<"a", "b", "c", "ls", "b", "a">>)
SomeTrees == {Small, Large}

Patterns == {Word("*"), Word("b*"), Abs(<<>>, "?"), Abs(<<"a">>, "*"), Abs(<<"b">>, "*"),
             Token(FALSE, <<"a">>, "*"), Abs(<<"*">>, "a")}
Places == Patterns \cup {Word("a"), Word("-l"), Abs(<<>>, "e"), Abs(<<"b">>, "e"), Abs(<<"a">>, "b")}

SomeLines == { <<Word("ls")>>, <<Word("cd")>>, <<>> }
             \cup { <<Word(c), p>> : c \in {"ls", "cd", "echo"}, p \in Places }
             \cup { <<Word("ls"), p, q>> : p, q \in Places }
             \cup { <<p, q, Word("a"), Word("b")>> : p, q \in Patterns }
=============================================================================
