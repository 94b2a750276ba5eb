---------------------------- MODULE MCLineEditor ----------------------------
(* Model-checking instances of LineEditor.                                 *)
EXTENDS LineEditor

ThePrompt == <<"$", " ">>
SomeChars == {"x", " ", "/", "[", "A", "B", "C", "D"}
SomeBuiltins == <<<<"x", "x", "x">>, <<"x", "A">>>>
Lines == {<<"x">>, <<"x", " ", "/", "x">>}

\* Nothing, one name, names with a common beginning, and without one.
SomeScans == {<<>>, <<<<"x", "x">>>>, <<<<"x", "x", "A">>, <<"x", "x">>>>, <<<<"A">>, <<"x">>>>}

SomeKeys == { <<k>> : k \in {"x", " ", Del, Tab, Ret, CtrlC, CtrlD} }
        \cup { Arrow(a) : a \in {"A", "B", "C", "D"} }

\* One key, or two that matter together: a key after an arrow, a key after
\* Enter; nothing, when only the rest of a cut arrow arrives.
SomeRuns == {<<>>} \cup { <<k>> : k \in SomeKeys }
            \cup { <<k, l>> : k \in {Arrow("A"), <<Ret>>}, l \in {<<"x">>, Arrow("D")} }
=============================================================================
