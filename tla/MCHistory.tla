----------------------------- MODULE MCHistory -----------------------------
(* Model-checking instances of History.                                    *)
EXTENDS History

\* Every kind of atom, with references that are inside the ring of two and,
\* early on, outside it.
FewKinds == { Word(w) : w \in Words } \cup {Op, Last1, Back(2), Nth(1)}
=============================================================================
