---------------------------- MODULE MCPathResolve ----------------------------
(* Model-checking instances of PathResolve.                                *)
EXTENDS PathResolve

\* Two names, of one and of two bytes.
Lengths == [n \in Names |-> IF n = "a" THEN 1 ELSE 2]

\* Every text of at most k components that the buffer has room for.
TextsUpTo(k) ==
    { t \in [abs : BOOLEAN, comps : SeqOf(Component, k)] :
        /\ t.comps # <<>>
        /\ ~t.abs => t.comps[1] # Empty
        /\ TextLen(t) < PathMax }

ThreeComponents == TextsUpTo(3)
=============================================================================
