---------------------------- MODULE MCJobControl ----------------------------
(* Model-checking instances of JobControl.                                 *)
EXTENDS JobControl, TLC

Symmetry == Permutations(Pids)

NoRunOps == OpKinds \ {"run"}
RunOps == {"pipeline", "run", "fg", "builtin"}
=============================================================================
