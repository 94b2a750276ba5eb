--------------------------- MODULE MCPipelineExec ---------------------------
(* Model-checking instances of PipelineExec.                               *)
EXTENDS PipelineExec

Command == {"builtin", "filter"}
Redirections == {<<>>, <<">", "f">>, <<"<", "f">>, <<">", "f", "<", "f">>}

\* Pipelines of n segments, some of which may be only a redirection,
\* redirected or not, in the foreground or not.
Segment == { <<c>> : c \in Command } \cup {<<">", "g">>}

Pipelines(n) ==
    { (FlattenSeq([i \in 1 .. n |-> IF i = 1 THEN c[i] ELSE <<Bar>> \o c[i]]) \o r) \o b :
        c \in [1 .. n -> Segment], r \in Redirections, b \in {<<>>, <<Amp>>} }

\* Every line of up to k tokens, mostly odd ones: bars and operators without
\* neighbours, segments without words or with too many, names that are
\* missing or look like operators.
Tokens(k) == SeqOf(Command \cup Operators \cup {"inproc", Bar, Amp}, k)

OneLine == { <<l>> : l \in Tokens(4) \cup UNION { Pipelines(n) : n \in 1 .. 3 } }

\* Two builtin pipelines in a row: what the first leaves open and running
\* meets the second.
ShortLines == { l \in Pipelines(1) \cup Pipelines(2) : "filter" \notin ToSet(l) }

\* Four in a row that leave both redirections open: the last finds no
\* descriptor left.
UsesUp == <<"builtin", ">", "f", "<", "f">>

SomeSessions == OneLine \cup { <<a, b>> : a, b \in ShortLines }
                        \cup { <<UsesUp, UsesUp, UsesUp, UsesUp>> }
=============================================================================
