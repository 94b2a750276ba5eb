---------------------------- MODULE ScriptMeaning ----------------------------
(***************************************************************************)
(* What scripts mean: what a script does to a state, by recursion over its *)
(* lines and over how many scripts may be open, against which the machine  *)
(* of Programs with its stack of open files is checked.                    *)
(***************************************************************************)
EXTENDS Programs

\* A state: the variables, what was printed, whether the shell has exited.
State(vars, printed, exited) == [vars |-> vars, out |-> printed, exited |-> exited]

States == [vars : Seq(Entry), out : Seq(Values \cup {NotSet}), exited : BOOLEAN]

IsIn(vars, k) == \E i \in DOMAIN vars : vars[i].key = k
Position(vars, k) == CHOOSE i \in DOMAIN vars : vars[i].key = k /\ \A j \in 1 .. i - 1 : vars[j].key # k
Get(vars, k) == IF IsIn(vars, k) THEN vars[Position(vars, k)].val ELSE NotSet

With(vars, k, v) ==
    IF IsIn(vars, k) THEN [vars EXCEPT ![Position(vars, k)].val = v]
    ELSE IF Len(vars) < EnvMax THEN Append(vars, [key |-> StoredKey(k), val |-> v])
    ELSE vars

Without(vars, k) == IF IsIn(vars, k) THEN RemoveAt(vars, Position(vars, k)) ELSE vars

\* Where exec finds its word under these variables.
Place(vars, w) ==
    LET dirs == IF IsIn(vars, Path) THEN PathDirs[Get(vars, Path)] ELSE <<>>
        has  == { i \in DOMAIN dirs : Exists(Word(dirs[i], w.name)) }
    IN  IF w.dir = NoDir /\ has # {} THEN Word(dirs[Min(has)], w.name) ELSE Resolved(w)

\* The state after the script at a place, if there is one; script[p] says
\* what the script at p makes of a state.
Script(p, s, script) == IF Exists(p) THEN script[p][s] ELSE s

\* The state after one command; a program that could not be started, and
\* one that was waited for, changes nothing.
Effect(c, s, script) ==
    CASE c.do = "export" -> [s EXCEPT !.vars = With(@, c.key, c.val)]
      [] c.do = "unset"  -> [s EXCEPT !.vars = Without(@, c.key)]
      [] c.do = "echo"   -> [s EXCEPT !.out = Append(@, Get(s.vars, c.key))]
      [] c.do = "exit"   -> [s EXCEPT !.exited = TRUE]
      [] c.do = "source" -> Script(Resolved(c.word), s, script)
      [] c.do = "main" -> [Script(c.word, s, script) EXCEPT !.exited = TRUE]
      [] c.do = "exec" /\ Interp(Place(s.vars, c.word)) = Osh ->
            [Script(Place(s.vars, c.word), s, script) EXCEPT !.exited = TRUE]
      [] OTHER -> s

\* From each line on, the state after the rest of the lines.
Rest(lines, script) ==
    LET from[i \in 1 .. Len(lines) + 1] ==
            [s \in States |->
                IF i > Len(lines) \/ s.exited THEN s
                ELSE from[i + 1][Effect(lines[i], s, script)]]
    IN  from

\* The scripts when n more may be open: none is read if n is 0.
Scripts ==
    LET upTo[n \in 0 .. ScriptDepthMax] ==
            [p \in DOMAIN Files |->
                IF n = 0 THEN [s \in States |-> s] ELSE Rest(Files[p].lines, upTo[n - 1])[1]]
    IN  upTo

Meaning(c, s) == Effect(c, s, Scripts[ScriptDepthMax])

\* A script that ends without a read error, or by exit, has run the lines
\* of all scripts it sources, in the order in which they are written, each
\* line once, with the variables the lines before it left, and up to the
\* depth allowed; so each script goes on where it was when an inner one
\* returns.
ScriptsMeanTheirLines ==
    [][\A b \in begun :
          (stack' = <<>> /\ pc' \in {"prompt", "exited"} /\ ~failed /\ (NextLine \/ EndOfScript)) =>
              LET m == Meaning(b.command, State(b.env, <<>>, FALSE))
              IN  out = m.out /\ env' = m.vars /\ (pc' = "exited" <=> m.exited)]_progVars
=============================================================================
