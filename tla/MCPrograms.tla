----------------------------- MODULE MCPrograms -----------------------------
(* Model-checking instances of Programs.                                   *)
EXTENDS ScriptMeaning

CONSTANTS home, path, cut, long, v, bin, none, noInterp, noDir

Here(n) == Word("cwd", n)
TheOsh == Word("bin", "osh")
ThePathDirs == (v :> <<"usr", "bin">>) @@ (bin :> <<"bin">>)

File(interp, lines) == [interp |-> interp, lines |-> lines]

\* A script that sources two others, one of them missing; one that changes
\* PATH and replaces the shell; one that sources itself, and a pair that
\* source each other; programs under the same name in two directories.
TheFiles ==
    (Here("a") :> File(TheOsh, <<Set(long, v), Source(Here("b")), Source(Here("gone")), Echo(home), Drop(long)>>))
    @@ (Here("b") :> File(NoInterp, <<Echo(home), Drop(home), Set(cut, v)>>))
    @@ (Here("c") :> File(NoInterp, <<Set(path, v), Run(Word(noDir, "p"), 1), Exec(Word(noDir, "p"), 1), Echo(path)>>))
    @@ (Here("self") :> File(TheOsh, <<Echo(home), Source(Here("self")), Source(Word(noDir, "b"))>>))
    @@ (Here("one") :> File(TheOsh, <<Echo(path), Exec(Word("cwd", "two"), 0), Echo(home)>>))
    @@ (Here("two") :> File(TheOsh, <<Source(Word(noDir, "one")), Echo(cut), Leave>>))
    @@ (Here("three") :> File(NoInterp, <<Source(Here("b")), Leave, Echo(home)>>))
    @@ (Word("bin", "p") :> File(NoInterp, <<>>))
    @@ (Word("usr", "p") :> File(Word("bin", "p"), <<>>))
    @@ (Here("q") :> File(Word("bin", "none"), <<>>))
    @@ (TheOsh :> File(NoInterp, <<>>))

SomeCommands ==
    { Set(k, x) : k \in {home, path, cut, long}, x \in {v, bin} }
    \cup { Drop(k) : k \in {home, path, cut, long} }
    \cup { Source(Word(noDir, n)) : n \in {"a", "c", "self", "one", "three", "gone"} }
    \cup { Exec(Word(noDir, n), 2) : n \in {"a", "self", "one"} }
    \cup { Exec(Word(noDir, "p"), n) : n \in {0, 2, 5} }
    \cup { Run(Word(noDir, n), 5) : n \in {"p", "q", "a"} }
    \cup { Echo(home), Leave, Exec(Word("cwd", "q"), 1) }
=============================================================================
