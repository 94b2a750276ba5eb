------------------------------ MODULE Programs ------------------------------
(***************************************************************************)
(* Scripts (commands/exec/script.rs), exec and run (commands/exec/mod.rs   *)
(* and run.rs), and the start of the shell (main.rs), over the environment *)
(* of module Environment: a script is read line by line from a descriptor, *)
(* its lines may source further scripts, change the environment that the   *)
(* next line sees, or start a program, which is found through PATH and     *)
(* gets its arguments and the environment in arrays of a fixed size.       *)
(*                                                                         *)
(* One action is one line with the command it holds, up to the next line   *)
(* of an inner script.  The contents of files do not change; a line is one *)
(* command without operators (those are in PipelineExec); a file that is   *)
(* no script has no lines.  Open fails on what does not exist, a read may  *)
(* fail anywhere between two lines, execve and spawn may always fail.      *)
(* run waits for its child; what that wait may collect is in JobControl.   *)
(***************************************************************************)
EXTENDS Environment

CONSTANTS
    Home, Path,     \* the names HOME and PATH
    HomeDir, Bin,   \* the values they start with
    PathDirs,       \* value -> the directories in it
    Cwd,            \* the working directory
    NoDir,          \* of a word without a slash
    Files,          \* place -> [interp, lines]
    Osh,            \* the interpreter /bin/osh, a place
    NoInterp,       \* of a file that does not begin with #!
    ScriptDepthMax, \* SCRIPT_DEPTH_MAX (8)
    MaxArgs,        \* MAX_ARGS (16)
    Commands        \* commands the user enters

\* A word, and once the directory is known, a place.
Word(d, n) == [dir |-> d, name |-> n]

\* The commands; of an argument only its number counts.
Set(k, v)   == [do |-> "export", key |-> k, val |-> v]
Drop(k)     == [do |-> "unset", key |-> k]
Echo(k)     == [do |-> "echo", key |-> k]
Source(w)   == [do |-> "source", word |-> w]
Exec(w, n)  == [do |-> "exec", word |-> w, args |-> <<w>> \o [i \in 1 .. n |-> i]]
Run(w, n)   == [do |-> "run", word |-> w, args |-> <<w>> \o [i \in 1 .. n |-> i]]
Leave       == [do |-> "exit"]
Main(w)     == [do |-> "main", word |-> w]    \* the argument of the shell

ASSUME ProgramsAssumption ==
    /\ {Home, Path} \subseteq Whole /\ {HomeDir, Bin} \subseteq Values
    /\ ScriptDepthMax \in Nat \ {0} /\ MaxArgs \in Nat /\ MaxArgs > 2

\* Commands come from the user and from scripts; their names and values are
\* ones that occur, an argument list begins with the command's word.
AllCommands == Commands \cup UNION { ToSet(Files[p].lines) : p \in DOMAIN Files }

ASSUME CommandsAssumption ==
    /\ \A p \in DOMAIN Files : Files[p].lines \in Seq(ToSet(Files[p].lines))
    /\ \A v \in Values : PathDirs[v] \in Seq(ToSet(PathDirs[v]))
    /\ \A c \in AllCommands :
          /\ c.do \in {"export", "unset"} => c.key \in Names
          /\ c.do = "export" => c.val \in Values
          /\ c.do \in {"exec", "run"} =>
                \E n \in 0 .. Len(c.args) : c.args = <<c.word>> \o [i \in 1 .. n |-> i]

VARIABLES
    pc,         \* "start", "home", "prompt", "script", "wait", "replaced", "exited"
    stack,      \* the scripts being read, innermost last
    depth,      \* SCRIPT_DEPTH
    open,       \* how many descriptors the shell holds for scripts
    started,    \* the program just started, as a set of at most one
    out,        \* ghost: what the script has printed
    begun,      \* ghost: the command that began the script, and env then (likewise)
    failed      \* ghost: whether a read of the script has failed

progVars == <<env, pc, stack, depth, open, started, out, begun, failed>>

ProgInit ==
    /\ Init
    /\ pc = "start" /\ stack = <<>> /\ depth = 0 /\ open = 0
    /\ started = {}
    /\ out = <<>> /\ begun = {} /\ failed = FALSE

-----------------------------------------------------------------------------
(* Finding and starting programs                                           *)

Exists(p) == p \in DOMAIN Files

\* path::resolve
Resolved(w) == IF w.dir = NoDir THEN Word(Cwd, w.name) ELSE w

SearchDirs == IF Known(Path) THEN PathDirs[Lookup(Path)] ELSE <<>>

\* resolve_cmd_path: without a slash, the first directory of PATH that has
\* the name; the working directory if none has.
ResolveCmd(w) ==
    LET at == { i \in DOMAIN SearchDirs : Exists(Word(SearchDirs[i], w.name)) }
    IN  IF w.dir # NoDir \/ at = {} THEN Resolved(w)
        ELSE Word(SearchDirs[CHOOSE i \in at : \A j \in at : i <= j], w.name)

Interp(p) == IF Exists(p) THEN Files[p].interp ELSE NoInterp

UpTo(s, n) == SubSeq(s, 1, IF Len(s) < n THEN Len(s) ELSE n)

\* Mutant: the two that come first are not counted.
Argv_TooLong(p, args) ==
    IF Interp(p) = NoInterp THEN UpTo(args, MaxArgs)
    ELSE <<Interp(p), p>> \o Tail(UpTo(args, MaxArgs))

\* build_argv, and build_shebang_argv, which has room for one more.
Argv(p, args) ==
    IF Interp(p) = NoInterp THEN UpTo(args, MaxArgs)
    ELSE <<Interp(p), p>> \o Tail(UpTo(args, MaxArgs - 2))

Program(p) == IF Interp(p) = NoInterp THEN p ELSE Interp(p)

\* build_envp; run passes none.
Envp(c) == IF c.do = "exec" THEN env ELSE <<>>

StartProgram(c, p) ==
    started' = {[args |-> c.args, word |-> c.word, path |-> p,
                 argv |-> Argv(p, c.args), envp |-> Envp(c)]}

-----------------------------------------------------------------------------
(* One command, entered or read from a script: frames are the scripts that *)
(* are left to be read when it is dispatched.                              *)

\* What all commands leave alone but those that begin or end a script.
Continue(frames) ==
    /\ stack' = frames
    /\ pc' = IF frames = <<>> THEN "prompt" ELSE "script"
    /\ UNCHANGED <<depth, open>>

Variables(c, frames) ==
    /\ \/ c.do = "export" /\ Export(c.key, c.val) /\ UNCHANGED out
       \/ c.do = "unset" /\ Unset(c.key) /\ UNCHANGED out
       \/ c.do = "echo" /\ out' = (IF frames = <<>> THEN out ELSE Append(out, Lookup(c.key)))
          /\ UNCHANGED env
    /\ Continue(frames)
    /\ UNCHANGED started

Exit ==
    /\ pc' = "exited"
    /\ stack' = <<>>
    /\ UNCHANGED <<env, depth, open, started, out>>

\* do_script: refused beyond the limit; a script that cannot be opened ends
\* at once.  exec of an osh script runs it in this shell, which exits then,
\* also when it was refused.
DoScript(p, thenExit, frames) ==
    IF depth >= ScriptDepthMax \/ ~Exists(p)
    THEN IF thenExit THEN Exit
         ELSE Continue(frames) /\ UNCHANGED <<env, started, out>>
    ELSE /\ stack' = Append(frames, [file |-> p, next |-> 1, thenExit |-> thenExit])
         /\ pc' = "script"
         /\ depth' = depth + 1
         /\ open' = open + 1
         /\ UNCHANGED <<env, started, out>>

\* cmd_exec: execve replaces the shell, scripts and all, or fails.
ExecProgram(c, frames) ==
    LET p == ResolveCmd(c.word)
    IN  IF Interp(p) = Osh THEN DoScript(p, TRUE, frames)
        ELSE \/ /\ Exists(Program(p))
                /\ StartProgram(c, p)
                /\ pc' = "replaced" /\ stack' = <<>>
                /\ UNCHANGED <<env, depth, open, out>>
             \/ Continue(frames) /\ UNCHANGED <<env, started, out>>

\* cmd_run: spawn, also of osh for a script of its own, or fail.
RunProgram(c, frames) ==
    LET p == ResolveCmd(c.word)
    IN  \/ /\ Exists(Program(p))
           /\ StartProgram(c, p)
           /\ pc' = "wait" /\ stack' = frames
           /\ UNCHANGED <<env, depth, open, out>>
        \/ Continue(frames) /\ UNCHANGED <<env, started, out>>

Dispatch(c, frames) ==
    \/ Variables(c, frames)
    \/ c.do = "exit" /\ Exit
    \/ c.do = "source" /\ DoScript(Resolved(c.word), FALSE, frames)
    \/ c.do = "exec" /\ ExecProgram(c, frames)
    \/ c.do = "run" /\ RunProgram(c, frames)

-----------------------------------------------------------------------------
(* The start of the shell, the user, and the script being read             *)

\* _start with an argument: a script, without env_init, and the end.
StartScript(p) ==
    /\ pc = "start"
    /\ DoScript(p, TRUE, <<>>)
    /\ begun' = {[command |-> Main(p), env |-> env]}
    /\ UNCHANGED failed

\* _start without: env_init, in two calls of env_set.
StartHome ==
    /\ pc = "start"
    /\ Export(Home, HomeDir)
    /\ pc' = "home"
    /\ UNCHANGED <<stack, depth, open, started, out, begun, failed>>

StartPath ==
    /\ pc = "home"
    /\ Export(Path, Bin)
    /\ pc' = "prompt"
    /\ UNCHANGED <<stack, depth, open, started, out, begun, failed>>

Enter(c) ==
    /\ pc = "prompt"
    /\ Dispatch(c, <<>>)
    /\ begun' = IF stack' = <<>> THEN {} ELSE {[command |-> c, env |-> env]}
    /\ UNCHANGED failed

Top == Last(stack)
AtEnd == Top.next > Len(Files[Top.file].lines)

\* The ghosts of a script are dropped with it.
Forget ==
    /\ begun' = IF stack' = <<>> THEN {} ELSE begun
    /\ failed' = (failed /\ stack' # <<>>)

\* Mutant: the position is that of the shell, not of the script.
NextLine_Shared ==
    /\ pc = "script" /\ ~AtEnd
    /\ LET c == Files[Top.file].lines[Top.next]
       IN  Dispatch(c, [i \in DOMAIN stack |-> [stack[i] EXCEPT !.next = Top.next + 1]])
    /\ Forget

\* Mutant: a script that could not be sourced is tried again.
NextLine_Retries ==
    /\ pc = "script" /\ ~AtEnd
    /\ LET c == Files[Top.file].lines[Top.next]
       IN  IF c.do = "source" /\ ~Exists(Resolved(c.word)) THEN Dispatch(c, stack)
           ELSE Dispatch(c, [stack EXCEPT ![Len(stack)].next = @ + 1])
    /\ Forget

\* The next line of the innermost script; comments are left out.
NextLine ==
    /\ pc = "script" /\ ~AtEnd
    /\ LET c == Files[Top.file].lines[Top.next]
       IN  Dispatch(c, [stack EXCEPT ![Len(stack)].next = @ + 1])
    /\ Forget

\* Mutant: the descriptor of an inner script stays open.
CloseScript_Outermost ==
    /\ open' = IF Len(stack) = 1 THEN open - 1 ELSE open
    /\ depth' = depth - 1

CloseScript == open' = open - 1 /\ depth' = depth - 1

PopScript ==
    /\ CloseScript
    /\ stack' = IF Top.thenExit THEN <<>> ELSE Front(stack)
    /\ pc' = IF Top.thenExit THEN "exited" ELSE IF stack' = <<>> THEN "prompt" ELSE "script"
    /\ out' = IF stack' = <<>> THEN <<>> ELSE out
    /\ begun' = IF stack' = <<>> THEN {} ELSE begun
    /\ UNCHANGED <<env, started>>

EndOfScript ==
    /\ pc = "script" /\ AtEnd
    /\ PopScript
    /\ failed' = (failed /\ stack' # <<>>)

\* An error is taken for the end of the file.
ReadFails ==
    /\ pc = "script" /\ ~AtEnd
    /\ PopScript
    /\ failed' = (stack' # <<>>)

\* The child has exited.
RunReturns ==
    /\ pc = "wait"
    /\ started' = {}
    /\ Continue(stack)
    /\ UNCHANGED <<env, out, begun, failed>>

User == \E c \in Commands : Enter(c)

Start == StartHome \/ StartPath \/ \E p \in DOMAIN Files : StartScript(p)

ProgNext == Start \/ User \/ NextLine \/ EndOfScript \/ ReadFails \/ RunReturns

\* Fairness: the shell goes on reading a script; it is not said that the
\* programs it waits for return.
ProgSpec == ProgInit /\ [][ProgNext]_progVars /\ WF_progVars(NextLine \/ EndOfScript)

-----------------------------------------------------------------------------
(* Properties                                                              *)

\* Whatever scripts source one another, fail to open or are refused, the
\* depth and the descriptors held are those of the scripts being read; the
\* limit is never exceeded, and at the prompt neither is left over.
DepthIsNesting ==
    pc \in {"prompt", "script", "wait"} =>
        /\ depth = Len(stack) /\ open = Len(stack)
        /\ depth <= ScriptDepthMax

\* A script started with source or exec, or as the shell's argument, comes
\* to an end, also one that sources itself, if the programs it waits for
\* return.
ScriptsEnd == []<>(pc # "wait") => (pc = "script" ~> stack = <<>>)

\* A program gets every argument as long as there is room for all, never
\* more than its array holds.  It is the one that the name stands for: the
\* first directory in PATH that has it hides the others, and the working
\* directory counts only if none has.  Started by exec it finds each name
\* that fits with the value that the shell and its scripts gave it last,
\* exactly once or not at all.
StartedAsAsked ==
    \A p \in started :
        /\ Len(p.argv) <= MaxArgs
        /\ Len(p.args) <= MaxArgs - 2 =>
              Tail(p.args) = SubSeq(p.argv, Len(p.argv) - Len(p.args) + 2, Len(p.argv))
        /\ p.word.dir = NoDir =>
              \A i \in DOMAIN SearchDirs :
                  Exists(Word(SearchDirs[i], p.word.name)) =>
                      p.path \in { Word(SearchDirs[j], p.word.name) : j \in 1 .. i }
        /\ pc = "replaced" => \A k \in Whole :
              LET at == { i \in DOMAIN p.envp : p.envp[i].key = k }
              IN  IF Lookup(k) = NotSet THEN at = {}
                  ELSE \E i \in at : at = {i} /\ p.envp[i].val = Lookup(k)
=============================================================================
