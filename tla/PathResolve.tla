----------------------------- MODULE PathResolve -----------------------------
(***************************************************************************)
(* How the shell turns the paths the user types into the paths it hands to *)
(* the kernel: path::resolve and normalize (path.rs), under commands such  *)
(* as cd that resolve their argument, and under the redirections of        *)
(* pipeline::execute, which do not.                                        *)
(*                                                                         *)
(* A text is absolute or not and has components; a component is a name, of *)
(* which only the number of bytes matters, or empty (doubled or final      *)
(* slash), or "." or "..".                                                 *)
(***************************************************************************)
EXTENDS Integers, FiniteSets, Sequences, SequencesExt

CONSTANTS
    Names,      \* names of files and directories
    NameLen,    \* name -> its length in bytes
    PathMax,    \* PATH_MAX (256): size of the buffers, with the final NUL
    Inputs      \* the texts the user types as a path

ASSUME PathMaxAssumption == PathMax \in Nat /\ PathMax >= 3

Empty  == "empty"
Dot    == "dot"
Parent == "parent"

ASSUME NameLenAssumption ==
    NameLen \in [Names -> Nat \ {0}] /\ {Empty, Dot, Parent} \cap Names = {}

Component == Names \cup {Empty, Dot, Parent}

Text == [abs : BOOLEAN, comps : Seq(Component)]

\* The bytes of a component; those of a row of components, each with the
\* slash before it.
Bytes(c) == CASE c = Empty -> 0 [] c = Dot -> 1 [] c = Parent -> 2 [] OTHER -> NameLen[c]

RowLen(comps) ==
    LET sum[i \in 0 .. Len(comps)] ==
            IF i = 0 THEN 0 ELSE sum[i - 1] + 1 + Bytes(comps[i])
    IN  sum[Len(comps)]

TextLen(t) == RowLen(t.comps) - (IF t.abs THEN 0 ELSE 1)

\* A text of a command line is shorter than the buffer it is resolved into
\* and, if relative, does not begin with a slash.
ASSUME InputsAssumption ==
    \A t \in Inputs : /\ t \in Text /\ t.comps # <<>>
                      /\ ~t.abs => t.comps[1] # Empty
                      /\ TextLen(t) < PathMax

\* What normalize has written: names, each after a slash, and whether a
\* slash follows the last one (at the root: the slash there is).
Path == [names : Seq(Names), slash : BOOLEAN]

Root == [names |-> <<>>, slash |-> TRUE]

NoPath == [names |-> <<>>, slash |-> FALSE]     \* the result 0

PathLen(p) == RowLen(p.names) + (IF p.slash THEN 1 ELSE 0)

VARIABLES
    cwd,     \* the working directory the kernel keeps for the shell
    sent     \* the last path handed to the kernel: "none", "absolute" or
             \* "relative"

pathVars == <<cwd, sent>>

PathInit == cwd = Root /\ sent = "none"

-----------------------------------------------------------------------------
(* normalize: component by component, lexically                            *)

\* Mutant: a final slash counts as the last component.
Pop_SlashOnly(out) ==
    IF out.names = <<>> THEN out
    ELSE IF out.slash THEN [out EXCEPT !.slash = FALSE]
    ELSE [names |-> Front(out.names), slash |-> TRUE]

\* ".." removes the last name and leaves the slash before it.
Pop(out) == IF out.names = <<>> THEN out ELSE [names |-> Front(out.names), slash |-> TRUE]

AppendName(out, n) ==
    LET end == PathLen(out) + (IF out.slash THEN 0 ELSE 1)
    IN  IF end + NameLen[n] >= PathMax THEN NoPath
        ELSE [names |-> Append(out.names, n), slash |-> FALSE]

Component1(out, c) ==
    IF out = NoPath \/ c \in {Empty, Dot} THEN out
    ELSE IF c = Parent THEN Pop(out)
    ELSE AppendName(out, c)

Normalize(comps) ==
    LET out[i \in 0 .. Len(comps)] ==
            IF i = 0 THEN Root ELSE Component1(out[i - 1], comps[i])
    IN  out[Len(comps)]

-----------------------------------------------------------------------------
(* resolve                                                                 *)

\* A leading "./" is dropped.
Stripped(t) == IF Len(t.comps) >= 2 /\ t.comps[1] = Dot THEN Tail(t.comps) ELSE t.comps

\* The working directory, a slash if it does not end in one, and the input.
Joined(dir, comps) == [abs |-> TRUE, comps |-> dir.names \o comps]

\* Mutant: no room is kept for the NUL.
JoinFits_NoNul(dir, comps) ==
    LET jlen == PathLen(dir) + (IF dir.slash THEN 0 ELSE 1)
    IN  /\ PathLen(dir) <= PathMax - 2
        /\ jlen + TextLen([abs |-> FALSE, comps |-> comps]) <= PathMax

JoinFits(dir, comps) ==
    LET jlen == PathLen(dir) + (IF dir.slash THEN 0 ELSE 1)
    IN  /\ PathLen(dir) <= PathMax - 2
        /\ jlen + TextLen([abs |-> FALSE, comps |-> comps]) < PathMax

\* dir is what getcwd returned.
Resolve(t, dir) ==
    IF t.abs THEN Normalize(t.comps)
    ELSE IF JoinFits(dir, Stripped(t)) THEN Normalize(Joined(dir, Stripped(t)).comps)
    ELSE NoPath

\* getcwd fails: every relative path becomes the root.
ResolveNoCwd(t) == IF t.abs THEN Normalize(t.comps) ELSE Root

-----------------------------------------------------------------------------
(* The commands                                                            *)

\* cd, or any command that takes a path (rm, mkdir, cat, run, source...):
\* only cd changes the directory, and only if the kernel accepts the path.
\* A path that is too long is not sent.
Command(t) ==
    \E r \in {Resolve(t, cwd), ResolveNoCwd(t)} :
        IF r = NoPath
        THEN UNCHANGED pathVars
        ELSE /\ sent' = "absolute"
             /\ cwd' \in {cwd, r}

\* > file and < file: the text is handed to open as it is.
Redirect(t) ==
    /\ sent' = IF t.abs THEN "absolute" ELSE "relative"
    /\ UNCHANGED cwd

PathNext == \E t \in Inputs : Command(t) \/ Redirect(t)

PathSpec == PathInit /\ [][PathNext]_pathVars

-----------------------------------------------------------------------------
(* Properties                                                              *)

\* The type of both variables; the directory fits the buffer of getcwd.
PathTypeOK ==
    /\ cwd \in Path \ {NoPath} /\ PathLen(cwd) < PathMax
    /\ sent \in {"none", "absolute", "relative"}

\* How many more names than ".." there are among the first i components.
Surplus(comps, i) == Cardinality({ k \in 1 .. i : comps[k] \in Names })
                     - Cardinality({ k \in 1 .. i : comps[k] = Parent })

\* What a row of components means without a buffer: a name stays unless
\* somewhere after it there are more ".." than names.
Survivors(comps) ==
    { i \in DOMAIN comps : /\ comps[i] \in Names
                           /\ \A j \in i .. Len(comps) : Surplus(comps, i) <= Surplus(comps, j) }

Means(names, comps) ==
    LET kept == Survivors(comps)
    IN  /\ Len(names) = Cardinality(kept)
        /\ \A i \in kept : names[Cardinality({ k \in kept : k <= i })] = comps[i]

EndsInParent(comps) ==
    \E i \in DOMAIN comps : /\ comps[i] = Parent
                            /\ \A k \in i + 1 .. Len(comps) : comps[k] \in {Empty, Dot}

\* The components the result for t has to mean.
Full(t) == IF t.abs THEN t.comps ELSE cwd.names \o t.comps

\* From every directory that can be reached, a path that resolves resolves
\* to its meaning: each ".." removes exactly the name before it, whatever
\* mixture of doubled slashes, "." and earlier ".." precedes it, and the
\* slash that ".." leaves behind does not get into a later name.  It ends in
\* a slash exactly at the root and right after a "..".
ResolvesToMeaning ==
    \A t \in Inputs :
        LET r == Resolve(t, cwd)
        IN  r # NoPath =>
               /\ Means(r.names, Full(t))
               /\ r.slash <=> r.names = <<>> \/ EndsInParent(Full(t))

\* "Path too long" is reported exactly when the directory, a slash and the
\* input (without a leading "./") do not fit the buffer with its NUL, and an
\* absolute path never is: the two overflow checks in normalize cannot fire
\* for what the command line can hold.  The result always fits.
TooLongOnlyWhenJoinedIs ==
    \A t \in Inputs :
        LET r == Resolve(t, cwd)
            full == (IF cwd.slash THEN 0 ELSE 1) + PathLen(cwd)
                       + TextLen([abs |-> FALSE, comps |-> Stripped(t)])
        IN  /\ (r = NoPath) <=> ~t.abs /\ full >= PathMax
            /\ PathLen(r) < PathMax

\* path.rs: "OnyxKernel's VFS requires all paths passed to open, stat,
\* unlink, mkdir, rename, etc. to be absolute"; the shell "resolves them
\* against the current working directory before calling syscalls".
KernelPathsAbsolute == sent # "relative"
=============================================================================
