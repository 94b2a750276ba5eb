------------------------------ MODULE DirScan ------------------------------
(***************************************************************************)
(* Reading directories: ls (commands/nav.rs), the expansion of patterns    *)
(* into arguments (eval.rs, features/service/glob.rs), and the scan Tab    *)
(* makes.  All of them loop over readdir, whose position the kernel keeps  *)
(* per directory from one call, and one command, to the next: there is no  *)
(* call that rewinds it.                                                   *)
(*                                                                         *)
(* The kernel is outside the repository.  readdir takes an absolute path,  *)
(* returns the entry at the position and moves on, returns 0 behind the    *)
(* last entry and begins again, and fails on what is no directory.         *)
(* Nothing creates or removes an entry here, names are shorter than the    *)
(* 63 bytes they are cut to, and . and .. do not occur (see PathResolve).  *)
(***************************************************************************)
EXTENDS Naturals, Sequences, SequencesExt

CONSTANTS
    Trees,      \* each: directory (sequence of names) -> its entries in order
    Lines,      \* lines the user enters, as sequences of tokens
    Matches,    \* pattern -> the names it matches (see GlobMatch)
    Options,    \* names that begin with -
    Empty,      \* the name behind a trailing slash
    None,       \* no directory
    ScanMax,    \* readdir calls of scan_dir_entries (64)
    MaxTokens,  \* capacity of G_TOKEN_OFFSETS (16)
    MaxArgs     \* capacity of G_ARGS (32)

\* A token: whether it begins with a slash, the names up to its last slash,
\* and what follows.
Token(abs, dir, last) == [abs |-> abs, dir |-> dir, last |-> last]

\* A wildcard may stand in any name of the token.
IsPattern(t) == (ToSet(t.dir) \cup {t.last}) \cap DOMAIN Matches # {}

\* Only the last name is matched; one without a wildcard matches itself.
MatchedBy(pattern) == IF pattern \in DOMAIN Matches THEN Matches[pattern] ELSE {pattern}

ASSUME LimitsAssumption == {ScanMax, MaxTokens, MaxArgs} \subseteq Nat \ {0}
ASSUME TreesAssumption ==
    \A t \in Trees :
        /\ <<>> \in DOMAIN t /\ None \notin DOMAIN t
        /\ \A d \in DOMAIN t :
              /\ t[d] \in Seq(ToSet(t[d]))
              /\ d # <<>> => Front(d) \in DOMAIN t /\ Last(d) \in ToSet(t[Front(d)])
ASSUME LinesAssumption == \A l \in Lines : l \in Seq(ToSet(l))

VARIABLES
    tree,       \* the directories and their entries
    pos,        \* kernel: directory -> entries that readdir has returned
    cwd,        \* kernel: the working directory
    pc,         \* "prompt", "ls", "glob", "tab", "expand", "dispatch"
    line,       \* tokens of the line that are not yet expanded
    entered,    \* ghost: the line as entered
    args,       \* G_ARGS[..n_args]
    target,     \* the directory being scanned, or None
    got         \* the names readdir has returned to this command

kernelVars == <<tree, pos, cwd>>
vars == <<tree, pos, cwd, pc, line, entered, args, target, got>>

Init ==
    /\ tree \in Trees
    /\ pos = [d \in DOMAIN tree |-> 0]
    /\ cwd = <<>>
    /\ pc = "prompt"
    /\ line = <<>> /\ entered = <<>> /\ args = <<>>
    /\ target = None /\ got = <<>>

Prompt ==
    /\ pc' = "prompt"
    /\ line' = <<>> /\ entered' = <<>> /\ args' = <<>>
    /\ target' = None /\ got' = <<>>

-----------------------------------------------------------------------------
(* Scanning                                                                *)

\* The directory handed to readdir is not resolved: without a slash it is
\* the root, and what does not begin with one is no absolute path.
ScanTarget(t) ==
    IF t.dir = <<>> THEN <<>>
    ELSE IF t.abs /\ t.dir \in DOMAIN tree THEN t.dir ELSE None

StartScan(at, dir) ==
    /\ pc' = at
    /\ target' = dir
    /\ got' = <<>>

Left(d) == Len(tree[d]) - pos[d]

\* One more entry; ls has no limit.
Readdir ==
    /\ pc \in {"ls", "glob", "tab"}
    /\ target # None /\ Left(target) > 0
    /\ pc = "ls" \/ Len(got) < ScanMax
    /\ got' = Append(got, tree[target][pos[target] + 1])
    /\ pos' = [pos EXCEPT ![target] = @ + 1]
    /\ UNCHANGED <<tree, cwd, pc, line, entered, args, target>>

\* Mutant: a scan that has as many entries as it can take stops a call later.
ScanEnds_OneMore ==
    \/ target = None /\ UNCHANGED pos
    \/ /\ pc # "ls" /\ Len(got) >= ScanMax
       /\ pos' = [pos EXCEPT ![target] = IF Left(target) > 0 THEN @ + 1 ELSE 0]
    \/ /\ target # None /\ (pc = "ls" \/ Len(got) < ScanMax) /\ Left(target) = 0
       /\ pos' = [pos EXCEPT ![target] = 0]

\* Mutant: ls shares the limit of scan_dir_entries.
ScanEnds_LsLimited ==
    \/ target = None /\ UNCHANGED pos
    \/ Len(got) >= ScanMax /\ UNCHANGED pos
    \/ /\ target # None /\ Len(got) < ScanMax /\ Left(target) = 0
       /\ pos' = [pos EXCEPT ![target] = 0]

\* readdir fails, or returns 0 and is back at the first entry, or is not
\* called any more, which leaves the position where it is.
ScanEnds ==
    \/ target = None /\ UNCHANGED pos
    \/ pc # "ls" /\ Len(got) >= ScanMax /\ UNCHANGED pos
    \/ /\ target # None /\ (pc = "ls" \/ Len(got) < ScanMax) /\ Left(target) = 0
       /\ pos' = [pos EXCEPT ![target] = 0]

-----------------------------------------------------------------------------
(* A line: eval_line, after history and variables                          *)

Enter(tokens) ==
    /\ pc = "prompt"
    /\ entered' = SubSeq(tokens, 1, IF Len(tokens) < MaxTokens THEN Len(tokens) ELSE MaxTokens)
    /\ line' = entered'
    /\ args' = <<>>
    /\ pc' = "expand"
    /\ UNCHANGED <<kernelVars, target, got>>

TabKey(t) ==
    /\ pc = "prompt"
    /\ StartScan("tab", ScanTarget(t))
    /\ UNCHANGED <<kernelVars, line, entered, args>>

\* Mutant: the last slot of G_ARGS may be written twice.
WithArgs_Overwrites(expansions) ==
    LET all == args \o expansions
    IN  IF Len(all) <= MaxArgs THEN all ELSE SubSeq(all, 1, MaxArgs - 1) \o <<Last(all)>>

\* What finds no room in G_ARGS is dropped.
WithArgs(expansions) ==
    SubSeq(args \o expansions, 1,
           IF Len(args) + Len(expansions) < MaxArgs THEN Len(args) + Len(expansions) ELSE MaxArgs)

\* The next token: a word stands for itself, a pattern needs a scan.
NextToken ==
    /\ pc = "expand" /\ line # <<>> /\ Len(args) < MaxArgs
    /\ IF IsPattern(Head(line))
       THEN StartScan("glob", ScanTarget(Head(line))) /\ UNCHANGED <<line, args>>
       ELSE /\ args' = WithArgs(<<Head(line)>>)
            /\ line' = Tail(line)
            /\ UNCHANGED <<pc, target, got>>
    /\ UNCHANGED <<kernelVars, entered>>

\* The names that match, each behind the directory as it was typed.
Expansions(t, names) ==
    LET found == FlattenSeq([i \in DOMAIN names |->
                     IF names[i] \in MatchedBy(t.last) THEN <<[t EXCEPT !.last = names[i]]>> ELSE <<>>])
    IN  IF found = <<>> THEN <<t>> ELSE found

\* Mutant: a pattern that matches nothing is tried again.
EndGlob_Retries ==
    /\ pc = "glob" /\ ScanEnds
    /\ IF Expansions(Head(line), got) = <<Head(line)>> THEN UNCHANGED <<line, args>>
       ELSE /\ args' = WithArgs(Expansions(Head(line), got))
            /\ line' = Tail(line)
    /\ pc' = "expand"
    /\ target' = None /\ got' = <<>>
    /\ UNCHANGED <<tree, cwd, entered>>

EndGlob ==
    /\ pc = "glob" /\ ScanEnds
    /\ args' = WithArgs(Expansions(Head(line), got))
    /\ line' = Tail(line)
    /\ pc' = "expand"
    /\ target' = None /\ got' = <<>>
    /\ UNCHANGED <<tree, cwd, entered>>

EndTab == pc = "tab" /\ ScanEnds /\ Prompt /\ UNCHANGED <<tree, cwd>>

AllExpanded ==
    /\ pc = "expand" /\ (line = <<>> \/ Len(args) = MaxArgs)
    /\ pc' = "dispatch"
    /\ UNCHANGED <<kernelVars, line, entered, args, target, got>>

-----------------------------------------------------------------------------
(* dispatch, as far as directories are concerned                           *)

Named(t) == t.dir \o IF t.last = Empty THEN <<>> ELSE <<t.last>>

\* path::resolve
Resolve(t) == IF t.abs THEN Named(t) ELSE cwd \o Named(t)

Directory(d) == IF d \in DOMAIN tree THEN d ELSE None

Is(command) == args # <<>> /\ args[1] = Token(FALSE, <<>>, command)

\* The first argument that is no option; further ones are not looked at.
Operands == SelectSeq(Tail(args), LAMBDA t : t.abs \/ t.dir # <<>> \/ t.last \notin Options)

Ls ==
    /\ pc = "dispatch" /\ Is("ls")
    /\ StartScan("ls", Directory(IF Operands = <<>> THEN cwd ELSE Resolve(Operands[1])))
    /\ UNCHANGED <<kernelVars, line, entered, args>>

\* The whole listing has been printed.
EndLs == pc = "ls" /\ ScanEnds /\ Prompt /\ UNCHANGED <<tree, cwd>>

\* chdir fails on what is no directory.
Cd ==
    /\ pc = "dispatch" /\ Is("cd")
    /\ LET to == IF Len(args) = 1 THEN <<>> ELSE Resolve(args[2])
       IN  cwd' = IF to \in DOMAIN tree THEN to ELSE cwd
    /\ Prompt
    /\ UNCHANGED <<tree, pos>>

Other == pc = "dispatch" /\ ~Is("ls") /\ ~Is("cd") /\ Prompt /\ UNCHANGED kernelVars

Shell == Readdir \/ NextToken \/ EndGlob \/ EndTab \/ AllExpanded \/ Ls \/ EndLs \/ Cd \/ Other

User == \E l \in Lines : Enter(l) \/ \E i \in DOMAIN l : TabKey(l[i])

Next == User \/ Shell

Spec == Init /\ [][Next]_vars /\ WF_vars(Shell)

-----------------------------------------------------------------------------
(* Properties                                                              *)

\* Between commands, the position of every directory is at its beginning,
\* or a whole number of full scans into it: a pattern or Tab leaves the
\* kernel inside a directory only if it has ScanMax entries or more.
PositionsBetweenCommands ==
    pc = "prompt" => \A d \in DOMAIN tree :
        pos[d] % ScanMax = 0 /\ pos[d] <= Len(tree[d])

\* ls prints everything behind the position it found, in order: the whole
\* directory, if that is smaller than a scan.  What patterns, Tab and
\* earlier listings read before it, of this directory and of others, takes
\* nothing from it.
ListsWhole ==
    [][EndLs /\ target # None =>
          /\ \E k \in 0 .. Len(tree[target]) :
                got = SubSeq(tree[target], k * ScanMax + 1, Len(tree[target]))
          /\ Len(tree[target]) < ScanMax => got = tree[target]]_vars

\* What a pattern stands for: the names that match in the directory it
\* names, in the order of the directory.
MeaningOf(t) ==
    IF ~IsPattern(t) \/ ScanTarget(t) = None THEN <<t>>
    ELSE Expansions(t, tree[ScanTarget(t)])

\* A command is dispatched with what its tokens stand for, one after the
\* other, up to the last that has room, whatever was scanned before; when
\* every directory is smaller than a scan.
ArgsAreExpansions ==
    (pc = "dispatch" /\ \A d \in DOMAIN tree : Len(tree[d]) < ScanMax) =>
        LET all == FlattenSeq([i \in DOMAIN entered |-> MeaningOf(entered[i])])
        IN  args = SubSeq(all, 1, IF Len(all) < MaxArgs THEN Len(all) ELSE MaxArgs)

\* Every line and every Tab comes back to the prompt: the loops over
\* readdir end, though a long directory leaves them in the middle.
CommandsReturn == []<>(pc = "prompt")
=============================================================================
