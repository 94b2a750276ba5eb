# A TLA+ model of OnyxShell

OnyxShell (`src/`) is a single-threaded RISC-V shell for OnyxKernel. It talks to
the world only through system calls; the kernel, and the programs the shell
starts, are outside the repository and are modelled from how the shell uses
them. All paths below are relative to `src/src/`.

1. [The system](#1-the-system) — inventory of the code
2. [The modules](#2-the-modules) — what models what
3. [The runs](#3-the-runs) — what TLC checks, with which bounds
4. [The proofs](#4-the-proofs) — what TLAPS proves and how
5. [What the models show about the code](#5-what-the-models-show-about-the-code)
6. [What is not modelled](#6-what-is-not-modelled)
7. [Plan](#7-plan)

## 1. The system

A line goes through: a **REPL** (`repl/raw.rs` or `repl/cooked.rs`) reads it →
**eval** (`eval.rs`) expands history references, pushes the line, and sends lines
with `|`, `>` or `<` to the **pipeline** (`pipeline/`) and others, tokenised and
glob-expanded, to **dispatch** (`commands/mod.rs`), which runs a command in the
shell's own process. `execute` and `dispatch` begin with `job_reap`. A **script**
(`commands/exec/script.rs`) takes the place of the REPL and has its own copy of
eval without the history.

| component | state | operations | what makes it correct |
|---|---|---|---|
| job table `features/service/jobs.rs` | three parallel arrays of 16, count, next id | `job_add`, `job_remove_by_id`, `job_find_by_id`, `job_set_running`, `job_reap` | ids ascend and are never reused; an entry is a child not yet collected; an entry goes only with its process |
| process control `pipeline/exec.rs`, `commands/exec/run.rs`, `script.rs` | the kernel's children, `spawned_pids` | fork, waitpid, `wait`; `fg`, `bg`, `run` | a wait waits for a child of this line that can end; nothing is collected behind its owner's back |
| pipeline parser `pipeline/parse.rs` | the segments found so far | `parse` | no word is lost or moved; the last redirection counts; `&` is the last word |
| pipeline descriptors `pipeline/exec.rs` | the shell's descriptor table, `parent_close`, children's tables, pipes | open, pipe, dup, close on every path | the terminal stays on 0–2; stages are wired as the line says; only own pipe ends are closed; the prompt comes back |
| history `features/history.rs` | ring of 16 cut lines, count, arrow cursor | push, get, nav up/down, `!!` `!-n` `!n` | is the list of the last 16 lines |
| loops `repl/`, `eval.rs` | the line read | Enter, evaluation | what runs is what the history shows |
| line editor `repl/raw.rs` | line buffer of 256, length, cursor, bytes of a read of 16; the row on the terminal | keys, arrows, Tab, `^C`, `^D` | is a text with a cursor; the row shows it; no byte of an arrow gets into it |
| tab completion `features/service/mod.rs` | — | `tab_complete` | the word becomes a name that begins with it; the rest of the line stays |
| directory scans `features/service/glob.rs`, `commands/nav.rs` | the kernel's position in each directory | `ls`, patterns, Tab, `cd` | a command sees the directory from its beginning; arguments are the names that match, in order |
| glob `features/service/glob.rs` | local to one match | `glob_match` | the result is the meaning of the pattern |
| environment `features/env.rs`, `commands/sys.rs` | four parallel arrays of 32 | `env_init`, `env_set`, `env_get`, `env_unset`, `build_envp` | a bounded map |
| scripts `commands/exec/script.rs`, `main.rs` | depth, one descriptor and position per script | `source`, `exec` of a script, the shell's argument | a script runs its lines once, in order, and ends; depth and descriptors are those of the scripts being read |
| program start `commands/exec/mod.rs`, `run.rs` | argument and environment arrays of fixed size | PATH search, shebang, `exec`, `run` | the program meant starts, with its arguments and the current environment |
| paths `path.rs` | the kernel's cwd | `resolve`, `normalize` | absolute, lexically canonical, fits its buffer |
| file commands `commands/file/` | files, up to two descriptors, a 512-byte buffer | `cp`, `mv`, `cat`, `rm`, `mkdir`, `touch` | no file is lost, no descriptor is left open |

Components share state only through the kernel (children, descriptors, files,
cwd, directory positions) and the static tables. There is one thread; concurrency
comes from the children, which run between any two system calls of the shell, and
from the user, whose keys arrive cut into reads. Hard parts: which child a wait
returns, reuse of pids and descriptor numbers, error paths in the middle of a
pipeline, ring and shift arithmetic, state the kernel keeps from one command to
the next, buffer limits. `PROJECT.json` lists the hazards one by one, each at its
line with the properties that cover it.

## 2. The modules

| module | models | uses |
|---|---|---|
| `JobTable`, `JobControl` | the job table; processes, `fg`, `bg`, `run` | |
| `BackgroundJobs` | what the job table promises | implemented by `JobControl` |
| `PipelineParse` | `parse`, as a function of tokens | |
| `PipelineExec` | `execute` at the level of descriptors | `PipelineParse` |
| `History` / `RecentLines` | the history behind both loops / the list of recent lines | implements it |
| `TabComplete` | `tab_complete`, as a function | |
| `LineEditor` / `TextBuffer` | the raw-mode editor / a text with a cursor | `TabComplete`; implements it |
| `GlobMatch` | `glob_match` | |
| `DirScan` | everything that loops over `readdir` | |
| `PathResolve` | `resolve`, `normalize`, `cd` | |
| `FileCommands` | `cp`, `mv`, `cat`, `rm`, `mkdir`, `touch` | |
| `Environment` / `VariableMap` | the variable table / a bounded map | implements it |
| `Programs` | scripts, program start, the start of the shell | `Environment` |
| `ScriptMeaning` | what scripts mean | `Programs` |
| `MC*` | finite sets for the runs | |
| `JobControlProofs`, `PipelineExecProofs`, `HistoryProofs`, `LineEditorProofs`, `DirScanProofs`, `FileCommandsProofs`, `ProgramsProofs` | proofs about the module of the same name; `ProgramsProofs` also about `Environment`, `PipelineExecProofs` about `PipelineParse`, `DirScanProofs` about `GlobMatch`, `FileCommandsProofs` about `PathResolve` | `SequenceLemmas` |
| `SequenceLemmas` | facts about sequences and numbers the proofs share | |

Definitions named `<Name>_<Bug>` and commented "Mutant" are plausible mistakes in
the code that a property must catch; nothing else uses them.

### JobTable, JobControl, BackgroundJobs

`JobTable` is the table of `jobs.rs` as one sequence of records; its scans stop
at the first match (`FirstWithId`, `FirstWithPid`) and its shift loops are
`JobRemove`. `JobControl` adds the processes. Variables: `jobs`, `nextId`
(`G_JOB_NEXT_ID`), `proc` (what the kernel knows of each pid), `pc` (the system
call the shell is at), `cmd` (the line), `spawned` (`spawned_pids`, or the pid of
`run`), `target` (what `cmd_fg` looked up). One action is one system call and the
code up to the next one:

| actions | code |
|---|---|
| `EnterCommand` | a line is read |
| `ReapOne`, `ReapNone` | the loop of `job_reap`, at the head of `execute` and `dispatch` |
| `Fork`, `ForkFail`, `AddJob`, `WaitForeground` | the segment loop of `execute`, its error returns, `job_add` of the last pid, the waitpid loop |
| `FgFind`, `FgWait` | `cmd_fg` before and after its waitpid |
| `Bg` | `cmd_bg` |
| `RunSpawn`, `RunFail`, `RunWait` | `cmd_run` |
| `Exit`, `Stop` | a child ends or is stopped (external) |

`BackgroundJobs` is what the table promises: ids are issued once and in order,
each goes active → ended → gone. `JobControl` implements it under the refinement
mapping `Life`.

### PipelineParse, PipelineExec

`Parse` folds `ParseToken` over the tokens of a line: a word, a bar, an operator,
the name an operator waits for, or a token for which no segment is left.
`MeaningOf` says independently, from the positions of the tokens, what a line means:
which tokens are operators (every second one of a row of them), which are words, the
how-manieth a word is (`Nth`) and of which stage (`Stage`: the bars before it, and
how often the words since the last bar have filled a segment). `PipelineExec` enters sessions of such lines, parses them and executes
the result.

`execute` is modelled at the level of descriptors: the shell's table `fds`, the
children with tables of their own, the pipes with their fill, the locals
`stdout_fd`, `stdin_fd`, `prev_read_fd`, `cur_read_fd`, `cur_write_fd` and
`parent_close` (`toClose`). Every open, pipe and fork may fail. Children are
builtins (write some units, exit), filters (external programs that copy input to
output until end of file) and in-process builtins. `PipelineExec` and
`JobControl` look at the same function from two sides; which processes become
jobs is only in `JobControl`.

### History, RecentLines

The ring, the arrow cursor, the editor's line and what ran last. `raw`, chosen in
`Init` as `_start` chooses it from `enable_raw_mode`, says which loop reads lines:
`raw_mode_repl` pushes the line and then evaluates it, `cooked_mode_repl` only
evaluates. Lines are sequences of atoms (word, operator,
reference), each of length one, so byte limits become limits on atoms.
`RecentLines` is the abstract list of the last `Size` lines; one command pushes one
line, or two if evaluating it may turn it into another.

### LineEditor, TabComplete, TextBuffer

One action per key: `Up`, `Down`, `Left`, `Right`, `SkipEscape`, `Backspace`,
`Complete` (Tab), `Enter`, `Interrupt` (`^C`), `Exit` (`^D`), `Type`. `Read` fills the
read buffer `rx` and may cut an arrow key in two; the rest of the key arrives with
the next read. `line`, `lineLen` and `cursor` are the locals of `raw_mode_repl`.
One buffer serves all lines and is never cleared: a recall or a completion writes
only the cells of its text (`Overwritten`), arrow down past the newest line only sets
the length, and the end of a line writes one 0 (`HandOver`), so bytes of older
lines stay behind `lineLen` and the properties say that none of them returns.
`term` is the row of the terminal with its column, to which every action writes
what the code writes. `Completed` in `TabComplete` is `tab_complete` for given
directory entries. What an arrow recalls and what a scan finds are constants here;
`History` and `DirScan` model them. `TextBuffer` is the abstract editor, the
characters before and after the cursor.

### DirScan

The kernel's `pos` per directory survives commands; `Readdir` moves it and
`ScanEnds` says how a scan leaves it: back at the beginning, or in the middle if
the loop stopped after `ScanMax` calls. `Enter`, `NextToken`, `EndGlob` and
`AllExpanded` are the expansion of a line into `args` (`eval_line` and
`glob_expand`), `Ls`, `EndLs`, `Cd` and `Other` are dispatch, `TabKey` and `EndTab` the
scan of a completion. Which names a pattern matches is a constant, `Matches`
(see `GlobMatch`). A wildcard in any name of a token makes it a pattern, but only
its last name is matched (`IsPattern`, `MatchedBy`).

### GlobMatch

One action per branch of the loop of `glob_match`: `Consume`, `MeetStar`,
`Backtrack`, `Fail`, and `Finish` for the code after the loop. `Meaning` is the
meaning of a pattern by recursion over its positions: from which positions of the
name on the name matches the pattern from here on. It has no loop and no remembered
star, and is compared with the result for every name, also one that contains `*`.

### PathResolve

`resolve` and `normalize` component by component; only the length of a name
matters. The state is the kernel's working directory, which sequences of `cd`
drive to the limits of the buffers, and whether the last path handed to the
kernel was absolute. What a path means (`Means`) is said by counting: a name counts
(`Survivors`) unless somewhere after it there are more `..` than names (`Surplus`). `Redirect` is the path of `>` and `<`, which `execute` does
not resolve.

### FileCommands

One action per system call of `cp`, `mv`, `cat`, `rm`, `mkdir` and `touch`, any of
which may fail; reads and writes may be short. The kernel's `create` refuses a name
that exists (as `touch` relies on with `EEXIST`).

### Environment, VariableMap

The variable table as a sequence of entries; `StoredKey` is the cut of long names
in `env_set`, which all longer names share (`CutName`). `VariableMap` is the bounded
map it implements for names that fit, whatever is done with the others.

### Programs, ScriptMeaning

`Programs` extends `Environment` with the scripts being read (`stack`, one frame
for each `do_script_inner` on the call stack), `SCRIPT_DEPTH`, the descriptors
held, and the program started last. `StartScript`, `StartHome` and `StartPath` are
`_start`; `Enter` is a line at the prompt and `NextLine` a line of the innermost
script, both through `Dispatch`: `Variables`, `DoScript`, `ExecProgram`,
`RunProgram`, `Exit`. `EndOfScript` and `ReadFails` return to the script
outside. `ScriptMeaning` says what a script does to the variables and what it prints,
without a stack, positions or descriptors: by recursion over its lines (`Rest`) and
over how many scripts may still be open (`Scripts`).

## 3. The runs

| run | question | bounds, and why they are enough |
|---|---|---|
| `jobs_no_run` | does the table follow the children, and implement `BackgroundJobs`? | 4 pids (two pipelines of two at once, and reuse), a table of 2 (full, and removal before the last), 3 ids; pids are symmetric |
| `jobs_live` | does every line end and every child get collected, `run` included? | 3 pids, table of 2, 2 ids; no stopped children, no symmetry |
| `jobs_run` | a documented promise that does not hold | 2 pids, one job |
| `pipeline_line` | does the parse mean what was typed; wiring, closes and leftovers, every failure; does a line of builtins return? | every line of 4 tokens, pipelines of up to 3 segments of every kind (first, middle, last) with redirections, two builtin lines in a row, four lines that use up the descriptors; 2 words to a segment and 3 segments, so that both limits are exceeded; 2 pipes of capacity 1, 9 descriptors |
| `history` | is the ring the list of recent lines, and what do references resolve to, behind either loop? | ring of 2 through two wraparounds, slots and lines of 2 atoms, references inside and outside the ring, expansions of up to 4 atoms in a buffer of 3 |
| `line_editor` | is the buffer a text with a cursor, and does the screen show it? | a buffer of 4, so that it fills; a prompt of 2; reads of one or two keys, one of them cut; scans with none, one and several matches; any number of lines, each over what the earlier ones left in the buffer; a slash comes with a recalled line, which is longer than the buffer and cut |
| `dir_scan` | what do `ls`, patterns, Tab and `cd` leave to each other? | scans of 3 entries over directories of 0 to 6, so smaller, equal, larger and twice as large; 3 tokens, 4 arguments, both exceeded; any number of lines |
| `glob_meaning` | does the loop compute the meaning? | every pattern of up to 4 of 9 pieces, names of up to 3 of 4 characters, `*` among them |
| `path_commands` | canonical result and exact limits from every reachable directory | buffer of 16 bytes, names of 1 and 2 bytes, inputs of up to 3 components: inputs that fit exactly and by one too many |
| `path_redirect` | a documented promise that does not hold | buffer of 6 |
| `file_commands` | is a file ever lost, a descriptor left? | 3 files, contents of 0 to 4 units, buffer of 2, up to 2 operands |
| `programs` | do scripts mean their lines, end, leave nothing open; is the right program started; is the table a map? | 4 names for 3 entries, one too long and one equal to its cut; scripts that source themselves, each other and what does not exist, 3 levels; 4 arguments, up to 5 given; any number of commands |

`CHECK_DEADLOCK FALSE` appears where the modelled system may stop: a foreground
child that was stopped or reads from a pipe that never ends blocks the shell
(`jobs_no_run`, `pipeline_line`), a session is over (`pipeline_line`), the matcher ends
(`glob_meaning`), the shell exits or is replaced (`line_editor`, `programs`).

**Bounds in guards.** `MaxIds` stops background lines once so many ids are used;
`Sessions` are finite and `MaxOut` bounds what a builtin writes, `NumFds` a
descriptor table; `MaxCount` stops entering lines in `History`; `MaxOperands` bounds
the operands of a file command; in `LineEditor` a read adds one of `KeyRuns` to
what was left and cuts at most one key of a line (`torn`).

**Fairness.** `FairSpec` of `JobControl` and `PipelineExec`: weak fairness of the
shell (one thread, always runnable between its system calls) and of each child.
That a program ends is an assumption about programs, not about the shell:
`PromptReturns` says that the shell is never the reason a line does not return.
`ZombiesCollected` assumes a user who goes on entering lines, since only a new line
runs `job_reap`. `GlobMatch` assumes that a running loop goes on, `DirScan` that
the shell goes on, `Programs` that it goes on reading a script. `ScriptsEnd`
assumes further that the programs a script waits for return.

**Assumed of the kernel**, which is outside the repository: `readdir` keeps one
position per directory and is back at the beginning after it has returned 0; any
call may fail; lowest-numbered free descriptors are handed out; `create` and
`mkdir` refuse what exists; `rename` replaces; the terminal puts characters at its
column and understands `ESC[C` and `ESC[D`.

## 4. The proofs

All proofs are for every value of the constants, under the `ASSUME`s of the
modules, which TLC evaluates in the runs: sizes are natural numbers, `Ops` is a set
of known commands, an expansion buffer holds a full line (`SizesAssumption` of
`History`), commands and scripts use names and values that occur
(`CommandsAssumption` of `Programs`), a directory that exists is an entry of its parent
(`TreesAssumption` of `DirScan`), lines are finite sequences of tokens
(`LinesAssumption` there), patterns and names of `GlobMatch` are sequences of bytes
(`BytesAssumption`), what is typed as a path fits a line, and a relative path does not
begin with a slash (`InputsAssumption` of `PathResolve`), lines and names consist of printable characters
and keys send what keys send (`LinesAssumption` and `KeysAssumption` of `LineEditor`). Every
safety theorem is proved by an inductive invariant that is stronger than the
property; what is added, and why, is said here.

`JobControlProofs`:

- `TypeCorrect`: `TypeOK` alone is not inductive: `AddJob` takes the last of `spawned`,
  so `TypeInv` adds that a line that got to waiting or adding has forked something.
- `JobIdsAscend`: `IdsAscending`, inductive with the type invariant; removal keeps
  order (`RemoveAscending`, from `RemoveShifts`), `job_add` appends an id that is
  larger than all others.
- `JobsAreChildren`, `ForegroundIsOwned`: `[](TracksChildren /\ FgTargetInTable)` and
  `[]ForegroundOwned`, if `run` is not among the commands. Neither is inductive
  alone. `AddJob` enters a pid that must not be in the table and not be free, which
  is `ForegroundOwned`; `FgWait` collects the pid of the job found earlier and then
  removes the entry with its id, which keeps `TracksChildren` only if that entry is
  still there (`FgTargetInTable`) and is the only one with the id (`IdsAscending`);
  and a collected pid belongs to no other entry (distinct pids in
  `TracksChildren`). `IInv` is the conjunction of all four with the types, and
  `NextTracks` shows it inductive, action by action.
- `JobsLeaveWithTheirProcess`: the action property `JobLeavesWithItsProcess`, from
  the same invariant: `StepKeepsOrCollects` shows for each action that it either
  keeps every pid in the table or removes one entry and collects its process.
- `RunAloneCollectsItsChild`: `RunAloneWaits`, with `run` allowed; a shell in
  `run`'s wait has spawned exactly one process (`RunInv`).
- `ShellImplementsBackgroundJobs`: the refinement, without `run`. From `IInv`, the
  refinement mapping `Life` can be read off the one entry an id has
  (`LifeReadOff`); each action then moves the lives of the ids it touches by a step
  of `BackgroundJobs` and leaves the others alone.

The hypothesis that `run` is not used is needed: with it, `TracksChildren` is
false (`wait` can collect the process of a job whose entry stays).

`ProgramsProofs`, about the variable table: `TypeCorrect` and `NamesAreUnique`
(`KeysUnique`): an append happens only when no entry has the name, or enters the key
that long names are cut to, which the property exempts because it does repeat
(section 5); a removal moves entries without making two of one.
`EnvironmentImplementsMap` is the refinement of
`VariableMap`: with unique keys the first entry a scan meets is the only one
(`LookupsHold`), so that each action changes the value of one name at most, and a
full table holds as many names as the map may.

`ProgramsProofs`, about the whole shell from its start through nested scripts:

- `NestingIsCounted` (`DepthIsNesting`): `Nesting` adds in which places the stack is
  empty or not, without which the return from the outermost script could not be
  told from the others.
- `NamesStayUnique`, `ShellImplementsMap`: every step of `ProgSpec` is a step of
  `Environment` or leaves the table alone (`ProgramsUseEnvironment`), so the two
  theorems about the table carry over.
- `ProgramsStartAsAsked` (`StartedAsAsked`): `StartedInv` adds that something is
  started only while the shell waits or once it is replaced; the argument arrays
  with their limits are computed for every number of arguments.
- `ScriptsDoWhatTheyMean` (`ScriptsMeanTheirLines`): the table and the search of the
  code are those of the meaning (`TableIs`, `PlaceIs`), and each command does what it
  means or begins a script that does (`DispatchMeans`). `MeaningInv` says of the open
  scripts that the present state, taken through what is left of each, innermost
  first (`Unwinds`), becomes what the command that began them means, as long as no
  read has failed. A line, a script begun, one ended and an exit each keep this.
- `ReadingIsBounded`, the part of `ScriptsEnd` that is a safety property: each line, end
  or failed read leaves less to do at one level of nesting and as much as before at
  the levels outside (`LessLeft`). There are `ScriptDepthMax` levels and each is a
  number, so only so many such steps are possible.

`FileCommandsProofs`: `TypeCorrect`, `CopiesInOrder`, `DescriptorsClosed` and the action
property `FilesAreKept`, all from `IInv`, which says besides them what holds at each
system call (`AtEachCall`): a copy begins with an empty buffer at position 0, its two
files differ, and at the last `close` before `unlink` the destination holds the
source. Without it neither `CopyInOrder` nor `NothingLost` is inductive.

About `PathResolve`, for every buffer size, every set of names and every path that can
be typed:

- `PathTypeCorrect`, `OnlyJoinedIsTooLong` (`TooLongOnlyWhenJoinedIs`): `FitsIn` relates
  what `normalize` has written to the bytes of the input it has passed: what is
  written, with the slash the next name needs, is never longer (`StepFits`). So once the
  joined text fits, no check inside `normalize` can fail. `PathInv` adds that the
  working directory fits the buffer of `getcwd`.
- `PathsResolveToMeaning` (`ResolvesToMeaning`): after each component, what is written
  are the names that survive so far (`MeansSoFar`). A name is a new survivor with the
  number of survivors as its rank; a `..` takes the last one, because the surplus of
  names over `..` after a survivor is the number of survivors behind it
  (`ParentMeans`).

`PipelineExecProofs`, for every session, descriptor table and number of stages:

- `TypeCorrect`. The fold of the parser over a line is shown to be the result of one
  token after the other (`ParsedByToken`), by induction in the form that the
  installed provers can do: the least position at which the claim fails
  (`Least`) does not exist. From it, no segment exceeds its limits. `InLoop` adds
  which locals are in use at which system call.
- `LinesMeanWhatTheySay` (`ParsedAsTyped`), for lines of any length: `ReadSoFar` says of
  the first m tokens that the segments hold their words, the Nth as the Nth
  (`Placed`), those of one stage together and those of different stages apart, that
  the last segment is the current stage if it may take more (`Current`), which name each
  operator has (`NameIs`), and when a final `&` is one (`Ended`). `ReadToken` has one
  step for each branch of `ParseToken`; what a token adds to the counts of words and
  bars are lemmas of their own (`NthStep`, `BarsStep`, `SinceBarStep`).
- `KeepsTerminal`, `ClosesOwnEnds`: `DescriptorInv` is the two with `FilesOpen` and
  `EndsInHand`, what the locals `prev_read_fd`, `cur_read_fd` and `cur_write_fd` hold.
  A close keeps the terminal because what it closes is a pipe end, and a pipe end in
  hand is not yet in `parent_close`.
- `StagesKeepBothEnds`: `KidTables` says it also of children that have their dups
  still to do, since the property is about what these leave.
- `StagesAreWired`: `Wiring` adds to `Wired` the chain that is being built: the end in
  hand belongs to the pipe that the last stage so far writes (`NextReads`), where
  `Spawned` keeps stages that run nothing out.
- `FirstLineLeaves` (`LeftOpenByFirstLine`): the property counts descriptors once every
  entry of `parent_close` is closed; `LeftInv` counts them at every system call before.
  In the loop over the segments there are as many ends of each kind as segments
  passed that run something (`LoopEnds`), and only the first entry of `parent_close`
  is a write end (`EntryIs`); in the loop of closes each step takes one end of the
  kind of its entry (`CloseLeft`). The redirections are two different descriptors that
  stay (`FilesAre`).

`LineEditorProofs`, for every buffer size, prompt, set of lines, names and reads:

- `TypeCorrect` and `ScreenIsLine`: inductive together (`LineInv`), with the bytes still
  to be handled (`KeysInv`: a cut key has a rest only if `torn`). `LineOK` asks
  for printable characters below `lineLen` and nothing of the cells behind it. That the screen
  follows the shifts of Backspace and of an insertion is one lemma for each way
  in which the code writes to the terminal.
- `ArrowsTypeNothing`: `NoOtherBracket /\ Spec => []ArrowsDoNotType`.
  `NoOtherBracket` says that no bracket is typed as a key of its own or comes from
  the history or a directory, which the property could not tell from one of an
  arrow; the sets of the run are of that kind. `ArrowsInv` says of the bytes still to
  be handled that each escape begins a whole arrow and each bracket is in one.
- `EditorImplementsTextBuffer`: each action is a step of `TextBuffer` on
  the characters before and after the cursor, or leaves them alone; the lemmas are
  about the array with its two shift loops, and about what `tab_complete` puts in.

`HistoryProofs`, for a ring of any size and either loop:

- `TypeCorrect`, `OnlyCutLinesRepeat` (`RepeatsOnlyWhenCut`), `NewestRan`
  (`NewestIsWhatRan`): from `Inv`, in which `NoRepeats` is the second as a
  condition on slots. All rest on `PushStores`, what one push does to the
  lines counted from the newest, and that on `ModDiffers`: fewer than `Size` numbers in
  a row have different slots.
- `HistoryImplementsRecentLines`: a push that stores something is `Pushed` of the
  abstract list (`PushAppends`), full or not; a line that both `raw_mode_repl` and
  `eval_line` store has a reference or was cut (`TwicePushed`), which is
  when `RecentLines` allows two.

`DirScanProofs`, for every size of a scan and every set of directories and lines:

- `ScansLeavePositions` (`PositionsBetweenCommands`) and `ListingsAreWhole` (the action
  property `ListsWhole`): both speak of the end of a scan, `ScanInv` of its course.
  What a scan has returned lies between where it began, which is a whole number of
  scans, and the position; all other directories stand at such a number. That a full
  scan ends at the next one is `RemainderRepeats`.
- `CommandsGetExpansions` (`ArgsAreExpansions`): `ExpandInv` says of the loop of
  `eval_line` that for some i the first i tokens are expanded, the line is the rest,
  and the arguments are what fits of what those i tokens stand for. That cutting to
  `MaxArgs` after each token is the same as cutting once at the end is
  `FittedTwice`; that it does no harm to stop when the array is full, `FittedLong`.
- `CommandsGetCloser`, the part of `CommandsReturn` that is a safety property: each step
  of a command is nearer to the prompt (`Closer`), in the order phase of the command,
  tokens left, scan begun, entries left. That a scan has a token to expand is
  `ExpandInv`.

About `GlobMatch`, for every pattern and every name:

- `GlobIndicesInBounds`: the indices stay in the pattern and the name, one past the end
  at most, and the remembered star is a star before the current position.
- `GlobMeansWhatItSays` (`ResultIsMeaning`): `NothingInvented` says that if the rest of the
  name matches the rest of the pattern the whole matches, which gives the half about
  "match". `NothingLost` is the other half, for names without `*`: if the whole
  matches, then also the rest of the pattern from the remembered star on, from where
  that star was met or what it has taken since; and whatever the star takes further,
  the characters consumed after it are forced. That earlier stars need not be
  remembered is in the step of `MeetStar`: what an earlier star could leave to the
  pattern from here on, the new star can leave too. With a `*` in the name the step
  of `Consume` fails, as it does in the code.
- `TurnsAreBounded`, the part of `Terminates` that is a safety property: `TurnsLeft` is a
  number that each turn makes smaller, although the loop moves backwards. Between two
  turns that move the star every turn consumes a character, and the star moves
  forwards in the pattern and in the name only.

`SequenceLemmas` holds the facts that several of the modules need: minima and maxima,
remainders and quotients, counting positions up to a number, `RemoveAt`, cutting a
sequence in two, and `FlattenSeq` one sequence at a time. `RecursionExists` is what
every proof about a recursive function begins with: TLA+ defines such a function by
`CHOOSE`, so that it has its equation only once some function is shown to have it.

**Only model-checked.** Liveness (`PromptReturns`, `ZombiesCollected`,
`BuiltinsReturn`, `Terminates`, `CommandsReturn`, `ScriptsEnd`), which is outside the
reach of the prover: it needs fairness and `ENABLED`. For the last three the proofs
say that the steps of the loops are bounded; that the loops take them is left to TLC.

## 5. What the models show about the code

Checked as violations of what the repository says (`findings` in `PROJECT.json`):

- `run` waits for whichever child ends first (`commands/exec/run.rs:150`, `:121`).
- Redirection targets are not resolved (`pipeline/exec.rs:43`).

Seen while modelling, without a run of their own:

- `bg` never sends SIGCONT: the running flag is set once and never cleared
  (`commands/exec/script.rs:174`), so a stopped job stays stopped, although `help`
  says that `bg` continues it (`commands/sys.rs:38`).
- A variable name of 64 bytes or more is stored cut and looked up whole
  (`features/env.rs:36`): it cannot be read back or unset, and each export adds an
  entry. `KeysUnique` and `ImplementsVariableMap` are stated around it.
- `*` does not match some file names that contain `*` (`features/service/glob.rs:97`
  tests for equal characters first): the pattern `*` does not match a file named `**`.
  `ResultIsMeaning` says what is left: such a name may be missed, and is never
  matched wrongly.
- A pattern without a slash is expanded against `/`, not the working directory
  (`features/service/glob.rs:67`), and one in a relative directory never expands,
  since the directory is handed to `readdir` unresolved.
- In a line with an operator a word is cut to 63 bytes (`pipeline/parse.rs:12`), in
  one without to 127.
- `^C` evaluates the partial line as Enter does (`repl/raw.rs:131`).
- A shell started with a script has no `HOME` and `PATH` (`main.rs:30` runs it before
  `env_init`), and `run` passes no environment to its child.

Checked as properties that hold, and worth knowing:

- `LeftOpenByFirstLine`: a forked line leaves its redirections and the write ends
  of all pipes but the first open in the shell.
- `StagesHoldBothEnds`: children keep both ends of the pipes they use, so a program
  behind a pipe that reads to the end never sees it and the prompt does not come
  back.
- `ParsedAsTyped`: words beyond the sixteenth of a segment become a segment of
  their own, which is piped into.
- `NewestIsWhatRan`: in raw mode a lone `!!` runs itself, since the line is pushed
  before it is expanded; in the cooked loop it runs the newest line.
- `RepeatsOnlyWhenCut`: lines longer than a slot are not recognised as repeats.
- `ArrowsDoNotType` needs reads that do not cut a key: of an arrow whose bytes come
  in two reads the last two are typed. What follows Enter in a read is lost.
- `ScreenShowsLine`: an arrow up or down, or Tab, erases the prompt and may leave its
  last cells behind a shorter line.
- `ImplementsTextBuffer`: completing the last name of a path drops its directory
  (`cat /bin/l` becomes `cat ls `).
- `PositionsBetweenCommands`, `ListsWhole`: after a scan of a directory of 64 entries
  or more, `ls` lists what is behind the 64th, and of exactly 64 nothing.
- `StartedAsAsked`: a script found through its `#!` line has room for two arguments
  fewer, its name not counted among them.
- `DepthIsNesting`, `ScriptsMeanTheirLines`: `exec` of an `osh` script exits the shell
  after it, also when the script was refused for its depth.
- A failed copy leaves a partial destination, on which every later `cp` or `mv`
  that has to copy fails, because `create` refuses it; the source stays
  (`NothingLost`).
- `LoneInProcess`: an in-process builtin with a redirection prints to the terminal.

## 6. What is not modelled

- The system call wrappers (one instruction each), start-up before `_start`'s
  choice of a loop, the panic handler, and all output but that of the line editor:
  `stat`, `pwd`, `help`, `jobs`, the columns of `ls -l`.
- Text below the level of words: the assembly of path, argument and environment
  strings, `expand_tilde`, the syntax of `${NAME}`, quoting (there is none), the cut
  of words to 63 or 127 bytes.
- Commands inside a forked segment act on the child's own copies of the tables and
  are abstracted to what they write; several stages of a pipeline that scan the
  same directory at once would share its position, which `DirScan` leaves out.
- What is read of a line before a read error is executed at the end of
  `do_script_inner`; `ReadFails` happens between two lines.
- `Programs` starts programs from lines without operators; a script line with
  operators goes to `execute` as in `PipelineExec`.

## 7. Plan

Modelled: every component that has state, in the order of section 2. Proved: every
safety property the runs check, and every refinement. What is left is liveness, which
TLC checks, and the parts of section 6.
