---------------------------- MODULE PipelineExec ----------------------------
(***************************************************************************)
(* pipeline::execute at the level of file descriptors: the redirections,   *)
(* pipes, forks, closes and waits of one command line after another, and   *)
(* the children that dup their ends and then write, read and exit.         *)
(*                                                                         *)
(* One action stands for one system call of the shell or of a child and    *)
(* the code up to the next one.  The kernel is outside the repository; it  *)
(* is assumed to do what this code relies on: open, pipe and dup return    *)
(* the lowest free descriptors (close(0); dup(fd) must yield 0), fork      *)
(* copies the descriptor table, a pipe holds PipeCap units, a read from an *)
(* empty pipe returns 0 only when no process has its write end open.       *)
(* Which processes become jobs is JobControl's subject, not repeated here. *)
(* Each line is first parsed by PipelineParse, as its callers do.          *)
(***************************************************************************)
EXTENDS Integers, FiniteSets, PipelineParse

CONSTANTS
    Sessions,   \* what the user may enter, each a sequence of command lines
    Kids,       \* pids of children (a set of numbers)
    Pipes,      \* identities of pipes in the kernel (a set of numbers)
    NumFds,     \* bound: size of a descriptor table
    PipeCap,    \* units a pipe can hold
    MaxOut      \* units a builtin writes, or a file or terminal supplies

\* What a segment runs.  "inproc" is one of is_inprocess_builtin, "filter"
\* an external program that reads its input to the end, "builtin" any other
\* shell command (none of them reads descriptor 0) or unknown word, "empty"
\* a segment whose only words were redirections or the final &.
SegKinds == {"inproc", "builtin", "filter", "empty"}

Kind(words) ==
    IF words = <<>> THEN "empty"
    ELSE IF Head(words) \in {"inproc", "filter"} THEN Head(words) ELSE "builtin"

\* What execute looks at of a parsed line: kinds of segments, and whether
\* there are redirections.
Line == [segs : Seq(SegKinds), out : BOOLEAN, inp : BOOLEAN, bg : BOOLEAN]

LineOf(p) == [segs |-> [i \in DOMAIN p.segs |-> Kind(p.segs[i])],
              out |-> p.out # NoName, inp |-> p.inp # NoName, bg |-> p.bg]

ASSUME SessionsAssumption == Sessions \subseteq Seq(Seq(STRING))
ASSUME KidsAssumption == Kids \subseteq Nat
ASSUME PipesAssumption == Pipes \subseteq Nat
ASSUME NumFdsAssumption == NumFds \in Nat /\ NumFds >= 3
ASSUME BoundsAssumption == PipeCap \in Nat /\ MaxOut \in Nat

Fd == 0 .. NumFds - 1

None == <<"none", 0>>
Tty  == <<"tty", 0>>
File == <<"file", 0>>
Rd(p) == <<"rd", p>>
Wr(p) == <<"wr", p>>
Objects == {None, Tty, File} \cup ({"rd", "wr"} \X Pipes)

VARIABLES
    todo,      \* the lines the user has still to enter
    entered,   \* number of lines entered so far
    typed,     \* the line as typed, until it is parsed
    pc,        \* where the shell is in execute
    line,      \* the line being executed
    seg,       \* seg_idx, counted from 1
    fds,       \* the shell's descriptor table
    outFd, inFd,         \* stdout_fd, stdin_fd (-1: open failed)
    prevRead,            \* prev_read_fd
    curRead, curWrite,   \* cur_read_fd, cur_write_fd
    spawned,   \* spawned_pids
    toClose,   \* parent_close, the entries not yet closed
    kid,       \* pid -> the child
    fill       \* pipe -> units in it

userVars == <<todo, entered, typed>>
shellVars == <<userVars, pc, line, seg, outFd, inFd, prevRead, curRead, curWrite,
               spawned, toClose>>
vars == <<shellVars, fds, kid, fill>>

NoFds == [f \in Fd |-> None]

\* state: free, born (forked, redirections still to do), live or zombie;
\* left: units still to write (builtin) or to be had from a file or the
\* terminal (filter); hold: units read and not yet written; eof: the filter
\* has seen the end of its input.
NoKid == [state |-> "free", fds |-> NoFds, rfd |-> 0, wfd |-> 1, stage |-> 0,
          kind |-> "builtin", left |-> 0, hold |-> 0, eof |-> FALSE]

NoLine == [segs |-> <<>>, out |-> FALSE, inp |-> FALSE, bg |-> FALSE]

\* The shell starts with descriptors 0, 1 and 2 on the terminal.
Init ==
    /\ todo \in Sessions
    /\ entered = 0
    /\ typed = <<>>
    /\ pc = "prompt"
    /\ line = NoLine
    /\ seg = 1
    /\ fds = [f \in Fd |-> IF f <= 2 THEN Tty ELSE None]
    /\ outFd = 1
    /\ inFd = 0
    /\ prevRead = 0
    /\ curRead = 0
    /\ curWrite = 1
    /\ spawned = <<>>
    /\ toClose = <<>>
    /\ kid = [k \in Kids |-> NoKid]
    /\ fill = [p \in Pipes |-> 0]

-----------------------------------------------------------------------------
(* Descriptor tables                                                       *)

LowestFree(table, f) ==
    /\ f \in Fd
    /\ table[f] = None
    /\ \A g \in Fd : g < f => table[g] # None

Closed(table, f) == IF f \in Fd THEN [table EXCEPT ![f] = None] ELSE table

Holds(table, obj) == \E f \in Fd : table[f] = obj

\* Whether any process has the object open.
IsOpen(obj) == Holds(fds, obj) \/ \E k \in Kids : Holds(kid[k].fds, obj)

Busy(p) == IsOpen(Rd(p)) \/ IsOpen(Wr(p))

\* The kernel takes any unused pipe; the least one, since they are alike.
FreshPipe(p) == ~Busy(p) /\ \A q \in Pipes : q < p => Busy(q)

-----------------------------------------------------------------------------
(* The shell                                                               *)

N == Len(line.segs)
IsLast == seg >= N

Return ==
    /\ pc' = "prompt"
    /\ line' = NoLine
    /\ seg' = 1
    /\ outFd' = 1 /\ inFd' = 0
    /\ prevRead' = 0 /\ curRead' = 0 /\ curWrite' = 1
    /\ spawned' = <<>> /\ toClose' = <<>>
    /\ typed' = <<>>
    /\ UNCHANGED <<todo, entered>>

\* The next line is parsed and executed; job_reap comes first: every child
\* that has ended is collected.
Begin ==
    /\ pc = "prompt"
    /\ todo # <<>>
    /\ todo' = Tail(todo)
    /\ entered' = entered + 1
    /\ typed' = Head(todo)
    /\ kid' = [k \in Kids |-> IF kid[k].state = "zombie" THEN NoKid ELSE kid[k]]
    /\ line' = LineOf(Parse(typed'))
    /\ pc' = "out"
    /\ UNCHANGED <<seg, fds, outFd, inFd, prevRead, curRead, curWrite, spawned,
                   toClose, fill>>

\* The descriptor an open call returns, or -1 and an unchanged table.
Opened(fd, table) ==
    \/ /\ LowestFree(fds, fd)
       /\ table = [fds EXCEPT ![fd] = File]
    \/ fd = -1 /\ table = fds

\* A lone segment without redirections: nothing to run, or, in the
\* foreground, a command dispatched in the shell's own process.
DispatchInShell ==
    /\ pc = "out"
    /\ N = 1 /\ ~line.out /\ ~line.inp
    /\ line.segs[1] = "empty" \/ ~line.bg
    /\ Return
    /\ UNCHANGED <<fds, kid, fill>>

OpenOut ==
    /\ pc = "out"
    /\ ~(N = 1 /\ ~line.out /\ ~line.inp /\ (line.segs[1] = "empty" \/ ~line.bg))
    /\ typed' = <<>>
    /\ IF line.out
       THEN \E fd \in Fd \cup {-1} : Opened(fd, fds') /\ outFd' = fd
       ELSE outFd' = 1 /\ UNCHANGED fds
    /\ pc' = "in"
    /\ UNCHANGED <<todo, entered, line, seg, inFd, prevRead, curRead, curWrite,
                   spawned, toClose, kid, fill>>

OpenIn ==
    /\ pc = "in"
    /\ IF line.inp
       THEN \E fd \in Fd \cup {-1} : Opened(fd, fds') /\ inFd' = fd
       ELSE inFd' = 0 /\ UNCHANGED fds
    /\ pc' = "check"
    /\ UNCHANGED <<userVars, line, seg, outFd, prevRead, curRead, curWrite,
                   spawned, toClose, kid, fill>>

\* Mutant: the fd > 2 guard is missing.
ClosedAbove2_NoGuard(table, f) == Closed(table, f)

ClosedAbove2(table, f) == IF f > 2 THEN Closed(table, f) ELSE table

\* The output file could not be opened; an input file stays open.
OutFailed ==
    /\ pc = "check"
    /\ outFd < 0
    /\ Return
    /\ UNCHANGED <<fds, kid, fill>>

InFailed ==
    /\ pc = "check"
    /\ outFd >= 0
    /\ inFd < 0
    /\ fds' = ClosedAbove2(fds, outFd)
    /\ Return
    /\ UNCHANGED <<kid, fill>>

Opens == pc = "check" /\ outFd >= 0 /\ inFd >= 0

\* "> f" alone creates the file; the descriptor stays open.
LoneEmpty ==
    /\ Opens
    /\ line.segs = <<"empty">>
    /\ Return
    /\ UNCHANGED <<fds, kid, fill>>

\* An in-process builtin is run with the shell's own descriptors: what it
\* prints goes to the terminal and not to the file.
LoneInProcess ==
    /\ Opens
    /\ line.segs = <<"inproc">>
    /\ line.out \/ line.inp
    /\ fds' = ClosedAbove2(ClosedAbove2(fds, outFd), inFd)
    /\ Return
    /\ UNCHANGED <<kid, fill>>

StartSegments ==
    /\ Opens
    /\ line.segs # <<"empty">>
    /\ ~(line.segs = <<"inproc">> /\ (line.out \/ line.inp))
    /\ prevRead' = inFd
    /\ pc' = IF N = 0 THEN "close" ELSE "seg"
    /\ UNCHANGED <<userVars, line, seg, fds, outFd, inFd, curRead, curWrite,
                   spawned, toClose, kid, fill>>

NextSeg == IF IsLast THEN pc' = "close" /\ seg' = seg ELSE pc' = "seg" /\ seg' = seg + 1

SkipEmpty ==
    /\ pc = "seg"
    /\ line.segs[seg] = "empty"
    /\ NextSeg
    /\ UNCHANGED <<userVars, line, fds, outFd, inFd, prevRead, curRead, curWrite,
                   spawned, toClose, kid, fill>>

\* The last segment writes to stdout_fd and needs no pipe.
LastSegment ==
    /\ pc = "seg"
    /\ line.segs[seg] # "empty"
    /\ IsLast
    /\ curRead' = prevRead
    /\ curWrite' = outFd
    /\ pc' = "fork"
    /\ UNCHANGED <<userVars, line, seg, fds, outFd, inFd, prevRead, spawned,
                   toClose, kid, fill>>

MakePipe ==
    /\ pc = "seg"
    /\ line.segs[seg] # "empty"
    /\ ~IsLast
    /\ \E p \in Pipes, r, w \in Fd :
          /\ FreshPipe(p)
          /\ LowestFree(fds, r)
          /\ LowestFree([fds EXCEPT ![r] = Rd(p)], w)
          /\ fds' = [fds EXCEPT ![r] = Rd(p), ![w] = Wr(p)]
          /\ fill' = [fill EXCEPT ![p] = 0]
          /\ curRead' = prevRead
          /\ curWrite' = w
          /\ prevRead' = r
    /\ pc' = "fork"
    /\ UNCHANGED <<userVars, line, seg, outFd, inFd, spawned, toClose, kid>>

\* Earlier children are not waited for and what is open stays open.
PipeFail ==
    /\ pc = "seg"
    /\ line.segs[seg] # "empty"
    /\ ~IsLast
    /\ Return
    /\ UNCHANGED <<fds, kid, fill>>

\* Mutant: the input redirection is taken for a pipe end.
ParentClose_Input ==
    IF curRead > 2 THEN curRead
    ELSE IF curWrite > 2 /\ curWrite # outFd THEN curWrite
    ELSE -1

\* Mutant: the write end is preferred.
ParentClose_WriteFirst ==
    IF curWrite > 2 /\ curWrite # outFd THEN curWrite
    ELSE IF curRead > 2 /\ curRead # inFd THEN curRead
    ELSE -1

\* The parent_close entry of a segment: its read end or else its write end.
ParentClose ==
    IF curRead > 2 /\ curRead # inFd THEN curRead
    ELSE IF curWrite > 2 /\ curWrite # outFd THEN curWrite
    ELSE -1

\* The least free pid: pids are alike, as pipes are.
Fork(k) ==
    /\ pc = "fork"
    /\ kid[k].state = "free"
    /\ \A j \in Kids : j < k => kid[j].state # "free"
    /\ kid' = [kid EXCEPT ![k] = [NoKid EXCEPT !.state = "born",
                                               !.fds = fds,
                                               !.rfd = curRead,
                                               !.wfd = curWrite,
                                               !.stage = seg,
                                               !.kind = line.segs[seg]]]
    /\ spawned' = Append(spawned, k)
    /\ toClose' = Append(toClose, ParentClose)
    /\ NextSeg
    /\ UNCHANGED <<userVars, line, fds, outFd, inFd, prevRead, curRead, curWrite, fill>>

\* The ends of this segment are closed, not the read end of the pipe just
\* made nor the entries of parent_close.
ForkFail ==
    /\ pc = "fork"
    /\ LET afterWrite == ClosedAbove2(fds, curWrite)
       IN  fds' = IF curRead # inFd THEN ClosedAbove2(afterWrite, curRead)
                  ELSE afterWrite
    /\ Return
    /\ UNCHANGED <<kid, fill>>

CloseNext ==
    /\ pc = "close"
    /\ toClose # <<>>
    /\ fds' = ClosedAbove2(fds, Head(toClose))
    /\ toClose' = Tail(toClose)
    /\ UNCHANGED <<userVars, pc, line, seg, outFd, inFd, prevRead, curRead, curWrite,
                   spawned, kid, fill>>

\* Mutant: the loop over spawned_pids does not advance.
Wait_SamePid ==
    /\ pc = "close"
    /\ toClose = <<>>
    /\ ~line.bg
    /\ spawned # <<>>
    /\ kid[Head(spawned)].state = "zombie"
    /\ kid' = [kid EXCEPT ![Head(spawned)] = NoKid]
    /\ UNCHANGED <<shellVars, fds, fill>>

\* The waitpid loop, one child at a time in the order of the segments.
Wait ==
    /\ pc = "close"
    /\ toClose = <<>>
    /\ ~line.bg
    /\ spawned # <<>>
    /\ kid[Head(spawned)].state = "zombie"
    /\ kid' = [kid EXCEPT ![Head(spawned)] = NoKid]
    /\ spawned' = Tail(spawned)
    /\ UNCHANGED <<userVars, pc, line, seg, outFd, inFd, prevRead, curRead, curWrite,
                   toClose, fds, fill>>

Finish ==
    /\ pc = "close"
    /\ toClose = <<>>
    /\ line.bg \/ spawned = <<>>
    /\ Return
    /\ UNCHANGED <<fds, kid, fill>>

-----------------------------------------------------------------------------
(* The children                                                            *)

\* dup puts the object of descriptor f into the lowest free slot.
Dupped(table, f) ==
    IF \E g \in Fd : LowestFree(table, g)
    THEN [table EXCEPT ![CHOOSE g \in Fd : LowestFree(table, g)] = table[f]]
    ELSE table

\* Mutant: the child does not close 1 before dup(cur_write_fd).
RedirectedFds_NoClose1(table, r, w) ==
    LET t1 == IF r # 0 THEN Dupped(Closed(table, 0), r) ELSE table
    IN  IF w # 1 THEN Dupped(t1, w) ELSE t1

\* Mutant: the child also closes what it inherited above 2.
RedirectedFds_ClosesInherited(table, r, w) ==
    LET t1 == IF r # 0 THEN Dupped(Closed(table, 0), r) ELSE table
        t2 == IF w # 1 THEN Dupped(Closed(t1, 1), w) ELSE t1
    IN  [f \in Fd |-> IF f > 2 THEN None ELSE t2[f]]

\* close(0); dup(cur_read_fd); close(1); dup(cur_write_fd).  The inherited
\* pipe descriptors are not closed.
RedirectedFds(table, r, w) ==
    LET t1 == IF r # 0 THEN Dupped(Closed(table, 0), r) ELSE table
    IN  IF w # 1 THEN Dupped(Closed(t1, 1), w) ELSE t1

Redirect(k) ==
    /\ kid[k].state = "born"
    /\ \E n \in 0 .. MaxOut :
          kid' = [kid EXCEPT ![k].state = "live",
                             ![k].fds = RedirectedFds(@, kid[k].rfd, kid[k].wfd),
                             ![k].left = n]
    /\ UNCHANGED <<shellVars, fds, fill>>

Stdin(k) == kid[k].fds[0]
Stdout(k) == kid[k].fds[1]

\* A unit that is ready to be written: the builtin's next, the filter's last.
HasOutput(k) ==
    IF kid[k].kind = "filter" THEN kid[k].hold > 0 ELSE kid[k].left > 0

Emitted(k) ==
    IF kid[k].kind = "filter" THEN [kid EXCEPT ![k].hold = 0]
    ELSE [kid EXCEPT ![k].left = @ - 1]

\* A write to a full pipe blocks while somebody holds its read end; with no
\* reader it fails, which the writers here ignore.
Write(k) ==
    /\ kid[k].state = "live"
    /\ HasOutput(k)
    /\ \/ /\ Stdout(k)[1] # "wr"
          /\ UNCHANGED fill
       \/ \E p \in Pipes :
             /\ Stdout(k) = Wr(p)
             /\ IF IsOpen(Rd(p))
                THEN /\ fill[p] < PipeCap
                     /\ fill' = [fill EXCEPT ![p] = @ + 1]
                ELSE UNCHANGED fill
    /\ kid' = Emitted(k)
    /\ UNCHANGED <<shellVars, fds>>

\* Only a filter reads.
Read(k) ==
    /\ kid[k].state = "live"
    /\ kid[k].kind = "filter"
    /\ kid[k].hold = 0
    /\ ~kid[k].eof
    /\ \/ /\ Stdin(k)[1] # "rd"
          /\ kid' = IF kid[k].left > 0
                    THEN [kid EXCEPT ![k].left = @ - 1, ![k].hold = 1]
                    ELSE [kid EXCEPT ![k].eof = TRUE]
          /\ UNCHANGED fill
       \/ \E p \in Pipes :
             /\ Stdin(k) = Rd(p)
             /\ \/ /\ fill[p] > 0
                   /\ fill' = [fill EXCEPT ![p] = @ - 1]
                   /\ kid' = [kid EXCEPT ![k].hold = 1]
                \/ /\ fill[p] = 0
                   /\ ~IsOpen(Wr(p))
                   /\ kid' = [kid EXCEPT ![k].eof = TRUE]
                   /\ UNCHANGED fill
    /\ UNCHANGED <<shellVars, fds>>

Exit(k) ==
    /\ kid[k].state = "live"
    /\ ~HasOutput(k)
    /\ kid[k].kind = "filter" => kid[k].eof
    /\ kid' = [kid EXCEPT ![k].state = "zombie", ![k].fds = NoFds]
    /\ UNCHANGED <<shellVars, fds, fill>>

-----------------------------------------------------------------------------
Shell ==
    \/ DispatchInShell \/ OpenOut \/ OpenIn
    \/ OutFailed \/ InFailed \/ LoneEmpty \/ LoneInProcess
    \/ StartSegments \/ SkipEmpty \/ LastSegment
    \/ MakePipe \/ PipeFail
    \/ ForkFail \/ (\E k \in Kids : Fork(k))
    \/ CloseNext \/ Wait \/ Finish

Child(k) == Redirect(k) \/ Write(k) \/ Read(k) \/ Exit(k)

Next == Begin \/ Shell \/ \E k \in Kids : Child(k)

Spec == Init /\ [][Next]_vars

\* The shell and every child that can take a step take it eventually.
FairSpec == Spec /\ WF_vars(Shell) /\ \A k \in Kids : WF_vars(Child(k))

-----------------------------------------------------------------------------
(* Properties                                                              *)

KidType ==
    [state : {"free", "born", "live", "zombie"}, fds : [Fd -> Objects],
     rfd : Fd, wfd : Fd, stage : Nat, kind : SegKinds, left : 0 .. MaxOut,
     hold : 0 .. 1, eof : BOOLEAN]

\* The type of every variable; a pipe never holds more than PipeCap.
TypeOK ==
    /\ pc \in {"prompt", "out", "in", "check", "seg", "fork", "close"}
    /\ line \in Line
    /\ todo \in Seq(Seq(STRING)) /\ typed \in Seq(STRING)
    /\ entered \in Nat
    /\ seg \in 1 .. N \cup {1}
    /\ fds \in [Fd -> Objects]
    /\ {outFd, inFd} \subseteq Fd \cup {-1}
    /\ {prevRead, curRead, curWrite} \subseteq Fd
    /\ spawned \in Seq(Kids)
    /\ toClose \in Seq(Fd \cup {-1})
    /\ kid \in [Kids -> KidType]
    /\ fill \in [Pipes -> 0 .. PipeCap]

\* A line is executed as it was typed: every word runs in the stage its
\* place between the bars and the limit of a segment gives it (word MaxArgs
\* + 1 begins a stage of its own, which is piped into), and the last
\* redirection of each kind counts.
ParsedAsTyped == typed # <<>> => MeaningOf(typed, Parse(typed))

\* Whatever fails and in whatever order lines follow one another, the shell
\* never loses the terminal on descriptors 0, 1 and 2 (the fd > 2 guards of
\* every close in execute).
ShellKeepsTerminal == \A f \in 0 .. 2 : fds[f] = Tty

\* Every descriptor parent_close names is a pipe end the shell still has
\* open, and none is named twice: no close hits a redirection, a closed
\* descriptor or one that was handed out again.
ClosesOwnPipeEnds ==
    /\ \A i \in DOMAIN toClose :
          toClose[i] # -1 => fds[toClose[i]][1] \in {"rd", "wr"}
    /\ \A i, j \in DOMAIN toClose :
          toClose[i] = toClose[j] /\ toClose[i] # -1 => i = j

\* Stages of the current line that have done their redirections.
Running(i) ==
    { k \in { spawned[n] : n \in DOMAIN spawned } :
        kid[k].state = "live" /\ kid[k].stage = i }

NonEmpty == { i \in DOMAIN line.segs : line.segs[i] # "empty" }

Follows(i, j) == i < j /\ ~\E m \in NonEmpty : i < m /\ m < j

\* The stages are connected as the line says: neighbours by one pipe, the
\* first and last stage to the redirections or the terminal, however the
\* parent's closes and the children's dups interleave and whatever earlier
\* lines left open.
Wired ==
    /\ \A i, j \in NonEmpty : Follows(i, j) =>
          \A a \in Running(i), b \in Running(j) :
             \E p \in Pipes : Stdout(a) = Wr(p) /\ Stdin(b) = Rd(p)
    /\ \A i \in NonEmpty, k \in Kids : k \in Running(i) =>
          /\ (\A j \in NonEmpty : i <= j) =>
                 Stdin(k) = IF line.inp THEN File ELSE Tty
          /\ i = Len(line.segs) => Stdout(k) = IF line.out THEN File ELSE Tty

\* Every stage keeps a copy of the other end of the pipes on its standard
\* descriptors: the child closes 0 and 1 and dups, but not what it
\* inherited.  So a writer never meets a pipe without a reader, and a reader
\* never meets one without a writer.
StagesHoldBothEnds ==
    \A k \in Kids, p \in Pipes : kid[k].state = "live" =>
        /\ Stdin(k) = Rd(p) => Holds(kid[k].fds, Wr(p))
        /\ Stdout(k) = Wr(p) => Holds(kid[k].fds, Rd(p))

Count(kind) == Cardinality({ f \in Fd : f > 2 /\ fds[f][1] = kind })

\* What the first line leaves open in the shell when it has run its course:
\* the redirections, the write end of every pipe made after the first (its
\* parent_close entry names the read end of the pipe before), and the read
\* end of the last pipe when the last segment is empty.  A pipeline of two
\* commands without redirections leaves nothing.
LeftOpenByFirstLine ==
    pc = "close" /\ toClose = <<>> /\ entered = 1 =>
        LET last == Len(line.segs)
            made == Cardinality(NonEmpty \ {last})
        IN  /\ Count("file") = (IF line.out THEN 1 ELSE 0) + (IF line.inp THEN 1 ELSE 0)
            /\ Count("wr") = IF made = 0 THEN 0 ELSE made - 1
            /\ Count("rd") = IF made > 0 /\ last \notin NonEmpty THEN 1 ELSE 0

\* A line without filters returns to the prompt, whatever fails on the way,
\* when no stage writes more than a pipe holds.
BuiltinsReturn ==
    (pc # "prompt" /\ \A i \in DOMAIN line.segs : line.segs[i] # "filter")
        ~> (pc = "prompt")
=============================================================================
