----------------------------- MODULE JobControl -----------------------------
(***************************************************************************)
(* How the shell creates, tracks and collects processes: the job table,    *)
(* the forks and waits of pipeline::execute, and the commands fg, bg and   *)
(* run.  One action stands for one system call and the code up to the next *)
(* one, since the shell is single-threaded and children only run between   *)
(* its system calls.                                                       *)
(*                                                                         *)
(* The kernel is outside the repository.  What is assumed of it is what    *)
(* the shell relies on: fork/spawn return a pid no unreaped child has,     *)
(* a child that ended stays a zombie until a wait call returns it, and     *)
(* waitpid on a pid that is no child of the shell fails at once.  The pid  *)
(* of a reaped child may be handed out again.                              *)
(***************************************************************************)
EXTENDS JobTable

CONSTANTS
    Ops,          \* the kinds of command line the user may enter
    MaxSegments,  \* segments of a pipeline (MAX_SEGMENTS, 8 in the code)
    MaxIds,       \* bound: background lines stop after this many job ids
    MayStop       \* whether a child can be stopped (SIGSTOP, SIGTSTP)

OpKinds == {"pipeline", "fg", "bg", "run", "builtin"}

ASSUME OpsAssumption == Ops \subseteq OpKinds
ASSUME MaxSegmentsAssumption == MaxSegments \in Nat
ASSUME MaxIdsAssumption == MaxIds \in Nat
ASSUME MayStopAssumption == MayStop \in BOOLEAN

VARIABLES
    jobs,     \* the job table, oldest entry first
    nextId,   \* G_JOB_NEXT_ID
    proc,     \* pid -> what the kernel knows of it
    pc,       \* the system call the shell is at
    cmd,      \* the command line being executed
    spawned,  \* spawned_pids of execute, pid of run
    target    \* the job record fg has looked up: a set of at most one

vars == <<jobs, nextId, proc, pc, cmd, spawned, target>>

ProcStates == {"free", "running", "stopped", "zombie"}

\* A line with n non-empty segments to fork; a foreground line without
\* operators is dispatched in the shell's own process instead ("builtin",
\* "fg", "bg", "run").
Commands ==
    { c \in [op : Ops, n : 0 .. MaxSegments, bg : BOOLEAN, id : 0 .. MaxIds] :
        /\ c.op # "pipeline" => c.n = 0 /\ ~c.bg
        /\ c.op \in {"fg", "bg"} <=> c.id # 0 }

NoCommand == [op |-> "builtin", n |-> 0, bg |-> FALSE, id |-> 0]

NoTarget == {}

Init ==
    /\ jobs = <<>>
    /\ nextId = 1
    /\ proc = [p \in Pids |-> "free"]
    /\ pc = "prompt"
    /\ cmd = NoCommand
    /\ spawned = <<>>
    /\ target = NoTarget

-----------------------------------------------------------------------------
(* The prompt, and job_reap at the head of execute and of dispatch.        *)

\* A line is read.  Background lines are no longer entered once MaxIds ids
\* are used up (the only purpose of this conjunct is to bound the model).
EnterCommand(c) ==
    /\ pc = "prompt"
    /\ c.bg => nextId <= MaxIds
    /\ cmd' = c
    /\ pc' = "reap"
    /\ UNCHANGED <<jobs, nextId, proc, spawned, target>>

\* waitpid(-1, WNOHANG) returns a zombie: its first entry leaves the table.
ReapOne(p) ==
    /\ pc = "reap"
    /\ proc[p] = "zombie"
    /\ proc' = [proc EXCEPT ![p] = "free"]
    /\ IF HasPid(jobs, p)
       THEN \E i \in DOMAIN jobs :
               FirstWithPid(jobs, p, i) /\ jobs' = JobRemove(jobs, i)
       ELSE UNCHANGED jobs
    /\ UNCHANGED <<nextId, pc, cmd, spawned, target>>

\* The first system call of each command after the reap loop.
FirstStep(c) ==
    CASE c.op = "pipeline" -> IF c.n = 0 THEN "prompt" ELSE "fork"
      [] c.op = "fg"       -> "fgfind"
      [] c.op = "bg"       -> "bgfind"
      [] c.op = "run"      -> "spawn"
      [] c.op = "builtin"  -> "prompt"

\* Mutant: the reap loop may end while there still are zombies.
ReapNone_StopsEarly ==
    /\ pc = "reap"
    /\ pc' = FirstStep(cmd)
    /\ UNCHANGED <<jobs, nextId, proc, cmd, spawned, target>>

\* waitpid returns 0 (no zombie) or an error (no child): the loop ends.
ReapNone ==
    /\ pc = "reap"
    /\ \A p \in Pids : proc[p] # "zombie"
    /\ pc' = FirstStep(cmd)
    /\ UNCHANGED <<jobs, nextId, proc, cmd, spawned, target>>

-----------------------------------------------------------------------------
(* pipeline::execute: fork every segment, then wait for them or add a job. *)

Fork(p) ==
    /\ pc = "fork"
    /\ proc[p] = "free"
    /\ proc' = [proc EXCEPT ![p] = "running"]
    /\ spawned' = Append(spawned, p)
    /\ pc' = IF Len(spawned) + 1 < cmd.n THEN "fork"
             ELSE IF cmd.bg THEN "add" ELSE "wait"
    /\ UNCHANGED <<jobs, nextId, cmd, target>>

\* fork fails (or pipe, before it): the line is given up, and the children
\* forked so far are neither waited for nor entered in the table.
ForkFail ==
    /\ pc = "fork"
    /\ pc' = "prompt"
    /\ spawned' = <<>>
    /\ UNCHANGED <<jobs, nextId, proc, cmd, target>>

\* Mutant: a job that finds no room uses up an id.
AddJob_SpendsIdWhenFull ==
    /\ pc = "add"
    /\ jobs' = JobAdd(jobs, nextId, Last(spawned))
    /\ nextId' = nextId + 1
    /\ spawned' = <<>>
    /\ pc' = "prompt"
    /\ UNCHANGED <<proc, cmd, target>>

\* Only the last segment's pid becomes a job.
AddJob ==
    /\ pc = "add"
    /\ jobs' = JobAdd(jobs, nextId, Last(spawned))
    /\ nextId' = IF IsFull(jobs) THEN nextId ELSE nextId + 1
    /\ spawned' = <<>>
    /\ pc' = "prompt"
    /\ UNCHANGED <<proc, cmd, target>>

\* Mutant: waitpid with WNOHANG.
Collect_NoHang(p) ==
    proc' = [proc EXCEPT ![p] = IF @ = "zombie" THEN "free" ELSE @]

\* waitpid(pid, 0) returns: the child has ended, or is no child any more.
Collect(p) ==
    /\ proc[p] \in {"zombie", "free"}
    /\ proc' = [proc EXCEPT ![p] = "free"]

\* Mutant: wait() instead of waitpid for each child.
WaitForeground_AnyChild ==
    /\ pc = "wait"
    /\ \E p \in Pids : proc[p] = "zombie" /\ Collect(p)
    /\ spawned' = Tail(spawned)
    /\ pc' = IF Len(spawned) = 1 THEN "prompt" ELSE "wait"
    /\ UNCHANGED <<jobs, nextId, cmd, target>>

\* Mutant: the loop over spawned_pids does not advance.
WaitForeground_SamePid ==
    /\ pc = "wait"
    /\ Collect(Head(spawned))
    /\ UNCHANGED <<jobs, nextId, pc, cmd, spawned, target>>

WaitForeground ==
    /\ pc = "wait"
    /\ Collect(Head(spawned))
    /\ spawned' = Tail(spawned)
    /\ pc' = IF Len(spawned) = 1 THEN "prompt" ELSE "wait"
    /\ UNCHANGED <<jobs, nextId, cmd, target>>

-----------------------------------------------------------------------------
(* fg and bg                                                               *)

FgFind ==
    /\ pc = "fgfind"
    /\ \/ \E i \in DOMAIN jobs :
            /\ FirstWithId(jobs, cmd.id, i)
            /\ target' = {jobs[i]}
            /\ pc' = "fgwait"
       \/ /\ ~HasId(jobs, cmd.id)
          /\ target' = NoTarget
          /\ pc' = "prompt"
    /\ UNCHANGED <<jobs, nextId, proc, cmd, spawned>>

\* The result of waitpid is ignored; the entry is removed by its id.
FgWait(t) ==
    /\ pc = "fgwait"
    /\ Collect(t.pid)
    /\ IF HasId(jobs, t.id)
       THEN \E i \in DOMAIN jobs :
               FirstWithId(jobs, t.id, i) /\ jobs' = JobRemove(jobs, i)
       ELSE UNCHANGED jobs
    /\ target' = NoTarget
    /\ pc' = "prompt"
    /\ UNCHANGED <<nextId, cmd, spawned>>

\* kill(pid, SIGCONT) is sent only to a job whose running flag is false.
Bg ==
    /\ pc = "bgfind"
    /\ \/ \E i \in DOMAIN jobs :
            /\ FirstWithId(jobs, cmd.id, i)
            /\ IF jobs[i].running
               THEN UNCHANGED <<jobs, proc>>
               ELSE /\ jobs' = JobSetRunning(jobs, i, TRUE)
                    /\ proc' = [proc EXCEPT ![jobs[i].pid] =
                                  IF @ = "stopped" THEN "running" ELSE @]
       \/ ~HasId(jobs, cmd.id) /\ UNCHANGED <<jobs, proc>>
    /\ pc' = "prompt"
    /\ UNCHANGED <<nextId, cmd, spawned, target>>

-----------------------------------------------------------------------------
(* run: spawn a program, then wait() for whichever child ends first.       *)

RunSpawn(p) ==
    /\ pc = "spawn"
    /\ proc[p] = "free"
    /\ proc' = [proc EXCEPT ![p] = "running"]
    /\ spawned' = <<p>>
    /\ pc' = "runwait"
    /\ UNCHANGED <<jobs, nextId, cmd, target>>

\* The path does not resolve, an argument is too long, or spawn fails.
RunFail ==
    /\ pc = "spawn"
    /\ pc' = "prompt"
    /\ UNCHANGED <<jobs, nextId, proc, cmd, spawned, target>>

\* Mutant: the wait call does not block.
RunWait_NoHang(p) ==
    /\ pc = "runwait"
    /\ Collect_NoHang(p)
    /\ spawned' = <<>>
    /\ pc' = "prompt"
    /\ UNCHANGED <<jobs, nextId, cmd, target>>

\* wait() returns any zombie and the job table is not looked at.
RunWait(p) ==
    /\ pc = "runwait"
    /\ proc[p] = "zombie"
    /\ proc' = [proc EXCEPT ![p] = "free"]
    /\ spawned' = <<>>
    /\ pc' = "prompt"
    /\ UNCHANGED <<jobs, nextId, cmd, target>>

-----------------------------------------------------------------------------
(* The children                                                            *)

Exit(p) ==
    /\ proc[p] = "running"
    /\ proc' = [proc EXCEPT ![p] = "zombie"]
    /\ UNCHANGED <<jobs, nextId, pc, cmd, spawned, target>>

Stop(p) ==
    /\ MayStop
    /\ proc[p] = "running"
    /\ proc' = [proc EXCEPT ![p] = "stopped"]
    /\ UNCHANGED <<jobs, nextId, pc, cmd, spawned, target>>

-----------------------------------------------------------------------------
Shell ==
    \/ ReapNone
    \/ ForkFail
    \/ AddJob
    \/ WaitForeground
    \/ FgFind
    \/ Bg
    \/ RunFail
    \/ \E p \in Pids : ReapOne(p) \/ Fork(p) \/ RunSpawn(p) \/ RunWait(p)
    \/ \E t \in target : FgWait(t)

User == \E c \in Commands : EnterCommand(c)

Child(p) == Exit(p) \/ Stop(p)

Next ==
    \/ Shell
    \/ User
    \/ \E p \in Pids : Child(p)

Spec == Init /\ [][Next]_vars

\* The shell keeps running, and every program that is not stopped ends.
FairSpec ==
    /\ Spec
    /\ WF_vars(Shell)
    /\ \A p \in Pids : WF_vars(Exit(p))

-----------------------------------------------------------------------------
(* Properties                                                              *)

ToPids(s) == { s[i] : i \in DOMAIN s }

AscendingBelow(js, bound) ==
    /\ \A i \in DOMAIN js : js[i].id < bound
    /\ \A i, j \in DOMAIN js : i < j => js[i].id < js[j].id

Tracked(js, pr) ==
    /\ \A i \in DOMAIN js : pr[js[i].pid] # "free"
    /\ \A i, j \in DOMAIN js : js[i].pid = js[j].pid => i = j

\* The type of every variable: the job table is a bounded sequence of
\* records (the three arrays of jobs.rs and G_JOB_COUNT).
TypeOK ==
    /\ jobs \in Seq(JobRecord)
    /\ Len(jobs) <= JobMax
    /\ nextId \in Nat \ {0}
    /\ proc \in [Pids -> ProcStates]
    /\ pc \in {"prompt", "reap", "fork", "add", "wait", "fgfind", "fgwait",
               "bgfind", "spawn", "runwait"}
    /\ cmd \in Commands \cup {NoCommand}
    /\ spawned \in Seq(Pids)
    /\ target \in SUBSET JobRecord

\* Job ids are strictly increasing along the table and below the next one
\* (jobs.rs: "sequential IDs"), so an id names at most one job, fg and bg
\* act on the job the user means, and an id is not used a second time.
IdsAscending == AscendingBelow(jobs, nextId)

\* Without run, every entry of the table is a child the kernel still knows,
\* and no two entries have the same process: the scan by pid in job_reap
\* finds the job of the child that ended, and fg never waits on a pid that
\* is gone or belongs to someone else.
TracksChildren == Tracked(jobs, proc)

\* A job leaves the table only in the step that collects its process: no
\* job is dropped while its program can still run (job_reap, cmd_fg).
JobLeavesWithItsProcess ==
    [][\A i \in DOMAIN jobs :
          jobs[i].pid \notin { jobs'[k].pid : k \in DOMAIN jobs' }
             => proc[jobs[i].pid] = "zombie" /\ proc'[jobs[i].pid] = "free"]_vars

\* The processes forked for the line being executed are distinct, not yet
\* collected and not in the table: the reap loop, an earlier job or a reused
\* pid cannot take a process away from the waitpid loop of execute, which
\* therefore never waits on a pid that is gone, and no process is entered
\* twice.  At the prompt none is left over.
ForegroundOwned ==
    /\ pc \in {"fork", "wait", "add"} =>
          \A p \in ToPids(spawned) : proc[p] # "free" /\ ~HasPid(jobs, p)
    /\ \A i, j \in DOMAIN spawned : spawned[i] = spawned[j] => i = j
    /\ pc \in {"wait", "add"} => spawned # <<>>
    /\ pc \notin {"fork", "wait", "add", "runwait"} => spawned = <<>>

\* While fg waits, the job it looked up is still in the table, so what it
\* removes afterwards by id is the entry it waited for.
FgTargetInTable ==
    /\ pc = "fgwait" => \E i \in DOMAIN jobs : target = {jobs[i]}
    /\ pc # "fgwait" => target = NoTarget

\* When run returns with no other child around, the child it spawned was
\* collected (the wait call of cmd_run).
RunAloneWaits ==
    [][pc = "runwait" /\ pc' = "prompt"
          /\ (\A p \in Pids \ ToPids(spawned) : proc[p] = "free")
        => \A p \in ToPids(spawned) : proc'[p] = "free"]_vars

\* README: run waits for the binary it spawned as a child.  What cmd_run
\* waits for is whichever child ends first.
RunWaitsForItsChild ==
    [][pc = "runwait" /\ pc' = "prompt"
        => \A p \in ToPids(spawned) : proc'[p] = "free"]_vars

\* As long as the user keeps entering lines, every child that ended is
\* collected, whether or not the table knows it (background segments other
\* than the last, a job refused by a full table, children left by ForkFail).
ZombiesCollected ==
    ([]<><<User>>_vars) => \A p \in Pids : (proc[p] = "zombie") ~> (proc[p] = "free")

\* What the table promises about each job id (BackgroundJobs), read off the
\* table, the id counter and the kernel's view of the process.
Life(id) ==
    IF id >= nextId THEN "unused"
    ELSE IF ~HasId(jobs, id) THEN "gone"
    ELSE IF \E i \in DOMAIN jobs : jobs[i].id = id /\ proc[jobs[i].pid] = "zombie"
    THEN "ended"
    ELSE "active"

Abstract == INSTANCE BackgroundJobs WITH life <- [id \in 1 .. MaxIds |-> Life(id)]

\* Without run, the shell implements BackgroundJobs: ids are issued in
\* order, a job goes away once and only after its program has ended, and
\* no id comes back to life.
ImplementsBackgroundJobs == Abstract!Spec

\* If every program ends, every command line ends: no wait call of the
\* shell waits for a process that can no longer end.
PromptReturns == (pc # "prompt") ~> (pc = "prompt")
=============================================================================
