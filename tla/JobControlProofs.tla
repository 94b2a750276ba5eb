-------------------------- MODULE JobControlProofs --------------------------
(***************************************************************************)
(* Proofs about JobControl for every set of pids, every table size, every  *)
(* pipeline length and every bound on the job ids.                         *)
(***************************************************************************)
EXTENDS JobControl, SequenceLemmas, SequenceTheorems, TLAPS

-----------------------------------------------------------------------------
(* Type correctness, for every choice of Ops.                              *)

\* What TypeOK needs beside itself: a pipeline that reached "wait" or "add"
\* has forked something, and fg waits for at most one job.
TypeInv ==
    /\ TypeOK
    /\ pc \in {"wait", "add"} => spawned # <<>>

\* A command line is of one of the kinds of Ops.
LEMMA CommandOps == \A c \in Commands : c.op \in Ops /\ c.op \in OpKinds
BY OpsAssumption DEF Commands

LEMMA FirstStepType ==
    ASSUME cmd \in Commands \cup {NoCommand}
    PROVE  FirstStep(cmd) \in {"prompt", "fork", "fgfind", "bgfind", "spawn"}
<1>1. cmd.op \in OpKinds
  <2>1. CASE cmd \in Commands
    BY <2>1, CommandOps
  <2>2. CASE cmd = NoCommand
    BY <2>2 DEF NoCommand, OpKinds
  <2> QED BY <2>1, <2>2
<1> QED BY <1>1 DEF FirstStep, OpKinds

LEMMA InitType == Init => TypeInv
<1> SUFFICES ASSUME Init PROVE TypeInv
  OBVIOUS
<1>1. <<>> \in Seq(JobRecord) /\ Len(<<>>) = 0 /\ <<>> \in Seq(Pids)
  BY EmptySeq
<1> QED BY <1>1, JobMaxAssumption DEF Init, TypeInv, TypeOK, ProcStates, NoTarget

\* The table after job_add is well typed and within its capacity.
LEMMA JobAddType ==
    ASSUME NEW js \in Seq(JobRecord), Len(js) <= JobMax,
           NEW id \in Nat \ {0}, NEW p \in Pids
    PROVE  JobAdd(js, id, p) \in Seq(JobRecord) /\ Len(JobAdd(js, id, p)) <= JobMax
<1>1. [id |-> id, pid |-> p, running |-> TRUE] \in JobRecord
  BY DEF JobRecord
<1>2. Len(js) \in Nat
  BY LenProperties
<1> QED BY <1>1, <1>2, AppendProperties, JobMaxAssumption DEF JobAdd, IsFull

LEMMA NextType == TypeInv /\ [Next]_vars => TypeInv'
<1> SUFFICES ASSUME TypeInv, [Next]_vars PROVE TypeInv'
  OBVIOUS
<1> USE DEF TypeInv, TypeOK
<1>0. Len(jobs) \in Nat /\ Len(spawned) \in Nat
  BY LenProperties
<1>1. CASE ReapNone
  BY <1>1, FirstStepType DEF ReapNone
<1>2. CASE ForkFail
  BY <1>2, EmptySeq DEF ForkFail
<1>3. CASE AddJob
  <2>1. Last(spawned) \in Pids
    BY <1>3, <1>0, ElementOfSeq, EmptySeq DEF AddJob, Last
  <2>2. jobs' \in Seq(JobRecord) /\ Len(jobs)' <= JobMax
    BY <1>3, <2>1, JobAddType DEF AddJob
  <2>3. nextId' \in Nat \ {0}
    BY <1>3 DEF AddJob
  <2> QED BY <1>3, <2>2, <2>3, EmptySeq DEF AddJob
<1>4. CASE WaitForeground
  <2>1. spawned # <<>>
    BY <1>4 DEF WaitForeground
  <2>2. Tail(spawned) \in Seq(Pids) /\ Len(Tail(spawned)) = Len(spawned) - 1
    BY <2>1, HeadTailProperties
  <2>3. proc' \in [Pids -> ProcStates]
    BY <1>4 DEF WaitForeground, Collect, ProcStates
  <2>4. pc' = "wait" => spawned' # <<>>
    <3>1. SUFFICES ASSUME pc' = "wait", spawned' = <<>> PROVE FALSE
      OBVIOUS
    <3>2. Len(spawned) # 1 /\ spawned' = Tail(spawned)
      BY <1>4, <3>1 DEF WaitForeground
    <3>3. Len(spawned) # 0
      BY <2>1, EmptySeq
    <3>4. Len(spawned) - 1 = 0
      BY <2>2, <3>1, <3>2, EmptySeq
    <3> QED BY <1>0, <3>2, <3>4
  <2> QED BY <1>4, <2>2, <2>3, <2>4 DEF WaitForeground
<1>5. CASE FgFind
  <2>1. \A i \in DOMAIN jobs : jobs[i] \in JobRecord
    BY ElementOfSeq, LenProperties
  <2> QED BY <1>5, <2>1 DEF FgFind, FirstWithId, NoTarget
<1>6. CASE Bg
  <2>1. jobs' \in Seq(JobRecord) /\ Len(jobs') = Len(jobs)
    <3>1. ASSUME NEW i \in DOMAIN jobs, jobs' = JobSetRunning(jobs, i, TRUE)
          PROVE  jobs' \in Seq(JobRecord) /\ Len(jobs') = Len(jobs)
      <4>1. i \in 1 .. Len(jobs) /\ jobs[i] \in JobRecord
        BY ElementOfSeq, LenProperties
      <4>2. [jobs[i] EXCEPT !.running = TRUE] \in JobRecord
        BY <4>1 DEF JobRecord
      <4>3. jobs' = [jobs EXCEPT ![i] = [jobs[i] EXCEPT !.running = TRUE]]
        BY <3>1 DEF JobSetRunning
      <4> QED BY <4>1, <4>2, <4>3, ExceptSeq
    <3> QED BY <1>6, <3>1 DEF Bg
  <2>2. proc' \in [Pids -> ProcStates]
    BY <1>6 DEF Bg, ProcStates
  <2> QED BY <1>6, <2>1, <2>2 DEF Bg
<1>7. CASE RunFail
  BY <1>7 DEF RunFail
<1>8. ASSUME NEW p \in Pids, ReapOne(p) PROVE TypeInv'
  <2>1. ASSUME NEW i \in DOMAIN jobs, jobs' = JobRemove(jobs, i)
        PROVE  jobs' \in Seq(JobRecord) /\ Len(jobs') <= JobMax
    BY <1>0, <2>1, RemoveShifts, JobMaxAssumption DEF JobRemove
  <2>2. jobs' \in Seq(JobRecord) /\ Len(jobs') <= JobMax
    BY <1>8, <2>1 DEF ReapOne
  <2>3. proc' \in [Pids -> ProcStates]
    BY <1>8 DEF ReapOne, ProcStates
  <2> QED BY <1>8, <2>2, <2>3 DEF ReapOne
<1>9. ASSUME NEW p \in Pids, Fork(p) PROVE TypeInv'
  <2>1. Append(spawned, p) \in Seq(Pids) /\ Append(spawned, p) # <<>>
    BY AppendProperties, SMTT(30)
  <2>2. proc' \in [Pids -> ProcStates]
    BY <1>9 DEF Fork, ProcStates
  <2> QED BY <1>9, <2>1, <2>2 DEF Fork
<1>10. ASSUME NEW p \in Pids, RunSpawn(p) PROVE TypeInv'
  <2>1. <<p>> \in Seq(Pids)
    OBVIOUS
  <2>2. proc' \in [Pids -> ProcStates]
    BY <1>10 DEF RunSpawn, ProcStates
  <2> QED BY <1>10, <2>1, <2>2 DEF RunSpawn
<1>11. ASSUME NEW p \in Pids, RunWait(p) PROVE TypeInv'
  <2>1. proc' \in [Pids -> ProcStates]
    BY <1>11 DEF RunWait, ProcStates
  <2> QED BY <1>11, <2>1, EmptySeq DEF RunWait
<1>12. ASSUME NEW t \in target, FgWait(t) PROVE TypeInv'
  <2>0. t \in JobRecord
    OBVIOUS
  <2>1. ASSUME NEW i \in DOMAIN jobs, jobs' = JobRemove(jobs, i)
        PROVE  jobs' \in Seq(JobRecord) /\ Len(jobs') <= JobMax
    BY <1>0, <2>1, RemoveShifts, JobMaxAssumption DEF JobRemove
  <2>2. jobs' \in Seq(JobRecord) /\ Len(jobs') <= JobMax
    BY <1>12, <2>1 DEF FgWait
  <2>3. proc' \in [Pids -> ProcStates]
    BY <1>12, <2>0 DEF FgWait, Collect, ProcStates
  <2> QED BY <1>12, <2>2, <2>3 DEF FgWait, NoTarget
<1>13. ASSUME NEW c \in Commands, EnterCommand(c) PROVE TypeInv'
  BY <1>13 DEF EnterCommand
<1>14. ASSUME NEW p \in Pids, Exit(p) PROVE TypeInv'
  BY <1>14 DEF Exit, ProcStates
<1>15. ASSUME NEW p \in Pids, Stop(p) PROVE TypeInv'
  BY <1>15 DEF Stop, ProcStates
<1>16. CASE UNCHANGED vars
  BY <1>16 DEF vars
<1> QED
  BY <1>1, <1>2, <1>3, <1>4, <1>5, <1>6, <1>7, <1>8, <1>9, <1>10, <1>11, <1>12,
     <1>13, <1>14, <1>15, <1>16
  DEF Next, Shell, User, Child

\* The job table never exceeds its arrays and every variable keeps its type,
\* with any set of commands.
THEOREM TypeCorrect == Spec => []TypeOK
<1>1. Init => TypeInv
  BY InitType
<1>2. TypeInv /\ [Next]_vars => TypeInv'
  BY NextType
<1>3. TypeInv => TypeOK
  BY DEF TypeInv
<1> QED BY <1>1, <1>2, <1>3, PTL DEF Spec

-----------------------------------------------------------------------------
(* Job ids: ascending along the table, for every choice of Ops.            *)

LEMMA RemoveAscending ==
    ASSUME NEW js \in Seq(JobRecord), NEW i \in DOMAIN js, NEW b \in Nat,
           AscendingBelow(js, b)
    PROVE  AscendingBelow(JobRemove(js, i), b)
<1> DEFINE r == JobRemove(js, i)
           Old(k) == IF k < i THEN k ELSE k + 1
<1>1. \A k \in DOMAIN r : Old(k) \in DOMAIN js /\ r[k] = js[Old(k)]
  BY RemoveKeepsEntries DEF JobRemove
<1>2. DOMAIN js \subseteq Nat /\ DOMAIN r \subseteq Nat
  <2>1. Len(js) \in Nat /\ DOMAIN js = 1 .. Len(js)
    BY LenProperties
  <2>2. DOMAIN r = 1 .. Len(js) - 1
    BY RemoveShifts DEF JobRemove
  <2> QED BY <2>1, <2>2
<1>3. \A k, m \in DOMAIN r : k < m => Old(k) < Old(m)
  BY <1>2
<1> HIDE DEF r, Old
<1>4. AscendingBelow(r, b)
  BY <1>1, <1>3 DEF AscendingBelow
<1> QED BY <1>4 DEF r

LEMMA AppendAscending ==
    ASSUME NEW js \in Seq(JobRecord), NEW id \in Nat \ {0}, NEW p \in Pids,
           AscendingBelow(js, id)
    PROVE  /\ AscendingBelow(JobAdd(js, id, p), id + 1)
           /\ IsFull(js) => AscendingBelow(JobAdd(js, id, p), id)
<1> DEFINE rec == [id |-> id, pid |-> p, running |-> TRUE]
           r == Append(js, rec)
<1>1. rec \in JobRecord /\ rec.id = id
  BY DEF JobRecord
<1>2. Len(js) \in Nat /\ DOMAIN js = 1 .. Len(js)
  BY LenProperties
<1>3. \A k \in DOMAIN js : js[k] \in JobRecord /\ js[k].id \in Nat
  <2>1. \A k \in DOMAIN js : js[k] \in JobRecord
    BY <1>2, ElementOfSeq
  <2>2. \A rc \in JobRecord : rc.id \in Nat
    BY DEF JobRecord
  <2> QED BY <2>1, <2>2
<1>4. CASE IsFull(js)
  <2>1. JobAdd(js, id, p) = js
    BY <1>4 DEF JobAdd
  <2>2. AscendingBelow(js, id + 1)
    BY <1>3 DEF AscendingBelow
  <2> QED BY <2>1, <2>2
<1>5. CASE ~IsFull(js)
  <2>1. JobAdd(js, id, p) = r
    BY <1>5 DEF JobAdd
  <2>2. /\ r \in Seq(JobRecord)
        /\ Len(r) = Len(js) + 1
        /\ \A k \in 1 .. Len(js) : r[k] = js[k]
        /\ r[Len(js) + 1] = rec
    BY <1>1, AppendProperties
  <2>3. DOMAIN r = 1 .. Len(js) + 1
    BY <2>2, LenProperties
  <2> HIDE DEF r, rec
  <2>4. \A k \in DOMAIN r : r[k].id < id + 1
    BY <1>1, <1>2, <1>3, <2>2, <2>3 DEF AscendingBelow
  <2>5. \A k, m \in DOMAIN r : k < m => r[k].id < r[m].id
    BY <1>1, <1>2, <1>3, <2>2, <2>3 DEF AscendingBelow
  <2> QED BY <1>5, <2>1, <2>4, <2>5 DEF AscendingBelow
<1> QED BY <1>4, <1>5

\* Setting a running flag changes neither ids nor pids.
LEMMA SetRunningKeeps ==
    ASSUME NEW js \in Seq(JobRecord), NEW i \in DOMAIN js
    PROVE  /\ DOMAIN JobSetRunning(js, i, TRUE) = DOMAIN js
           /\ \A k \in DOMAIN js :
                 /\ JobSetRunning(js, i, TRUE)[k].id = js[k].id
                 /\ JobSetRunning(js, i, TRUE)[k].pid = js[k].pid
<1>1. \A k \in DOMAIN js : js[k] \in JobRecord
  BY ElementOfSeq, LenProperties
<1> QED BY <1>1 DEF JobSetRunning, JobRecord

LEMMA NextAscending ==
    TypeInv /\ IdsAscending /\ [Next]_vars => IdsAscending'
<1> SUFFICES ASSUME TypeInv, IdsAscending, [Next]_vars PROVE IdsAscending'
  OBVIOUS
<1>0. jobs \in Seq(JobRecord) /\ nextId \in Nat \ {0}
  BY DEF TypeInv, TypeOK
<1>1. CASE UNCHANGED <<jobs, nextId>>
  BY <1>1 DEF IdsAscending, AscendingBelow
<1>2. CASE AddJob
  <2>1. Last(spawned) \in Pids
    BY <1>2, ElementOfSeq, EmptySeq, LenProperties DEF AddJob, Last, TypeInv, TypeOK
  <2> QED BY <1>0, <1>2, <2>1, AppendAscending DEF AddJob, IdsAscending
<1>3. ASSUME NEW i \in DOMAIN jobs, jobs' = JobRemove(jobs, i), nextId' = nextId
      PROVE  IdsAscending'
  BY <1>0, <1>3, RemoveAscending DEF IdsAscending
<1>4. CASE Bg
  <2>1. ASSUME NEW i \in DOMAIN jobs, jobs' = JobSetRunning(jobs, i, TRUE),
               nextId' = nextId
        PROVE  IdsAscending'
    <3>1. /\ DOMAIN jobs' = DOMAIN jobs
          /\ \A k \in DOMAIN jobs : jobs'[k].id = jobs[k].id
      BY <1>0, <2>1, SetRunningKeeps
    <3> QED BY <2>1, <3>1 DEF IdsAscending, AscendingBelow
  <2> QED BY <1>1, <1>4, <2>1 DEF Bg
<1>5. ASSUME NEW p \in Pids, ReapOne(p) PROVE IdsAscending'
  BY <1>1, <1>3, <1>5 DEF ReapOne
<1>6. ASSUME NEW t \in target, FgWait(t) PROVE IdsAscending'
  BY <1>1, <1>3, <1>6 DEF FgWait
<1>7. ASSUME NEW p \in Pids, Fork(p) \/ RunSpawn(p) \/ RunWait(p) \/ Child(p)
      PROVE  IdsAscending'
  BY <1>1, <1>7 DEF Fork, RunSpawn, RunWait, Child, Exit, Stop
<1>8. CASE User \/ ReapNone \/ ForkFail \/ WaitForeground \/ FgFind \/ RunFail
  BY <1>1, <1>8
  DEF User, EnterCommand, ReapNone, ForkFail, WaitForeground, FgFind, RunFail
<1>9. CASE UNCHANGED vars
  BY <1>1, <1>9 DEF vars
<1> QED BY <1>2, <1>4, <1>5, <1>6, <1>7, <1>8, <1>9 DEF Next, Shell

\* fg and bg always act on the one job the user named, whatever commands are
\* used: ids are unique, ordered and never issued twice.
THEOREM JobIdsAscend == Spec => []IdsAscending
<1>1. Init => TypeInv /\ IdsAscending
  BY InitType DEF Init, IdsAscending, AscendingBelow
<1>2. TypeInv /\ IdsAscending /\ [Next]_vars => (TypeInv /\ IdsAscending)'
  BY NextType, NextAscending
<1> QED BY <1>1, <1>2, PTL DEF Spec

-----------------------------------------------------------------------------
(* The table and the kernel: without run, jobs are uncollected children.   *)

\* The inductive invariant.  TracksChildren alone is not inductive: AddJob
\* must know that the pid it enters is uncollected and not in the table
\* (ForegroundOwned), and FgWait that the pid it collects is that of the
\* entry it removes (FgTargetInTable with ascending ids).
IInv ==
    /\ TypeInv
    /\ IdsAscending
    /\ TracksChildren
    /\ ForegroundOwned
    /\ FgTargetInTable
    /\ pc \notin {"spawn", "runwait"}

LEMMA InitIInv == Init => IInv
BY InitType
DEF Init, IInv, IdsAscending, AscendingBelow, TracksChildren, Tracked,
    ForegroundOwned, FgTargetInTable, NoTarget

\* Collecting a process and removing its entry leaves the rest tracked.
LEMMA RemoveTracked ==
    ASSUME NEW js \in Seq(JobRecord), NEW i \in DOMAIN js,
           NEW pr \in [Pids -> ProcStates], Tracked(js, pr)
    PROVE  /\ Tracked(JobRemove(js, i), [pr EXCEPT ![js[i].pid] = "free"])
           /\ ~HasPid(JobRemove(js, i), js[i].pid)
<1> DEFINE r == JobRemove(js, i)
           pr2 == [pr EXCEPT ![js[i].pid] = "free"]
           Old(k) == IF k < i THEN k ELSE k + 1
<1>1. \A k \in DOMAIN r : Old(k) \in DOMAIN js /\ Old(k) # i /\ r[k] = js[Old(k)]
  BY RemoveKeepsEntries DEF JobRemove
<1>2. \A k \in DOMAIN r : k \in Nat
  <2>1. DOMAIN r = 1 .. Len(js) - 1 /\ Len(js) \in Nat
    BY RemoveShifts, LenProperties DEF JobRemove
  <2> QED BY <2>1
<1>3. i \in Nat
  BY LenProperties
<1>4. \A k, m \in DOMAIN r : Old(k) = Old(m) => k = m
  BY <1>2, <1>3
<1> HIDE DEF r, Old
<1>5. \A k \in DOMAIN js : js[k].pid \in Pids
  <2>1. \A k \in DOMAIN js : js[k] \in JobRecord
    BY ElementOfSeq, LenProperties
  <2> QED BY <2>1 DEF JobRecord
<1>6. \A k \in DOMAIN r : r[k].pid # js[i].pid
  BY <1>1 DEF Tracked
<1>7. \A k \in DOMAIN r : pr2[r[k].pid] # "free"
  BY <1>1, <1>5, <1>6 DEF Tracked
<1>8. \A k, m \in DOMAIN r : r[k].pid = r[m].pid => k = m
  BY <1>1, <1>4 DEF Tracked
<1>9. Tracked(r, pr2)
  BY <1>7, <1>8 DEF Tracked
<1> QED BY <1>6, <1>9 DEF HasPid, r

\* A process state that is free nowhere it was not before keeps the jobs.
LEMMA TrackedMonotone ==
    ASSUME NEW js, NEW pr, NEW pr2, Tracked(js, pr),
           \A i \in DOMAIN js : pr[js[i].pid] # "free" => pr2[js[i].pid] # "free"
    PROVE  Tracked(js, pr2)
BY DEF Tracked

LEMMA AddTracked ==
    ASSUME NEW js \in Seq(JobRecord), NEW id \in Nat \ {0}, NEW p \in Pids,
           NEW pr, Tracked(js, pr), pr[p] # "free", ~HasPid(js, p)
    PROVE  Tracked(JobAdd(js, id, p), pr)
<1> DEFINE rec == [id |-> id, pid |-> p, running |-> TRUE]
           r == Append(js, rec)
<1>1. CASE IsFull(js)
  BY <1>1 DEF JobAdd
<1>2. CASE ~IsFull(js)
  <2>1. rec \in JobRecord /\ rec.pid = p
    BY DEF JobRecord
  <2>2. /\ r \in Seq(JobRecord)
        /\ Len(r) = Len(js) + 1
        /\ \A k \in 1 .. Len(js) : r[k] = js[k]
        /\ r[Len(js) + 1] = rec
    BY <2>1, AppendProperties
  <2>3. DOMAIN r = 1 .. Len(js) + 1 /\ DOMAIN js = 1 .. Len(js) /\ Len(js) \in Nat
    BY <2>2, LenProperties
  <2>4. JobAdd(js, id, p) = r
    BY <1>2 DEF JobAdd
  <2> HIDE DEF r, rec
  <2>5. \A k \in DOMAIN r : IF k \in DOMAIN js THEN r[k] = js[k] ELSE r[k] = rec /\ k = Len(js) + 1
    BY <2>2, <2>3
  <2>6. \A k \in DOMAIN r : pr[r[k].pid] # "free"
    BY <2>1, <2>5 DEF Tracked
  <2>7. \A k, m \in DOMAIN r : r[k].pid = r[m].pid => k = m
    BY <2>1, <2>5 DEF Tracked, HasPid
  <2> QED BY <2>4, <2>6, <2>7 DEF Tracked
<1> QED BY <1>1, <1>2

LEMMA NextTracks ==
    ASSUME "run" \notin Ops
    PROVE  IInv /\ [Next]_vars => IInv'
<1> SUFFICES ASSUME IInv, [Next]_vars PROVE IInv'
  OBVIOUS
<1> DEFINE Rest == /\ TracksChildren
                   /\ ForegroundOwned
                   /\ FgTargetInTable
                   /\ pc \notin {"spawn", "runwait"}
<1>1. TypeInv' /\ IdsAscending'
  BY NextType, NextAscending DEF IInv
<1>2. /\ jobs \in Seq(JobRecord)
      /\ proc \in [Pids -> ProcStates]
      /\ spawned \in Seq(Pids)
      /\ nextId \in Nat \ {0}
  BY DEF IInv, TypeInv, TypeOK
<1>3. /\ \A i \in DOMAIN jobs : jobs[i] \in JobRecord /\ jobs[i].pid \in Pids
      /\ \A i \in DOMAIN spawned : spawned[i] \in Pids
  <2>1. \A i \in DOMAIN jobs : jobs[i] \in JobRecord
    BY <1>2, ElementOfSeq, LenProperties
  <2>2. \A r \in JobRecord : r.pid \in Pids
    BY DEF JobRecord
  <2>3. \A i \in DOMAIN spawned : spawned[i] \in Pids
    BY <1>2, ElementOfSeq, LenProperties
  <2> QED BY <2>1, <2>2, <2>3
<1> USE DEF IInv, TracksChildren, ForegroundOwned, FgTargetInTable
<1>4. CASE ReapNone
  <2>1. pc' # "spawn"
    <3>1. CASE cmd \in Commands
      <4>1. cmd.op # "run" /\ cmd.op \in OpKinds
        BY <3>1, CommandOps
      <4> QED BY <1>4, <4>1 DEF ReapNone, FirstStep, OpKinds
    <3>2. CASE cmd = NoCommand
      BY <1>4, <3>2 DEF ReapNone, FirstStep, NoCommand
    <3> QED BY <3>1, <3>2 DEF TypeInv, TypeOK
  <2>2. pc' \in {"prompt", "fork", "fgfind", "bgfind"}
    <3>1. cmd.op \in OpKinds
      <4>1. CASE cmd \in Commands
        BY <4>1, CommandOps
      <4>2. CASE cmd = NoCommand
        BY <4>2 DEF NoCommand, OpKinds
      <4> QED BY <4>1, <4>2 DEF TypeInv, TypeOK
    <3> QED BY <1>4, <2>1, <3>1 DEF ReapNone, FirstStep, OpKinds
  <2>3. spawned = <<>> /\ DOMAIN spawned = {}
    BY <1>4 DEF ReapNone
  <2>4. Rest'
    BY <1>4, <2>2, <2>3 DEF ReapNone, ToPids, Tracked
  <2> QED BY <1>1, <2>4
<1>5. CASE ForkFail
  BY <1>1, <1>5 DEF ForkFail, ToPids
<1>6. CASE AddJob
  <2>1. Len(spawned) \in DOMAIN spawned /\ Last(spawned) \in ToPids(spawned)
    BY <1>2, <1>6, EmptySeq, LenProperties DEF AddJob, Last, ToPids
  <2>2. /\ Last(spawned) \in Pids
        /\ proc[Last(spawned)] # "free"
        /\ ~HasPid(jobs, Last(spawned))
    BY <1>3, <1>6, <2>1 DEF AddJob, ToPids
  <2>3. Tracked(jobs', proc)
    BY <1>2, <1>6, <2>2, AddTracked DEF AddJob
  <2>4. Rest'
    BY <1>6, <2>3 DEF AddJob, ToPids
  <2> QED BY <1>1, <2>4
<1>7. CASE WaitForeground
  <2> DEFINE h == Head(spawned)
  <2>1. spawned # <<>> /\ Len(spawned) \in Nat /\ DOMAIN spawned = 1 .. Len(spawned)
    BY <1>2, <1>7, LenProperties DEF WaitForeground
  <2>2. /\ Tail(spawned) \in Seq(Pids)
        /\ Len(Tail(spawned)) = Len(spawned) - 1
        /\ \A k \in 1 .. Len(spawned) - 1 : Tail(spawned)[k] = spawned[k + 1]
    BY <1>2, <2>1, HeadTailProperties
  <2>3. Len(spawned) # 0 /\ h = spawned[1] /\ 1 \in DOMAIN spawned
    BY <1>2, <2>1, EmptySeq
  <2>4. DOMAIN Tail(spawned) = 1 .. Len(spawned) - 1
    BY <2>2, LenProperties
  <2>5. h \in ToPids(spawned) /\ h \in Pids
    BY <1>3, <2>3 DEF ToPids
  <2>6. proc' = [proc EXCEPT ![h] = "free"] /\ spawned' = Tail(spawned) /\ jobs' = jobs
    BY <1>7 DEF WaitForeground, Collect
  <2>7. ~HasPid(jobs, h)
    BY <1>7, <2>5 DEF WaitForeground
  <2>8. Tracked(jobs', proc')
    BY <1>2, <1>3, <2>6, <2>7 DEF Tracked, HasPid
  <2>9. \A k \in DOMAIN Tail(spawned) :
           /\ k + 1 \in DOMAIN spawned
           /\ Tail(spawned)[k] = spawned[k + 1]
           /\ spawned[k + 1] # h
    BY <2>1, <2>2, <2>3, <2>4
  <2> HIDE DEF h
  <2>10. \A p \in ToPids(Tail(spawned)) :
            p \in ToPids(spawned) /\ p \in Pids /\ p # h
    BY <1>3, <2>9 DEF ToPids
  <2>11. \A p \in ToPids(spawned') : proc'[p] # "free" /\ ~HasPid(jobs', p)
    BY <1>2, <1>7, <2>6, <2>10 DEF WaitForeground
  <2>12. \A i, j \in DOMAIN spawned' : spawned'[i] = spawned'[j] => i = j
    BY <2>1, <2>4, <2>6, <2>9
  <2>13. pc' = "prompt" => spawned' = <<>>
    <3>1. SUFFICES ASSUME pc' = "prompt" PROVE Tail(spawned) = <<>>
      BY <2>6
    <3>2. Len(Tail(spawned)) = 0
      BY <1>7, <2>1, <2>2, <3>1 DEF WaitForeground
    <3> QED BY <2>2, <3>2, EmptySeq
  <2>14. pc' \in {"prompt", "wait"} /\ target' = target /\ pc = "wait"
    BY <1>7 DEF WaitForeground
  <2>15. Rest'
    BY <1>1, <2>8, <2>11, <2>12, <2>13, <2>14 DEF TypeInv
  <2> QED BY <1>1, <2>15
<1>8. CASE FgFind
  <2>1. spawned = <<>>
    BY <1>8 DEF FgFind
  <2>2. Rest'
    BY <1>8, <2>1 DEF FgFind, FirstWithId, Tracked, ToPids
  <2> QED BY <1>1, <2>2
<1>9. CASE Bg
  <2>1. ASSUME NEW i \in DOMAIN jobs, jobs' = JobSetRunning(jobs, i, TRUE)
        PROVE  /\ DOMAIN jobs' = DOMAIN jobs
               /\ \A k \in DOMAIN jobs : jobs'[k].pid = jobs[k].pid
    BY <1>2, <2>1, SetRunningKeeps
  <2>2. /\ DOMAIN jobs' = DOMAIN jobs
        /\ \A k \in DOMAIN jobs : jobs'[k].pid = jobs[k].pid
    BY <1>9, <2>1 DEF Bg
  <2>3. \A p \in Pids : proc[p] # "free" => proc'[p] # "free"
    BY <1>2, <1>9 DEF Bg
  <2>4. Tracked(jobs', proc')
    BY <1>3, <2>2, <2>3 DEF Tracked
  <2>5. spawned' = <<>> /\ pc' = "prompt" /\ target' = NoTarget
    BY <1>9 DEF Bg
  <2>6. Rest'
    BY <2>4, <2>5 DEF ToPids
  <2> QED BY <1>1, <2>6
<1>10. ASSUME NEW p \in Pids, ReapOne(p) PROVE IInv'
  <2>1. CASE HasPid(jobs, p)
    <3>1. PICK i \in DOMAIN jobs : jobs[i].pid = p /\ jobs' = JobRemove(jobs, i)
      BY <1>10, <2>1 DEF ReapOne, FirstWithPid
    <3>2. Tracked(jobs', proc')
      BY <1>2, <1>10, <3>1, RemoveTracked DEF ReapOne
    <3> QED BY <1>1, <1>10, <3>2 DEF ReapOne, ToPids
  <2>2. CASE ~HasPid(jobs, p)
    <3>1. Tracked(jobs', proc')
      BY <1>2, <1>3, <1>10, <2>2 DEF ReapOne, Tracked, HasPid
    <3> QED BY <1>1, <1>10, <3>1 DEF ReapOne, ToPids
  <2> QED BY <2>1, <2>2
<1>11. ASSUME NEW p \in Pids, Fork(p) PROVE IInv'
  <2>1. /\ Append(spawned, p) \in Seq(Pids)
        /\ Len(Append(spawned, p)) = Len(spawned) + 1
        /\ \A k \in 1 .. Len(spawned) : Append(spawned, p)[k] = spawned[k]
        /\ Append(spawned, p)[Len(spawned) + 1] = p
    BY <1>2, AppendProperties
  <2>2. /\ Len(spawned) \in Nat
        /\ DOMAIN spawned = 1 .. Len(spawned)
        /\ DOMAIN Append(spawned, p) = 1 .. Len(spawned) + 1
    BY <1>2, <2>1, LenProperties
  <2>3. /\ spawned' = Append(spawned, p)
        /\ jobs' = jobs
        /\ proc' = [proc EXCEPT ![p] = "running"]
        /\ pc = "fork" /\ proc[p] = "free"
        /\ pc' \in {"fork", "add", "wait"}
        /\ target' = target
    BY <1>11 DEF Fork
  <2>4. Tracked(jobs', proc')
    BY <1>2, <1>3, <2>3 DEF Tracked
  <2>5. \A k \in DOMAIN spawned' :
           IF k \in DOMAIN spawned THEN spawned'[k] = spawned[k]
           ELSE spawned'[k] = p /\ k = Len(spawned) + 1
    BY <2>1, <2>2, <2>3
  <2>6. \A q \in ToPids(spawned) : q # p /\ q \in Pids
    BY <1>3, <2>3 DEF ToPids
  <2>7. ~HasPid(jobs, p)
    BY <2>3 DEF HasPid, Tracked
  <2>8. \A q \in ToPids(spawned') : q \in ToPids(spawned) \/ q = p
    BY <2>5 DEF ToPids
  <2>9. \A q \in ToPids(spawned') : proc'[q] # "free" /\ ~HasPid(jobs', q)
    BY <1>2, <2>3, <2>6, <2>7, <2>8
  <2>10. \A k \in DOMAIN spawned : spawned[k] # p
    BY <2>6 DEF ToPids
  <2>11. \A i, j \in DOMAIN spawned' : spawned'[i] = spawned'[j] => i = j
    BY <2>5, <2>10
  <2> QED BY <1>1, <2>3, <2>4, <2>9, <2>11 DEF TypeInv
<1>12. ASSUME NEW t \in target, FgWait(t) PROVE IInv'
  <2>1. PICK j \in DOMAIN jobs : t = jobs[j]
    BY <1>12 DEF FgWait
  <2>2. HasId(jobs, t.id)
    BY <2>1 DEF HasId
  <2>3. PICK i \in DOMAIN jobs : jobs[i].id = t.id /\ jobs' = JobRemove(jobs, i)
    BY <1>12, <2>2 DEF FgWait, FirstWithId
  <2>4. i = j
    <3>1. i \in Nat /\ j \in Nat /\ jobs[i].id \in Nat /\ jobs[j].id \in Nat
      BY <1>2, <1>3, LenProperties DEF JobRecord
    <3>2. jobs[i].id = jobs[j].id
      BY <2>1, <2>3
    <3>3. ~(i < j) /\ ~(j < i)
      BY <3>1, <3>2 DEF IdsAscending, AscendingBelow
    <3> QED BY <3>1, <3>3
  <2>5. proc' = [proc EXCEPT ![jobs[i].pid] = "free"]
    BY <1>12, <2>1, <2>4 DEF FgWait, Collect
  <2>6. Tracked(jobs', proc')
    BY <1>2, <2>3, <2>5, RemoveTracked
  <2> QED BY <1>1, <1>12, <2>6 DEF FgWait, ToPids
<1>13. ASSUME NEW c \in Commands, EnterCommand(c) PROVE IInv'
  BY <1>1, <1>13 DEF EnterCommand, ToPids
<1>14. ASSUME NEW p \in Pids, Child(p) PROVE IInv'
  <2>1. /\ \A q \in Pids : proc[q] # "free" => proc'[q] # "free"
        /\ UNCHANGED <<jobs, nextId, pc, cmd, spawned, target>>
    BY <1>2, <1>14 DEF Child, Exit, Stop
  <2>2. Tracked(jobs', proc')
    BY <1>3, <2>1 DEF Tracked
  <2>3. \A q \in ToPids(spawned) : q \in Pids
    BY <1>3 DEF ToPids
  <2> QED BY <1>1, <2>1, <2>2, <2>3
<1>15. CASE UNCHANGED vars
  BY <1>1, <1>15 DEF vars
<1>16. ~RunFail /\ \A p \in Pids : ~RunSpawn(p) /\ ~RunWait(p)
  BY DEF RunFail, RunSpawn, RunWait
<1> QED
  BY <1>4, <1>5, <1>6, <1>7, <1>8, <1>9, <1>10, <1>11, <1>12, <1>13, <1>14, <1>15,
     <1>16
  DEF Next, Shell, User

\* Without run, every entry of the table is an uncollected child and no
\* process has two entries, at every table size and pipeline length.
THEOREM JobsAreChildren ==
    ASSUME "run" \notin Ops
    PROVE  Spec => [](TracksChildren /\ FgTargetInTable)
<1>1. Init => IInv
  BY InitIInv
<1>2. IInv /\ [Next]_vars => IInv'
  BY NextTracks
<1>3. IInv => TracksChildren /\ FgTargetInTable
  BY DEF IInv
<1> QED BY <1>1, <1>2, <1>3, PTL DEF Spec

\* Without run, the processes of the line being executed are waited for by
\* that line and by nobody else.
THEOREM ForegroundIsOwned ==
    ASSUME "run" \notin Ops
    PROVE  Spec => []ForegroundOwned
<1>1. Init => IInv
  BY InitIInv
<1>2. IInv /\ [Next]_vars => IInv'
  BY NextTracks
<1>3. IInv => ForegroundOwned
  BY DEF IInv
<1> QED BY <1>1, <1>2, <1>3, PTL DEF Spec

\* Only the entry removed can leave, and only its process was collected.
LEMMA StepKeepsOrCollects ==
    ASSUME "run" \notin Ops, IInv, [Next]_vars, NEW i \in DOMAIN jobs,
           jobs[i].pid \notin { jobs'[k].pid : k \in DOMAIN jobs' }
    PROVE  proc[jobs[i].pid] = "zombie" /\ proc'[jobs[i].pid] = "free"
<1>1. jobs \in Seq(JobRecord) /\ proc \in [Pids -> ProcStates]
  BY DEF IInv, TypeInv, TypeOK
<1>2. jobs[i] \in JobRecord /\ jobs[i].pid \in Pids
  <2>1. jobs[i] \in JobRecord
    BY <1>1, ElementOfSeq, LenProperties
  <2> QED BY <2>1 DEF JobRecord
<1>3. ~\E k \in DOMAIN jobs' : jobs'[k] = jobs[i]
  OBVIOUS
<1>4. jobs' # jobs
  BY <1>3
<1>5. ASSUME NEW j \in DOMAIN jobs, jobs' = JobRemove(jobs, j) PROVE j = i
  BY <1>1, <1>3, <1>5, RemoveLosesOne DEF JobRemove
<1>6. ASSUME NEW p \in Pids, ReapOne(p)
      PROVE  proc[jobs[i].pid] = "zombie" /\ proc'[jobs[i].pid] = "free"
  <2>1. PICK j \in DOMAIN jobs : jobs[j].pid = p /\ jobs' = JobRemove(jobs, j)
    BY <1>4, <1>6 DEF ReapOne, FirstWithPid
  <2>2. jobs[i].pid = p
    BY <1>5, <2>1
  <2> QED BY <1>1, <1>6, <2>2 DEF ReapOne
<1>7. ASSUME NEW t \in target, FgWait(t)
      PROVE  proc[jobs[i].pid] = "zombie" /\ proc'[jobs[i].pid] = "free"
  <2>1. PICK m \in DOMAIN jobs : t = jobs[m]
    BY <1>7 DEF FgWait, IInv, FgTargetInTable
  <2>2. PICK j \in DOMAIN jobs : jobs[j].id = t.id /\ jobs' = JobRemove(jobs, j)
    BY <1>4, <1>7 DEF FgWait, FirstWithId
  <2>3. j = i
    BY <1>5, <2>2
  <2>4. m = i
    <3>1. \A k \in DOMAIN jobs : k \in Nat /\ jobs[k] \in JobRecord
      BY <1>1, ElementOfSeq, LenProperties
    <3>2. \A r \in JobRecord : r.id \in Nat
      BY DEF JobRecord
    <3>3. ~(m < i) /\ ~(i < m)
      BY <2>1, <2>2, <2>3, <3>1, <3>2 DEF IInv, IdsAscending, AscendingBelow
    <3> QED BY <3>1, <3>3
  <2>5. proc[jobs[i].pid] # "free"
    BY DEF IInv, TracksChildren, Tracked
  <2> QED BY <1>1, <1>2, <1>7, <2>1, <2>4, <2>5 DEF FgWait, Collect
<1>8. ~AddJob
  <2>1. SUFFICES ASSUME AddJob PROVE FALSE
    OBVIOUS
  <2>2. ~IsFull(jobs) /\ jobs' = Append(jobs, [id |-> nextId, pid |-> Last(spawned), running |-> TRUE])
    BY <1>4, <2>1 DEF AddJob, JobAdd
  <2>3. /\ DOMAIN jobs = 1 .. Len(jobs) /\ Len(jobs) \in Nat
        /\ spawned \in Seq(Pids) /\ spawned # <<>>
        /\ nextId \in Nat \ {0}
    BY <1>1, <2>1, LenProperties DEF AddJob, IInv, TypeInv, TypeOK
  <2>4. Last(spawned) \in Pids
    BY <2>3, ElementOfSeq, EmptySeq, LenProperties DEF Last
  <2>5. [id |-> nextId, pid |-> Last(spawned), running |-> TRUE] \in JobRecord
    BY <2>3, <2>4 DEF JobRecord
  <2>6. i \in DOMAIN jobs' /\ jobs'[i] = jobs[i]
    BY <1>1, <2>2, <2>3, <2>5, AppendProperties, LenProperties
  <2> QED BY <1>3, <2>6
<1>9. ~Bg
  <2>1. SUFFICES ASSUME NEW j \in DOMAIN jobs, jobs' = JobSetRunning(jobs, j, TRUE)
                 PROVE  FALSE
    BY <1>4 DEF Bg
  <2>2. i \in DOMAIN jobs' /\ jobs'[i].pid = jobs[i].pid
    BY <1>1, <2>1, SetRunningKeeps
  <2> QED BY <2>2
<1>10. ~(ReapNone \/ ForkFail \/ WaitForeground \/ FgFind \/ RunFail \/ User)
  BY <1>4 DEF ReapNone, ForkFail, WaitForeground, FgFind, RunFail, User, EnterCommand
<1>11. \A p \in Pids : ~(Fork(p) \/ RunSpawn(p) \/ RunWait(p) \/ Child(p))
  BY <1>4 DEF Fork, RunSpawn, RunWait, Child, Exit, Stop
<1>12. ~UNCHANGED vars
  BY <1>4 DEF vars
<1> QED BY <1>6, <1>7, <1>8, <1>9, <1>10, <1>11, <1>12 DEF Next, Shell

\* Without run, a job is forgotten only in the step that collects its
\* process: a program that can still run is never dropped from the table.
THEOREM JobsLeaveWithTheirProcess ==
    ASSUME "run" \notin Ops
    PROVE  Spec => JobLeavesWithItsProcess
<1>1. Init => IInv
  BY InitIInv
<1>2. IInv /\ [Next]_vars => IInv'
  BY NextTracks
<1>3. IInv /\ [Next]_vars =>
         [\A i \in DOMAIN jobs :
             jobs[i].pid \notin { jobs'[k].pid : k \in DOMAIN jobs' }
               => proc[jobs[i].pid] = "zombie" /\ proc'[jobs[i].pid] = "free"]_vars
  BY StepKeepsOrCollects
<1> QED BY <1>1, <1>2, <1>3, PTL DEF Spec, JobLeavesWithItsProcess

-----------------------------------------------------------------------------
(* run, for every choice of Ops                                            *)

\* While run waits, it has spawned one process.
RunInv == pc = "runwait" => \E p \in Pids : spawned = <<p>>

LEMMA NextRunInv == TypeInv /\ RunInv /\ [Next]_vars => RunInv'
<1> SUFFICES ASSUME TypeInv, RunInv, [Next]_vars PROVE RunInv'
  OBVIOUS
<1>1. ASSUME NEW p \in Pids, RunSpawn(p) PROVE RunInv'
  BY <1>1 DEF RunSpawn, RunInv
<1>2. ASSUME NEW p \in Pids, ReapOne(p) \/ Fork(p) \/ RunWait(p) \/ Child(p)
      PROVE  RunInv'
  BY <1>2 DEF ReapOne, Fork, RunWait, Child, Exit, Stop, RunInv
<1>3. CASE User \/ ReapNone
  <2>1. pc' \in {"reap", FirstStep(cmd)} /\ spawned' = spawned
    BY <1>3 DEF User, EnterCommand, ReapNone
  <2>2. FirstStep(cmd) # "runwait"
    BY FirstStepType DEF TypeInv, TypeOK
  <2> QED BY <2>1, <2>2 DEF RunInv
<1>4. CASE ForkFail \/ AddJob \/ WaitForeground \/ FgFind \/ Bg \/ RunFail
  BY <1>4 DEF ForkFail, AddJob, WaitForeground, FgFind, Bg, RunFail, RunInv
<1>5. ASSUME NEW t \in target, FgWait(t) PROVE RunInv'
  BY <1>5 DEF FgWait, RunInv
<1>6. CASE UNCHANGED vars
  BY <1>6 DEF vars, RunInv
<1> QED BY <1>1, <1>2, <1>3, <1>4, <1>5, <1>6 DEF Next, Shell

\* With no other child around, the wait call of run collects the child that
\* it spawned; with others it may not, and the shell goes on without it.
THEOREM RunAloneCollectsItsChild == Spec => RunAloneWaits
<1> DEFINE Alone ==
        pc = "runwait" /\ pc' = "prompt"
          /\ (\A p \in Pids \ ToPids(spawned) : proc[p] = "free")
        => \A p \in ToPids(spawned) : proc'[p] = "free"
<1>1. Init => TypeInv /\ RunInv
  BY InitType DEF Init, RunInv
<1>2. TypeInv /\ RunInv /\ [Next]_vars => (TypeInv /\ RunInv)'
  BY NextType, NextRunInv
<1>3. TypeInv /\ RunInv /\ [Next]_vars => [Alone]_vars
  <2> SUFFICES ASSUME TypeInv, RunInv, Next, pc = "runwait", pc' = "prompt",
                      \A p \in Pids \ ToPids(spawned) : proc[p] = "free"
               PROVE  \A p \in ToPids(spawned) : proc'[p] = "free"
    OBVIOUS
  <2>1. PICK p \in Pids : spawned = <<p>>
    BY DEF RunInv
  <2>2. ToPids(spawned) = {p}
    BY <2>1 DEF ToPids
  <2>3. \E q \in Pids : RunWait(q)
    BY DEF Next, Shell, User, EnterCommand, ReapNone, ForkFail, AddJob, WaitForeground,
           FgFind, Bg, RunFail, ReapOne, Fork, RunSpawn, FgWait, Child, Exit, Stop
  <2>4. PICK q \in Pids : RunWait(q)
    BY <2>3
  <2>5. q = p
    BY <2>2, <2>4 DEF RunWait
  <2>6. proc \in [Pids -> ProcStates]
    BY DEF TypeInv, TypeOK
  <2> QED BY <2>2, <2>4, <2>5, <2>6 DEF RunWait
<1> QED BY <1>1, <1>2, <1>3, PTL DEF Spec, RunAloneWaits

-----------------------------------------------------------------------------
(* The table implements BackgroundJobs                                     *)

\* The life of an id, read off its only entry if it has one.
LifeReadOff ==
    \A id \in 1 .. MaxIds :
        /\ id >= nextId => Life(id) = "unused"
        /\ id < nextId /\ ~HasId(jobs, id) => Life(id) = "gone"
        /\ \A i \in DOMAIN jobs : jobs[i].id = id =>
              /\ id < nextId
              /\ Life(id) = IF proc[jobs[i].pid] = "zombie" THEN "ended" ELSE "active"

LEMMA IdsDiffer ==
    ASSUME TypeInv, IdsAscending,
           NEW i \in DOMAIN jobs, NEW j \in DOMAIN jobs, jobs[i].id = jobs[j].id
    PROVE  i = j
<1>1. /\ DOMAIN jobs = 1 .. Len(jobs) /\ Len(jobs) \in Nat
      /\ jobs[i] \in JobRecord /\ jobs[j] \in JobRecord
  BY LenProperties, ElementOfSeq DEF TypeInv, TypeOK
<1>2. jobs[i].id \in Nat
  BY <1>1 DEF JobRecord
<1>3. ~(i < j) /\ ~(j < i)
  BY <1>2 DEF IdsAscending, AscendingBelow
<1> QED BY <1>1, <1>3

LEMMA LifeIsReadOff == TypeInv /\ IdsAscending => LifeReadOff
<1> SUFFICES ASSUME TypeInv, IdsAscending, NEW id \in 1 .. MaxIds
             PROVE  /\ id >= nextId => Life(id) = "unused"
                    /\ id < nextId /\ ~HasId(jobs, id) => Life(id) = "gone"
                    /\ \A i \in DOMAIN jobs : jobs[i].id = id =>
                          /\ id < nextId
                          /\ Life(id) = IF proc[jobs[i].pid] = "zombie" THEN "ended" ELSE "active"
  BY DEF LifeReadOff
<1>1. id \in Nat /\ nextId \in Nat
  BY MaxIdsAssumption DEF TypeInv, TypeOK
<1>2. ASSUME NEW i \in DOMAIN jobs, jobs[i].id = id
      PROVE  /\ id < nextId
             /\ Life(id) = IF proc[jobs[i].pid] = "zombie" THEN "ended" ELSE "active"
  <2>1. id < nextId
    BY <1>2 DEF IdsAscending, AscendingBelow
  <2>2. \A j \in DOMAIN jobs : jobs[j].id = id <=> j = i
    BY <1>2, IdsDiffer
  <2>3. ~(id >= nextId)
    BY <1>1, <2>1
  <2> QED BY <2>1, <2>2, <2>3 DEF Life, HasId
<1> QED BY <1>1, <1>2 DEF Life

\* Steps that keep the ids in the table, the id counter and which of the
\* table's processes have ended.
LEMMA SameLife ==
    ASSUME LifeReadOff, LifeReadOff', nextId' = nextId, DOMAIN jobs' = DOMAIN jobs,
           \A i \in DOMAIN jobs :
              /\ jobs'[i].id = jobs[i].id
              /\ proc'[jobs'[i].pid] = "zombie" <=> proc[jobs[i].pid] = "zombie"
    PROVE  UNCHANGED [id \in 1 .. MaxIds |-> Life(id)]
<1>1. ASSUME NEW id \in 1 .. MaxIds PROVE Life(id)' = Life(id)
  <2>1. CASE \E i \in DOMAIN jobs : jobs[i].id = id
    <3>1. PICK i \in DOMAIN jobs : jobs[i].id = id
      BY <2>1
    <3>2. Life(id) = IF proc[jobs[i].pid] = "zombie" THEN "ended" ELSE "active"
      BY <3>1 DEF LifeReadOff
    <3>3. Life(id)' = IF proc'[jobs'[i].pid] = "zombie" THEN "ended" ELSE "active"
      BY <3>1 DEF LifeReadOff
    <3> QED BY <3>2, <3>3
  <2>2. CASE ~\E i \in DOMAIN jobs : jobs[i].id = id
    <3>1. ~HasId(jobs, id) /\ ~HasId(jobs', id)
      BY <2>2 DEF HasId
    <3>2. CASE id >= nextId
      BY <3>2 DEF LifeReadOff
    <3>3. CASE ~(id >= nextId)
      BY <3>1, <3>3 DEF Life
    <3> QED BY <3>2, <3>3
  <2> QED BY <2>1, <2>2
<1> QED BY <1>1

\* Collecting a process and removing its entry forgets its job.
LEMMA RemoveForgets ==
    ASSUME IInv, LifeReadOff, LifeReadOff', NEW i \in DOMAIN jobs,
           jobs' = JobRemove(jobs, i), nextId' = nextId,
           proc[jobs[i].pid] = "zombie", proc' = [proc EXCEPT ![jobs[i].pid] = "free"]
    PROVE  [Abstract!Next]_[id \in 1 .. MaxIds |-> Life(id)]
<1> DEFINE gone == jobs[i].id
           life == [id \in 1 .. MaxIds |-> Life(id)]
<1>1. /\ jobs \in Seq(JobRecord)
      /\ \A k \in DOMAIN jobs : jobs[k].pid = jobs[i].pid => k = i
  BY DEF IInv, TypeInv, TypeOK, TracksChildren, Tracked
<1>2. \A k \in DOMAIN jobs' : \E m \in DOMAIN jobs : m # i /\ jobs'[k] = jobs[m]
  <2> TAKE k \in DOMAIN jobs'
  <2> DEFINE m == IF k < i THEN k ELSE k + 1
  <2>1. m \in DOMAIN jobs /\ m # i /\ jobs'[k] = jobs[m]
    BY <1>1, RemoveKeepsEntries DEF JobRemove
  <2> QED BY <2>1
<1>3. \A m \in DOMAIN jobs : m # i => \E k \in DOMAIN jobs' : jobs'[k] = jobs[m]
  BY <1>1, RemoveLosesOne DEF JobRemove
<1>4. \A m \in DOMAIN jobs : m # i => jobs[m].id # gone
  BY IdsDiffer DEF IInv
<1>5. ASSUME NEW id \in 1 .. MaxIds, id # gone PROVE Life(id)' = Life(id)
  <2>1. CASE \E m \in DOMAIN jobs : jobs[m].id = id
    <3>1. PICK m \in DOMAIN jobs : jobs[m].id = id
      BY <2>1
    <3>2. PICK k \in DOMAIN jobs' : jobs'[k] = jobs[m]
      BY <1>3, <1>5, <3>1
    <3>3. jobs[m].pid # jobs[i].pid
      BY <1>1, <1>5, <3>1
    <3>4. proc'[jobs'[k].pid] = proc[jobs[m].pid]
      BY <3>2, <3>3
    <3>5. Life(id) = IF proc[jobs[m].pid] = "zombie" THEN "ended" ELSE "active"
      BY <3>1 DEF LifeReadOff
    <3>6. Life(id)' = IF proc'[jobs'[k].pid] = "zombie" THEN "ended" ELSE "active"
      BY <3>1, <3>2 DEF LifeReadOff
    <3> QED BY <3>4, <3>5, <3>6
  <2>2. CASE ~\E m \in DOMAIN jobs : jobs[m].id = id
    <3>1. ~HasId(jobs, id) /\ ~HasId(jobs', id)
      BY <1>2, <2>2 DEF HasId
    <3>2. CASE id >= nextId
      BY <3>2 DEF LifeReadOff
    <3>3. CASE ~(id >= nextId)
      BY <3>1, <3>3 DEF Life
    <3> QED BY <3>2, <3>3
  <2> QED BY <2>1, <2>2
<1>6. CASE gone \in 1 .. MaxIds
  <2>1. PICK g \in 1 .. MaxIds : g = gone
    BY <1>6
  <2>2. Life(g) = "ended" /\ g < nextId
    BY <2>1 DEF LifeReadOff
  <2>3. ~HasId(jobs', g)
    BY <1>2, <1>4, <2>1 DEF HasId
  <2>4. Life(g)' = "gone"
    BY <2>2, <2>3 DEF LifeReadOff
  <2>5. life' = [life EXCEPT ![g] = "gone"]
    BY <1>5, <2>1, <2>4
  <2>6. life[g] = "ended"
    BY <2>2
  <2>7. Abstract!Forget(g) /\ g \in Abstract!Ids
    BY <2>5, <2>6 DEF Abstract!Forget, Abstract!Ids
  <2> QED BY <2>7 DEF Abstract!Next
<1>7. CASE gone \notin 1 .. MaxIds
  <2>1. life' = life
    BY <1>5, <1>7
  <2> QED BY <2>1
<1> QED BY <1>6, <1>7

\* A job that is entered gets the next id, all lower ones being issued.
LEMMA AddLaunches ==
    ASSUME IInv, LifeReadOff, LifeReadOff', AddJob
    PROVE  [Abstract!Next]_[id \in 1 .. MaxIds |-> Life(id)]
<1> DEFINE life == [id \in 1 .. MaxIds |-> Life(id)]
           rec == [id |-> nextId, pid |-> Last(spawned), running |-> TRUE]
<1>1. /\ jobs \in Seq(JobRecord) /\ DOMAIN jobs = 1 .. Len(jobs) /\ Len(jobs) \in Nat
      /\ nextId \in Nat \ {0} /\ MaxIds \in Nat
      /\ Last(spawned) \in Pids
  <2>1. spawned \in Seq(Pids) /\ spawned # <<>>
    BY DEF AddJob, IInv, TypeInv, TypeOK
  <2>2. Last(spawned) \in Pids
    BY <2>1, ElementOfSeq, EmptySeq, LenProperties DEF Last
  <2> QED BY <2>2, LenProperties, MaxIdsAssumption DEF IInv, TypeInv, TypeOK
<1>2. CASE IsFull(jobs)
  <2>1. nextId' = nextId /\ jobs' = jobs /\ proc' = proc
    BY <1>2 DEF AddJob, JobAdd
  <2> QED BY <2>1, SameLife
<1>3. CASE ~IsFull(jobs)
  <2>1. nextId' = nextId + 1 /\ jobs' = Append(jobs, rec) /\ proc' = proc
    BY <1>3 DEF AddJob, JobAdd
  <2>2. rec \in JobRecord /\ rec.id = nextId
    BY <1>1 DEF JobRecord
  <2>3. /\ DOMAIN jobs' = 1 .. Len(jobs) + 1
        /\ \A k \in DOMAIN jobs : jobs'[k] = jobs[k]
        /\ jobs'[Len(jobs) + 1] = rec
    <3>1. /\ Append(jobs, rec) \in Seq(JobRecord)
          /\ Len(Append(jobs, rec)) = Len(jobs) + 1
          /\ \A k \in 1 .. Len(jobs) : Append(jobs, rec)[k] = jobs[k]
          /\ Append(jobs, rec)[Len(jobs) + 1] = rec
      BY <1>1, <2>2, AppendProperties
    <3> QED BY <1>1, <2>1, <3>1, LenProperties
  <2> HIDE DEF rec
  <2>4. \A k \in DOMAIN jobs : k \in DOMAIN jobs'
    BY <1>1, <2>3
  <2>5. \A k \in DOMAIN jobs' : k \in DOMAIN jobs \/ jobs'[k].id = nextId
    BY <1>1, <2>2, <2>3
  <2>6. ASSUME NEW id \in 1 .. MaxIds, id # nextId PROVE Life(id)' = Life(id)
    <3>0. id \in Nat
      BY <1>1
    <3>1. CASE \E m \in DOMAIN jobs : jobs[m].id = id
      <4>1. PICK m \in DOMAIN jobs : jobs[m].id = id
        BY <3>1
      <4>2. m \in DOMAIN jobs' /\ jobs'[m] = jobs[m]
        BY <2>3, <2>4
      <4>3. Life(id) = IF proc[jobs[m].pid] = "zombie" THEN "ended" ELSE "active"
        BY <4>1 DEF LifeReadOff
      <4>4. Life(id)' = IF proc'[jobs'[m].pid] = "zombie" THEN "ended" ELSE "active"
        BY <4>1, <4>2 DEF LifeReadOff
      <4> QED BY <2>1, <4>2, <4>3, <4>4
    <3>2. CASE ~\E m \in DOMAIN jobs : jobs[m].id = id
      <4>1. ~HasId(jobs, id) /\ ~HasId(jobs', id)
        BY <2>3, <2>5, <2>6, <3>2 DEF HasId
      <4>2. CASE id >= nextId
        <5>1. id >= nextId'
          BY <1>1, <2>1, <2>6, <3>0, <4>2
        <5> QED BY <4>2, <5>1 DEF LifeReadOff
      <4>3. CASE id < nextId
        <5>1. id < nextId'
          BY <1>1, <2>1, <3>0, <4>3
        <5> QED BY <4>1, <4>3, <5>1 DEF LifeReadOff
      <4> QED BY <1>1, <3>0, <4>2, <4>3
    <3> QED BY <3>1, <3>2
  <2>7. CASE nextId \in 1 .. MaxIds
    <3>1. PICK g \in 1 .. MaxIds : g = nextId
      BY <2>7
    <3>2. Life(g) = "unused"
      BY <1>1, <3>1 DEF LifeReadOff
    <3>3. Life(g)' \in {"active", "ended"}
      <4>1. Len(jobs) + 1 \in DOMAIN jobs' /\ jobs'[Len(jobs) + 1].id = g
        BY <1>1, <2>2, <2>3, <3>1
      <4> QED BY <4>1 DEF LifeReadOff
    <3>4. life' = [life EXCEPT ![g] = Life(g)']
      BY <2>6, <3>1
    <3>5. \A lower \in 1 .. g - 1 : life[lower] # "unused"
      <4> SUFFICES ASSUME NEW lower \in 1 .. g - 1 PROVE life[lower] # "unused"
        OBVIOUS
      <4>1. lower \in 1 .. MaxIds /\ lower < nextId
        BY <1>1, <3>1
      <4> QED BY <4>1 DEF LifeReadOff, HasId
    <3>6. Abstract!Launch(g) /\ g \in Abstract!Ids
      <4>1. life[g] = "unused"
        BY <3>2
      <4>2. \E state \in {"active", "ended"} : life' = [life EXCEPT ![g] = state]
        BY <3>3, <3>4
      <4> QED BY <3>5, <4>1, <4>2 DEF Abstract!Launch, Abstract!Ids
    <3> QED BY <3>6 DEF Abstract!Next
  <2>8. CASE nextId \notin 1 .. MaxIds
    <3>1. life' = life
      BY <2>6, <2>8
    <3> QED BY <3>1
  <2> QED BY <2>7, <2>8
<1> QED BY <1>2, <1>3

\* A program that ends, ends the job it has, if any.
LEMMA ExitEnds ==
    ASSUME IInv, LifeReadOff, LifeReadOff', NEW p \in Pids, Exit(p)
    PROVE  [Abstract!Next]_[id \in 1 .. MaxIds |-> Life(id)]
<1> DEFINE life == [id \in 1 .. MaxIds |-> Life(id)]
<1>1. /\ jobs' = jobs /\ nextId' = nextId
      /\ proc[p] = "running" /\ proc' = [proc EXCEPT ![p] = "zombie"]
      /\ proc \in [Pids -> ProcStates]
      /\ \A i, j \in DOMAIN jobs : jobs[i].pid = jobs[j].pid => i = j
  BY DEF Exit, IInv, TypeInv, TypeOK, TracksChildren, Tracked
<1>2. CASE ~\E i \in DOMAIN jobs : jobs[i].pid = p /\ jobs[i].id \in 1 .. MaxIds
  <2>1. ASSUME NEW id \in 1 .. MaxIds PROVE Life(id)' = Life(id)
    <3>1. CASE \E m \in DOMAIN jobs : jobs[m].id = id
      <4>1. PICK m \in DOMAIN jobs : jobs[m].id = id
        BY <3>1
      <4>2. proc'[jobs'[m].pid] = proc[jobs[m].pid]
        BY <1>1, <1>2, <4>1
      <4>3. Life(id) = IF proc[jobs[m].pid] = "zombie" THEN "ended" ELSE "active"
        BY <4>1 DEF LifeReadOff
      <4>4. Life(id)' = IF proc'[jobs'[m].pid] = "zombie" THEN "ended" ELSE "active"
        BY <1>1, <4>1 DEF LifeReadOff
      <4> QED BY <4>2, <4>3, <4>4
    <3>2. CASE ~\E m \in DOMAIN jobs : jobs[m].id = id
      BY <1>1, <3>2 DEF Life, HasId
    <3> QED BY <3>1, <3>2
  <2> QED BY <2>1
<1>3. ASSUME NEW i \in DOMAIN jobs, jobs[i].pid = p, jobs[i].id \in 1 .. MaxIds
      PROVE  Abstract!Next
  <2>1. PICK g \in 1 .. MaxIds : g = jobs[i].id
    BY <1>3
  <2>2. Life(g) = "active"
    BY <1>1, <1>3, <2>1 DEF LifeReadOff
  <2>3. Life(g)' = "ended"
    <3>1. jobs'[i].id = g /\ i \in DOMAIN jobs' /\ proc'[jobs'[i].pid] = "zombie"
      BY <1>1, <1>3, <2>1
    <3> QED BY <3>1 DEF LifeReadOff
  <2>4. ASSUME NEW id \in 1 .. MaxIds, id # g PROVE Life(id)' = Life(id)
    <3>1. CASE \E m \in DOMAIN jobs : jobs[m].id = id
      <4>1. PICK m \in DOMAIN jobs : jobs[m].id = id
        BY <3>1
      <4>2. jobs[m].pid # p
        BY <1>1, <1>3, <2>1, <2>4, <4>1
      <4>3. proc'[jobs'[m].pid] = proc[jobs[m].pid]
        BY <1>1, <4>2
      <4>4. Life(id) = IF proc[jobs[m].pid] = "zombie" THEN "ended" ELSE "active"
        BY <4>1 DEF LifeReadOff
      <4>5. Life(id)' = IF proc'[jobs'[m].pid] = "zombie" THEN "ended" ELSE "active"
        BY <1>1, <4>1 DEF LifeReadOff
      <4> QED BY <4>3, <4>4, <4>5
    <3>2. CASE ~\E m \in DOMAIN jobs : jobs[m].id = id
      BY <1>1, <3>2 DEF Life, HasId
    <3> QED BY <3>1, <3>2
  <2>5. life' = [life EXCEPT ![g] = "ended"]
    BY <2>3, <2>4
  <2>6. life[g] = "active"
    BY <2>2
  <2>7. Abstract!End(g) /\ g \in Abstract!Ids
    BY <2>5, <2>6 DEF Abstract!End, Abstract!Ids
  <2> QED BY <2>7 DEF Abstract!Next
<1> QED BY <1>2, <1>3

\* Every other step leaves the life of each job as it is.
LEMMA StepImplements ==
    ASSUME "run" \notin Ops, IInv, LifeReadOff, LifeReadOff', [Next]_vars
    PROVE  [Abstract!Next]_[id \in 1 .. MaxIds |-> Life(id)]
<1> DEFINE Goal == [Abstract!Next]_[id \in 1 .. MaxIds |-> Life(id)]
<1>0. /\ jobs \in Seq(JobRecord) /\ proc \in [Pids -> ProcStates]
      /\ \A i \in DOMAIN jobs : jobs[i] \in JobRecord /\ jobs[i].pid \in Pids
      /\ \A i \in DOMAIN jobs : proc[jobs[i].pid] # "free"
      /\ spawned \in Seq(Pids)
  <2>1. jobs \in Seq(JobRecord) /\ proc \in [Pids -> ProcStates] /\ spawned \in Seq(Pids)
    BY DEF IInv, TypeInv, TypeOK
  <2>2. \A i \in DOMAIN jobs : jobs[i] \in JobRecord
    BY <2>1, ElementOfSeq, LenProperties
  <2>3. \A rec \in JobRecord : rec.pid \in Pids
    BY DEF JobRecord
  <2> QED BY <2>1, <2>2, <2>3 DEF IInv, TracksChildren, Tracked
<1>1. CASE UNCHANGED <<jobs, nextId, proc>>
  BY <1>1, SameLife
\* A process outside the table.
<1>2. ASSUME NEW p \in Pids, \A i \in DOMAIN jobs : jobs[i].pid # p,
             NEW st \in ProcStates, proc' = [proc EXCEPT ![p] = st],
             jobs' = jobs, nextId' = nextId
      PROVE  Goal
  BY <1>0, <1>2, SameLife
<1>3. ASSUME NEW p \in Pids, ReapOne(p) PROVE Goal
  <2>1. CASE HasPid(jobs, p)
    <3>1. PICK i \in DOMAIN jobs : jobs[i].pid = p /\ jobs' = JobRemove(jobs, i)
      BY <1>3, <2>1 DEF ReapOne, FirstWithPid
    <3> QED BY <1>3, <3>1, RemoveForgets DEF ReapOne
  <2>2. CASE ~HasPid(jobs, p)
    BY <1>2, <1>3, <2>2 DEF ReapOne, HasPid, ProcStates
  <2> QED BY <2>1, <2>2
<1>4. ASSUME NEW p \in Pids, Fork(p) PROVE Goal
  BY <1>0, <1>2, <1>4 DEF Fork, ProcStates
<1>5. CASE WaitForeground
  <2>1. spawned # <<>> /\ Head(spawned) \in Pids /\ Head(spawned) \in ToPids(spawned)
    <3>1. spawned # <<>>
      BY <1>5 DEF WaitForeground, IInv, TypeInv
    <3>2. 1 \in DOMAIN spawned /\ Head(spawned) = spawned[1]
      BY <1>0, <3>1, EmptySeq, LenProperties
    <3> QED BY <1>0, <3>1, <3>2, HeadTailProperties DEF ToPids
  <2>2. \A i \in DOMAIN jobs : jobs[i].pid # Head(spawned)
    BY <1>5, <2>1 DEF WaitForeground, IInv, ForegroundOwned, HasPid
  <2> QED BY <1>2, <1>5, <2>1, <2>2 DEF WaitForeground, Collect, ProcStates
<1>6. ASSUME NEW t \in target, FgWait(t) PROVE Goal
  <2>1. PICK m \in DOMAIN jobs : t = jobs[m]
    BY <1>6 DEF FgWait, IInv, FgTargetInTable
  <2>2. PICK j \in DOMAIN jobs : jobs[j].id = t.id /\ jobs' = JobRemove(jobs, j)
    BY <1>6, <2>1 DEF FgWait, FirstWithId, HasId
  <2>3. j = m
    BY <2>1, <2>2, IdsDiffer DEF IInv
  <2> QED BY <1>0, <1>6, <2>1, <2>2, <2>3, RemoveForgets DEF FgWait, Collect
<1>7. CASE Bg
  <2>1. ASSUME NEW i \in DOMAIN jobs, jobs' = JobSetRunning(jobs, i, TRUE),
               proc' = [proc EXCEPT ![jobs[i].pid] = IF @ = "stopped" THEN "running" ELSE @],
               nextId' = nextId
        PROVE  Goal
    <3>1. /\ DOMAIN jobs' = DOMAIN jobs
          /\ \A k \in DOMAIN jobs : jobs'[k].id = jobs[k].id /\ jobs'[k].pid = jobs[k].pid
      BY <1>0, <2>1, SetRunningKeeps
    <3>2. \A p \in Pids : proc'[p] = "zombie" <=> proc[p] = "zombie"
      BY <1>0, <2>1
    <3> QED BY <1>0, <2>1, <3>1, <3>2, SameLife
  <2> QED BY <1>1, <1>7, <2>1 DEF Bg
<1>8. ASSUME NEW p \in Pids, Stop(p) PROVE Goal
  <2>1. jobs' = jobs /\ nextId' = nextId
    BY <1>8 DEF Stop
  <2>2. \A q \in Pids : proc'[q] = "zombie" <=> proc[q] = "zombie"
    BY <1>0, <1>8 DEF Stop
  <2> QED BY <1>0, <2>1, <2>2, SameLife
<1>9. CASE User \/ ReapNone \/ ForkFail \/ FgFind \/ RunFail
  BY <1>1, <1>9 DEF User, EnterCommand, ReapNone, ForkFail, FgFind, RunFail
<1>10. \A p \in Pids : ~RunSpawn(p) /\ ~RunWait(p)
  BY DEF RunSpawn, RunWait, IInv
<1>11. CASE UNCHANGED vars
  BY <1>1, <1>11 DEF vars
<1> QED BY <1>3, <1>4, <1>5, <1>6, <1>7, <1>8, <1>9, <1>10, <1>11, AddLaunches, ExitEnds
        DEF Next, Shell, Child

\* Without run, the shell keeps what BackgroundJobs promises: each id is
\* issued once and in order, and its job goes from active over ended to gone.
THEOREM ShellImplementsBackgroundJobs ==
    ASSUME "run" \notin Ops
    PROVE  Spec => ImplementsBackgroundJobs
<1>1. Init => IInv
  BY InitIInv
<1>2. IInv /\ [Next]_vars => IInv'
  BY NextTracks
<1>3. IInv => TypeInv /\ IdsAscending
  BY DEF IInv
<1>4. Init => Abstract!Init
  BY MaxIdsAssumption DEF Init, Abstract!Init, Abstract!Ids, Life
<1>5. IInv /\ LifeReadOff /\ LifeReadOff' /\ [Next]_vars
        => [Abstract!Next]_[id \in 1 .. MaxIds |-> Life(id)]
  BY StepImplements
<1> QED BY <1>1, <1>2, <1>3, <1>4, <1>5, LifeIsReadOff, PTL
        DEF Spec, ImplementsBackgroundJobs, Abstract!Spec
=============================================================================
