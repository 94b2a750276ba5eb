------------------------------ MODULE JobTable ------------------------------
(***************************************************************************)
(* The background job table of OnyxShell (features/service/jobs.rs).       *)
(*                                                                         *)
(* The code keeps three parallel arrays (ids, pids, running flags) and a   *)
(* count; removal shifts the entries after the removed one down by one.    *)
(* Here the table is one sequence of records, in array order.  The scans   *)
(* of the code stop at the first entry that matches, so "the entry of      *)
(* pid p" is the one with the least index.                                 *)
(***************************************************************************)
EXTENDS Naturals, Sequences, SequencesExt

CONSTANTS
    Pids,       \* process identifiers the kernel hands out
    JobMax      \* capacity of the table (JOB_MAX, 16 in the code)

ASSUME JobMaxAssumption == JobMax \in Nat \ {0}

JobRecord == [id : Nat \ {0}, pid : Pids, running : BOOLEAN]

\* i is the index at which a scan for job id "id" stops.
FirstWithId(js, id, i) ==
    /\ i \in DOMAIN js
    /\ js[i].id = id
    /\ \A k \in 1 .. i - 1 : js[k].id # id

\* i is the index at which a scan for process "pid" stops.
FirstWithPid(js, pid, i) ==
    /\ i \in DOMAIN js
    /\ js[i].pid = pid
    /\ \A k \in 1 .. i - 1 : js[k].pid # pid

HasId(js, id) == \E i \in DOMAIN js : js[i].id = id

HasPid(js, pid) == \E i \in DOMAIN js : js[i].pid = pid

\* Mutant: the table takes one job too many.
IsFull_OffByOne(js) == Len(js) > JobMax

\* job_add: a full table refuses the job (job_add returns 0).
IsFull(js) == Len(js) >= JobMax

\* Mutant: the id is taken from the number of entries.
JobAdd_IdFromCount(js, id, pid) ==
    IF IsFull(js)
    THEN js
    ELSE Append(js, [id |-> Len(js) + 1, pid |-> pid, running |-> TRUE])

JobAdd(js, id, pid) ==
    IF IsFull(js)
    THEN js
    ELSE Append(js, [id |-> id, pid |-> pid, running |-> TRUE])

\* Mutant: the count is decremented without the shift loop.
JobRemove_NoShift(js, i) == Front(js)

\* The shift loop shared by job_remove_by_id and job_reap.
JobRemove(js, i) == RemoveAt(js, i)

\* job_set_running on the entry a scan for its id stops at.
JobSetRunning(js, i, flag) == [js EXCEPT ![i].running = flag]
=============================================================================
