--------------------------- MODULE BackgroundJobs ---------------------------
(***************************************************************************)
(* What the job table of the shell promises, without processes, system     *)
(* calls or arrays: each job id is issued once and in order, and its job   *)
(* goes active -> ended -> gone.  A short program may have ended before    *)
(* its job is entered.  "ended" is the time between the end of the program *)
(* and the shell's noticing it (job_reap, fg).                             *)
(***************************************************************************)
EXTENDS Naturals

CONSTANT MaxIds     \* bound on the ids considered

VARIABLE life       \* job id -> "unused", "active", "ended" or "gone"

Ids == 1 .. MaxIds

Init == life = [id \in Ids |-> "unused"]

\* The shell enters a background line and reports "[id] pid".
Launch(id) ==
    /\ life[id] = "unused"
    /\ \A lower \in 1 .. id - 1 : life[lower] # "unused"
    /\ \E state \in {"active", "ended"} : life' = [life EXCEPT ![id] = state]

\* The program of the job ends.
End(id) ==
    /\ life[id] = "active"
    /\ life' = [life EXCEPT ![id] = "ended"]

\* The shell reports "Done" and forgets the job.
Forget(id) ==
    /\ life[id] = "ended"
    /\ life' = [life EXCEPT ![id] = "gone"]

Next == \E id \in Ids : Launch(id) \/ End(id) \/ Forget(id)

Spec == Init /\ [][Next]_life
=============================================================================
