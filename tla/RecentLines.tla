---------------------------- MODULE RecentLines ----------------------------
(***************************************************************************)
(* What the command history promises: it is the list of the last Size      *)
(* lines pushed, oldest first, and a line that repeats the newest one is   *)
(* not pushed again.  A command line is pushed once, and a second time only *)
(* if evaluating it can turn it into another line.                         *)
(***************************************************************************)
EXTENDS Naturals, Sequences

CONSTANTS
    Size,       \* lines remembered
    Entries,    \* what can be remembered of a line
    Expandable  \* those of a line that can become another one

VARIABLE recent

\* The last Size elements of s.
Newest(s) == IF Len(s) <= Size THEN s ELSE SubSeq(s, Len(s) - Size + 1, Len(s))

Pushed(s, e) == Newest(Append(s, e))

Init == recent = <<>>

Push == \E e \in Entries : recent' = Pushed(recent, e)

\* f, the newest line afterwards, is taken from the new list.
PushTwo ==
    /\ recent' # <<>>
    /\ \E e \in Expandable, f \in Entries \cap {recent'[Len(recent')]} :
          recent' = Pushed(Pushed(recent, e), f)

Next == Push \/ PushTwo

Spec == Init /\ [][Next]_recent
=============================================================================
