----------------------------- MODULE TextBuffer -----------------------------
(***************************************************************************)
(* What a line editor promises: a text with a cursor, as the characters    *)
(* before and after it.  Keys insert and delete before the cursor, move    *)
(* it, recall another line, complete the word before it, or hand the line  *)
(* over.                                                                   *)
(***************************************************************************)
EXTENDS Naturals, Sequences

CONSTANTS
    Chars,      \* printable characters
    Blank,      \* the one that separates words
    Slash,      \* the one that separates the names of a path
    MaxLen,     \* the longest line
    Recallable, \* lines that arrow up and down can bring back
    Known       \* names that completion can put in

VARIABLES before, after

vars == <<before, after>>

First(s, n) == SubSeq(s, 1, IF n < Len(s) THEN n ELSE Len(s))

Init == before = <<>> /\ after = <<>>

Insert == \E c \in Chars :
    /\ Len(before) + Len(after) < MaxLen
    /\ before' = Append(before, c)
    /\ UNCHANGED after

Erase ==
    /\ before # <<>>
    /\ before' = First(before, Len(before) - 1)
    /\ UNCHANGED after

Left ==
    /\ before # <<>>
    /\ before' = First(before, Len(before) - 1)
    /\ after' = <<before[Len(before)]>> \o after

Right ==
    /\ after # <<>>
    /\ before' = Append(before, after[1])
    /\ after' = Tail(after)

Recall == \E l \in Recallable :
    /\ before' = First(l, MaxLen)
    /\ after' = <<>>

HandOver == before' = <<>> /\ after' = <<>>

\* Where the word before the cursor begins.
WordStart ==
    CHOOSE n \in 0 .. Len(before) :
        /\ n = 0 \/ before[n] = Blank
        /\ \A i \in n + 1 .. Len(before) : before[i] # Blank

Word == SubSeq(before, WordStart + 1, Len(before))

\* The word becomes a known name, or what several have in common, of which
\* it is the beginning; of a path, only the name after its last slash counts
\* and the directory is lost.  What follows the cursor stays, as far as there
\* is room.
Complete == \E k \in Known, n \in 0 .. Len(Word) :
    LET part == SubSeq(Word, n + 1, Len(Word))
    IN  /\ n > 0 => Word[n] = Slash
        /\ \A i \in n + 1 .. Len(Word) : Word[i] # Slash
        /\ First(k, Len(part)) = part
        /\ \E m \in Len(part) .. Len(k), end \in {<<>>, <<Blank>>} :
              before' = First(First(before, WordStart) \o First(k, m) \o end, MaxLen)
        /\ after' = First(after, MaxLen - Len(before'))

Next == Insert \/ Erase \/ Left \/ Right \/ Recall \/ HandOver \/ Complete

Spec == Init /\ [][Next]_vars
=============================================================================
