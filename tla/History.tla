------------------------------ MODULE History ------------------------------
(***************************************************************************)
(* The command history (features/history.rs) and the two loops that feed   *)
(* it: the raw-mode line editor, which pushes the line as typed before it  *)
(* is evaluated, and the cooked loop, where only eval_line pushes, after   *)
(* expansion.                                                              *)
(*                                                                         *)
(* A line is a sequence of atoms: words, a shell operator, or a history    *)
(* reference.  An atom counts as one unit of length, so the byte limits of *)
(* the code become limits on the number of atoms.  Words contain neither   *)
(* ~ nor $, which makes tilde and variable expansion of no concern here.   *)
(* The shell is single-threaded and nothing else touches the history, so   *)
(* one action is the handling of one key or of one entered line.           *)
(***************************************************************************)
EXTENDS Integers, Sequences, SequencesExt

CONSTANTS
    Words,      \* plain words
    Size,       \* HISTORY_SIZE (16)
    EntryMax,   \* HISTORY_LINE_MAX - 1 (127 bytes): longer lines are cut
    LineMax,    \* LINE_MAX - 1 (255 bytes) of the editor
    VecMax,     \* capacity of the expansion buffer (256 bytes)
    Alphabet,   \* the atoms the user types
    MaxCount    \* bound: lines are entered while the count is below it

ASSUME SizesAssumption ==
    {Size, EntryMax, LineMax, VecMax} \subseteq Nat \ {0} /\ LineMax <= VecMax

Word(w) == [kind |-> "word", text |-> w]
Op      == [kind |-> "op"]                        \* | or > or <
Last1   == [kind |-> "last"]                      \* !!
Back(n) == [kind |-> "back", n |-> n]             \* !-n
Nth(n)  == [kind |-> "nth", n |-> n]              \* !n

ASSUME AlphabetAssumption ==
    \A a \in Alphabet :
        \/ a \in { Word(w) : w \in Words } \cup {Op, Last1}
        \/ a.kind = "back" /\ a.n \in Nat \ {0}
        \/ a.kind = "nth" /\ a.n \in Nat

VARIABLES
    raw,      \* whether _start found raw mode and entered raw_mode_repl
    ring,     \* G_HISTORY: slot -> line
    count,    \* G_HISTORY_COUNT: lines ever pushed
    nav,      \* G_NAV_CURSOR: -1, or how far back the editor shows
    edit,     \* the line being edited
    ran       \* the command line last handed to dispatch or execute

vars == <<raw, ring, count, nav, edit, ran>>

Init ==
    /\ raw \in BOOLEAN
    /\ ring = [s \in 0 .. Size - 1 |-> <<>>]
    /\ count = 0
    /\ nav = -1
    /\ edit = <<>>
    /\ ran = <<>>

Smaller(a, b) == IF a <= b THEN a ELSE b

Cut(l, n) == SubSeq(l, 1, Smaller(Len(l), n))

-----------------------------------------------------------------------------
(* The ring, as functions of a pair h of its contents and its count.       *)

Hist == [ring |-> ring, count |-> count]

Stored(h) == Smaller(h.count, Size)

\* The n-th line from the newest, and from the oldest.
FromNewest(h, n) == h.ring[(h.count - n) % Size]
FromOldest(h, n) == h.ring[(h.count - Stored(h) + (n - 1)) % Size]

\* Mutant: the slot is computed from the number of lines stored.
Push_SlotFromStored(h, l) ==
    IF l = <<>> \/ (h.count > 0 /\ FromNewest(h, 1) = l)
    THEN h
    ELSE [ring |-> [h.ring EXCEPT ![Stored(h) % Size] = Cut(l, EntryMax)],
          count |-> h.count + 1]

\* Mutant: repeats are not recognised.
Push_NoRepeatCheck(h, l) ==
    IF l = <<>>
    THEN h
    ELSE [ring |-> [h.ring EXCEPT ![h.count % Size] = Cut(l, EntryMax)],
          count |-> h.count + 1]

\* history_push: the whole line is compared with the stored, possibly cut,
\* newest one.
Push(h, l) ==
    IF l = <<>> \/ (h.count > 0 /\ FromNewest(h, 1) = l)
    THEN h
    ELSE [ring |-> [h.ring EXCEPT ![h.count % Size] = Cut(l, EntryMax)],
          count |-> h.count + 1]

\* One reference of history_expand; one out of range vanishes.
ExpandAtom(h, a) ==
    CASE a.kind = "last" -> IF h.count > 0 THEN FromNewest(h, 1) ELSE <<a>>
      [] a.kind = "back" -> IF a.n <= Stored(h) THEN FromNewest(h, a.n) ELSE <<>>
      [] a.kind = "nth"  -> IF a.n # 0 /\ a.n <= Stored(h)
                            THEN FromOldest(h, a.n) ELSE <<>>
      [] OTHER           -> <<a>>

Expand(h, l) == Cut(FlattenSeq([i \in DOMAIN l |-> ExpandAtom(h, l[i])]), VecMax)

HasOp(l) == Op \in ToSet(l)

-----------------------------------------------------------------------------
(* Entering a line                                                         *)
\* What eval_line makes of the line typed; a line with an operator goes
\* through a buffer of LINE_MAX.
Command(h, l) ==
    LET s == Expand(h, l) IN IF HasOp(s) THEN Cut(s, LineMax) ELSE s

\* Mutant: the line is pushed as it was before expansion.
EvalLine_PushesTyped(h, l) == [hist |-> Push(h, l), ran |-> Command(h, l)]

\* eval_line pushes what it is about to run, after expansion; a line that
\* expands to nothing is dropped.
EvalLine(h, l) == [hist |-> Push(h, Command(h, l)), ran |-> Command(h, l)]

\* raw_mode_repl pushes first; a line with an operator bypasses eval_line.
RawEnter(h, l) ==
    LET pushed == Push(h, l)
    IN  IF HasOp(l) THEN [hist |-> pushed, ran |-> l] ELSE EvalLine(pushed, l)

Evaluated(h, l) == IF raw THEN RawEnter(h, l) ELSE EvalLine(h, l)

\* Enter on the line edited; an empty line only brings the next prompt.
\* nav_reset belongs to raw_mode_repl's next prompt.
Enter ==
    /\ count < MaxCount
    /\ IF edit = <<>>
       THEN UNCHANGED <<ring, count, ran>>
       ELSE LET after == Evaluated(Hist, edit)
            IN  /\ ring' = after.hist.ring
                /\ count' = after.hist.count
                /\ ran' = after.ran
    /\ edit' = <<>>
    /\ nav' = -1
    /\ UNCHANGED raw

Type(a) ==
    /\ Len(edit) < LineMax
    /\ edit' = Append(edit, a)
    /\ UNCHANGED <<raw, ring, count, nav, ran>>

Backspace ==
    /\ edit # <<>>
    /\ edit' = Front(edit)
    /\ UNCHANGED <<raw, ring, count, nav, ran>>

\* Arrow up: nav_up refuses to go past the oldest line.
Up ==
    /\ raw
    /\ count > 0
    /\ nav + 1 < Stored(Hist)
    /\ nav' = nav + 1
    /\ edit' = Cut(FromNewest(Hist, nav + 2), LineMax)
    /\ UNCHANGED <<raw, ring, count, ran>>

\* Arrow down: past the newest line the editor is cleared.
Down ==
    /\ raw
    /\ IF nav <= 0
       THEN nav' = -1 /\ edit' = <<>>
       ELSE /\ nav' = nav - 1
            /\ edit' = Cut(FromNewest(Hist, nav), LineMax)
    /\ UNCHANGED <<raw, ring, count, ran>>

Next == Enter \/ Backspace \/ Up \/ Down \/ \E a \in Alphabet : Type(a)

Spec == Init /\ [][Next]_vars

-----------------------------------------------------------------------------
(* Properties                                                              *)

LinesUpTo(n) == BoundedSeq(Alphabet, n)

\* The type of every variable; what is stored fits its slot.
TypeOK ==
    /\ raw \in BOOLEAN
    /\ DOMAIN ring = 0 .. Size - 1
    /\ \A s \in DOMAIN ring : ring[s] \in Seq(Alphabet) /\ Len(ring[s]) <= EntryMax
    /\ count \in Nat
    /\ nav \in Int
    /\ edit \in Seq(Alphabet) /\ Len(edit) <= LineMax
    /\ ran \in Seq(Alphabet) /\ Len(ran) <= VecMax

\* The lines remembered, oldest first.
Remembered == [n \in 1 .. Stored(Hist) |-> FromOldest(Hist, n)]

IsReference(a) == a.kind \in {"last", "back", "nth"}

\* A line with a reference, or one that may have been cut.
MayBePushedTwice(l) ==
    \/ \E n \in DOMAIN l : IsReference(l[n])
    \/ Len(l) = EntryMax /\ EntryMax < LineMax

Abstract == INSTANCE RecentLines
    WITH recent     <- Remembered,
         Entries    <- LinesUpTo(EntryMax),
         Expandable <- { l \in LinesUpTo(EntryMax) : MayBePushedTwice(l) }

\* The ring, its count and the modulo arithmetic implement the list of the
\* last Size lines, through wraparound and whichever loop feeds it; only a
\* line with a reference, or one longer than a slot, is pushed twice.
ImplementsRecentLines == Abstract!Spec

\* Two neighbours in the history are equal only if the line filled its slot:
\* the repeat check compares the whole new line with the stored, cut one.
RepeatsOnlyWhenCut ==
    \A n \in 1 .. Stored(Hist) - 1 :
        Remembered[n] = Remembered[n + 1] => Len(Remembered[n]) = EntryMax

\* What runs is what the history has as its newest line (cut to a slot), so
\* that arrow up brings back the command that ran and not the reference that
\* was typed.
NewestIsWhatRan ==
    [][ran' # ran /\ ran' # <<>> => FromNewest(Hist, 1)' = Cut(ran', EntryMax)]_vars
=============================================================================
