----------------------------- MODULE GlobMatch -----------------------------
(***************************************************************************)
(* glob_match of features/service/glob.rs: the iterative matcher with one  *)
(* remembered star.  One action is one turn of its loop; characters are    *)
(* their byte values.  Meaning says what a pattern means, without the loop, *)
(* to compare the result with.                                             *)
(***************************************************************************)
EXTENDS Naturals, Sequences, SequencesExt

CONSTANTS
    Patterns,   \* the patterns considered
    FileNames   \* the file names considered

ASSUME BytesAssumption == Patterns \cup FileNames \subseteq Seq(Nat)

Star  == 42
Dash  == 45
Quest == 63
Open  == 91
Close == 93

VARIABLES
    pattern, name,
    pi, ni,            \* positions, counted from 1
    starPi, starNi,    \* the last star and where its match ends; starPi is 0
                       \* while no star was met
    result             \* "running", "match" or "no match"

globVars == <<pattern, name, pi, ni, starPi, starNi, result>>

GlobInit ==
    /\ pattern \in Patterns
    /\ name \in FileNames
    /\ pi = 1 /\ ni = 1
    /\ starPi = 0 /\ starNi = 1
    /\ result = "running"

-----------------------------------------------------------------------------
(* The loop                                                                *)

MoreName == result = "running" /\ ni <= Len(name)
MorePattern == pi <= Len(pattern)

\* The branch for characters that must match one of the name is tried first.
Single ==
    MorePattern /\ (pattern[pi] \in {Quest, Open} \/ pattern[pi] = name[ni])

\* The ] of the class that starts at position p, or 0.
ClassEnd(s, p) ==
    LET ends == { e \in p + 1 .. Len(s) : s[e] = Close }
    IN  IF ends = {} THEN 0 ELSE CHOOSE e \in ends : \A f \in ends : e <= f

\* Whether the scan of the class body s[b .. e - 1] finds c: x-y is a range
\* when two more characters follow x, anything else stands for itself.
InClass(s, b, e, c) ==
    LET found[i \in b .. e] ==
            IF i = e THEN FALSE
            ELSE IF i + 2 < e /\ s[i + 1] = Dash
            THEN (s[i] <= c /\ c <= s[i + 2]) \/ found[i + 3]
            ELSE c = s[i] \/ found[i + 1]
    IN  found[b]

IsClass(s, p) == s[p] = Open /\ ClassEnd(s, p) # 0

\* Whether the pattern at pi accepts the character at ni, and where the
\* pattern goes on; a [ without ] is an ordinary character.
Accepts ==
    IF IsClass(pattern, pi)
    THEN InClass(pattern, pi + 1, ClassEnd(pattern, pi), name[ni])
    ELSE pattern[pi] = Open => name[ni] = Open

After(s, p) == IF IsClass(s, p) THEN ClassEnd(s, p) + 1 ELSE p + 1

Consume ==
    /\ MoreName
    /\ Single /\ Accepts
    /\ pi' = After(pattern, pi)
    /\ ni' = ni + 1
    /\ UNCHANGED <<pattern, name, starPi, starNi, result>>

AtStar == MorePattern /\ ~Single /\ pattern[pi] = Star

MeetStar ==
    /\ MoreName
    /\ AtStar
    /\ starPi' = pi
    /\ starNi' = ni
    /\ pi' = pi + 1
    /\ UNCHANGED <<pattern, name, ni, result>>

Stuck == (Single /\ ~Accepts) \/ (~Single /\ ~AtStar)

\* Mutant: the star does not take another character.
Backtrack_SamePlace ==
    /\ MoreName
    /\ Stuck
    /\ starPi # 0
    /\ pi' = starPi + 1
    /\ ni' = starNi + 1
    /\ UNCHANGED <<pattern, name, starPi, starNi, result>>

\* The last star takes one more character.
Backtrack ==
    /\ MoreName
    /\ Stuck
    /\ starPi # 0
    /\ pi' = starPi + 1
    /\ starNi' = starNi + 1
    /\ ni' = starNi + 1
    /\ UNCHANGED <<pattern, name, starPi, result>>

Fail ==
    /\ MoreName
    /\ Stuck
    /\ starPi = 0
    /\ result' = "no match"
    /\ UNCHANGED <<pattern, name, pi, ni, starPi, starNi>>

\* Mutant: stars at the end of the pattern are not skipped.
Finish_NoTrailingStars ==
    /\ result = "running"
    /\ ni > Len(name)
    /\ result' = IF pi > Len(pattern) THEN "match" ELSE "no match"
    /\ UNCHANGED <<pattern, name, pi, ni, starPi, starNi>>

\* The name is used up: only stars may be left of the pattern.
Finish ==
    /\ result = "running"
    /\ ni > Len(name)
    /\ result' = IF \A k \in pi .. Len(pattern) : pattern[k] = Star
                 THEN "match" ELSE "no match"
    /\ UNCHANGED <<pattern, name, pi, ni, starPi, starNi>>

GlobNext == Consume \/ MeetStar \/ Backtrack \/ Fail \/ Finish

GlobSpec == GlobInit /\ [][GlobNext]_globVars

\* The loop is straight-line code: it always goes on.
GlobFairSpec == GlobSpec /\ WF_globVars(GlobNext)

-----------------------------------------------------------------------------
(* The meaning of a pattern                                                *)

StandsFor(p, i, c) ==
    IF IsClass(p, i) THEN InClass(p, i + 1, ClassEnd(p, i), c) ELSE p[i] \in {Quest, c}

\* The positions of n from which on it matches the pattern p from i on: a
\* star stands for any sequence of characters, anything else for one.
Meaning(p, n) ==
    LET from[i \in 1 .. Len(p) + 1] ==
            IF i > Len(p) THEN {Len(n) + 1}
            ELSE IF p[i] = Star
            THEN { j \in 1 .. Len(n) + 1 : \E k \in j .. Len(n) + 1 : k \in from[i + 1] }
            ELSE { j \in 1 .. Len(n) :
                     StandsFor(p, i, n[j]) /\ j + 1 \in from[After(p, i)] }
    IN  from

MatchesWhole(p, n) == 1 \in Meaning(p, n)[1]

-----------------------------------------------------------------------------
(* Properties                                                              *)

\* Every index stays where the code may use it: positions at most one past
\* the end, and the remembered star is a star before the current position.
GlobTypeOK ==
    /\ pi \in 1 .. Len(pattern) + 1
    /\ ni \in 1 .. Len(name) + 1
    /\ starPi \in 0 .. pi - 1
    /\ starPi # 0 => pattern[starPi] = Star
    /\ starNi \in 1 .. ni
    /\ result \in {"running", "match", "no match"}

\* What the loop reports is the meaning of the pattern (glob.rs, line 1:
\* wildcard matching of *, ? and [...]): backtracking to the last star only
\* loses no match.  A name that itself contains * is never matched wrongly,
\* but may be missed: equal characters are tried before the star.
ResultIsMeaning ==
    /\ result = "match" => MatchesWhole(pattern, name)
    /\ result = "no match" /\ MatchesWhole(pattern, name) => Star \in ToSet(name)

\* The loop ends on every input although it moves backwards.
Terminates == <>(result # "running")
=============================================================================
