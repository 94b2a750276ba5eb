---------------------------- MODULE PipelineParse ----------------------------
(***************************************************************************)
(* pipeline::parse: from the words of a line to segments, redirections and *)
(* the background flag.                                                    *)
(*                                                                         *)
(* A line is a sequence of tokens: "|", ">" and "<" at the start of a word, *)
(* and words; blanks separate them.  What an operator redirects to is the  *)
(* token after it, whatever that is, unless it is "|" (a second ">" is     *)
(* taken for a name).                                                      *)
(***************************************************************************)
EXTENDS Naturals, FiniteSets, Sequences, SequencesExt

CONSTANTS
    MaxSegments,    \* MAX_SEGMENTS (8)
    MaxArgs         \* MAX_ARGS_PER (16)

ASSUME ParseAssumption == {MaxSegments, MaxArgs} \subseteq Nat \ {0}

Bar == "|"
Operators == {">", "<"}
Amp == "&"
NoName == ""

\* open: the last segment may take more; want: the operator whose name comes
\* next; full: the rest of the line is dropped.
Unparsed == [segs |-> <<>>, open |-> FALSE, want |-> NoName, full |-> FALSE,
             name |-> [o \in Operators |-> NoName]]

\* The inner loop has ended, at a bar or after MaxArgs words.
SegmentOver(p) == ~p.open \/ Len(Last(p.segs)) = MaxArgs

InSegment(p) ==
    IF SegmentOver(p) THEN [p EXCEPT !.segs = Append(@, <<>>), !.open = TRUE] ELSE p

\* Mutant: words beyond the limit stay in their segment's place and are lost.
ParseToken_DropsWords(p, t) ==
    IF p.full THEN p
    ELSE IF p.want # NoName /\ t # Bar THEN [p EXCEPT !.name[p.want] = t, !.want = NoName]
    ELSE IF t = Bar THEN [p EXCEPT !.open = FALSE, !.want = NoName]
    ELSE IF ~p.open /\ Len(p.segs) = MaxSegments THEN [p EXCEPT !.full = TRUE]
    ELSE IF t \in Operators THEN [InSegment(p) EXCEPT !.want = t, !.name[t] = NoName]
    ELSE IF p.open /\ Len(Last(p.segs)) = MaxArgs THEN p
    ELSE [InSegment(p) EXCEPT !.segs[Len(InSegment(p).segs)] = Append(@, t)]

\* The next token, in the order the code tests: the name an operator waits
\* for, a bar, a token for which there is no segment left, an operator, or
\* a word.
ParseToken(p, t) ==
    IF p.full THEN p
    ELSE IF p.want # NoName /\ t # Bar THEN [p EXCEPT !.name[p.want] = t, !.want = NoName]
    ELSE IF t = Bar THEN [p EXCEPT !.open = FALSE, !.want = NoName]
    ELSE IF SegmentOver(p) /\ Len(p.segs) = MaxSegments THEN [p EXCEPT !.full = TRUE]
    ELSE IF t \in Operators THEN [InSegment(p) EXCEPT !.want = t, !.name[t] = NoName]
    ELSE [InSegment(p) EXCEPT !.segs[Len(InSegment(p).segs)] = Append(@, t)]

\* A final & of the last segment is the background flag.
Parse(line) ==
    LET p == FoldLeft(ParseToken, Unparsed, line)
        n == Len(p.segs)
        bg == n > 0 /\ p.segs[n] # <<>> /\ Last(p.segs[n]) = Amp
    IN  [segs |-> IF bg THEN [p.segs EXCEPT ![n] = Front(@)] ELSE p.segs,
         out |-> p.name[">"], inp |-> p.name["<"], bg |-> bg]

-----------------------------------------------------------------------------
(* What a line means, by the position of its tokens                        *)

IsOperator(line) ==
    LET op[i \in 0 .. Len(line)] == IF i = 0 THEN FALSE ELSE line[i] \in Operators /\ ~op[i - 1]
    IN  op

OperatorsOf(line) == { i \in DOMAIN line : IsOperator(line)[i] }

WordsOf(line) ==
    { i \in DOMAIN line : line[i] # Bar /\ i \notin OperatorsOf(line) /\ i - 1 \notin OperatorsOf(line) }

\* A word is the Nth one.
Nth(line, i) == Cardinality({ j \in WordsOf(line) : j <= i })

\* The stage of a word or an operator: the bars before it, and how many
\* times the words since the last bar have filled a segment.
BarsBefore(line, i) == Cardinality({ j \in 1 .. i - 1 : line[j] = Bar })

SinceBar(line, i) ==
    Cardinality({ j \in WordsOf(line) : j < i /\ BarsBefore(line, j) = BarsBefore(line, i) })

Stage(line, i) == <<BarsBefore(line, i), SinceBar(line, i) \div MaxArgs>>

LastName(line, o) ==
    LET last == Max({ i \in OperatorsOf(line) : line[i] = o })
    IN  IF \/ \A i \in OperatorsOf(line) : line[i] # o
           \/ last = Len(line)
           \/ line[last + 1] = Bar
        THEN NoName
        ELSE line[last + 1]

\* The words that were kept, in a row, and the segment of each; the & that
\* became the background flag is one of them.
KeptWords(p) == FlattenSeq(p.segs) \o IF p.bg THEN <<Amp>> ELSE <<>>

KeptIn(p) ==
    FlattenSeq([s \in DOMAIN p.segs |->
        [k \in 1 .. Len(p.segs[s]) + (IF p.bg /\ s = Len(p.segs) THEN 1 ELSE 0) |-> s]])

\* p is what the line means: no word is lost and none moves to another
\* stage, unless the segments are used up; the last redirection counts; &
\* is the last word and nothing after it begins another segment.
MeaningOf(line, p) ==
    LET words == WordsOf(line)
        kept  == { i \in words : Nth(line, i) <= Len(KeptWords(p)) }
    IN  /\ Len(KeptWords(p)) <= Cardinality(words)
        /\ \A i \in kept : KeptWords(p)[Nth(line, i)] = line[i]
        /\ \A i, j \in kept :
              KeptIn(p)[Nth(line, i)] = KeptIn(p)[Nth(line, j)] <=> Stage(line, i) = Stage(line, j)
        /\ Len(p.segs) < MaxSegments =>
              /\ kept = words
              /\ \A o \in Operators : (IF o = ">" THEN p.out ELSE p.inp) = LastName(line, o)
              /\ p.bg <=>
                    \E i \in words :
                        /\ line[i] = Amp
                        /\ \A j \in words : j <= i
                        /\ \A j \in OperatorsOf(line) : j > i => Stage(line, j) = Stage(line, i)
=============================================================================
