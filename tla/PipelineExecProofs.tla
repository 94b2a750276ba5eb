------------------------- MODULE PipelineExecProofs -------------------------
(***************************************************************************)
(* Proofs about PipelineExec for every session, every descriptor table,    *)
(* every number of children and pipes, and any number of segments.         *)
(***************************************************************************)
EXTENDS PipelineExec, SequenceLemmas, SequenceTheorems, FiniteSetTheorems, TLAPS

-----------------------------------------------------------------------------
(* The parser works through the tokens one at a time.                      *)

\* The fold of the parser over a line, as its definition writes it: over
\* the sets of positions, the last one first.
FoldOver(l, g) ==
    [s \in SUBSET (DOMAIN l) |->
        IF s = {} THEN Unparsed ELSE ParseToken(g[s \ {Max(s)}], l[Max(s)])]

\* The same as a condition on g for the positions up to m.
FoldsTo(l, m, g) ==
    /\ DOMAIN g = SUBSET (1 .. m)
    /\ \A s \in SUBSET (1 .. m) :
          g[s] = IF s = {} THEN Unparsed ELSE ParseToken(g[s \ {Max(s)}], l[Max(s)])

\* Such a fold exists for the positions up to m + 1 when it does up to m.
LEMMA FoldOneMore ==
    ASSUME NEW l, NEW m \in Nat, NEW g, FoldsTo(l, m, g)
    PROVE  \E h : FoldsTo(l, m + 1, h)
<1> DEFINE h == [s \in SUBSET (1 .. m + 1) |->
                   IF m + 1 \notin s THEN g[s] ELSE ParseToken(g[s \ {m + 1}], l[m + 1])]
<1>1. SUFFICES ASSUME NEW s \in SUBSET (1 .. m + 1)
               PROVE  h[s] = IF s = {} THEN Unparsed
                             ELSE ParseToken(h[s \ {Max(s)}], l[Max(s)])
  BY DEF FoldsTo
<1>2. CASE m + 1 \notin s
  <2>1. s \in SUBSET (1 .. m) /\ s \ {Max(s)} \in SUBSET (1 .. m)
    <3>1. \A x \in s : x \in 1 .. m
      BY <1>2
    <3> QED BY <3>1
  <2>2. m + 1 \notin s \ {Max(s)}
    BY <1>2
  <2>3. h[s] = g[s] /\ h[s \ {Max(s)}] = g[s \ {Max(s)}]
    BY <1>2, <2>1, <2>2
  <2> HIDE DEF h
  <2> QED BY <2>1, <2>3 DEF FoldsTo
<1>3. CASE m + 1 \in s
  <2>1. Max(s) = m + 1
    BY <1>3, MaxIs
  <2>2. s \ {m + 1} \in SUBSET (1 .. m + 1) /\ m + 1 \notin s \ {m + 1}
    OBVIOUS
  <2>3. h[s \ {m + 1}] = g[s \ {m + 1}]
    BY <2>2
  <2>4. h[s] = ParseToken(g[s \ {m + 1}], l[m + 1])
    BY <1>3
  <2> HIDE DEF h
  <2> QED BY <1>3, <2>1, <2>3, <2>4
<1> QED BY <1>2, <1>3

LEMMA FoldExists ==
    ASSUME NEW l, NEW n \in Nat
    PROVE  \E g : FoldsTo(l, n, g)
<1> DEFINE T == { m \in Nat : ~\E g : FoldsTo(l, m, g) }
<1>1. SUFFICES ASSUME T # {} PROVE FALSE
  OBVIOUS
<1>2. PICK m \in T : \A k \in T : m <= k
  <2>1. T \in SUBSET Nat
    OBVIOUS
  <2> HIDE DEF T
  <2> QED BY <1>1, <2>1, Least
<1>3. CASE m = 0
  <2> DEFINE g == [s \in SUBSET (1 .. 0) |-> Unparsed]
  <2>1. \A s \in SUBSET (1 .. 0) : s = {}
    OBVIOUS
  <2>2. FoldsTo(l, 0, g)
    BY <2>1 DEF FoldsTo
  <2> QED BY <1>3, <2>2
<1>4. CASE m # 0
  <2>1. m - 1 \in Nat /\ m - 1 \notin T /\ m \in Nat /\ (m - 1) + 1 = m
    BY <1>2, <1>4
  <2>2. PICK g : FoldsTo(l, m - 1, g)
    BY <2>1
  <2>3. \E h : FoldsTo(l, (m - 1) + 1, h)
    BY <2>1, <2>2, FoldOneMore
  <2> QED BY <2>1, <2>3
<1> QED BY <1>3, <1>4

\* What parse knows after each token: nothing before the first, and the
\* result of the whole line after the last.
LEMMA ParsedByToken ==
    ASSUME NEW l, NEW n \in Nat, DOMAIN l = 1 .. n
    PROVE  \E p : /\ p[0] = Unparsed
                  /\ \A i \in 1 .. n : p[i] = ParseToken(p[i - 1], l[i])
                  /\ FoldLeft(ParseToken, Unparsed, l) = p[n]
<1>1. PICK f : FoldsTo(l, n, f)
  BY FoldExists
<1> DEFINE f2 == [s \in SUBSET (DOMAIN l) |-> f[s]]
<1>2. f2 = FoldOver(l, f2)
  <2>1. \A s \in SUBSET (1 .. n) : s \ {Max(s)} \in SUBSET (1 .. n)
    OBVIOUS
  <2> QED BY <1>1, <2>1 DEF FoldsTo, FoldOver
<1> DEFINE g == CHOOSE g : g = FoldOver(l, g)
<1>3. g = FoldOver(l, g)
  <2> HIDE DEF f2
  <2> QED BY <1>2
<1>4. FoldLeft(ParseToken, Unparsed, l) = g[DOMAIN l]
  BY DEF FoldLeft, MapThenFoldSet, FoldOver
<1> HIDE DEF g
<1> DEFINE p == [i \in 0 .. n |-> g[1 .. i]]
<1>5. p[0] = Unparsed
  <2>1. 1 .. 0 = {}
    OBVIOUS
  <2>2. g[{}] = Unparsed
    BY <1>3 DEF FoldOver
  <2> QED BY <2>1, <2>2
<1>6. ASSUME NEW i \in 1 .. n PROVE p[i] = ParseToken(p[i - 1], l[i])
  <2>1. 1 .. i \in SUBSET (DOMAIN l) /\ 1 .. i # {}
    OBVIOUS
  <2>2. Max(1 .. i) = i
    BY MaxIs
  <2>3. (1 .. i) \ {i} = 1 .. i - 1
    OBVIOUS
  <2>4. g[1 .. i] = ParseToken(g[(1 .. i) \ {Max(1 .. i)}], l[Max(1 .. i)])
    BY <1>3, <2>1 DEF FoldOver
  <2>5. g[1 .. i] = ParseToken(g[1 .. i - 1], l[i])
    BY <2>2, <2>3, <2>4
  <2>6. i \in 0 .. n /\ i - 1 \in 0 .. n
    OBVIOUS
  <2> QED BY <2>5, <2>6
<1>7. FoldLeft(ParseToken, Unparsed, l) = p[n]
  BY <1>4
<1> HIDE DEF p
<1> QED BY <1>5, <1>6, <1>7

\* What parse has found so far: at most MaxSegments segments of at most
\* MaxArgs words, one of them being filled when open.
ParseStates ==
    [segs : Seq(Seq(STRING)), open : BOOLEAN, want : {NoName} \cup Operators,
     full : BOOLEAN, name : [Operators -> STRING \cup {NoName}]]

WithinLimits(segs) ==
    /\ Len(segs) <= MaxSegments
    /\ \A i \in DOMAIN segs : Len(segs[i]) <= MaxArgs

SoFar(p) ==
    /\ p \in ParseStates
    /\ WithinLimits(p.segs)
    /\ p.open => p.segs # <<>>

LEMMA LimitsAreNumbers == {MaxSegments, MaxArgs} \subseteq Nat /\ MaxSegments >= 1 /\ MaxArgs >= 1
BY ParseAssumption

\* Where the next word goes there is a segment with room for it, unless
\* all of them are in use.
LEMMA InSegmentType ==
    ASSUME NEW p, SoFar(p), ~(SegmentOver(p) /\ Len(p.segs) = MaxSegments)
    PROVE  LET q == InSegment(p)
           IN  /\ SoFar(q)
               /\ q.segs # <<>>
               /\ Len(q.segs[Len(q.segs)]) < MaxArgs
<1> USE DEF SoFar, ParseStates
<1>1. /\ p.segs \in Seq(Seq(STRING)) /\ Len(p.segs) \in Nat
      /\ DOMAIN p.segs = 1 .. Len(p.segs)
      /\ \A i \in 1 .. Len(p.segs) : p.segs[i] \in Seq(STRING) /\ Len(p.segs[i]) \in Nat
  <2>1. p.segs \in Seq(Seq(STRING))
    OBVIOUS
  <2>2. Len(p.segs) \in Nat /\ DOMAIN p.segs = 1 .. Len(p.segs)
    BY <2>1, LenProperties
  <2>3. \A i \in 1 .. Len(p.segs) : p.segs[i] \in Seq(STRING)
    BY <2>1, <2>2, ElementOfSeq
  <2> QED BY <2>1, <2>2, <2>3, LenProperties
<1>2. CASE SegmentOver(p)
  <2> DEFINE q == [p EXCEPT !.segs = Append(@, <<>>), !.open = TRUE]
  <2>1. InSegment(p) = q
    BY <1>2 DEF InSegment
  <2>2. <<>> \in Seq(STRING) /\ Len(<<>>) = 0
    OBVIOUS
  <2>3. /\ Append(p.segs, <<>>) \in Seq(Seq(STRING))
        /\ Len(Append(p.segs, <<>>)) = Len(p.segs) + 1
        /\ \A i \in 1 .. Len(p.segs) : Append(p.segs, <<>>)[i] = p.segs[i]
        /\ Append(p.segs, <<>>)[Len(p.segs) + 1] = <<>>
    BY <1>1, <2>2, AppendProperties
  <2>4. q \in ParseStates /\ q.segs = Append(p.segs, <<>>) /\ q.open
    BY <2>3
  <2>5. WithinLimits(q.segs)
    <3>1. Len(q.segs) <= MaxSegments
      BY <1>1, <1>2, <2>3, <2>4, LimitsAreNumbers DEF WithinLimits
    <3>2. DOMAIN q.segs = 1 .. Len(p.segs) + 1
      BY <2>3, <2>4, LenProperties
    <3>3. ASSUME NEW i \in DOMAIN q.segs PROVE Len(q.segs[i]) <= MaxArgs
      <4>1. CASE i \in 1 .. Len(p.segs)
        BY <1>1, <2>3, <2>4, <4>1 DEF WithinLimits
      <4>2. CASE i = Len(p.segs) + 1
        BY <2>2, <2>3, <2>4, <4>2, LimitsAreNumbers
      <4> QED BY <1>1, <3>2, <4>1, <4>2
    <3> QED BY <3>1, <3>3 DEF WithinLimits
  <2>6. q.segs # <<>> /\ Len(q.segs[Len(q.segs)]) < MaxArgs
    <3>1. Len(q.segs) = Len(p.segs) + 1 /\ Len(q.segs) # 0
      BY <1>1, <2>3, <2>4
    <3>2. q.segs[Len(q.segs)] = <<>>
      BY <2>3, <2>4, <3>1
    <3>3. 0 < MaxArgs
      BY LimitsAreNumbers
    <3> HIDE DEF q
    <3> QED BY <2>2, <3>1, <3>2, <3>3
  <2> HIDE DEF q
  <2> QED BY <2>1, <2>4, <2>5, <2>6
<1>3. CASE ~SegmentOver(p)
  <2>1. InSegment(p) = p
    BY <1>3 DEF InSegment
  <2>2. p.open /\ p.segs # <<>> /\ Len(Last(p.segs)) # MaxArgs
    BY <1>3 DEF SegmentOver
  <2>3. Len(p.segs) # 0
    BY <1>1, <2>2, EmptySeq
  <2>4. Len(p.segs[Len(p.segs)]) <= MaxArgs /\ Len(p.segs[Len(p.segs)]) # MaxArgs
    <3>1. Len(p.segs) \in DOMAIN p.segs
      BY <1>1, <2>3
    <3>2. Last(p.segs) = p.segs[Len(p.segs)]
      BY DEF Last
    <3> QED BY <2>2, <3>1, <3>2 DEF WithinLimits
  <2>5. Len(p.segs[Len(p.segs)]) < MaxArgs
    BY <1>1, <2>3, <2>4, LimitsAreNumbers
  <2> QED BY <2>1, <2>2, <2>5
<1> QED BY <1>2, <1>3

\* A token leaves every segment within the limits.
LEMMA ParseTokenType ==
    ASSUME NEW p, SoFar(p), NEW t \in STRING
    PROVE  SoFar(ParseToken(p, t))
<1>0. p \in ParseStates
  BY DEF SoFar
<1> USE <1>0 DEF ParseStates
<1>1. CASE p.full
  BY <1>1 DEF ParseToken
<1>2. CASE ~p.full /\ p.want # NoName /\ t # Bar
  <2>1. ParseToken(p, t) = [p EXCEPT !.name[p.want] = t, !.want = NoName]
    BY <1>2 DEF ParseToken
  <2> QED BY <1>0, <1>2, <2>1 DEF SoFar, ParseStates
<1>3. CASE ~p.full /\ ~(p.want # NoName /\ t # Bar) /\ t = Bar
  <2>1. ParseToken(p, t) = [p EXCEPT !.open = FALSE, !.want = NoName]
    BY <1>3 DEF ParseToken
  <2> QED BY <1>0, <1>3, <2>1 DEF SoFar, ParseStates
<1>4. CASE ~p.full /\ ~(p.want # NoName /\ t # Bar) /\ t # Bar
  <2>1. CASE SegmentOver(p) /\ Len(p.segs) = MaxSegments
    <3>1. ParseToken(p, t) = [p EXCEPT !.full = TRUE]
      BY <1>4, <2>1 DEF ParseToken
    <3> QED BY <1>0, <2>1, <3>1 DEF SoFar, ParseStates
  <2>2. CASE ~(SegmentOver(p) /\ Len(p.segs) = MaxSegments) /\ t \in Operators
    <3> DEFINE q == InSegment(p)
               r == [q EXCEPT !.want = t, !.name[t] = NoName]
    <3>1. ParseToken(p, t) = r
      BY <1>4, <2>2 DEF ParseToken
    <3>2. SoFar(q)
      BY <2>2, InSegmentType
    <3> HIDE DEF q
    <3>3. q \in ParseStates /\ q.name \in [Operators -> STRING \cup {NoName}]
      BY <3>2 DEF SoFar
    <3>4. r.segs = q.segs /\ (r.open <=> q.open)
      BY <3>3
    <3>5. [q.name EXCEPT ![t] = NoName] \in [Operators -> STRING \cup {NoName}]
      BY <2>2, <3>3
    <3>6. r \in ParseStates
      BY <2>2, <3>3, <3>5
    <3> HIDE DEF r
    <3> QED BY <3>1, <3>2, <3>4, <3>6 DEF SoFar
  <2>3. CASE ~(SegmentOver(p) /\ Len(p.segs) = MaxSegments) /\ t \notin Operators
    <3> DEFINE q == InSegment(p)
               n == Len(q.segs)
               w == Append(q.segs[n], t)
               r == [q EXCEPT !.segs[n] = w]
    <3>1. ParseToken(p, t) = r
      BY <1>4, <2>3 DEF ParseToken
    <3>2. SoFar(q) /\ q.segs # <<>> /\ Len(q.segs[n]) < MaxArgs
      BY <2>3, InSegmentType
    <3> HIDE DEF q
    <3>3. q \in ParseStates /\ q.segs \in Seq(Seq(STRING)) /\ WithinLimits(q.segs)
      BY <3>2 DEF SoFar, ParseStates
    <3>4. n \in Nat /\ DOMAIN q.segs = 1 .. n /\ n # 0
      BY <3>2, <3>3, LenProperties, EmptySeq
    <3> HIDE DEF n
    <3>5. q.segs[n] \in Seq(STRING) /\ Len(q.segs[n]) \in Nat
      BY <3>3, <3>4, ElementOfSeq, LenProperties DEF n
    <3>6. w \in Seq(STRING) /\ Len(w) = Len(q.segs[n]) + 1
      BY <3>5, AppendProperties
    <3>7. Len(w) <= MaxArgs
      BY <3>2, <3>5, <3>6, LimitsAreNumbers DEF n
    <3> HIDE DEF w
    <3> DEFINE ss == [q.segs EXCEPT ![n] = w]
    <3>8. ss \in Seq(Seq(STRING)) /\ Len(ss) = Len(q.segs) /\ ss # <<>>
      <4>1. ss \in Seq(Seq(STRING)) /\ Len(ss) = Len(q.segs)
        BY <3>3, <3>4, <3>6, ExceptSeq
      <4> QED BY <4>1, <3>2, <3>3, EmptySeq
    <3>9. WithinLimits(ss)
      <4>1. DOMAIN ss = DOMAIN q.segs
        OBVIOUS
      <4>2. \A i \in DOMAIN q.segs : ss[i] = IF i = n THEN w ELSE q.segs[i]
        OBVIOUS
      <4> HIDE DEF ss
      <4> QED BY <3>3, <3>7, <3>8, <4>1, <4>2 DEF WithinLimits
    <3>10. r = [q EXCEPT !.segs = ss]
      BY <3>3 DEF ParseStates
    <3> HIDE DEF ss
    <3>11. r \in ParseStates /\ r.segs = ss
      BY <3>3, <3>8, <3>10 DEF ParseStates
    <3> HIDE DEF r
    <3> QED BY <3>1, <3>8, <3>9, <3>11 DEF SoFar
  <2> QED BY <2>1, <2>2, <2>3
<1> QED BY <1>1, <1>2, <1>3, <1>4

LEMMA ParsedSoFar ==
    ASSUME NEW l \in Seq(STRING)
    PROVE  SoFar(FoldLeft(ParseToken, Unparsed, l))
<1>1. Len(l) \in Nat /\ DOMAIN l = 1 .. Len(l) /\ \A i \in 1 .. Len(l) : l[i] \in STRING
  BY LenProperties, ElementOfSeq
<1>2. PICK p : /\ p[0] = Unparsed
               /\ \A i \in 1 .. Len(l) : p[i] = ParseToken(p[i - 1], l[i])
               /\ FoldLeft(ParseToken, Unparsed, l) = p[Len(l)]
  BY <1>1, ParsedByToken
<1> DEFINE T == { i \in 0 .. Len(l) : ~SoFar(p[i]) }
<1>3. SUFFICES ASSUME T # {} PROVE FALSE
  BY <1>1, <1>2
<1>4. PICK i \in T : \A j \in T : i <= j
  <2>1. T \in SUBSET Nat
    BY <1>1
  <2> HIDE DEF T
  <2> QED BY <1>3, <2>1, Least
<1>5. CASE i = 0
  <2>1. <<>> \in Seq(Seq(STRING)) /\ Len(<<>>) = 0 /\ DOMAIN <<>> = {}
    OBVIOUS
  <2>2. Unparsed \in ParseStates
    BY <2>1 DEF Unparsed, ParseStates
  <2>3. SoFar(Unparsed)
    BY <2>1, <2>2, LimitsAreNumbers DEF SoFar, Unparsed, WithinLimits
  <2> QED BY <1>2, <1>4, <1>5, <2>3
<1>6. CASE i # 0
  <2>1. i \in 1 .. Len(l) /\ i - 1 \in 0 .. Len(l) /\ i - 1 \notin T
    BY <1>1, <1>4, <1>6
  <2>2. SoFar(p[i - 1])
    BY <2>1
  <2>3. SoFar(p[i])
    BY <1>1, <1>2, <2>1, <2>2, ParseTokenType
  <2> QED BY <1>4, <2>3
<1> QED BY <1>5, <1>6

\* What parse returns: segments within the limits, two names and a flag.
LEMMA ParseType ==
    ASSUME NEW l \in Seq(STRING)
    PROVE  /\ Parse(l).segs \in Seq(Seq(STRING))
           /\ WithinLimits(Parse(l).segs)
           /\ Parse(l).bg \in BOOLEAN
<1> DEFINE p == FoldLeft(ParseToken, Unparsed, l)
           n == Len(p.segs)
           bg == n > 0 /\ p.segs[n] # <<>> /\ Last(p.segs[n]) = Amp
           segs == IF bg THEN [p.segs EXCEPT ![n] = Front(@)] ELSE p.segs
<1>1. Parse(l).segs = segs /\ Parse(l).bg = bg
  BY DEF Parse
<1>2. p.segs \in Seq(Seq(STRING)) /\ WithinLimits(p.segs)
  BY ParsedSoFar DEF SoFar, ParseStates
<1> HIDE DEF p
<1>3. n \in Nat /\ DOMAIN p.segs = 1 .. n
  BY <1>2, LenProperties
<1>4. CASE ~bg
  BY <1>1, <1>2, <1>4
<1>5. CASE bg
  <2>1. n \in DOMAIN p.segs /\ p.segs[n] \in Seq(STRING) /\ p.segs[n] # <<>>
    BY <1>2, <1>3, <1>5, ElementOfSeq
  <2> DEFINE w == Front(p.segs[n])
             ss == [p.segs EXCEPT ![n] = w]
  <2>2. w \in Seq(STRING) /\ Len(w) = Len(p.segs[n]) - 1
    BY <2>1, FrontType
  <2>3. segs = ss
    BY <1>5
  <2>4. Len(w) <= MaxArgs
    <3>1. Len(p.segs[n]) <= MaxArgs /\ Len(p.segs[n]) \in Nat
      BY <1>2, <2>1, LenProperties DEF WithinLimits
    <3> HIDE DEF w
    <3> QED BY <2>2, <3>1, LimitsAreNumbers
  <2> HIDE DEF w
  <2>5. ss \in Seq(Seq(STRING)) /\ Len(ss) = Len(p.segs)
    BY <1>2, <1>3, <2>1, <2>2, ExceptSeq
  <2>6. DOMAIN ss = DOMAIN p.segs /\ \A i \in DOMAIN p.segs : ss[i] = IF i = n THEN w ELSE p.segs[i]
    OBVIOUS
  <2> HIDE DEF ss
  <2>7. WithinLimits(ss)
    BY <1>2, <2>4, <2>5, <2>6 DEF WithinLimits
  <2> QED BY <1>1, <2>3, <2>5, <2>7
<1> QED BY <1>4, <1>5

LEMMA LineType ==
    ASSUME NEW l \in Seq(STRING)
    PROVE  LineOf(Parse(l)) \in Line
<1> DEFINE p == Parse(l)
           segs == [i \in DOMAIN p.segs |-> Kind(p.segs[i])]
<1>1. p.segs \in Seq(Seq(STRING)) /\ p.bg \in BOOLEAN
  BY ParseType
<1> HIDE DEF p
<1>2. DOMAIN p.segs = 1 .. Len(p.segs) /\ Len(p.segs) \in Nat
  BY <1>1, LenProperties
<1>3. \A w : Kind(w) \in SegKinds
  BY DEF Kind, SegKinds
<1>4. segs \in Seq(SegKinds)
  BY <1>2, <1>3, SeqDef
<1> QED BY <1>1, <1>4 DEF LineOf, Line, p
-----------------------------------------------------------------------------
(* The inductive invariant                                                 *)

\* Where the shell is in execute: nothing is forked before the loop over
\* the segments, which goes through the segments of the line and is not
\* reached when a redirection could not be opened.
InLoop ==
    /\ pc \in {"prompt", "out", "in", "check"} =>
          seg = 1 /\ spawned = <<>> /\ toClose = <<>>
    /\ pc \in {"seg", "fork"} => seg \in 1 .. N
    /\ pc = "fork" => line.segs[seg] # "empty"
    /\ pc \in {"seg", "fork", "close"} => outFd # -1 /\ inFd # -1

\* The redirections of the line are open once the open call has been made
\* and has not failed.
FilesOpen ==
    /\ pc \in {"in", "check", "seg", "fork", "close"} =>
          IF line.out THEN outFd = -1 \/ fds[outFd] = File ELSE outFd = 1
    /\ pc \in {"check", "seg", "fork", "close"} =>
          IF line.inp THEN inFd = -1 \/ fds[inFd] = File ELSE inFd = 0

Named(f) == \E i \in DOMAIN toClose : toClose[i] = f

\* f is the read end of pipe p, which is not yet to be closed, and the
\* write end is open too.
ReadEnd(f, p) == fds[f] = Rd(p) /\ Holds(fds, Wr(p)) /\ ~Named(f)

\* The ends in hand: what the next segment reads, and at a fork the ends of
\* the pipe that was made for the segment, unless it is the last.
EndsInHand ==
    /\ pc = "seg" => prevRead = inFd \/ \E p \in Pipes : ReadEnd(prevRead, p)
    /\ pc = "fork" =>
          /\ curRead = inFd \/ \E p \in Pipes : ReadEnd(curRead, p)
          /\ IsLast => curWrite = outFd
          /\ ~IsLast => /\ prevRead # curRead /\ ~Named(curWrite)
                        /\ \E p \in Pipes :
                              ReadEnd(prevRead, p) /\ fds[curWrite] = Wr(p)

DescriptorInv ==
    ShellKeepsTerminal /\ ClosesOwnPipeEnds /\ FilesOpen /\ EndsInHand

\* A child that is there to run, what it reads and what it writes: by its
\* redirections to come, or by those it has done.
Alive(k) == kid[k].state \in {"born", "live"}
InOf(k) == kid[k].fds[IF kid[k].state = "born" THEN kid[k].rfd ELSE 0]
OutOf(k) == kid[k].fds[IF kid[k].state = "born" THEN kid[k].wfd ELSE 1]

\* A child has both ends of the pipes it is to read and write, and its
\* redirections will find descriptors 0 to 2 in use.
KidTables ==
    /\ \A k \in Kids : Alive(k) =>
          /\ InOf(k) \in {Tty, File} \/
                \E p \in Pipes : InOf(k) = Rd(p) /\ Holds(kid[k].fds, Wr(p))
          /\ OutOf(k) \in {Tty, File} \/
                \E p \in Pipes : OutOf(k) = Wr(p) /\ Holds(kid[k].fds, Rd(p))
    /\ \A k \in Kids : kid[k].state = "born" =>
          /\ \A f \in 0 .. 2 : kid[k].fds[f] = Tty
          /\ kid[k].rfd \in Fd /\ (kid[k].rfd = 0 \/ kid[k].rfd > 2)
          /\ kid[k].wfd \in Fd /\ (kid[k].wfd = 1 \/ kid[k].wfd > 2)

\* The children in spawned are different ones, each a stage of the line
\* that the loop has passed.
Spawned ==
    /\ \A m, n \in DOMAIN spawned : spawned[m] = spawned[n] => m = n
    /\ \A n \in DOMAIN spawned :
          /\ kid[spawned[n]].state # "free"
          /\ kid[spawned[n]].stage \in NonEmpty
          /\ pc \in {"seg", "fork"} => kid[spawned[n]].stage < seg

Stages == { spawned[n] : n \in DOMAIN spawned }

\* No stage that runs something lies strictly between i and j.
NoneBetween(i, j) == ~\E m \in NonEmpty : i < m /\ m < j

\* f is what the next stage is to read: the pipe the stage before writes,
\* or the input redirection when there is none before.
NextReads(f) ==
    /\ \A a \in Stages : Alive(a) /\ NoneBetween(kid[a].stage, seg) =>
          \E p \in Pipes : OutOf(a) = Wr(p) /\ fds[f] = Rd(p)
    /\ NoneBetween(0, seg) => f = inFd

\* Wired, for the children that have their redirections still to do as
\* well.
ChildrenWired ==
    /\ \A a, b \in Stages :
          Alive(a) /\ Alive(b) /\ Follows(kid[a].stage, kid[b].stage) =>
             \E p \in Pipes : OutOf(a) = Wr(p) /\ InOf(b) = Rd(p)
    /\ \A k \in Stages : Alive(k) =>
          /\ NoneBetween(0, kid[k].stage) =>
                InOf(k) = IF line.inp THEN File ELSE Tty
          /\ kid[k].stage = N => OutOf(k) = IF line.out THEN File ELSE Tty

\* The end in hand continues the chain.
Wiring ==
    /\ ChildrenWired
    /\ pc = "seg" => NextReads(prevRead)
    /\ pc = "fork" => NextReads(curRead)

-----------------------------------------------------------------------------
(* Type correctness                                                        *)

TypeInv == TypeOK /\ InLoop

LEMMA ObjectsType ==
    /\ {None, Tty, File} \subseteq Objects
    /\ \A p \in Pipes : Rd(p) \in Objects /\ Wr(p) \in Objects
    /\ NoFds \in [Fd -> Objects]
    /\ 0 .. 2 \subseteq Fd /\ Fd \subseteq Nat
<1>1. {None, Tty, File} \subseteq Objects
  BY DEF Objects
<1>2. \A p \in Pipes : Rd(p) \in Objects /\ Wr(p) \in Objects
  BY DEF Objects, Rd, Wr
<1>3. NoFds \in [Fd -> Objects]
  BY <1>1 DEF NoFds
<1>4. 0 .. 2 \subseteq Fd /\ Fd \subseteq Nat
  BY NumFdsAssumption DEF Fd
<1> QED BY <1>1, <1>2, <1>3, <1>4

LEMMA TablesType ==
    ASSUME NEW table \in [Fd -> Objects]
    PROVE  /\ \A f : Closed(table, f) \in [Fd -> Objects]
           /\ \A f : ClosedAbove2(table, f) \in [Fd -> Objects]
           /\ \A f \in Fd : Dupped(table, f) \in [Fd -> Objects]
<1>1. \A f : Closed(table, f) \in [Fd -> Objects]
  BY ObjectsType DEF Closed
<1>2. \A f : ClosedAbove2(table, f) \in [Fd -> Objects]
  BY <1>1 DEF ClosedAbove2
<1>3. \A f \in Fd : Dupped(table, f) \in [Fd -> Objects]
  BY DEF Dupped
<1> QED BY <1>1, <1>2, <1>3

LEMMA RedirectedType ==
    ASSUME NEW table \in [Fd -> Objects], NEW r \in Fd, NEW w \in Fd
    PROVE  RedirectedFds(table, r, w) \in [Fd -> Objects]
<1> DEFINE t1 == IF r # 0 THEN Dupped(Closed(table, 0), r) ELSE table
           t2 == IF w # 1 THEN Dupped(Closed(t1, 1), w) ELSE t1
<1>1. t1 \in [Fd -> Objects]
  BY TablesType
<1> HIDE DEF t1
<1>2. t2 \in [Fd -> Objects]
  BY <1>1, TablesType
<1> QED BY <1>2 DEF RedirectedFds, t1

LEMMA ReturnType ==
    ASSUME TypeInv, Return, fds' \in [Fd -> Objects], kid' \in [Kids -> KidType],
           fill' \in [Pipes -> 0 .. PipeCap]
    PROVE  TypeInv'
<1>1. NoLine \in Line /\ Len(<<>>) = 0 /\ \A S : <<>> \in Seq(S)
  BY DEF NoLine, Line
<1>2. {-1, 0, 1} \subseteq Fd \cup {-1} /\ {0, 1} \subseteq Fd
  BY ObjectsType
<1> QED BY <1>1, <1>2 DEF TypeInv, TypeOK, InLoop, Return, N

LEMMA InitType == Init => TypeInv
<1> SUFFICES ASSUME Init PROVE TypeInv
  OBVIOUS
<1>1. NoLine \in Line /\ Len(<<>>) = 0 /\ \A S : <<>> \in Seq(S)
  BY DEF NoLine, Line
<1>2. {-1, 0, 1} \subseteq Fd \cup {-1} /\ {0, 1} \subseteq Fd
  BY ObjectsType
<1>3. NoKid \in KidType
  BY ObjectsType, BoundsAssumption DEF NoKid, KidType, SegKinds
<1>4. fds \in [Fd -> Objects]
  BY ObjectsType DEF Init
<1>5. fill \in [Pipes -> 0 .. PipeCap]
  BY BoundsAssumption DEF Init
<1>6. todo \in Seq(Seq(STRING))
  BY SessionsAssumption DEF Init
<1> QED BY <1>1, <1>2, <1>3, <1>4, <1>5, <1>6 DEF TypeInv, TypeOK, InLoop, Init, N

\* The steps of the shell.
LEMMA ShellType == TypeInv /\ (Begin \/ Shell) => TypeInv'
<1> SUFFICES ASSUME TypeInv, Begin \/ Shell PROVE TypeInv'
  OBVIOUS
<1> USE DEF TypeInv, TypeOK
<1>1. /\ N \in Nat /\ DOMAIN line.segs = 1 .. N /\ line.segs \in Seq(SegKinds)
      /\ \A i \in 1 .. N : line.segs[i] \in SegKinds
      /\ Len(toClose) \in Nat /\ Len(spawned) \in Nat
  <2>1. line.segs \in Seq(SegKinds)
    BY DEF Line
  <2> QED BY <2>1, LenProperties, ElementOfSeq DEF N
<1>2. /\ \A f : ClosedAbove2(fds, f) \in [Fd -> Objects]
      /\ \A f, g : ClosedAbove2(ClosedAbove2(fds, f), g) \in [Fd -> Objects]
  BY TablesType
<1>3. NoKid \in KidType
  BY ObjectsType, BoundsAssumption DEF NoKid, KidType, SegKinds
<1>4. ParentClose \in Fd \cup {-1}
  BY DEF ParentClose
<1>5. ASSUME Begin PROVE TypeInv'
  <2>1. /\ todo # <<>> /\ Tail(todo) \in Seq(Seq(STRING)) /\ Head(todo) \in Seq(STRING)
    BY <1>5, HeadTailProperties DEF Begin
  <2>2. typed' \in Seq(STRING) /\ todo' \in Seq(Seq(STRING))
    BY <1>5, <2>1 DEF Begin
  <2>3. line' \in Line
    <3>1. PICK t \in Seq(STRING) : t = typed'
      BY <2>2
    <3>2. line' = LineOf(Parse(t))
      BY <1>5, <3>1 DEF Begin
    <3> QED BY <3>2, LineType
  <2>4. kid' \in [Kids -> KidType]
    BY <1>3, <1>5 DEF Begin
  <2>5. seg' = 1 /\ entered' \in Nat
    BY <1>5 DEF Begin, InLoop
  <2> QED BY <1>5, <2>2, <2>3, <2>4, <2>5 DEF Begin, InLoop
<1>6. ASSUME DispatchInShell PROVE TypeInv'
  BY <1>6, ReturnType DEF DispatchInShell
<1>7. ASSUME OpenOut \/ OpenIn PROVE TypeInv'
  <2>1. /\ fds' \in [Fd -> Objects]
        /\ {outFd', inFd'} \subseteq Fd \cup {-1}
        /\ typed' \in Seq(STRING)
    <3>1. <<>> \in Seq(STRING) /\ {0, 1} \subseteq Fd /\ File \in Objects
      BY ObjectsType
    <3>2. \A fd \in Fd \cup {-1} : Opened(fd, fds') => fds' \in [Fd -> Objects]
      BY <3>1 DEF Opened, LowestFree
    <3>3. CASE OpenOut
      BY <3>1, <3>2, <3>3 DEF OpenOut
    <3>4. CASE OpenIn
      BY <3>1, <3>2, <3>4 DEF OpenIn, userVars
    <3> QED BY <1>7, <3>3, <3>4
  <2>2. <<todo, entered, line, seg, prevRead, curRead, curWrite, spawned, toClose,
          kid, fill>>' = <<todo, entered, line, seg, prevRead, curRead, curWrite, spawned,
          toClose, kid, fill>> /\ N' = N
    BY <1>7 DEF OpenOut, OpenIn, userVars, N
  <2>3. pc \in {"out", "in"} /\ pc' \in {"in", "check"}
    BY <1>7 DEF OpenOut, OpenIn
  <2> QED BY <2>1, <2>2, <2>3 DEF InLoop
<1>8. ASSUME OutFailed \/ LoneEmpty \/ PipeFail \/ Finish PROVE TypeInv'
  BY <1>8, ReturnType DEF OutFailed, LoneEmpty, PipeFail, Finish
<1>9. ASSUME InFailed PROVE TypeInv'
  BY <1>2, <1>9, ReturnType DEF InFailed
<1>10. ASSUME LoneInProcess PROVE TypeInv'
  BY <1>2, <1>10, ReturnType DEF LoneInProcess
<1>11. ASSUME ForkFail PROVE TypeInv'
  <2>1. fds' \in [Fd -> Objects]
    BY <1>2, <1>11 DEF ForkFail
  <2> QED BY <1>11, <2>1, ReturnType DEF ForkFail
<1>12. ASSUME StartSegments PROVE TypeInv'
  <2>1. prevRead' \in Fd
    BY <1>12 DEF StartSegments, Opens
  <2>2. seg = 1 /\ pc' \in {"seg", "close"} /\ (pc' = "seg" => N # 0)
    BY <1>12 DEF StartSegments, Opens, InLoop
  <2>3. pc' = "seg" => seg' \in 1 .. N' /\ N' = N
    BY <1>1, <1>12, <2>2 DEF StartSegments, N
  <2>4. outFd' # -1 /\ inFd' # -1
    BY <1>12, ObjectsType DEF StartSegments, Opens
  <2>5. line.segs' = line.segs
    BY <1>12 DEF StartSegments
  <2> QED BY <1>12, <2>1, <2>2, <2>3, <2>4, <2>5 DEF StartSegments, InLoop, userVars, N
<1>13. ASSUME NextSeg, seg \in 1 .. N, line' = line
       PROVE  /\ pc' \in {"close", "seg"} /\ seg' \in 1 .. N' /\ N' = N
  BY <1>1, <1>13 DEF NextSeg, IsLast, N
<1>14. ASSUME SkipEmpty PROVE TypeInv'
  <2>1. seg \in 1 .. N /\ line' = line /\ NextSeg
    BY <1>14 DEF SkipEmpty, InLoop
  <2>2. /\ pc' \in {"close", "seg"} /\ seg' \in 1 .. N' /\ N' = N
    BY <1>13, <2>1
  <2> QED BY <1>14, <2>2 DEF SkipEmpty, InLoop, userVars
<1>15. ASSUME LastSegment PROVE TypeInv'
  <2>1. outFd \in Fd
    BY <1>15 DEF LastSegment, InLoop
  <2> QED BY <1>15, <2>1 DEF LastSegment, InLoop, userVars, N
<1>16. ASSUME MakePipe PROVE TypeInv'
  <2>1. PICK p \in Pipes, r \in Fd, w \in Fd :
            /\ fds' = [fds EXCEPT ![r] = Rd(p), ![w] = Wr(p)]
            /\ fill' = [fill EXCEPT ![p] = 0]
            /\ curRead' = prevRead /\ curWrite' = w /\ prevRead' = r
    BY <1>16 DEF MakePipe
  <2>2. fds' \in [Fd -> Objects] /\ fill' \in [Pipes -> 0 .. PipeCap]
    BY <2>1, ObjectsType, BoundsAssumption
  <2> QED BY <1>16, <2>1, <2>2, ZenonT(60) DEF MakePipe, InLoop, userVars, N
<1>17. ASSUME NEW k \in Kids, Fork(k) PROVE TypeInv'
  <2>1. seg \in 1 .. N /\ line' = line /\ NextSeg
    BY <1>17 DEF Fork, InLoop
  <2>2. /\ pc' \in {"close", "seg"} /\ seg' \in 1 .. N' /\ N' = N
    BY <1>13, <2>1
  <2>3. kid' \in [Kids -> KidType]
    <3> DEFINE c == [NoKid EXCEPT !.state = "born", !.fds = fds, !.rfd = curRead,
                                  !.wfd = curWrite, !.stage = seg, !.kind = line.segs[seg]]
    <3>1. c \in KidType
      <4>1. /\ fds \in [Fd -> Objects] /\ curRead \in Fd /\ curWrite \in Fd
            /\ seg \in Nat /\ line.segs[seg] \in SegKinds
        BY <1>1, <2>1
      <4> QED BY <1>3, <4>1 DEF KidType
    <3>2. kid' = [kid EXCEPT ![k] = c]
      BY <1>17 DEF Fork
    <3> HIDE DEF c
    <3> QED BY <3>1, <3>2
  <2>4. spawned' \in Seq(Kids) /\ toClose' \in Seq(Fd \cup {-1})
    BY <1>4, <1>17, AppendProperties DEF Fork
  <2> QED BY <1>17, <2>2, <2>3, <2>4 DEF Fork, InLoop, userVars
<1>18. ASSUME CloseNext PROVE TypeInv'
  <2>1. toClose' \in Seq(Fd \cup {-1}) /\ fds' \in [Fd -> Objects]
    BY <1>2, <1>18, HeadTailProperties DEF CloseNext
  <2> QED BY <1>18, <2>1 DEF CloseNext, InLoop, userVars, N
<1>19. ASSUME Wait PROVE TypeInv'
  <2>1. spawned' \in Seq(Kids) /\ kid' \in [Kids -> KidType]
    BY <1>3, <1>19, HeadTailProperties DEF Wait
  <2> QED BY <1>19, <2>1 DEF Wait, InLoop, userVars, N
<1> QED
  BY <1>5, <1>6, <1>7, <1>8, <1>9, <1>10, <1>11, <1>12, <1>14, <1>15, <1>16, <1>17,
     <1>18, <1>19 DEF Shell

\* What reading and writing do to a child.
LEMMA UnitsType ==
    ASSUME NEW c \in KidType
    PROVE  /\ \A h \in 0 .. 1 : [c EXCEPT !.hold = h] \in KidType
           /\ [c EXCEPT !.eof = TRUE] \in KidType
           /\ \A n \in 0 .. MaxOut : [c EXCEPT !.left = n] \in KidType
           /\ \A n \in 0 .. MaxOut, h \in 0 .. 1 :
                 [c EXCEPT !.left = n, !.hold = h] \in KidType
<1>1. \A h \in 0 .. 1 : [c EXCEPT !.hold = h] \in KidType
  BY DEF KidType
<1>2. [c EXCEPT !.eof = TRUE] \in KidType
  BY DEF KidType
<1>3. \A n \in 0 .. MaxOut : [c EXCEPT !.left = n] \in KidType
  BY DEF KidType
<1>4. \A n \in 0 .. MaxOut, h \in 0 .. 1 : [c EXCEPT !.left = n, !.hold = h] \in KidType
  BY DEF KidType
<1> QED BY <1>1, <1>2, <1>3, <1>4

\* The steps of the children, which touch neither the shell nor its table.
LEMMA ChildType ==
    ASSUME TypeInv, NEW k \in Kids, Child(k)
    PROVE  TypeInv'
<1> USE DEF TypeInv, TypeOK
<1>1. kid[k] \in KidType /\ MaxOut \in Nat
  BY BoundsAssumption
<1>0. 0 \in 0 .. 1 /\ 1 \in 0 .. 1
  OBVIOUS
<1>2. ASSUME Redirect(k) PROVE kid' \in [Kids -> KidType] /\ fill' = fill
  <2>1. PICK n \in 0 .. MaxOut :
            kid' = [kid EXCEPT ![k].state = "live",
                               ![k].fds = RedirectedFds(@, kid[k].rfd, kid[k].wfd),
                               ![k].left = n]
    BY <1>2 DEF Redirect
  <2>2. RedirectedFds(kid[k].fds, kid[k].rfd, kid[k].wfd) \in [Fd -> Objects]
    BY <1>1, RedirectedType DEF KidType
  <2> QED BY <1>1, <1>2, <2>1, <2>2 DEF Redirect, KidType
<1>3. ASSUME Write(k)
      PROVE  kid' \in [Kids -> KidType] /\ fill' \in [Pipes -> 0 .. PipeCap]
  <2>1. kid' \in [Kids -> KidType]
    <3>1. CASE kid[k].kind = "filter"
      <4>1. kid' = [kid EXCEPT ![k] = [kid[k] EXCEPT !.hold = 0]]
        BY <1>3, <3>1 DEF Write, Emitted
      <4>2. [kid[k] EXCEPT !.hold = 0] \in KidType
        BY <1>0, <1>1, UnitsType, Zenon
      <4> QED BY <4>1, <4>2
    <3>2. CASE kid[k].kind # "filter"
      <4>1. kid[k].left - 1 \in 0 .. MaxOut
        BY <1>1, <1>3, <3>2 DEF Write, HasOutput, KidType
      <4>2. kid' = [kid EXCEPT ![k].left = kid[k].left - 1]
        BY <1>3, <3>2 DEF Write, Emitted
      <4> QED BY <1>1, <4>1, <4>2 DEF KidType
    <3> QED BY <3>1, <3>2
  <2>2. fill' \in [Pipes -> 0 .. PipeCap]
    <3>1. \A p \in Pipes : fill[p] < PipeCap => fill[p] + 1 \in 0 .. PipeCap
      BY BoundsAssumption
    <3> QED BY <1>3, <3>1 DEF Write
  <2> QED BY <2>1, <2>2
<1>4. ASSUME Read(k)
      PROVE  kid' \in [Kids -> KidType] /\ fill' \in [Pipes -> 0 .. PipeCap]
  <2>1. kid' \in [Kids -> KidType]
    <3>1. kid[k].left > 0 => kid[k].left - 1 \in 0 .. MaxOut
      BY <1>1 DEF KidType
    <3>2. \E c : /\ kid' = [kid EXCEPT ![k] = c]
                 /\ \/ kid[k].left > 0 /\ c = [kid[k] EXCEPT !.left = kid[k].left - 1, !.hold = 1]
                    \/ c = [kid[k] EXCEPT !.eof = TRUE]
                    \/ c = [kid[k] EXCEPT !.hold = 1]
      BY <1>4 DEF Read
    <3>3. /\ [kid[k] EXCEPT !.eof = TRUE] \in KidType
          /\ [kid[k] EXCEPT !.hold = 1] \in KidType
          /\ kid[k].left > 0 => [kid[k] EXCEPT !.left = kid[k].left - 1, !.hold = 1] \in KidType
      BY <1>0, <1>1, <3>1, UnitsType, Zenon
    <3> QED BY <3>2, <3>3
  <2>2. fill' \in [Pipes -> 0 .. PipeCap]
    <3>1. \A p \in Pipes : fill[p] > 0 => fill[p] - 1 \in 0 .. PipeCap
      BY BoundsAssumption
    <3> QED BY <1>4, <3>1 DEF Read
  <2> QED BY <2>1, <2>2
<1>5. ASSUME Exit(k) PROVE kid' \in [Kids -> KidType] /\ fill' = fill
  BY <1>1, <1>5, ObjectsType DEF Exit, KidType
<1>6. UNCHANGED <<shellVars, fds>>
  BY DEF Child, Redirect, Write, Read, Exit
<1> QED BY <1>2, <1>3, <1>4, <1>5, <1>6 DEF Child, InLoop, shellVars, userVars, N

LEMMA NextType == TypeInv /\ [Next]_vars => TypeInv'
<1> SUFFICES ASSUME TypeInv, [Next]_vars PROVE TypeInv'
  OBVIOUS
<1>1. CASE Next
  BY <1>1, ShellType, ChildType DEF Next
<1>2. CASE UNCHANGED vars
  BY <1>2 DEF TypeInv, TypeOK, InLoop, vars, shellVars, userVars, N
<1> QED BY <1>1, <1>2

\* The type invariant holds of every reachable state.
THEOREM TypeCorrect == Spec => []TypeInv
BY InitType, NextType, PTL DEF Spec

-----------------------------------------------------------------------------
(* Descriptors of the shell                                                *)

LEMMA ObjectKinds ==
    /\ None # Tty /\ None # File /\ Tty # File
    /\ {None[1], Tty[1], File[1]} \cap {"rd", "wr"} = {}
    /\ \A p, q : /\ Rd(p)[1] = "rd" /\ Wr(p)[1] = "wr" /\ Rd(p) # Wr(q)
                 /\ {Rd(p), Wr(p)} \cap {None, Tty, File} = {}
                 /\ Rd(p) = Rd(q) => p = q
                 /\ Wr(p) = Wr(q) => p = q
BY DEF None, Tty, File, Rd, Wr

\* A close that is guarded by fd > 2 changes at most that descriptor, and
\* none of the first three.
LEMMA ClosedAbove2Is ==
    ASSUME NEW table \in [Fd -> Objects], NEW f \in Int
    PROVE  /\ \A g \in 0 .. 2 : ClosedAbove2(table, f)[g] = table[g]
           /\ \A g \in Fd : g # f => ClosedAbove2(table, f)[g] = table[g]
           /\ f <= 2 => ClosedAbove2(table, f) = table
BY ObjectsType DEF ClosedAbove2, Closed

LEMMA ReturnDescriptors ==
    ASSUME Return, ShellKeepsTerminal'
    PROVE  DescriptorInv'
<1>1. pc' = "prompt" /\ toClose' = <<>>
  BY DEF Return
<1>2. DOMAIN <<>> = {}
  OBVIOUS
<1> QED BY <1>1, <1>2 DEF DescriptorInv, ClosesOwnPipeEnds, FilesOpen, EndsInHand

\* When the shell only opens descriptors, what it has open stays.
Grows == \A f \in Fd : fds[f] # None => fds'[f] = fds[f]

LEMMA GrowingKeeps ==
    ASSUME TypeInv, DescriptorInv, Grows, toClose' = toClose
    PROVE  ShellKeepsTerminal' /\ ClosesOwnPipeEnds'
<1>1. ShellKeepsTerminal'
  BY ObjectsType, ObjectKinds DEF DescriptorInv, ShellKeepsTerminal, Grows
<1>2. ASSUME NEW i \in DOMAIN toClose, toClose[i] # -1
      PROVE  fds'[toClose[i]][1] \in {"rd", "wr"}
  <2>1. toClose[i] \in Fd
    BY <1>2, ElementOfSeq, LenProperties DEF TypeInv, TypeOK
  <2>2. fds[toClose[i]][1] \in {"rd", "wr"}
    BY <1>2 DEF DescriptorInv, ClosesOwnPipeEnds
  <2> QED BY <2>1, <2>2, ObjectKinds DEF Grows
<1> QED BY <1>1, <1>2 DEF DescriptorInv, ClosesOwnPipeEnds

\* The descriptor a fork leaves to be closed is an open pipe end that is
\* not yet named, and not the one the next segment reads.
LEMMA ParentCloseIs ==
    ASSUME TypeInv, DescriptorInv, pc = "fork", ParentClose # -1
    PROVE  /\ ParentClose \in Fd /\ ~Named(ParentClose)
           /\ fds[ParentClose][1] \in {"rd", "wr"}
           /\ ~IsLast => prevRead # ParentClose
<1> USE DEF TypeInv, TypeOK
<1>1. CASE curRead > 2 /\ curRead # inFd
  <2>1. ParentClose = curRead
    BY <1>1 DEF ParentClose
  <2>2. PICK p \in Pipes : ReadEnd(curRead, p)
    BY <1>1 DEF DescriptorInv, EndsInHand
  <2>3. ~IsLast => prevRead # curRead
    BY DEF DescriptorInv, EndsInHand
  <2> QED BY <2>1, <2>2, <2>3, ObjectKinds DEF ReadEnd
<1>2. CASE ~(curRead > 2 /\ curRead # inFd)
  <2>1. ParentClose = curWrite /\ curWrite # outFd
    BY <1>2 DEF ParentClose
  <2>2. ~IsLast /\ ~Named(curWrite)
    BY <2>1 DEF DescriptorInv, EndsInHand
  <2>3. PICK p \in Pipes : ReadEnd(prevRead, p) /\ fds[curWrite] = Wr(p)
    BY <2>2 DEF DescriptorInv, EndsInHand
  <2> QED BY <2>1, <2>2, <2>3, ObjectKinds DEF ReadEnd
<1> QED BY <1>1, <1>2

LEMMA OpenDescriptors ==
    ASSUME TypeInv, DescriptorInv, OpenOut \/ OpenIn
    PROVE  DescriptorInv'
<1> USE DEF TypeInv, TypeOK
<1>1. ASSUME NEW fd \in Fd \cup {-1}, Opened(fd, fds')
      PROVE  Grows /\ (fd # -1 => fds'[fd] = File)
  BY <1>1, ObjectsType DEF Opened, LowestFree, Grows
<1>2. CASE OpenOut
  <2>1. /\ pc = "out" /\ pc' = "in" /\ toClose' = toClose /\ line' = line /\ inFd' = inFd
        /\ Grows
        /\ IF line.out THEN outFd' = -1 \/ fds'[outFd'] = File ELSE outFd' = 1
    BY <1>1, <1>2 DEF OpenOut, Grows
  <2>2. ShellKeepsTerminal' /\ ClosesOwnPipeEnds'
    BY <2>1, GrowingKeeps
  <2> QED BY <2>1, <2>2 DEF DescriptorInv, FilesOpen, EndsInHand
<1>3. CASE OpenIn
  <2>1. /\ pc = "in" /\ pc' = "check" /\ toClose' = toClose /\ line' = line /\ outFd' = outFd
        /\ Grows
        /\ IF line.inp THEN inFd' = -1 \/ fds'[inFd'] = File ELSE inFd' = 0
    BY <1>1, <1>3 DEF OpenIn, Grows
  <2>2. ShellKeepsTerminal' /\ ClosesOwnPipeEnds'
    BY <2>1, GrowingKeeps
  <2>3. IF line.out THEN outFd = -1 \/ fds'[outFd] = File ELSE outFd = 1
    BY <2>1, ObjectKinds DEF DescriptorInv, FilesOpen, Grows
  <2> QED BY <2>1, <2>2, <2>3 DEF DescriptorInv, FilesOpen, EndsInHand
<1> QED BY <1>2, <1>3

LEMMA MakePipeDescriptors ==
    ASSUME TypeInv, DescriptorInv, MakePipe
    PROVE  DescriptorInv'
<1> USE DEF TypeInv, TypeOK
<1>1. PICK p \in Pipes, r \in Fd, w \in Fd :
          /\ LowestFree(fds, r)
          /\ LowestFree([fds EXCEPT ![r] = Rd(p)], w)
          /\ fds' = [fds EXCEPT ![r] = Rd(p), ![w] = Wr(p)]
          /\ curRead' = prevRead
          /\ curWrite' = w
          /\ prevRead' = r
  BY DEF MakePipe
<1>2. fds[r] = None /\ fds[w] = None /\ r # w
  BY <1>1, ObjectKinds DEF LowestFree
<1>3. Grows /\ fds'[r] = Rd(p) /\ fds'[w] = Wr(p)
  BY <1>1, <1>2 DEF Grows
<1>4. /\ pc = "seg" /\ pc' = "fork" /\ ~IsLast' /\ IsLast' = IsLast
      /\ <<toClose, line, outFd, inFd>>' = <<toClose, line, outFd, inFd>>
  BY DEF MakePipe, IsLast, N
<1>5. ShellKeepsTerminal' /\ ClosesOwnPipeEnds'
  BY <1>3, <1>4, GrowingKeeps
<1>6. FilesOpen'
  BY <1>3, <1>4, ObjectKinds DEF DescriptorInv, FilesOpen, InLoop, Grows
<1>7. \A f \in Fd : fds[f] = None => ~Named(f)
  <2> SUFFICES ASSUME NEW f \in Fd, fds[f] = None, Named(f) PROVE FALSE
    OBVIOUS
  <2>1. PICK i \in DOMAIN toClose : toClose[i] = f
    BY DEF Named
  <2>2. f # -1
    BY ObjectsType
  <2> QED BY <2>1, <2>2, ObjectKinds DEF DescriptorInv, ClosesOwnPipeEnds
<1>8. ~Named(r)' /\ ~Named(w)' /\ \A f : Named(f)' <=> Named(f)
  BY <1>2, <1>4, <1>7 DEF Named
<1>9. curRead' = inFd' \/ \E q \in Pipes : ReadEnd(curRead, q)'
  <2>1. CASE prevRead = inFd
    BY <1>1, <1>4, <2>1
  <2>2. CASE prevRead # inFd
    <3>1. PICK q \in Pipes : ReadEnd(prevRead, q)
      BY <1>4, <2>2 DEF DescriptorInv, EndsInHand
    <3>2. fds'[curRead'] = Rd(q)
      BY <1>1, <1>3, <3>1, ObjectKinds DEF ReadEnd, Grows
    <3>3. Holds(fds, Wr(q))'
      BY <1>3, <3>1, ObjectKinds DEF ReadEnd, Grows, Holds
    <3>4. ~Named(curRead)'
      BY <1>1, <1>4, <3>1 DEF ReadEnd, Named
    <3> QED BY <3>2, <3>3, <3>4 DEF ReadEnd
  <2> QED BY <2>1, <2>2
<1>10. prevRead' # curRead'
  <2>1. fds[prevRead] # None
    <3>1. CASE prevRead = inFd
      BY <1>4, <3>1, ObjectKinds
      DEF DescriptorInv, ShellKeepsTerminal, FilesOpen, InLoop, TypeInv
    <3>2. CASE prevRead # inFd
      BY <1>4, <3>2, ObjectKinds DEF DescriptorInv, EndsInHand, ReadEnd
    <3> QED BY <3>1, <3>2
  <2> QED BY <1>1, <1>2, <2>1
<1>11. ~Named(curWrite)' /\ ReadEnd(prevRead, p)' /\ fds'[curWrite'] = Wr(p)
  <2>1. Holds(fds, Wr(p))'
    BY <1>3 DEF Holds
  <2>2. ~Named(curWrite)' /\ ~Named(prevRead)'
    BY <1>1, <1>8 DEF Named
  <2> QED BY <1>1, <1>3, <2>1, <2>2 DEF ReadEnd
<1>12. EndsInHand'
  BY <1>4, <1>9, <1>10, <1>11 DEF EndsInHand
<1> QED BY <1>5, <1>6, <1>12 DEF DescriptorInv

\* A fork names one more pipe end and leaves the others as they are.
LEMMA ForkDescriptors ==
    ASSUME TypeInv, DescriptorInv, NEW k \in Kids, Fork(k)
    PROVE  DescriptorInv'
<1> USE DEF TypeInv, TypeOK
<1> DEFINE n == Len(toClose)
<1>1. /\ pc = "fork"
      /\ toClose' = Append(toClose, ParentClose)
      /\ <<line, fds, outFd, inFd, prevRead>>' = <<line, fds, outFd, inFd, prevRead>>
      /\ pc' = "close" \/ (pc' = "seg" /\ ~IsLast)
  BY DEF Fork, NextSeg
<1>2. ParentClose \in Fd \cup {-1}
  BY DEF ParentClose
<1>3. /\ n \in Nat /\ DOMAIN toClose = 1 .. n /\ DOMAIN toClose' = 1 .. n + 1
      /\ \A i \in 1 .. n : toClose'[i] = toClose[i]
      /\ toClose'[n + 1] = ParentClose
  <2>1. toClose' \in Seq(Fd \cup {-1})
    BY <1>1, <1>2, AppendProperties
  <2> QED BY <1>1, <1>2, <2>1, AppendProperties, LenProperties
<1> HIDE DEF n
<1>4. ShellKeepsTerminal' /\ FilesOpen'
  BY <1>1 DEF DescriptorInv, ShellKeepsTerminal, FilesOpen
<1>5. ClosesOwnPipeEnds'
  <2>1. ASSUME NEW i \in DOMAIN toClose', toClose'[i] # -1
        PROVE  fds'[toClose'[i]][1] \in {"rd", "wr"}
    <3>1. CASE i \in 1 .. n
      BY <1>1, <1>3, <2>1, <3>1 DEF DescriptorInv, ClosesOwnPipeEnds
    <3>2. CASE i = n + 1
      BY <1>1, <1>3, <2>1, <3>2, ParentCloseIs
    <3> QED BY <1>3, <3>1, <3>2
  <2>2. ASSUME NEW i \in DOMAIN toClose', NEW j \in DOMAIN toClose',
               toClose'[i] = toClose'[j], toClose'[i] # -1
        PROVE  i = j
    <3>1. CASE i \in 1 .. n /\ j \in 1 .. n
      BY <1>3, <2>2, <3>1 DEF DescriptorInv, ClosesOwnPipeEnds
    <3>2. CASE i = n + 1 /\ j \in 1 .. n
      BY <1>1, <1>3, <2>2, <3>2, ParentCloseIs DEF Named
    <3>3. CASE j = n + 1 /\ i \in 1 .. n
      BY <1>1, <1>3, <2>2, <3>3, ParentCloseIs DEF Named
    <3> QED BY <1>3, <3>1, <3>2, <3>3
  <2> QED BY <2>1, <2>2 DEF ClosesOwnPipeEnds
<1>6. EndsInHand'
  <2>1. SUFFICES ASSUME pc' = "seg", prevRead' # inFd'
                 PROVE  \E p \in Pipes : ReadEnd(prevRead, p)'
    BY <1>1 DEF EndsInHand
  <2>2. ~IsLast
    BY <1>1, <2>1
  <2>3. PICK p \in Pipes : ReadEnd(prevRead, p)
    BY <1>1, <2>2 DEF DescriptorInv, EndsInHand
  <2>4. prevRead # ParentClose
    BY <1>1, <2>2, ParentCloseIs, ObjectsType
  <2>5. ~Named(prevRead)'
    <3>1. ASSUME NEW i \in DOMAIN toClose' PROVE toClose'[i] # prevRead'
      BY <1>1, <1>3, <2>3, <2>4 DEF ReadEnd, Named
    <3> QED BY <3>1 DEF Named
  <2>6. ReadEnd(prevRead, p)'
    BY <1>1, <2>3, <2>5 DEF ReadEnd, Holds
  <2> QED BY <2>6
<1> QED BY <1>4, <1>5, <1>6 DEF DescriptorInv

\* The parent's closes hit the ends they name and nothing else.
LEMMA CloseDescriptors ==
    ASSUME TypeInv, DescriptorInv, CloseNext
    PROVE  DescriptorInv'
<1> USE DEF TypeInv, TypeOK
<1> DEFINE h == Head(toClose)
           n == Len(toClose)
<1>1. /\ pc = "close" /\ pc' = "close" /\ toClose # <<>>
      /\ fds' = ClosedAbove2(fds, h)
      /\ toClose' = Tail(toClose)
      /\ <<line, outFd, inFd>>' = <<line, outFd, inFd>>
  BY DEF CloseNext
<1>2. /\ n \in Nat /\ n # 0 /\ DOMAIN toClose = 1 .. n /\ h = toClose[1]
      /\ DOMAIN toClose' = 1 .. n - 1
      /\ \A i \in 1 .. n - 1 : toClose'[i] = toClose[i + 1]
  <2>1. /\ Tail(toClose) \in Seq(Fd \cup {-1}) /\ Len(Tail(toClose)) = n - 1
        /\ \A i \in 1 .. n - 1 : Tail(toClose)[i] = toClose[i + 1]
        /\ h = toClose[1]
    BY <1>1, HeadTailProperties
  <2> QED BY <1>1, <2>1, LenProperties, EmptySeq
<1>3. \A i \in 1 .. n : toClose[i] \in Fd \cup {-1}
  BY <1>2, ElementOfSeq
<1> HIDE DEF h, n
<1>4. h \in Fd \cup {-1} /\ (h # -1 => fds[h][1] \in {"rd", "wr"})
  <2>1. 1 \in 1 .. n
    BY <1>2
  <2> QED BY <1>2, <1>3, <2>1 DEF DescriptorInv, ClosesOwnPipeEnds
<1>5. /\ \A g \in 0 .. 2 : fds'[g] = fds[g]
      /\ \A g \in Fd : g # h => fds'[g] = fds[g]
  BY <1>1, <1>4, ClosedAbove2Is, ObjectsType, SMTT(30)
<1>6. ShellKeepsTerminal'
  BY <1>5 DEF DescriptorInv, ShellKeepsTerminal
<1>7. ClosesOwnPipeEnds'
  <2>1. ASSUME NEW i \in DOMAIN toClose', toClose'[i] # -1
        PROVE  fds'[toClose'[i]][1] \in {"rd", "wr"}
    <3>1. i + 1 \in 1 .. n /\ 1 \in 1 .. n /\ i + 1 # 1 /\ toClose'[i] = toClose[i + 1]
      BY <1>2
    <3>2. toClose[i + 1] # h /\ toClose[i + 1] \in Fd
      BY <1>2, <1>3, <2>1, <3>1 DEF DescriptorInv, ClosesOwnPipeEnds
    <3>3. fds[toClose[i + 1]][1] \in {"rd", "wr"}
      BY <1>2, <2>1, <3>1 DEF DescriptorInv, ClosesOwnPipeEnds
    <3> QED BY <1>5, <3>1, <3>2, <3>3
  <2>2. ASSUME NEW i \in DOMAIN toClose', NEW j \in DOMAIN toClose',
               toClose'[i] = toClose'[j], toClose'[i] # -1
        PROVE  i = j
    <3>1. i + 1 \in 1 .. n /\ j + 1 \in 1 .. n
      BY <1>2
    <3>2. i + 1 = j + 1
      BY <1>2, <2>2, <3>1 DEF DescriptorInv, ClosesOwnPipeEnds
    <3> QED BY <1>2, <3>2
  <2> QED BY <2>1, <2>2 DEF ClosesOwnPipeEnds
<1>8. FilesOpen'
  <2>1. \A f \in Fd : fds[f] = File => fds'[f] = File
    <3>1. ASSUME NEW f \in Fd, fds[f] = File PROVE f # h
      <4>1. File[1] \notin {"rd", "wr"} /\ f # -1
        BY ObjectsType DEF File
      <4> QED BY <1>4, <3>1, <4>1
    <3> QED BY <1>5, <3>1
  <2> QED BY <1>1, <2>1 DEF DescriptorInv, FilesOpen
<1> QED BY <1>1, <1>6, <1>7, <1>8 DEF DescriptorInv, EndsInHand

\* A return closes at most descriptors above 2.
LEMMA ReturnSteps ==
    ASSUME TypeInv, DescriptorInv,
           DispatchInShell \/ OutFailed \/ InFailed \/ LoneEmpty \/ LoneInProcess
              \/ PipeFail \/ ForkFail \/ Finish
    PROVE  DescriptorInv'
<1> USE DEF TypeInv, TypeOK
<1>1. Return
  BY DEF DispatchInShell, OutFailed, InFailed, LoneEmpty, LoneInProcess, PipeFail,
         ForkFail, Finish
<1>2. \A f \in Int, g \in 0 .. 2 : ClosedAbove2(fds, f)[g] = fds[g]
  BY ClosedAbove2Is
<1>3. \A e, f \in Int, g \in 0 .. 2 : ClosedAbove2(ClosedAbove2(fds, e), f)[g] = fds[g]
  <2> TAKE e, f \in Int, g \in 0 .. 2
  <2> DEFINE t == ClosedAbove2(fds, e)
  <2>1. t \in [Fd -> Objects] /\ t[g] = fds[g]
    BY TablesType, ClosedAbove2Is
  <2> HIDE DEF t
  <2>2. ClosedAbove2(t, f)[g] = t[g]
    BY <2>1, ClosedAbove2Is
  <2> QED BY <2>1, <2>2 DEF t
<1>4. outFd \in Int /\ inFd \in Int /\ curRead \in Int /\ curWrite \in Int
  <2>1. \A f \in Fd \cup {-1} : f \in Int
    BY ObjectsType
  <2> QED BY <2>1
<1>5. \A g \in 0 .. 2 : fds'[g] = fds[g]
  <2>1. CASE DispatchInShell \/ OutFailed \/ LoneEmpty \/ PipeFail \/ Finish
    BY <2>1 DEF DispatchInShell, OutFailed, LoneEmpty, PipeFail, Finish
  <2>2. CASE InFailed
    BY <1>2, <1>4, <2>2 DEF InFailed
  <2>3. CASE LoneInProcess
    BY <1>3, <1>4, <2>3 DEF LoneInProcess
  <2>4. CASE ForkFail
    BY <1>2, <1>3, <1>4, <2>4 DEF ForkFail
  <2> QED BY <2>1, <2>2, <2>3, <2>4
<1> QED BY <1>1, <1>5, ReturnDescriptors DEF DescriptorInv, ShellKeepsTerminal

LEMMA NextDescriptors == TypeInv /\ DescriptorInv /\ [Next]_vars => DescriptorInv'
<1> SUFFICES ASSUME TypeInv, DescriptorInv, [Next]_vars PROVE DescriptorInv'
  OBVIOUS
<1>1. ASSUME toClose' = toClose, fds' = fds, ~pc' \in {"seg", "fork"}, line' = line,
             <<outFd, inFd>>' = <<outFd, inFd>>, pc' = pc
      PROVE  DescriptorInv'
  BY <1>1 DEF DescriptorInv, ShellKeepsTerminal, ClosesOwnPipeEnds, FilesOpen, EndsInHand
<1>2. CASE Begin
  <2>1. toClose' = toClose /\ fds' = fds /\ pc' = "out"
    BY <1>2 DEF Begin
  <2> QED BY <2>1 DEF DescriptorInv, ShellKeepsTerminal, ClosesOwnPipeEnds, FilesOpen, EndsInHand
<1>3. CASE StartSegments
  <2>1. /\ toClose' = toClose /\ fds' = fds /\ line' = line /\ <<outFd, inFd>>' = <<outFd, inFd>>
        /\ pc = "check" /\ pc' \in {"seg", "close"} /\ prevRead' = inFd
    BY <1>3 DEF StartSegments, Opens
  <2> QED BY <2>1 DEF DescriptorInv, ShellKeepsTerminal, ClosesOwnPipeEnds, FilesOpen, EndsInHand
<1>4. CASE SkipEmpty
  <2>1. /\ toClose' = toClose /\ fds' = fds /\ line' = line /\ <<outFd, inFd>>' = <<outFd, inFd>>
        /\ pc = "seg" /\ pc' \in {"seg", "close"} /\ prevRead' = prevRead
    BY <1>4 DEF SkipEmpty, NextSeg
  <2> QED BY <2>1 DEF DescriptorInv, ShellKeepsTerminal, ClosesOwnPipeEnds, FilesOpen,
                      EndsInHand, ReadEnd, Holds, Named
<1>5. CASE LastSegment
  <2>1. /\ toClose' = toClose /\ fds' = fds /\ line' = line /\ <<outFd, inFd>>' = <<outFd, inFd>>
        /\ pc = "seg" /\ pc' = "fork" /\ curRead' = prevRead /\ curWrite' = outFd
        /\ IsLast /\ IsLast'
    BY <1>5 DEF LastSegment, IsLast, N
  <2> QED BY <2>1 DEF DescriptorInv, ShellKeepsTerminal, ClosesOwnPipeEnds, FilesOpen,
                      EndsInHand, ReadEnd, Holds, Named
<1>6. CASE Wait
  BY <1>1, <1>6 DEF Wait
<1>7. CASE UNCHANGED <<shellVars, fds>>
  BY <1>7 DEF shellVars, userVars, DescriptorInv, ShellKeepsTerminal, ClosesOwnPipeEnds,
              FilesOpen, EndsInHand, ReadEnd, Holds, Named, IsLast, N
<1>8. \A k \in Kids : Child(k) => UNCHANGED <<shellVars, fds>>
  BY DEF Child, Redirect, Write, Read, Exit
<1> QED
  BY <1>2, <1>3, <1>4, <1>5, <1>6, <1>7, <1>8, OpenDescriptors, MakePipeDescriptors,
     ForkDescriptors, CloseDescriptors, ReturnSteps DEF Next, Shell, vars

LEMMA InitDescriptors == Init => DescriptorInv
<1> SUFFICES ASSUME Init PROVE DescriptorInv
  OBVIOUS
<1>1. DOMAIN <<>> = {} /\ 0 .. 2 \subseteq Fd
  BY ObjectsType
<1> QED BY <1>1 DEF Init, DescriptorInv, ShellKeepsTerminal, ClosesOwnPipeEnds, FilesOpen,
                    EndsInHand

LEMMA DescriptorsCorrect == Spec => []DescriptorInv
BY InitDescriptors, NextDescriptors, TypeCorrect, PTL DEF Spec

\* The shell never loses the terminal on descriptors 0, 1 and 2, whatever
\* fails and however many lines follow one another.
THEOREM KeepsTerminal == Spec => []ShellKeepsTerminal
<1>1. DescriptorInv => ShellKeepsTerminal
  BY DEF DescriptorInv
<1> QED BY <1>1, DescriptorsCorrect, PTL

\* Every descriptor the shell is to close after the forks is a pipe end it
\* has open, and none is to be closed twice.
THEOREM ClosesOwnEnds == Spec => []ClosesOwnPipeEnds
<1>1. DescriptorInv => ClosesOwnPipeEnds
  BY DEF DescriptorInv
<1> QED BY <1>1, DescriptorsCorrect, PTL

-----------------------------------------------------------------------------
(* The children and their descriptors                                      *)

LEMMA DuppedIs ==
    ASSUME NEW table \in [Fd -> Objects], NEW g \in Fd, LowestFree(table, g), NEW f \in Fd
    PROVE  Dupped(table, f) = [table EXCEPT ![g] = table[f]]
<1>1. \A h \in Fd : LowestFree(table, h) => h = g
  <2> SUFFICES ASSUME NEW h \in Fd, LowestFree(table, h), h # g PROVE FALSE
    OBVIOUS
  <2>1. h < g \/ g < h
    BY ObjectsType
  <2> QED BY <2>1 DEF LowestFree
<1>2. (CHOOSE h \in Fd : LowestFree(table, h)) = g
  BY <1>1
<1> QED BY <1>2 DEF Dupped

\* What close(0); dup(r); close(1); dup(w) makes of a table whose first
\* three descriptors are in use: r on 0, w on 1, and the rest as it was.
LEMMA RedirectedIs ==
    ASSUME NEW table \in [Fd -> Objects], \A f \in 0 .. 2 : table[f] = Tty,
           NEW r \in Fd, r = 0 \/ r > 2, table[r] # None,
           NEW w \in Fd, w = 1 \/ w > 2
    PROVE  /\ RedirectedFds(table, r, w)[0] = table[r]
           /\ RedirectedFds(table, r, w)[1] = table[w]
           /\ \A f \in Fd : f > 1 => RedirectedFds(table, r, w)[f] = table[f]
<1> DEFINE t1 == IF r # 0 THEN Dupped(Closed(table, 0), r) ELSE table
           t2 == IF w # 1 THEN Dupped(Closed(t1, 1), w) ELSE t1
<1>0. {0, 1, 2} \subseteq Fd /\ \A f \in Fd : f \in Nat
  BY ObjectsType
<1>1. /\ t1 \in [Fd -> Objects] /\ t1[0] = table[r]
      /\ \A f \in Fd : f > 0 => t1[f] = table[f]
  <2>1. CASE r = 0
    BY <2>1
  <2>2. CASE r # 0
    <3> DEFINE c == [table EXCEPT ![0] = None]
    <3>1. c \in [Fd -> Objects] /\ Closed(table, 0) = c
      BY <1>0, TablesType DEF Closed
    <3>2. LowestFree(c, 0)
      BY <1>0 DEF LowestFree
    <3>3. c[r] = table[r] /\ c[0] = None /\ \A f \in Fd : f > 0 => c[f] = table[f]
      BY <1>0, <2>2
    <3> HIDE DEF c
    <3>4. t1 = [c EXCEPT ![0] = c[r]]
      BY <1>0, <2>2, <3>1, <3>2, DuppedIs
    <3>5. t1 \in [Fd -> Objects]
      BY <3>1, <3>4
    <3> HIDE DEF t1
    <3> QED BY <1>0, <3>1, <3>3, <3>4, <3>5
  <2> QED BY <2>1, <2>2
<1> HIDE DEF t1
<1>2. /\ t2[0] = t1[0] /\ t2[1] = t1[w]
      /\ \A f \in Fd : f > 1 => t2[f] = t1[f]
  <2>1. CASE w = 1
    BY <2>1
  <2>2. CASE w # 1
    <3> DEFINE c == [t1 EXCEPT ![1] = None]
    <3>1. c \in [Fd -> Objects] /\ Closed(t1, 1) = c
      BY <1>0, <1>1, TablesType DEF Closed
    <3>2. LowestFree(c, 1)
      <4>1. c[1] = None /\ c[0] # None
        BY <1>0, <1>1
      <4>2. \A f \in Fd : f < 1 => f = 0
        BY <1>0
      <4> QED BY <1>0, <4>1, <4>2 DEF LowestFree
    <3>3. c[w] = t1[w] /\ \A f \in Fd : f # 1 => c[f] = t1[f]
      BY <1>0, <1>1, <2>2
    <3> HIDE DEF c
    <3>4. t2 = [c EXCEPT ![1] = c[w]]
      BY <1>0, <2>2, <3>1, <3>2, DuppedIs
    <3> HIDE DEF t2
    <3> QED BY <1>0, <3>1, <3>3, <3>4
  <2> QED BY <2>1, <2>2
<1>3. RedirectedFds(table, r, w) = t2
  BY DEF RedirectedFds, t1
<1> HIDE DEF t2
<1>4. t1[w] = table[w]
  BY <1>0, <1>1
<1> QED BY <1>0, <1>1, <1>2, <1>3, <1>4

\* A child goes on as it was, as far as its ends are concerned.
SameChild(j) ==
    /\ Alive(j)
    /\ InOf(j)' = InOf(j) /\ OutOf(j)' = OutOf(j)
    /\ kid'[j].stage = kid[j].stage
    /\ \A p \in Pipes :
          /\ Holds(kid[j].fds, Rd(p)) => Holds(kid'[j].fds, Rd(p))
          /\ Holds(kid[j].fds, Wr(p)) => Holds(kid'[j].fds, Wr(p))
    /\ kid'[j].state = "born" => kid'[j] = kid[j]

\* The redirections of a child do not change what it reads and writes:
\* they put it where the command will look for it.
LEMMA RedirectKeeps ==
    ASSUME TypeInv, KidTables, NEW j \in Kids, Redirect(j)
    PROVE  SameChild(j) /\ kid'[j].state = "live"
<1> USE DEF TypeInv, TypeOK
<1> DEFINE c == kid[j]
           t == RedirectedFds(c.fds, c.rfd, c.wfd)
<1>1. c \in KidType /\ c.state = "born" /\ c.fds \in [Fd -> Objects]
  BY DEF Redirect, KidType
<1>2. /\ \A f \in 0 .. 2 : c.fds[f] = Tty
      /\ c.rfd \in Fd /\ (c.rfd = 0 \/ c.rfd > 2)
      /\ c.wfd \in Fd /\ (c.wfd = 1 \/ c.wfd > 2)
      /\ InOf(j) = c.fds[c.rfd] /\ OutOf(j) = c.fds[c.wfd]
      /\ InOf(j) # None
  BY <1>1, ObjectKinds DEF KidTables, Alive, InOf, OutOf
<1>3. /\ kid'[j].fds = t /\ kid'[j].state = "live" /\ kid'[j].stage = c.stage
  BY <1>1 DEF Redirect, KidType
<1>4. /\ t[0] = c.fds[c.rfd] /\ t[1] = c.fds[c.wfd]
      /\ \A f \in Fd : f > 1 => t[f] = c.fds[f]
  <2> DEFINE table == c.fds
             r == c.rfd
             w == c.wfd
  <2>1. /\ table \in [Fd -> Objects] /\ \A f \in 0 .. 2 : table[f] = Tty
        /\ r \in Fd /\ (r = 0 \/ r > 2) /\ table[r] # None
        /\ w \in Fd /\ (w = 1 \/ w > 2)
    BY <1>1, <1>2
  <2> HIDE DEF table, r, w
  <2>2. /\ RedirectedFds(table, r, w)[0] = table[r]
        /\ RedirectedFds(table, r, w)[1] = table[w]
        /\ \A f \in Fd : f > 1 => RedirectedFds(table, r, w)[f] = table[f]
    BY <2>1, RedirectedIs
  <2> QED BY <2>2 DEF table, r, w
<1> HIDE DEF t
<1>5. InOf(j)' = InOf(j) /\ OutOf(j)' = OutOf(j)
  BY <1>2, <1>3, <1>4 DEF InOf, OutOf
<1>6. ASSUME NEW obj, obj # Tty, Holds(c.fds, obj) PROVE Holds(t, obj)
  <2>1. PICK f \in Fd : c.fds[f] = obj
    BY <1>6 DEF Holds
  <2>2. f > 1
    BY <1>2, <1>6, <2>1, ObjectsType
  <2> QED BY <1>4, <2>1, <2>2 DEF Holds
<1>7. \A p \in Pipes : Rd(p) # Tty /\ Wr(p) # Tty
  BY ObjectKinds
<1> QED BY <1>1, <1>3, <1>5, <1>6, <1>7 DEF SameChild, Alive

\* Reading and writing leave a child its descriptors and its stage.
LEMMA UnitsOnly ==
    ASSUME TypeInv, NEW k \in Kids, Write(k) \/ Read(k)
    PROVE  /\ kid'[k].state = kid[k].state /\ kid'[k].fds = kid[k].fds
           /\ kid'[k].rfd = kid[k].rfd /\ kid'[k].wfd = kid[k].wfd
           /\ kid'[k].stage = kid[k].stage /\ kid[k].state = "live"
<1>1. kid \in [Kids -> KidType] /\ kid[k] \in KidType /\ kid[k].state = "live"
  BY DEF TypeInv, TypeOK, Write, Read
<1>2. \E c : /\ kid' = [kid EXCEPT ![k] = c]
             /\ c \in { [kid[k] EXCEPT !.hold = 0], [kid[k] EXCEPT !.hold = 1],
                        [kid[k] EXCEPT !.left = kid[k].left - 1],
                        [kid[k] EXCEPT !.left = kid[k].left - 1, !.hold = 1],
                        [kid[k] EXCEPT !.eof = TRUE] }
  <2>1. CASE Write(k)
    BY <2>1 DEF Write, Emitted
  <2>2. CASE Read(k)
    BY <2>2 DEF Read
  <2> QED BY <2>1, <2>2
<1>3. PICK c : /\ kid' = [kid EXCEPT ![k] = c]
               /\ c.state = kid[k].state /\ c.fds = kid[k].fds /\ c.rfd = kid[k].rfd
               /\ c.wfd = kid[k].wfd /\ c.stage = kid[k].stage
  BY <1>1, <1>2 DEF KidType
<1> QED BY <1>1, <1>3

\* Every child that is there after a step was there before it, with the
\* same ends, unless the step is its fork.
LEMMA KidStep ==
    ASSUME TypeInv, KidTables, [Next]_vars, NEW j \in Kids, ~Fork(j), Alive(j)'
    PROVE  SameChild(j)
<1> USE DEF TypeInv, TypeOK
<1>1. ASSUME kid'[j] = kid[j] PROVE SameChild(j)
  BY <1>1 DEF SameChild, Alive, InOf, OutOf
<1>2. ~kid'[j] = NoKid
  BY DEF Alive, NoKid
<1>3. CASE Begin
  BY <1>1, <1>2, <1>3 DEF Begin
<1>4. CASE Wait
  BY <1>1, <1>2, <1>4 DEF Wait
<1>5. ASSUME NEW k \in Kids, Fork(k) PROVE SameChild(j)
  BY <1>1, <1>5 DEF Fork
<1>6. CASE UNCHANGED kid
  BY <1>1, <1>6
<1>7. ASSUME NEW k \in Kids, Child(k) PROVE SameChild(j)
  <2>1. CASE j # k
    <3>1. kid'[j] = kid[j]
      BY <1>7, <2>1 DEF Child, Redirect, Write, Emitted, Read, Exit
    <3> QED BY <1>1, <3>1
  <2>2. CASE j = k /\ Redirect(k)
    BY <2>2, RedirectKeeps
  <2>3. CASE j = k /\ (Write(k) \/ Read(k))
    <3>1. /\ kid'[j].state = kid[j].state /\ kid'[j].fds = kid[j].fds
          /\ kid'[j].rfd = kid[j].rfd /\ kid'[j].wfd = kid[j].wfd
          /\ kid'[j].stage = kid[j].stage /\ kid[j].state = "live"
      BY <2>3, UnitsOnly
    <3> QED BY <3>1 DEF SameChild, Alive, InOf, OutOf
  <2>4. CASE j = k /\ Exit(k)
    <3>1. kid'[j].state = "zombie"
      BY <2>4 DEF Exit, KidType
    <3> QED BY <3>1 DEF Alive
  <2> QED BY <1>7, <2>1, <2>2, <2>3, <2>4 DEF Child
<1>8. CASE Shell /\ ~Wait /\ ~\E k \in Kids : Fork(k)
  <2>1. UNCHANGED kid
    BY <1>8 DEF Shell, DispatchInShell, OpenOut, OpenIn, OutFailed, InFailed, LoneEmpty,
       LoneInProcess, StartSegments, SkipEmpty, LastSegment, MakePipe, PipeFail, ForkFail,
       CloseNext, Finish
  <2> QED BY <1>6, <2>1
<1> QED BY <1>3, <1>4, <1>5, <1>6, <1>7, <1>8 DEF Next, vars

\* What a child has at its fork.
LEMMA ForkedChild ==
    ASSUME TypeInv, NEW k \in Kids, Fork(k)
    PROVE  /\ kid'[k].state = "born" /\ kid'[k].fds = fds
           /\ kid'[k].rfd = curRead /\ kid'[k].wfd = curWrite /\ kid'[k].stage = seg
           /\ Alive(k)' /\ InOf(k)' = fds[curRead] /\ OutOf(k)' = fds[curWrite]
<1>1. kid'[k] = [NoKid EXCEPT !.state = "born", !.fds = fds, !.rfd = curRead,
                              !.wfd = curWrite, !.stage = seg, !.kind = line.segs[seg]]
  BY DEF Fork, TypeInv, TypeOK
<1>2. /\ kid'[k].state = "born" /\ kid'[k].fds = fds
      /\ kid'[k].rfd = curRead /\ kid'[k].wfd = curWrite /\ kid'[k].stage = seg
  BY <1>1 DEF NoKid
<1> QED BY <1>2 DEF Alive, InOf, OutOf

\* What the redirections of the line are, where they are in use.
LEMMA LineFiles ==
    ASSUME TypeInv, DescriptorInv, pc \in {"seg", "fork"}
    PROVE  /\ outFd \in Fd /\ inFd \in Fd
           /\ fds[inFd] = IF line.inp THEN File ELSE Tty
           /\ fds[outFd] = IF line.out THEN File ELSE Tty
           /\ inFd = 0 \/ inFd > 2
           /\ outFd = 1 \/ outFd > 2
<1>1. \A f \in Fd : fds[f] # Tty => f > 2
  BY ObjectsType DEF DescriptorInv, ShellKeepsTerminal
<1>2. outFd \in Fd /\ inFd \in Fd
  BY DEF TypeInv, TypeOK, InLoop
<1>3. fds[0] = Tty /\ fds[1] = Tty
  BY DEF DescriptorInv, ShellKeepsTerminal
<1>4. IF line.inp THEN fds[inFd] = File ELSE inFd = 0
  BY DEF TypeInv, InLoop, DescriptorInv, FilesOpen
<1>5. IF line.out THEN fds[outFd] = File ELSE outFd = 1
  BY DEF TypeInv, InLoop, DescriptorInv, FilesOpen
<1> QED BY <1>1, <1>2, <1>3, <1>4, <1>5, ObjectKinds

LEMMA NextKidTables == TypeInv /\ DescriptorInv /\ KidTables /\ [Next]_vars => KidTables'
<1> SUFFICES ASSUME TypeInv, DescriptorInv, KidTables, [Next]_vars, NEW j \in Kids, Alive(j)'
             PROVE  /\ InOf(j)' \in {Tty, File} \/
                          \E p \in Pipes : InOf(j)' = Rd(p) /\ Holds(kid'[j].fds, Wr(p))
                    /\ OutOf(j)' \in {Tty, File} \/
                          \E p \in Pipes : OutOf(j)' = Wr(p) /\ Holds(kid'[j].fds, Rd(p))
                    /\ kid'[j].state = "born" =>
                         /\ \A f \in 0 .. 2 : kid'[j].fds[f] = Tty
                         /\ kid'[j].rfd \in Fd /\ (kid'[j].rfd = 0 \/ kid'[j].rfd > 2)
                         /\ kid'[j].wfd \in Fd /\ (kid'[j].wfd = 1 \/ kid'[j].wfd > 2)
  BY DEF KidTables, Alive, Holds
<1>1. CASE ~Fork(j)
  <2>1. SameChild(j)
    BY <1>1, KidStep
  <2> QED BY <2>1 DEF SameChild, KidTables, Alive
<1>2. CASE Fork(j)
  <2>1. pc = "fork" /\ {curRead, curWrite, prevRead} \subseteq Fd
    BY <1>2 DEF Fork, TypeInv, TypeOK
  <2>2. \A f \in 0 .. 2 : fds[f] = Tty
    BY DEF DescriptorInv, ShellKeepsTerminal
  <2>3. \A f \in Fd : fds[f] # Tty => f > 2
    BY <2>2, ObjectsType
  <2>4. /\ fds[curRead] \in {Tty, File} \/
              \E p \in Pipes : fds[curRead] = Rd(p) /\ Holds(fds, Wr(p))
        /\ curRead = 0 \/ curRead > 2
    <3>1. CASE curRead = inFd
      BY <2>1, <3>1, LineFiles
    <3>2. CASE curRead # inFd
      BY <2>1, <2>3, <3>2, ObjectKinds DEF DescriptorInv, EndsInHand, ReadEnd
    <3> QED BY <3>1, <3>2
  <2>5. /\ fds[curWrite] \in {Tty, File} \/
              \E p \in Pipes : fds[curWrite] = Wr(p) /\ Holds(fds, Rd(p))
        /\ curWrite = 1 \/ curWrite > 2
    <3>1. CASE IsLast
      <4>1. curWrite = outFd
        BY <2>1, <3>1 DEF DescriptorInv, EndsInHand
      <4> QED BY <2>1, <4>1, LineFiles
    <3>2. CASE ~IsLast
      <4>1. PICK p \in Pipes : ReadEnd(prevRead, p) /\ fds[curWrite] = Wr(p)
        BY <2>1, <3>2 DEF DescriptorInv, EndsInHand
      <4>2. Holds(fds, Rd(p)) /\ curWrite > 2
        BY <2>1, <2>3, <4>1, ObjectKinds DEF ReadEnd, Holds
      <4> QED BY <4>1, <4>2
    <3> QED BY <3>1, <3>2
  <2> QED BY <1>2, <2>1, <2>2, <2>4, <2>5, ForkedChild
<1> QED BY <1>1, <1>2

LEMMA InitKidTables == Init => KidTables
BY DEF Init, KidTables, Alive, NoKid

LEMMA KidTablesCorrect == Spec => []KidTables
BY InitKidTables, NextKidTables, TypeCorrect, DescriptorsCorrect, PTL DEF Spec

\* Every stage keeps the other end of the pipes it reads and writes open,
\* for every number of stages and whatever the shell had open.
THEOREM StagesKeepBothEnds == Spec => []StagesHoldBothEnds
<1>1. KidTables => StagesHoldBothEnds
  BY ObjectKinds, ZenonT(60) DEF KidTables, StagesHoldBothEnds, Alive, InOf, OutOf, Stdin, Stdout
<1> QED BY <1>1, KidTablesCorrect, PTL

-----------------------------------------------------------------------------
(* How the stages are connected                                            *)

\* A step leaves a child that has not been collected in its stage; the job
\* table is reaped only when no stage is being waited for.
LEMMA StageStays ==
    ASSUME TypeInv, [Next]_vars, NEW j \in Kids, kid[j].state # "free", ~Begin,
           ~(Wait /\ j = Head(spawned))
    PROVE  kid'[j].state # "free" /\ kid'[j].stage = kid[j].stage
<1> USE DEF TypeInv, TypeOK
<1>1. ASSUME kid'[j] = kid[j]
      PROVE  kid'[j].state # "free" /\ kid'[j].stage = kid[j].stage
  BY <1>1
<1>2. CASE Wait
  BY <1>1, <1>2 DEF Wait
<1>3. ASSUME NEW k \in Kids, Fork(k)
      PROVE  kid'[j].state # "free" /\ kid'[j].stage = kid[j].stage
  BY <1>1, <1>3 DEF Fork
<1>4. CASE UNCHANGED kid
  BY <1>1, <1>4
<1>5. ASSUME NEW k \in Kids, Child(k)
      PROVE  kid'[j].state # "free" /\ kid'[j].stage = kid[j].stage
  <2>1. CASE j # k
    BY <1>5, <2>1 DEF Child, Redirect, Write, Emitted, Read, Exit
  <2>2. CASE j = k /\ Redirect(k)
    BY <2>2 DEF Redirect, KidType
  <2>3. CASE j = k /\ Write(k)
    BY <2>3, UnitsOnly
  <2>4. CASE j = k /\ Read(k)
    BY <2>4, UnitsOnly
  <2>5. CASE j = k /\ Exit(k)
    BY <2>5 DEF Exit, KidType
  <2> QED BY <1>5, <2>1, <2>2, <2>3, <2>4, <2>5 DEF Child
<1>6. CASE Shell /\ ~Wait /\ ~\E k \in Kids : Fork(k)
  <2>1. UNCHANGED kid
    BY <1>6 DEF Shell, DispatchInShell, OpenOut, OpenIn, OutFailed, InFailed, LoneEmpty,
       LoneInProcess, StartSegments, SkipEmpty, LastSegment, MakePipe, PipeFail, ForkFail,
       CloseNext, Finish
  <2> QED BY <1>4, <2>1
<1> QED BY <1>2, <1>3, <1>4, <1>5, <1>6 DEF Next, vars

\* The steps by what they do to the list of stages.
LEMMA StepKinds ==
    ASSUME TypeInv, [Next]_vars
    PROVE  \/ spawned' = <<>> /\ pc' \in {"prompt", "out"}
           \/ Wait
           \/ \E k \in Kids : Fork(k)
           \/ StartSegments
           \/ SkipEmpty \/ LastSegment \/ MakePipe
           \/ /\ ~Begin /\ ~Wait /\ UNCHANGED <<spawned, line>>
              /\ \/ UNCHANGED <<pc, seg, inFd, prevRead, curRead, fds>>
                 \/ pc' \in {"in", "check", "close"}
<1>1. CASE Begin
  BY <1>1 DEF Begin, TypeInv, InLoop
<1>2. CASE DispatchInShell \/ OutFailed \/ InFailed \/ LoneEmpty \/ LoneInProcess
              \/ PipeFail \/ ForkFail \/ Finish
  BY <1>2 DEF DispatchInShell, OutFailed, InFailed, LoneEmpty, LoneInProcess, PipeFail,
     ForkFail, Finish, Return
<1>3. CASE OpenOut \/ OpenIn \/ CloseNext
  BY <1>3 DEF OpenOut, OpenIn, CloseNext, Begin, Wait
<1>4. ASSUME UNCHANGED <<shellVars, fds>>, ~Begin, ~Wait
      PROVE  UNCHANGED <<spawned, line, pc, seg, inFd, prevRead, curRead, fds>>
  BY <1>4 DEF shellVars, userVars
<1>5. \A k \in Kids : Child(k) => UNCHANGED <<shellVars, fds>>
  BY DEF Child, Redirect, Write, Read, Exit
<1> QED
  BY <1>1, <1>2, <1>3, <1>4, <1>5 DEF Next, Shell, vars

LEMMA NextSpawned == TypeInv /\ Spawned /\ [Next]_vars => Spawned'
<1> SUFFICES ASSUME TypeInv, Spawned, [Next]_vars PROVE Spawned'
  OBVIOUS
<1> USE DEF TypeInv, TypeOK
<1> DEFINE n == Len(spawned)
<1>1. n \in Nat /\ DOMAIN spawned = 1 .. n /\ \A i \in 1 .. n : spawned[i] \in Kids
  BY LenProperties, ElementOfSeq
<1> HIDE DEF n
<1>2. CASE spawned' = <<>>
  <2>1. DOMAIN spawned' = {}
    BY <1>2
  <2> QED BY <2>1 DEF Spawned
<1>3. CASE Wait
  <2>1. /\ spawned # <<>> /\ spawned' = Tail(spawned) /\ pc' = "close" /\ line' = line
    BY <1>3 DEF Wait
  <2>2. /\ n # 0 /\ Head(spawned) = spawned[1] /\ DOMAIN spawned' = 1 .. n - 1
        /\ \A i \in 1 .. n - 1 : spawned'[i] = spawned[i + 1]
    <3>1. /\ Tail(spawned) \in Seq(Kids) /\ Len(Tail(spawned)) = n - 1
          /\ \A i \in 1 .. n - 1 : Tail(spawned)[i] = spawned[i + 1]
          /\ Head(spawned) = spawned[1]
      BY <2>1, HeadTailProperties DEF n
    <3> QED BY <2>1, <3>1, LenProperties, EmptySeq DEF n
  <2>3. ASSUME NEW i \in DOMAIN spawned'
        PROVE  /\ i + 1 \in 1 .. n /\ spawned'[i] = spawned[i + 1] /\ spawned[i + 1] \in Kids
               /\ spawned[i + 1] # Head(spawned)
    <3>1. i + 1 \in 1 .. n /\ i + 1 # 1 /\ 1 \in 1 .. n
      BY <1>1, <2>2
    <3> QED BY <1>1, <2>2, <3>1 DEF Spawned
  <2>4. ~Begin
    BY <1>3 DEF Begin, Wait
  <2>5. ASSUME NEW i \in DOMAIN spawned'
        PROVE  /\ kid'[spawned'[i]].state # "free"
               /\ kid'[spawned'[i]].stage \in NonEmpty'
    <3>1. kid[spawned[i + 1]].state # "free" /\ kid[spawned[i + 1]].stage \in NonEmpty
      BY <1>1, <2>3 DEF Spawned
    <3>2. NonEmpty' = NonEmpty
      BY <2>1 DEF NonEmpty
    <3> QED BY <2>3, <2>4, <3>1, <3>2, StageStays
  <2>6. ASSUME NEW i \in DOMAIN spawned', NEW j \in DOMAIN spawned', spawned'[i] = spawned'[j]
        PROVE  i = j
    <3>1. i + 1 = j + 1
      BY <1>1, <2>3, <2>6 DEF Spawned
    <3> QED BY <2>2, <3>1
  <2> QED BY <2>1, <2>5, <2>6 DEF Spawned
<1>4. ASSUME NEW k \in Kids, Fork(k) PROVE Spawned'
  <2>1. /\ pc = "fork" /\ spawned' = Append(spawned, k) /\ line' = line
        /\ pc' = "close" \/ (pc' = "seg" /\ seg' = seg + 1)
        /\ kid[k].state = "free"
    BY <1>4 DEF Fork, NextSeg
  <2>2. /\ DOMAIN spawned' = 1 .. n + 1
        /\ \A i \in 1 .. n : spawned'[i] = spawned[i]
        /\ spawned'[n + 1] = k
    <3>1. spawned' \in Seq(Kids)
      BY <2>1, AppendProperties
    <3> QED BY <2>1, <3>1, AppendProperties, LenProperties DEF n
  <2>3. NonEmpty' = NonEmpty /\ seg \in NonEmpty
    <3>1. seg \in DOMAIN line.segs
      BY <2>1, LenProperties DEF InLoop, Line, N
    <3> QED BY <2>1, <3>1 DEF NonEmpty, InLoop
  <2>4. ~Begin /\ ~Wait
    BY <1>4 DEF Begin, Wait, Fork
  <2>5. \A i \in 1 .. n :
           /\ spawned[i] # k /\ kid'[spawned[i]].state # "free"
           /\ kid'[spawned[i]].stage = kid[spawned[i]].stage
           /\ kid[spawned[i]].stage \in NonEmpty /\ kid[spawned[i]].stage < seg
    BY <1>1, <2>1, <2>4, StageStays DEF Spawned
  <2>6. kid'[k].state # "free" /\ kid'[k].stage = seg
    BY <1>4, ForkedChild
  <2>7. seg \in Int /\ seg < seg + 1 /\ \A e \in NonEmpty : e < seg => e < seg + 1
    <3>1. seg \in Int /\ \A e \in NonEmpty : e \in Int
      BY LenProperties DEF NonEmpty, Line
    <3> QED BY <3>1
  <2>8. ASSUME NEW i \in DOMAIN spawned'
        PROVE  /\ kid'[spawned'[i]].state # "free"
               /\ kid'[spawned'[i]].stage \in NonEmpty'
               /\ pc' \in {"seg", "fork"} => kid'[spawned'[i]].stage < seg'
    <3>1. CASE i \in 1 .. n
      BY <2>1, <2>2, <2>3, <2>5, <2>7, <3>1
    <3>2. CASE i = n + 1
      BY <2>1, <2>2, <2>3, <2>6, <2>7, <3>2
    <3> QED BY <1>1, <2>2, <3>1, <3>2
  <2>9. ASSUME NEW i \in DOMAIN spawned', NEW j \in DOMAIN spawned', spawned'[i] = spawned'[j]
        PROVE  i = j
    <3>1. CASE i \in 1 .. n /\ j \in 1 .. n
      BY <1>1, <2>2, <2>9, <3>1 DEF Spawned
    <3>2. CASE i = n + 1 \/ j = n + 1
      BY <1>1, <2>2, <2>5, <2>9, <3>2
    <3> QED BY <1>1, <2>2, <3>1, <3>2
  <2> QED BY <2>8, <2>9 DEF Spawned
<1>5. ASSUME UNCHANGED <<spawned, line>>, ~Begin, ~Wait,
             pc' \in {"seg", "fork"} =>
                \/ spawned = <<>>
                \/ pc \in {"seg", "fork"} /\ seg' \in {seg, seg + 1}
      PROVE  Spawned'
  <2>1. CASE spawned = <<>>
    BY <1>2, <1>5, <2>1
  <2>2. CASE spawned # <<>>
    <3>1. NonEmpty' = NonEmpty
      BY <1>5 DEF NonEmpty
    <3>2. \A e \in NonEmpty : e \in Int /\ seg \in Int
      BY LenProperties DEF NonEmpty, Line
    <3>3. ASSUME NEW i \in 1 .. n
          PROVE  /\ kid'[spawned[i]].state # "free"
                 /\ kid'[spawned[i]].stage \in NonEmpty
                 /\ pc' \in {"seg", "fork"} => kid'[spawned[i]].stage < seg'
      <4>1. /\ kid[spawned[i]].state # "free" /\ kid[spawned[i]].stage \in NonEmpty
            /\ pc \in {"seg", "fork"} => kid[spawned[i]].stage < seg
        BY <1>1 DEF Spawned
      <4>2. kid'[spawned[i]].state # "free" /\ kid'[spawned[i]].stage = kid[spawned[i]].stage
        BY <1>1, <1>5, <4>1, StageStays
      <4> QED BY <1>5, <2>2, <3>2, <4>1, <4>2
    <3> QED BY <1>1, <1>5, <3>1, <3>3 DEF Spawned
  <2> QED BY <2>1, <2>2
<1>6. CASE StartSegments \/ SkipEmpty \/ LastSegment \/ MakePipe
  <2>1. /\ UNCHANGED <<spawned, line>> /\ ~Begin /\ ~Wait
        /\ pc' \in {"seg", "fork"} =>
              spawned = <<>> \/ (pc \in {"seg", "fork"} /\ seg' \in {seg, seg + 1})
    BY <1>6 DEF StartSegments, Opens, SkipEmpty, NextSeg, LastSegment, MakePipe, Begin, Wait,
       InLoop
  <2> QED BY <1>5, <2>1
<1> QED BY <1>2, <1>3, <1>4, <1>5, <1>6, StepKinds

\* The stages and the number of segments, as sets of numbers.
LEMMA StagesAre ==
    ASSUME TypeInv
    PROVE  /\ N \in Nat /\ seg \in Int
           /\ \A e \in NonEmpty : e \in 1 .. N
           /\ Stages \subseteq Kids
<1>1. N \in Nat /\ DOMAIN line.segs = 1 .. N
  BY LenProperties DEF TypeInv, TypeOK, Line, N
<1>2. \A i \in DOMAIN spawned : spawned[i] \in Kids
  BY LenProperties, ElementOfSeq DEF TypeInv, TypeOK
<1> QED BY <1>1, <1>2 DEF TypeInv, TypeOK, NonEmpty, Stages

\* What connects the children stays when the stages are as they were.
LEMMA KeepsWired ==
    ASSUME ChildrenWired, Stages' \subseteq Stages, line' = line,
           \A j \in Stages : Alive(j)' => SameChild(j)
    PROVE  ChildrenWired'
<1>1. NonEmpty' = NonEmpty /\ N' = N
  BY DEF NonEmpty, N
<1>2. ASSUME NEW a \in Stages', NEW b \in Stages', Alive(a)', Alive(b)',
             Follows(kid[a].stage, kid[b].stage)'
      PROVE  \E p \in Pipes : OutOf(a)' = Wr(p) /\ InOf(b)' = Rd(p)
  <2>1. SameChild(a) /\ SameChild(b) /\ a \in Stages /\ b \in Stages
    BY <1>2
  <2>2. Follows(kid[a].stage, kid[b].stage)
    BY <1>1, <1>2, <2>1 DEF Follows, SameChild
  <2>3. PICK p \in Pipes : OutOf(a) = Wr(p) /\ InOf(b) = Rd(p)
    BY <2>1, <2>2 DEF ChildrenWired, SameChild
  <2> QED BY <2>1, <2>3 DEF SameChild
<1>3. ASSUME NEW k \in Stages', Alive(k)'
      PROVE  /\ NoneBetween(0, kid[k].stage)' =>
                   InOf(k)' = IF line'.inp THEN File ELSE Tty
             /\ kid'[k].stage = N' => OutOf(k)' = IF line'.out THEN File ELSE Tty
  <2>1. SameChild(k) /\ k \in Stages
    BY <1>3
  <2>2. NoneBetween(0, kid[k].stage)' <=> NoneBetween(0, kid[k].stage)
    BY <1>1, <2>1 DEF NoneBetween, SameChild
  <2> QED BY <1>1, <2>1, <2>2 DEF ChildrenWired, SameChild
<1> QED BY <1>2, <1>3 DEF ChildrenWired

\* The end in hand stays the one the chain continues with, from whichever
\* variable f it is taken to whichever it goes, when at most empty segments
\* are passed.
LEMMA KeepsNextReads ==
    ASSUME NEW f, NextReads(f), Stages' \subseteq Stages, line' = line, inFd' = inFd,
           \A j \in Stages : Alive(j)' => SameChild(j),
           fds'[f] = fds[f] \/ ~\E p : fds[f] = Rd(p),
           \A i \in NonEmpty \cup {0} : NoneBetween(i, seg') => NoneBetween(i, seg),
           \A j \in Stages : kid[j].stage \in NonEmpty
    PROVE  NextReads(f)'
<1>1. NonEmpty' = NonEmpty
  BY DEF NonEmpty
<1>2. \A i : NoneBetween(i, seg)' <=> NoneBetween(i, seg')
  BY <1>1 DEF NoneBetween
<1>3. ASSUME NEW a \in Stages', Alive(a)', NoneBetween(kid[a].stage, seg)'
      PROVE  \E p \in Pipes : OutOf(a)' = Wr(p) /\ fds'[f] = Rd(p)
  <2>1. SameChild(a) /\ a \in Stages
    BY <1>3
  <2>2. NoneBetween(kid[a].stage, seg)
    <3>1. PICK i \in NonEmpty : i = kid[a].stage
      BY <2>1
    <3>2. kid'[a].stage = i
      BY <2>1, <3>1 DEF SameChild
    <3>3. NoneBetween(i, seg)'
      BY <1>3, <3>2 DEF NoneBetween
    <3> QED BY <1>2, <3>1, <3>3
  <2>3. PICK p \in Pipes : OutOf(a) = Wr(p) /\ fds[f] = Rd(p)
    BY <2>1, <2>2 DEF NextReads, SameChild
  <2> QED BY <2>1, <2>3 DEF SameChild
<1>4. NoneBetween(0, seg)' => f = inFd'
  BY <1>2 DEF NextReads
<1> QED BY <1>3, <1>4 DEF NextReads

\* The new child takes the end in hand for its input, and its output
\* becomes the end in hand.
LEMMA ForkWires ==
    ASSUME TypeInv, DescriptorInv, KidTables, Spawned, Wiring, [Next]_vars,
           NEW k \in Kids, Fork(k)
    PROVE  Wiring'
<1>1. /\ pc = "fork" /\ spawned' = Append(spawned, k) /\ kid[k].state = "free"
      /\ <<line, fds, inFd, outFd, prevRead>>' = <<line, fds, inFd, outFd, prevRead>>
      /\ pc' = "close" \/ (pc' = "seg" /\ seg' = seg + 1 /\ ~IsLast)
  BY DEF Fork, NextSeg
<1>2. Stages' = Stages \cup {k}
  <2> DEFINE n == Len(spawned)
  <2>1. /\ n \in Nat /\ DOMAIN spawned = 1 .. n
        /\ DOMAIN spawned' = 1 .. n + 1
        /\ \A i \in 1 .. n : spawned'[i] = spawned[i]
        /\ spawned'[n + 1] = k
    <3>1. spawned \in Seq(Kids)
      BY DEF TypeInv, TypeOK
    <3>2. spawned' \in Seq(Kids)
      BY <1>1, <3>1, AppendProperties
    <3> QED BY <1>1, <3>1, <3>2, AppendProperties, LenProperties
  <2> HIDE DEF n
  <2>2. 1 .. n + 1 = (1 .. n) \cup {n + 1}
    BY <2>1
  <2> QED BY <2>1, <2>2 DEF Stages
<1>3. NonEmpty' = NonEmpty /\ N' = N
  BY <1>1 DEF NonEmpty, N
<1>4. /\ kid'[k].stage = seg /\ InOf(k)' = fds[curRead] /\ OutOf(k)' = fds[curWrite]
  BY ForkedChild
<1>5. ASSUME NEW j \in Stages
      PROVE  /\ j \in Kids /\ j # k /\ kid[j].stage \in NonEmpty /\ kid[j].stage < seg
             /\ Alive(j)' => SameChild(j)
  <2>1. j \in Kids /\ j # k /\ kid[j].stage \in NonEmpty /\ kid[j].stage < seg
    BY <1>1, <1>5, StagesAre DEF Spawned, Stages
  <2>2. ~Fork(j)
    BY <1>1, <2>1 DEF Fork, TypeInv, TypeOK, NoKid
  <2> QED BY <2>1, <2>2, KidStep
<1>6. seg \in NonEmpty
  <2>1. seg \in DOMAIN line.segs
    BY <1>1, LenProperties DEF TypeInv, TypeOK, InLoop, Line, N
  <2> QED BY <1>1, <2>1 DEF NonEmpty, TypeInv, InLoop
<1>7. NextReads(curRead) /\ ChildrenWired
  BY <1>1 DEF Wiring
<1>8. seg \in Nat /\ N \in Nat /\ \A e \in NonEmpty : e \in Nat /\ e <= N
  BY <1>6, StagesAre
<1>9. ASSUME NEW a \in Stages', NEW b \in Stages', Alive(a)', Alive(b)',
             Follows(kid[a].stage, kid[b].stage)'
      PROVE  \E p \in Pipes : OutOf(a)' = Wr(p) /\ InOf(b)' = Rd(p)
  <2>0. Follows(kid'[a].stage, kid'[b].stage)
    BY <1>3, <1>9 DEF Follows
  <2>1. CASE a \in Stages /\ b \in Stages
    <3>1. SameChild(a) /\ SameChild(b)
      BY <1>5, <1>9, <2>1
    <3>2. Follows(kid[a].stage, kid[b].stage)
      BY <2>0, <3>1 DEF SameChild
    <3>3. PICK p \in Pipes : OutOf(a) = Wr(p) /\ InOf(b) = Rd(p)
      BY <1>7, <2>1, <3>1, <3>2 DEF ChildrenWired, SameChild
    <3> QED BY <3>1, <3>3 DEF SameChild
  <2>2. CASE a \in Stages /\ b = k
    <3>1. SameChild(a)
      BY <1>5, <1>9, <2>2
    <3>2. NoneBetween(kid[a].stage, seg)
      BY <1>4, <2>0, <2>2, <3>1 DEF Follows, NoneBetween, SameChild
    <3>3. PICK p \in Pipes : OutOf(a) = Wr(p) /\ fds[curRead] = Rd(p)
      BY <1>7, <2>2, <3>1, <3>2 DEF NextReads, SameChild
    <3> QED BY <1>4, <2>2, <3>1, <3>3 DEF SameChild
  <2>3. CASE a = k /\ b \in Stages
    <3>1. SameChild(b) /\ kid[b].stage < seg /\ kid[b].stage \in Nat
      BY <1>5, <1>8, <1>9, <2>3
    <3>2. kid'[b].stage < seg /\ kid'[b].stage \in Nat /\ seg < kid'[b].stage
      BY <1>4, <2>0, <2>3, <3>1 DEF SameChild, Follows
    <3> QED BY <1>8, <3>2
  <2>4. CASE a = k /\ b = k
    BY <1>4, <1>8, <2>0, <2>4 DEF Follows
  <2> QED BY <1>2, <1>9, <2>1, <2>2, <2>3, <2>4
<1>10. ASSUME NEW j \in Stages', Alive(j)'
       PROVE  /\ NoneBetween(0, kid[j].stage)' =>
                    InOf(j)' = IF line'.inp THEN File ELSE Tty
              /\ kid'[j].stage = N' => OutOf(j)' = IF line'.out THEN File ELSE Tty
  <2>0. NoneBetween(0, kid[j].stage)' <=> NoneBetween(0, kid'[j].stage)
    BY <1>3 DEF NoneBetween
  <2>1. CASE j \in Stages
    <3>1. SameChild(j)
      BY <1>5, <1>10, <2>1
    <3> QED BY <1>1, <1>3, <1>7, <2>0, <2>1, <3>1 DEF ChildrenWired, SameChild
  <2>2. CASE j = k
    <3>1. NoneBetween(0, seg) => InOf(k)' = IF line.inp THEN File ELSE Tty
      BY <1>1, <1>4, <1>7, LineFiles DEF NextReads
    <3>2. seg = N => OutOf(k)' = IF line.out THEN File ELSE Tty
      <4>1. seg = N => curWrite = outFd
        BY <1>1, <1>8 DEF DescriptorInv, EndsInHand, IsLast
      <4> QED BY <1>1, <1>4, <4>1, LineFiles
    <3> QED BY <1>1, <1>3, <1>4, <2>0, <2>2, <3>1, <3>2
  <2> QED BY <1>2, <1>10, <2>1, <2>2
<1>11. ASSUME pc' = "seg" PROVE NextReads(prevRead)'
  <2>1. seg' = seg + 1 /\ ~IsLast /\ seg < seg'
    BY <1>1, <1>8, <1>11
  <2>2. PICK p \in Pipes : fds[prevRead] = Rd(p) /\ fds[curWrite] = Wr(p)
    BY <1>1, <2>1 DEF DescriptorInv, EndsInHand, ReadEnd
  <2>3. ASSUME NEW a \in Stages', Alive(a)', NoneBetween(kid[a].stage, seg)'
        PROVE  OutOf(a)' = Wr(p) /\ fds'[prevRead'] = Rd(p)
    <3>1. CASE a = k
      BY <1>1, <1>4, <2>2, <3>1
    <3>2. CASE a \in Stages
      <4>1. SameChild(a) /\ kid[a].stage < seg
        BY <1>5, <2>3, <3>2
      <4>2. kid'[a].stage < seg
        BY <4>1 DEF SameChild
      <4> QED BY <1>3, <1>6, <2>1, <2>3, <4>2 DEF NoneBetween
    <3> QED BY <1>2, <3>1, <3>2
  <2>4. ~NoneBetween(0, seg)'
    <3>1. 0 < seg
      BY <1>6, StagesAre
    <3> QED BY <1>3, <1>6, <2>1, <3>1 DEF NoneBetween
  <2> QED BY <2>3, <2>4 DEF NextReads, NoneBetween
<1>12. ChildrenWired'
  BY <1>9, <1>10 DEF ChildrenWired
<1> QED BY <1>1, <1>11, <1>12 DEF Wiring

LEMMA NextWiring ==
    TypeInv /\ DescriptorInv /\ KidTables /\ Spawned /\ Wiring /\ [Next]_vars => Wiring'
<1> SUFFICES ASSUME TypeInv, DescriptorInv, KidTables, Spawned, Wiring, [Next]_vars
             PROVE  Wiring'
  OBVIOUS
<1>1. CASE spawned' = <<>> /\ pc' \in {"prompt", "out"}
  <2>1. Stages' = {}
    BY <1>1 DEF Stages
  <2> QED BY <1>1, <2>1 DEF Wiring, ChildrenWired
<1>2. ASSUME ~\E k \in Kids : Fork(k), NEW j \in Stages, Alive(j)' PROVE SameChild(j)
  BY <1>2, KidStep, StagesAre
<1>3. \A j \in Stages : kid[j].stage \in NonEmpty
  BY DEF Spawned, Stages
<1>4. ASSUME ~\E k \in Kids : Fork(k), Stages' \subseteq Stages, line' = line
      PROVE  ChildrenWired'
  BY <1>2, <1>4, KeepsWired DEF Wiring
<1>5. CASE Wait
  <2>1. ~\E k \in Kids : Fork(k)
    BY <1>5 DEF Wait, Fork
  <2>2. Stages' \subseteq Stages
    <3> DEFINE n == Len(spawned)
    <3>1. /\ n \in Nat /\ DOMAIN spawned = 1 .. n /\ DOMAIN spawned' = 1 .. n - 1
          /\ \A i \in 1 .. n - 1 : spawned'[i] = spawned[i + 1]
      <4>1. spawned \in Seq(Kids) /\ spawned # <<>> /\ spawned' = Tail(spawned)
        BY <1>5 DEF Wait, TypeInv, TypeOK
      <4> QED BY <4>1, HeadTailProperties, LenProperties
    <3> HIDE DEF n
    <3>2. \A i \in 1 .. n - 1 : i + 1 \in 1 .. n
      BY <3>1
    <3> QED BY <3>1, <3>2 DEF Stages
  <2>3. pc' = "close" /\ line' = line
    BY <1>5 DEF Wait
  <2> QED BY <1>4, <2>1, <2>2, <2>3 DEF Wiring
<1>6. ASSUME NEW k \in Kids, Fork(k) PROVE Wiring'
  BY <1>6, ForkWires
<1>7. CASE StartSegments
  <2>1. /\ spawned = <<>> /\ spawned' = spawned /\ prevRead' = inFd /\ inFd' = inFd
        /\ pc' \in {"seg", "close"}
    BY <1>7 DEF StartSegments, Opens, TypeInv, InLoop
  <2>2. Stages' = {}
    BY <2>1 DEF Stages
  <2> QED BY <2>1, <2>2 DEF Wiring, ChildrenWired, NextReads
<1>8. CASE SkipEmpty \/ LastSegment \/ MakePipe
  <2>1. /\ pc = "seg" /\ <<spawned, line, inFd>>' = <<spawned, line, inFd>>
        /\ seg' = seg \/ seg' = seg + 1
        /\ \/ pc' \in {"seg", "close"} /\ prevRead' = prevRead
           \/ pc' = "fork" /\ curRead' = prevRead
    BY <1>8 DEF SkipEmpty, NextSeg, LastSegment, MakePipe
  <2>2. ~\E k \in Kids : Fork(k)
    BY <2>1 DEF Fork
  <2>3. Stages' = Stages
    BY <2>1 DEF Stages
  <2>4. PICK f \in Fd : f = prevRead
    BY DEF TypeInv, TypeOK
  <2>5. NextReads(f)
    BY <2>1, <2>4 DEF Wiring, NextReads
  <2>6. fds'[f] = fds[f] \/ ~\E p : fds[f] = Rd(p)
    <3>1. CASE fds' = fds
      BY <3>1
    <3>2. CASE MakePipe
      BY <3>2, ObjectKinds DEF MakePipe, LowestFree, TypeInv, TypeOK
    <3> QED BY <1>8, <3>1, <3>2 DEF SkipEmpty, LastSegment
  <2>7. \A i \in NonEmpty \cup {0} : NoneBetween(i, seg') => NoneBetween(i, seg)
    <3>1. \A m \in NonEmpty : m < seg => m < seg'
      BY <2>1, StagesAre
    <3> QED BY <3>1 DEF NoneBetween
  <2>8. NextReads(f)'
    BY <1>2, <1>3, <2>1, <2>2, <2>3, <2>5, <2>6, <2>7, KeepsNextReads
  <2>9. ChildrenWired'
    BY <1>4, <2>1, <2>2, <2>3
  <2> QED BY <2>1, <2>4, <2>8, <2>9 DEF Wiring, NextReads
<1>9. CASE /\ ~Begin /\ ~Wait /\ UNCHANGED <<spawned, line>>
           /\ \/ UNCHANGED <<pc, seg, inFd, prevRead, curRead, fds>>
              \/ pc' \in {"in", "check", "close"}
  <2>1. CASE \E k \in Kids : Fork(k)
    BY <1>6, <2>1
  <2>2. CASE ~\E k \in Kids : Fork(k)
    <3>1. Stages' = Stages
      BY <1>9 DEF Stages
    <3>2. ChildrenWired'
      BY <1>4, <1>9, <2>2, <3>1
    <3>3. ASSUME NEW f, NextReads(f), UNCHANGED <<seg, inFd, fds>> PROVE NextReads(f)'
      BY <1>2, <1>3, <1>9, <2>2, <3>1, <3>3, KeepsNextReads
    <3>4. CASE pc' \in {"in", "check", "close"}
      BY <3>2, <3>4 DEF Wiring
    <3>5. CASE UNCHANGED <<pc, seg, inFd, prevRead, curRead, fds>>
      <4>1. PICK f, g : f = prevRead /\ g = curRead
        OBVIOUS
      <4>2. pc' = "seg" => NextReads(f)'
        BY <3>3, <3>5, <4>1 DEF Wiring, NextReads
      <4>3. pc' = "fork" => NextReads(g)'
        BY <3>3, <3>5, <4>1 DEF Wiring, NextReads
      <4> QED BY <3>2, <3>5, <4>1, <4>2, <4>3 DEF Wiring, NextReads
    <3> QED BY <1>9, <3>4, <3>5
  <2> QED BY <2>1, <2>2
<1> QED BY <1>1, <1>5, <1>6, <1>7, <1>8, <1>9, StepKinds

LEMMA InitWiring == Init => Spawned /\ Wiring
<1> SUFFICES ASSUME Init PROVE Spawned /\ Wiring
  OBVIOUS
<1>1. DOMAIN spawned = {} /\ pc = "prompt" /\ Stages = {}
  BY DEF Init, Stages
<1> QED BY <1>1 DEF Spawned, Wiring, ChildrenWired

LEMMA WiringCorrect == Spec => [](TypeInv /\ Spawned /\ Wiring)
BY InitWiring, NextSpawned, NextWiring, TypeCorrect, DescriptorsCorrect, KidTablesCorrect, PTL
   DEF Spec

\* The stages of every line are connected as the line says: neighbours by
\* one pipe, the ends to the redirections or the terminal, whatever the
\* number of stages and whatever earlier lines left open.
THEOREM StagesAreWired == Spec => []Wired
<1>1. TypeInv /\ Spawned /\ Wiring => Wired
  <2> SUFFICES ASSUME TypeInv, Spawned, ChildrenWired PROVE Wired
    BY DEF Wiring
  <2>1. ASSUME NEW i, NEW k \in Running(i)
        PROVE  /\ k \in Stages /\ Alive(k) /\ kid[k].stage = i
               /\ InOf(k) = Stdin(k) /\ OutOf(k) = Stdout(k)
    BY <2>1 DEF Running, Stages, Alive, InOf, OutOf, Stdin, Stdout
  <2>2. ASSUME NEW i \in NonEmpty, NEW j \in NonEmpty, Follows(i, j),
               NEW a \in Running(i), NEW b \in Running(j)
        PROVE  \E p \in Pipes : Stdout(a) = Wr(p) /\ Stdin(b) = Rd(p)
    BY <2>1, <2>2 DEF ChildrenWired
  <2>3. ASSUME NEW i \in NonEmpty, NEW k \in Running(i)
        PROVE  /\ (\A j \in NonEmpty : i <= j) =>
                     Stdin(k) = IF line.inp THEN File ELSE Tty
               /\ i = Len(line.segs) => Stdout(k) = IF line.out THEN File ELSE Tty
    <3>1. (\A j \in NonEmpty : i <= j) => NoneBetween(0, i)
      BY StagesAre DEF NoneBetween
    <3> QED BY <2>1, <3>1 DEF ChildrenWired, N
  <2> QED BY <2>2, <2>3 DEF Wired
<1> QED BY <1>1, WiringCorrect, PTL
-----------------------------------------------------------------------------
(* What the first line leaves open                                         *)

\* The descriptors above 2 that are of a kind.
EndsOf(table, kind) == { f \in Fd : f > 2 /\ table[f][1] = kind }
Ends(kind) == EndsOf(fds, kind)

OpenFile(redirected, f) == IF redirected /\ f # -1 THEN {f} ELSE {}

\* The files that are open are the redirections of the line.
FilesAre ==
    /\ pc = "out" => Ends("file") = {}
    /\ pc = "in" => Ends("file") = OpenFile(line.out, outFd)
    /\ pc \in {"check", "seg", "fork", "close"} =>
          /\ Ends("file") = OpenFile(line.out, outFd) \cup OpenFile(line.inp, inFd)
          /\ OpenFile(line.out, outFd) \cap OpenFile(line.inp, inFd) = {}

\* The segments before the current one, and before the last one, that run
\* something: as many pipes are made for them.
Passed == { m \in NonEmpty : m < seg }
Piped == NonEmpty \ {N}

\* Of what is to be closed only the first can be a write end.
FirstIsWrite == toClose # <<>> /\ fds[toClose[1]][1] = "wr"

\* In the loop over the segments, where r is what the next one reads.
LoopEnds(r, made) ==
    /\ Count("rd") = made /\ Count("wr") = made
    /\ Passed = {} => r = inFd /\ toClose = <<>>
    /\ Passed # {} => r # inFd /\ FirstIsWrite /\ toClose[1] # -1
    /\ Len(toClose) = Cardinality(Passed)
    /\ \A i \in DOMAIN toClose : i # 1 => toClose[i] # -1 /\ fds[toClose[i]][1] = "rd"

\* In the loop over parent_close.
CloseEnds ==
    IF Piped = {}
    THEN Ends("rd") = {} /\ Ends("wr") = {} /\ \A i \in DOMAIN toClose : toClose[i] = -1
    ELSE LET made  == Cardinality(Piped)
             write == IF FirstIsWrite THEN 1 ELSE 0
             over  == IF N \in NonEmpty THEN 0 ELSE 1
         IN  /\ Count("wr") = made - 1 + write
             /\ Count("rd") = over + Len(toClose) - write
             /\ \A i \in DOMAIN toClose :
                   toClose[i] # -1 /\ (i # 1 => fds[toClose[i]][1] = "rd")

EndsAre ==
    /\ pc \in {"out", "in", "check"} => Ends("rd") = {} /\ Ends("wr") = {}
    /\ pc = "seg" => LoopEnds(prevRead, Cardinality(Passed))
    /\ pc = "fork" => LoopEnds(curRead, Cardinality(Passed) + IF IsLast THEN 0 ELSE 1)
    /\ pc = "close" => CloseEnds

\* The first line finds nothing open.
LeftInv ==
    /\ entered = 0 => pc = "prompt" /\ \A f \in Fd : f > 2 => fds[f] = None
    /\ entered = 1 /\ pc # "prompt" => FilesAre /\ EndsAre

LEMMA FdSets ==
    ASSUME NEW S \in SUBSET Fd
    PROVE  /\ IsFiniteSet(S) /\ Cardinality(S) \in Nat
           /\ Cardinality(S) = 0 <=> S = {}
<1>1. IsFiniteSet(Fd)
  BY NumFdsAssumption, FS_Interval DEF Fd
<1>2. IsFiniteSet(S)
  BY <1>1, FS_Subset
<1> QED BY <1>2, FS_CardinalityType, FS_EmptySet

LEMMA EndsFinite ==
    ASSUME NEW table, NEW kind
    PROVE  /\ EndsOf(table, kind) \in SUBSET Fd
           /\ IsFiniteSet(EndsOf(table, kind)) /\ Cardinality(EndsOf(table, kind)) \in Nat
           /\ Cardinality(EndsOf(table, kind)) = 0 <=> EndsOf(table, kind) = {}
<1>1. EndsOf(table, kind) \in SUBSET Fd
  BY DEF EndsOf
<1> QED BY <1>1, FdSets

LEMMA CountIs ==
    /\ \A kind : Count(kind) = Cardinality(Ends(kind))
    /\ \A kind : Count(kind)' = Cardinality(EndsOf(fds', kind))
BY DEF Count, Ends, EndsOf

\* A table in which f is obj.
With(table, f, obj) == [table EXCEPT ![f] = obj]

LEMMA OneOpened ==
    ASSUME NEW table \in [Fd -> Objects], NEW f \in Fd, f > 2, table[f] = None,
           NEW obj \in Objects, NEW kind \in {"file", "rd", "wr"}
    PROVE  /\ EndsOf(With(table, f, obj), kind)
                = IF obj[1] = kind THEN EndsOf(table, kind) \cup {f} ELSE EndsOf(table, kind)
           /\ f \notin EndsOf(table, kind)
           /\ Cardinality(EndsOf(With(table, f, obj), kind))
                = Cardinality(EndsOf(table, kind)) + IF obj[1] = kind THEN 1 ELSE 0
<1> DEFINE ends == EndsOf(table, kind)
           now == EndsOf(With(table, f, obj), kind)
<1>1. None[1] # kind
  BY DEF None
<1>2. f \notin ends
  BY <1>1 DEF EndsOf
<1>3. now = IF obj[1] = kind THEN ends \cup {f} ELSE ends
  BY <1>1 DEF EndsOf, With
<1>4. IsFiniteSet(ends) /\ Cardinality(ends) \in Nat
  BY EndsFinite
<1> HIDE DEF ends, now
<1>5. Cardinality(ends \cup {f}) = Cardinality(ends) + 1
  BY <1>2, <1>4, FS_AddElement
<1>6. Cardinality(now) = Cardinality(ends) + IF obj[1] = kind THEN 1 ELSE 0
  BY <1>3, <1>4, <1>5
<1> QED BY <1>2, <1>3, <1>6 DEF ends, now

LEMMA OneClosed ==
    ASSUME NEW table \in [Fd -> Objects], NEW f \in Fd, f > 2, NEW kind \in {"file", "rd", "wr"}
    PROVE  /\ EndsOf(With(table, f, None), kind) = EndsOf(table, kind) \ {f}
           /\ Cardinality(EndsOf(With(table, f, None), kind))
                = Cardinality(EndsOf(table, kind)) - IF table[f][1] = kind THEN 1 ELSE 0
<1> DEFINE ends == EndsOf(table, kind)
           now == EndsOf(With(table, f, None), kind)
<1>1. None[1] # kind
  BY DEF None
<1>2. f \in ends <=> table[f][1] = kind
  BY DEF EndsOf
<1>3. now = ends \ {f}
  BY <1>1 DEF EndsOf, With
<1>4. IsFiniteSet(ends) /\ Cardinality(ends) \in Nat
  BY EndsFinite
<1> HIDE DEF ends, now
<1>5. Cardinality(ends \ {f}) = IF f \in ends THEN Cardinality(ends) - 1 ELSE Cardinality(ends)
  BY <1>4, FS_RemoveElement
<1>6. Cardinality(now) = Cardinality(ends) - IF table[f][1] = kind THEN 1 ELSE 0
  BY <1>2, <1>3, <1>4, <1>5
<1> QED BY <1>3, <1>6 DEF ends, now

\* The segments passed, one segment on and behind the last one.
LEMMA PassedIs ==
    ASSUME TypeInv
    PROVE  /\ IsFiniteSet(Passed) /\ Cardinality(Passed) \in Nat
           /\ Cardinality(Passed) = 0 <=> Passed = {}
           /\ IsFiniteSet(Piped) /\ Cardinality(Piped) \in Nat
           /\ Cardinality(Piped) = 0 <=> Piped = {}
           /\ pc \in {"seg", "fork"} /\ IsLast => Piped = Passed /\ seg = N
           /\ seg \in Nat /\ N \in Nat
           /\ { m \in NonEmpty : m < seg + 1 } = Passed \cup (IF seg \in NonEmpty THEN {seg} ELSE {})
           /\ Cardinality(Passed \cup {seg}) = Cardinality(Passed) + 1
<1>1. N \in Nat /\ seg \in Nat /\ \A e \in NonEmpty : e \in 1 .. N
  BY StagesAre DEF TypeInv, TypeOK
<1>2. IsFiniteSet(1 .. N)
  BY <1>1, FS_Interval
<1>3. Passed \in SUBSET (1 .. N) /\ Piped \in SUBSET (1 .. N)
  BY <1>1 DEF Passed, Piped
<1>4. IsFiniteSet(Passed) /\ IsFiniteSet(Piped)
  BY <1>2, <1>3, FS_Subset
<1>5. seg \notin Passed
  BY <1>1 DEF Passed
<1>6. Cardinality(Passed \cup {seg}) = Cardinality(Passed) + 1
  BY <1>4, <1>5, FS_AddElement
<1>7. pc \in {"seg", "fork"} /\ IsLast => seg = N
  BY <1>1 DEF IsLast, TypeInv, InLoop
<1>8. seg = N => Piped = Passed
  BY <1>1 DEF Piped, Passed
<1>9. { m \in NonEmpty : m < seg + 1 } = Passed \cup (IF seg \in NonEmpty THEN {seg} ELSE {})
  BY <1>1 DEF Passed
<1> QED BY <1>1, <1>4, <1>6, <1>7, <1>8, <1>9, FS_CardinalityType, FS_EmptySet

LEMMA OpenedEnds ==
    ASSUME TypeInv, DescriptorInv, NEW fd \in Fd \cup {-1}, Opened(fd, fds')
    PROVE  /\ Ends("file")' = Ends("file") \cup OpenFile(TRUE, fd)
           /\ Ends("file") \cap OpenFile(TRUE, fd) = {}
           /\ Ends("rd")' = Ends("rd") /\ Ends("wr")' = Ends("wr")
<1>1. CASE fd = -1 /\ fds' = fds
  BY <1>1 DEF Ends, OpenFile
<1>2. CASE LowestFree(fds, fd) /\ fds' = [fds EXCEPT ![fd] = File]
  <2>1. fd \in Fd /\ fds[fd] = None /\ fds \in [Fd -> Objects] /\ File \in Objects
    BY <1>2, ObjectsType DEF LowestFree, TypeInv, TypeOK
  <2>2. fd > 2 /\ fd # -1
    BY <2>1, ObjectsType, ObjectKinds DEF DescriptorInv, ShellKeepsTerminal
  <2>3. File[1] = "file"
    BY DEF File
  <2>4. ASSUME NEW kind \in {"file", "rd", "wr"}
        PROVE  /\ EndsOf(fds', kind) = IF File[1] = kind THEN EndsOf(fds, kind) \cup {fd}
                                       ELSE EndsOf(fds, kind)
               /\ fd \notin EndsOf(fds, kind)
    <3>1. fds' = With(fds, fd, File)
      BY <1>2 DEF With
    <3>2. /\ EndsOf(With(fds, fd, File), kind)
                 = IF File[1] = kind THEN EndsOf(fds, kind) \cup {fd} ELSE EndsOf(fds, kind)
          /\ fd \notin EndsOf(fds, kind)
      BY ONLY <2>1, <2>2, OneOpened, kind \in {"file", "rd", "wr"}
    <3> QED BY <3>1, <3>2
  <2>5. EndsOf(fds', "file") = EndsOf(fds, "file") \cup {fd} /\ fd \notin EndsOf(fds, "file")
    BY <2>3, <2>4
  <2>6. EndsOf(fds', "rd") = EndsOf(fds, "rd") /\ EndsOf(fds', "wr") = EndsOf(fds, "wr")
    BY <2>3, <2>4
  <2> QED BY <2>2, <2>5, <2>6 DEF Ends, OpenFile
<1> QED BY <1>1, <1>2 DEF Opened

LEMMA OpenLeft ==
    ASSUME TypeInv, DescriptorInv, FilesAre, EndsAre, OpenOut \/ OpenIn
    PROVE  FilesAre' /\ EndsAre'
<1>1. Ends("rd") = {} /\ Ends("wr") = {}
  BY DEF OpenOut, OpenIn, EndsAre
<1>2. CASE OpenOut
  <2>1. Ends("file") = {} /\ pc' = "in" /\ line' = line
    BY <1>2 DEF OpenOut, FilesAre
  <2>2. CASE line.out
    <3>1. PICK fd \in Fd \cup {-1} : Opened(fd, fds') /\ outFd' = fd
      BY <1>2, <2>2 DEF OpenOut
    <3> QED BY <1>1, <2>1, <2>2, <3>1, OpenedEnds DEF FilesAre, EndsAre, OpenFile
  <2>3. CASE ~line.out
    <3>1. fds' = fds
      BY <1>2, <2>3 DEF OpenOut
    <3> QED BY <1>1, <2>1, <2>3, <3>1 DEF FilesAre, EndsAre, OpenFile, Ends
  <2> QED BY <2>2, <2>3
<1>3. CASE OpenIn
  <2>1. Ends("file") = OpenFile(line.out, outFd) /\ pc' = "check" /\ line' = line /\ outFd' = outFd
    BY <1>3 DEF OpenIn, FilesAre
  <2>2. CASE line.inp
    <3>1. PICK fd \in Fd \cup {-1} : Opened(fd, fds') /\ inFd' = fd
      BY <1>3, <2>2 DEF OpenIn
    <3>2. OpenFile(line.inp, inFd)' = OpenFile(TRUE, fd)
      BY <2>1, <2>2, <3>1 DEF OpenFile
    <3>3. OpenFile(line.out, outFd)' = OpenFile(line.out, outFd)
      BY <2>1 DEF OpenFile
    <3>4. /\ Ends("file")' = Ends("file") \cup OpenFile(TRUE, fd)
          /\ Ends("file") \cap OpenFile(TRUE, fd) = {}
          /\ Ends("rd")' = Ends("rd") /\ Ends("wr")' = Ends("wr")
      BY <3>1, OpenedEnds
    <3> QED BY <1>1, <2>1, <3>2, <3>3, <3>4 DEF FilesAre, EndsAre
  <2>3. CASE ~line.inp
    <3>1. fds' = fds
      BY <1>3, <2>3 DEF OpenIn
    <3> QED BY <1>1, <2>1, <2>3, <3>1 DEF FilesAre, EndsAre, OpenFile, Ends
  <2> QED BY <2>2, <2>3
<1> QED BY <1>2, <1>3

\* The files stay as they are while pipes come and go.
LEMMA FilesStay ==
    ASSUME FilesAre, pc \in {"check", "seg", "fork", "close"},
           pc' \in {"check", "seg", "fork", "close"},
           UNCHANGED <<line, outFd, inFd>>, Ends("file")' = Ends("file")
    PROVE  FilesAre'
BY DEF FilesAre, OpenFile

\* The loop over the segments, when nothing is opened or put into
\* parent_close.
LEMMA LoopStays ==
    ASSUME NEW r, NEW made, LoopEnds(r, made), UNCHANGED <<line, inFd, fds, toClose>>,
           Passed' = Passed
    PROVE  /\ Count("rd")' = made /\ Count("wr")' = made
           /\ Passed' = {} => r = inFd' /\ toClose' = <<>>
           /\ Passed' # {} => r # inFd' /\ FirstIsWrite' /\ toClose'[1] # -1
           /\ Len(toClose') = Cardinality(Passed')
           /\ \A i \in DOMAIN toClose' : i # 1 => toClose'[i] # -1 /\ fds'[toClose'[i]][1] = "rd"
BY DEF LoopEnds, Count, FirstIsWrite

\* The loop has ended and nothing was forked for the last segment.
LEMMA LoopOver ==
    ASSUME TypeInv, LoopEnds(prevRead, Cardinality(Passed)), IsLast, pc = "seg",
           N \notin NonEmpty
    PROVE  CloseEnds
<1> DEFINE made == Cardinality(Passed)
<1>1. made \in Nat /\ (made = 0 <=> Passed = {}) /\ Piped = Passed
  BY PassedIs
<1>2. Count("rd") = made /\ Count("wr") = made /\ Len(toClose) = made
  BY DEF LoopEnds
<1>3. CASE Passed = {}
  <2>1. Ends("rd") = {} /\ Ends("wr") = {}
    BY <1>1, <1>2, <1>3, CountIs, EndsFinite DEF Ends
  <2>2. DOMAIN toClose = {}
    BY <1>3 DEF LoopEnds
  <2> QED BY <1>1, <1>3, <2>1, <2>2 DEF CloseEnds
<1>4. CASE Passed # {}
  <2>1. FirstIsWrite /\ \A i \in DOMAIN toClose :
                            toClose[i] # -1 /\ (i # 1 => fds[toClose[i]][1] = "rd")
    BY <1>4 DEF LoopEnds
  <2>2. made = (made - 1) + 1 /\ made = (1 + made) - 1
    BY <1>1
  <2> HIDE DEF made
  <2> QED BY <1>1, <1>2, <1>4, <2>1, <2>2 DEF CloseEnds, made
<1> QED BY <1>3, <1>4

LEMMA StartLeft ==
    ASSUME TypeInv, FilesAre, EndsAre, StartSegments
    PROVE  FilesAre' /\ EndsAre'
<1>1. /\ pc = "check" /\ pc' = (IF N = 0 THEN "close" ELSE "seg")
      /\ UNCHANGED <<line, seg, fds, outFd, inFd, toClose>> /\ prevRead' = inFd
  BY DEF StartSegments, Opens
<1>2. seg = 1 /\ toClose = <<>> /\ Ends("rd") = {} /\ Ends("wr") = {}
  BY <1>1 DEF TypeInv, InLoop, EndsAre
<1>3. FilesAre'
  BY <1>1, FilesStay DEF Ends
<1>4. Len(<<>>) = 0 /\ DOMAIN <<>> = {}
  OBVIOUS
<1>5. Ends("rd")' = {} /\ Ends("wr")' = {} /\ Count("rd")' = 0 /\ Count("wr")' = 0
  BY <1>1, <1>2, CountIs, FS_EmptySet DEF Ends
<1>6. NonEmpty' = NonEmpty /\ N' = N /\ \A e \in NonEmpty : e \in 1 .. N
  BY <1>1, StagesAre DEF NonEmpty, N
<1>7. CASE N = 0
  <2>1. Piped' = {}
    BY <1>6, <1>7 DEF Piped
  <2> QED BY <1>1, <1>2, <1>3, <1>4, <1>5, <1>7, <2>1 DEF EndsAre, CloseEnds
<1>8. CASE N # 0
  <2>1. Passed' = {} /\ Cardinality({}) = 0
    BY <1>1, <1>2, <1>6, FS_EmptySet DEF Passed
  <2>2. LoopEnds(prevRead, Cardinality(Passed))'
    BY <1>1, <1>2, <1>4, <1>5, <2>1 DEF LoopEnds
  <2> QED BY <1>1, <1>3, <1>8, <2>2 DEF EndsAre
<1> QED BY <1>7, <1>8

LEMMA SkipLeft ==
    ASSUME TypeInv, FilesAre, EndsAre, SkipEmpty
    PROVE  FilesAre' /\ EndsAre'
<1>1. /\ pc = "seg" /\ pc' = (IF IsLast THEN "close" ELSE "seg")
      /\ seg' = (IF IsLast THEN seg ELSE seg + 1)
      /\ UNCHANGED <<line, fds, outFd, inFd, prevRead, toClose>>
  BY DEF SkipEmpty, NextSeg
<1>2. seg \notin NonEmpty
  BY DEF SkipEmpty, NonEmpty
<1>3. FilesAre'
  BY <1>1, FilesStay DEF Ends
<1>4. LoopEnds(prevRead, Cardinality(Passed))
  BY <1>1 DEF EndsAre
<1>5. NonEmpty' = NonEmpty /\ N' = N
  BY <1>1 DEF NonEmpty, N
<1>6. CASE IsLast
  <2>1. CloseEnds
    BY <1>1, <1>2, <1>4, <1>6, LoopOver, PassedIs
  <2>2. CloseEnds'
    BY <1>1, <1>5, <2>1 DEF CloseEnds, Piped, Ends, Count, FirstIsWrite
  <2> QED BY <1>1, <1>3, <1>6, <2>2 DEF EndsAre
<1>7. CASE ~IsLast
  <2>1. Passed' = Passed
    BY <1>1, <1>2, <1>5, <1>7, PassedIs DEF Passed
  <2>2. LoopEnds(prevRead, Cardinality(Passed))'
    BY <1>1, <1>4, <2>1, LoopStays DEF LoopEnds
  <2> QED BY <1>1, <1>3, <1>7, <2>2 DEF EndsAre
<1> QED BY <1>6, <1>7

LEMMA LastLeft ==
    ASSUME TypeInv, FilesAre, EndsAre, LastSegment
    PROVE  FilesAre' /\ EndsAre'
<1>1. /\ pc = "seg" /\ pc' = "fork" /\ IsLast /\ curRead' = prevRead
      /\ UNCHANGED <<line, seg, fds, outFd, inFd, toClose>>
  BY DEF LastSegment
<1>2. FilesAre'
  BY <1>1, FilesStay DEF Ends
<1>3. LoopEnds(prevRead, Cardinality(Passed))
  BY <1>1 DEF EndsAre
<1>4. Passed' = Passed /\ IsLast'
  BY <1>1 DEF NonEmpty, Passed, IsLast, N
<1>5. Cardinality(Passed) + 0 = Cardinality(Passed)
  BY PassedIs
<1>6. LoopEnds(curRead, Cardinality(Passed) + 0)'
  BY <1>1, <1>3, <1>4, <1>5, LoopStays DEF LoopEnds
<1> QED BY <1>1, <1>2, <1>4, <1>6 DEF EndsAre

\* The pipe of a segment adds an end of each kind.
LEMMA MakePipeLeft ==
    ASSUME TypeInv, DescriptorInv, FilesAre, EndsAre, MakePipe
    PROVE  FilesAre' /\ EndsAre'
<1>1. /\ pc = "seg" /\ pc' = "fork" /\ ~IsLast /\ curRead' = prevRead
      /\ UNCHANGED <<line, seg, outFd, inFd, toClose>>
  BY DEF MakePipe
<1>2. PICK p \in Pipes, r, w \in Fd :
        /\ LowestFree(fds, r)
        /\ LowestFree([fds EXCEPT ![r] = Rd(p)], w)
        /\ fds' = [fds EXCEPT ![r] = Rd(p), ![w] = Wr(p)]
  BY DEF MakePipe
<1> DEFINE t == [fds EXCEPT ![r] = Rd(p)]
<1>3. /\ fds \in [Fd -> Objects] /\ t \in [Fd -> Objects] /\ Rd(p) \in Objects /\ Wr(p) \in Objects
      /\ fds' = [t EXCEPT ![w] = Wr(p)]
  BY <1>2, ObjectsType DEF TypeInv, TypeOK
<1>4. fds[r] = None /\ t[w] = None /\ t[r] = Rd(p) /\ r # w /\ fds[w] = None
  BY <1>2, <1>3, ObjectKinds DEF LowestFree
<1>5. r > 2 /\ w > 2
  BY <1>4, ObjectsType, ObjectKinds DEF DescriptorInv, ShellKeepsTerminal
<1>6. Rd(p)[1] = "rd" /\ Wr(p)[1] = "wr"
  BY ObjectKinds
<1> HIDE DEF t
<1>7. ASSUME NEW kind \in {"file", "rd", "wr"}
      PROVE  /\ EndsOf(fds', kind) = IF Wr(p)[1] = kind THEN EndsOf(t, kind) \cup {w} ELSE EndsOf(t, kind)
             /\ Cardinality(EndsOf(fds', kind))
                  = Cardinality(EndsOf(t, kind)) + IF Wr(p)[1] = kind THEN 1 ELSE 0
  <2>1. /\ EndsOf(With(t, w, Wr(p)), kind)
            = IF Wr(p)[1] = kind THEN EndsOf(t, kind) \cup {w} ELSE EndsOf(t, kind)
        /\ w \notin EndsOf(t, kind)
        /\ Cardinality(EndsOf(With(t, w, Wr(p)), kind))
            = Cardinality(EndsOf(t, kind)) + IF Wr(p)[1] = kind THEN 1 ELSE 0
    BY <1>3, <1>4, <1>5, OneOpened
  <2> QED BY <1>3, <2>1 DEF With
<1>8. ASSUME NEW kind \in {"file", "rd", "wr"}
      PROVE  /\ EndsOf(t, kind) = IF Rd(p)[1] = kind THEN EndsOf(fds, kind) \cup {r} ELSE EndsOf(fds, kind)
             /\ Cardinality(EndsOf(t, kind))
                  = Cardinality(EndsOf(fds, kind)) + IF Rd(p)[1] = kind THEN 1 ELSE 0
  <2>1. /\ EndsOf(With(fds, r, Rd(p)), kind)
            = IF Rd(p)[1] = kind THEN EndsOf(fds, kind) \cup {r} ELSE EndsOf(fds, kind)
        /\ r \notin EndsOf(fds, kind)
        /\ Cardinality(EndsOf(With(fds, r, Rd(p)), kind))
            = Cardinality(EndsOf(fds, kind)) + IF Rd(p)[1] = kind THEN 1 ELSE 0
    BY <1>3, <1>4, <1>5, OneOpened
  <2> QED BY <2>1 DEF t, With
<1>9. Ends("file")' = Ends("file")
  BY <1>6, <1>7, <1>8 DEF Ends
<1>10. Count("rd")' = Count("rd") + 1 /\ Count("wr")' = Count("wr") + 1
  <2>1. /\ Cardinality(EndsOf(fds', "rd")) = Cardinality(EndsOf(t, "rd")) + 0
        /\ Cardinality(EndsOf(t, "rd")) = Cardinality(EndsOf(fds, "rd")) + 1
    BY <1>6, <1>7, <1>8
  <2>2. /\ Cardinality(EndsOf(fds', "wr")) = Cardinality(EndsOf(t, "wr")) + 1
        /\ Cardinality(EndsOf(t, "wr")) = Cardinality(EndsOf(fds, "wr")) + 0
    BY <1>6, <1>7, <1>8
  <2>3. /\ Count("rd") = Cardinality(EndsOf(fds, "rd")) /\ Count("wr") = Cardinality(EndsOf(fds, "wr"))
        /\ Count("rd")' = Cardinality(EndsOf(fds', "rd")) /\ Count("wr")' = Cardinality(EndsOf(fds', "wr"))
    BY CountIs DEF Ends
  <2>4. Cardinality(EndsOf(fds, "rd")) \in Nat /\ Cardinality(EndsOf(fds, "wr")) \in Nat
    BY EndsFinite
  <2> QED BY <2>1, <2>2, <2>3, <2>4
<1>11. FilesAre'
  BY <1>1, <1>9, FilesStay
<1>12. LoopEnds(prevRead, Cardinality(Passed))
  BY <1>1 DEF EndsAre
<1>13. Passed' = Passed /\ ~IsLast'
  BY <1>1 DEF NonEmpty, Passed, IsLast, N
<1>14. \A i \in DOMAIN toClose : toClose[i] # -1 => fds'[toClose[i]] = fds[toClose[i]]
  <2>1. ASSUME NEW i \in DOMAIN toClose, toClose[i] # -1 PROVE fds'[toClose[i]] = fds[toClose[i]]
    <3>1. toClose[i] \in Fd
      BY <2>1, ElementOfSeq, LenProperties DEF TypeInv, TypeOK
    <3>2. fds[toClose[i]][1] \in {"rd", "wr"}
      BY <2>1 DEF DescriptorInv, ClosesOwnPipeEnds
    <3>3. toClose[i] # r /\ toClose[i] # w
      BY <1>4, <3>2, ObjectKinds
    <3> QED BY <1>2, <1>3, <3>1, <3>3
  <2> QED BY <2>1
<1>15. Passed # {} => FirstIsWrite'
  <2>1. ASSUME Passed # {} PROVE FirstIsWrite'
    <3>1. FirstIsWrite /\ toClose[1] # -1
      BY <1>12, <2>1 DEF LoopEnds
    <3>2. 1 \in DOMAIN toClose
      <4>1. toClose \in Seq(Fd \cup {-1}) /\ toClose # <<>>
        BY <3>1 DEF FirstIsWrite, TypeInv, TypeOK
      <4> QED BY <4>1, LenProperties, EmptySeq
    <3> QED BY <1>1, <1>14, <3>1, <3>2 DEF FirstIsWrite
  <2> QED BY <2>1
<1>16. LoopEnds(curRead, Cardinality(Passed) + 1)'
  BY <1>1, <1>10, <1>12, <1>13, <1>14, <1>15 DEF LoopEnds
<1> QED BY <1>1, <1>11, <1>13, <1>16 DEF EndsAre

\* What a fork leaves to be closed: the write end of the first stage's pipe,
\* the read end of any other, nothing for a stage that is alone.
LEMMA EntryIs ==
    ASSUME TypeInv, DescriptorInv, pc = "fork", NEW made, LoopEnds(curRead, made)
    PROVE  /\ Passed = {} /\ IsLast => ParentClose = -1
           /\ Passed = {} /\ ~IsLast => ParentClose # -1 /\ fds[ParentClose][1] = "wr"
           /\ Passed # {} => ParentClose # -1 /\ fds[ParentClose][1] = "rd"
           /\ ~IsLast => prevRead # inFd
<1>1. /\ outFd \in Fd /\ inFd \in Fd
      /\ fds[inFd] \in {File, Tty} /\ fds[outFd] \in {File, Tty}
  BY LineFiles
<1>2. /\ curRead \in Fd /\ curWrite \in Fd /\ Fd \subseteq Nat
      /\ \A f \in Fd : fds[f] # Tty => f > 2
  BY ObjectsType DEF TypeInv, TypeOK, DescriptorInv, ShellKeepsTerminal
<1>3. ASSUME Passed # {} PROVE ParentClose # -1 /\ fds[ParentClose][1] = "rd"
  <2>1. curRead # inFd
    BY <1>3 DEF LoopEnds
  <2>2. PICK p \in Pipes : fds[curRead] = Rd(p)
    BY <2>1 DEF DescriptorInv, EndsInHand, ReadEnd
  <2>3. curRead > 2 /\ fds[curRead][1] = "rd"
    BY <1>2, <2>2, ObjectKinds
  <2>4. ParentClose = curRead /\ curRead # -1
    BY <1>2, <2>1, <2>3 DEF ParentClose
  <2> QED BY <2>3, <2>4
<1>4. ASSUME ~IsLast
      PROVE  /\ prevRead # inFd /\ curWrite > 2 /\ curWrite # outFd /\ curWrite # -1
             /\ fds[curWrite][1] = "wr"
  <2>1. PICK p \in Pipes : fds[prevRead] = Rd(p) /\ fds[curWrite] = Wr(p)
    BY <1>4 DEF DescriptorInv, EndsInHand, ReadEnd
  <2>2. /\ fds[prevRead] \notin {File, Tty} /\ fds[curWrite] \notin {File, Tty}
        /\ fds[curWrite][1] = "wr"
    BY <2>1, ObjectKinds
  <2>3. curWrite > 2 /\ curWrite # -1
    BY <1>2, <2>2
  <2> QED BY <1>1, <2>2, <2>3
<1>5. ASSUME Passed = {}
      PROVE  /\ IsLast => ParentClose = -1
             /\ ~IsLast => ParentClose # -1 /\ fds[ParentClose][1] = "wr"
  <2>1. curRead = inFd
    BY <1>5 DEF LoopEnds
  <2>2. IsLast => curWrite = outFd
    BY DEF DescriptorInv, EndsInHand
  <2>3. IsLast => ParentClose = -1
    BY <2>1, <2>2 DEF ParentClose
  <2>4. ~IsLast => ParentClose = curWrite
    BY <1>4, <2>1 DEF ParentClose
  <2> QED BY <1>4, <2>3, <2>4
<1> QED BY <1>3, <1>4, <1>5

LEMMA ForkLeft ==
    ASSUME TypeInv, DescriptorInv, FilesAre, EndsAre, NEW k \in Kids, Fork(k)
    PROVE  FilesAre' /\ EndsAre'
<1> DEFINE made == Cardinality(Passed)
           n == Len(toClose)
<1>1. /\ pc = "fork" /\ pc' = (IF IsLast THEN "close" ELSE "seg")
      /\ seg' = (IF IsLast THEN seg ELSE seg + 1)
      /\ UNCHANGED <<line, fds, outFd, inFd, prevRead>>
      /\ toClose' = Append(toClose, ParentClose)
  BY DEF Fork, NextSeg
<1>2. FilesAre'
  BY <1>1, FilesStay DEF Ends
<1>3. LoopEnds(curRead, made + IF IsLast THEN 0 ELSE 1)
  BY <1>1 DEF EndsAre
<1>4. /\ Passed = {} /\ IsLast => ParentClose = -1
      /\ Passed = {} /\ ~IsLast => ParentClose # -1 /\ fds[ParentClose][1] = "wr"
      /\ Passed # {} => ParentClose # -1 /\ fds[ParentClose][1] = "rd"
      /\ ~IsLast => prevRead # inFd
  BY <1>1, <1>3, EntryIs
<1>5. /\ made \in Nat /\ (made = 0 <=> Passed = {}) /\ n = made
      /\ Count("rd") = made + (IF IsLast THEN 0 ELSE 1)
      /\ Count("wr") = made + (IF IsLast THEN 0 ELSE 1)
      /\ Passed # {} => FirstIsWrite /\ toClose[1] # -1
      /\ \A i \in DOMAIN toClose : i # 1 => toClose[i] # -1 /\ fds[toClose[i]][1] = "rd"
  BY <1>3, PassedIs DEF LoopEnds
<1>6. seg \in NonEmpty
  <2>1. seg \in DOMAIN line.segs
    BY <1>1, LenProperties DEF TypeInv, TypeOK, InLoop, Line, N
  <2> QED BY <1>1, <2>1 DEF NonEmpty, TypeInv, InLoop
<1>7. /\ DOMAIN toClose = 1 .. n /\ DOMAIN toClose' = 1 .. n + 1 /\ Len(toClose') = n + 1
      /\ \A i \in 1 .. n : toClose'[i] = toClose[i]
      /\ toClose'[n + 1] = ParentClose /\ toClose' # <<>>
  <2>1. toClose \in Seq(Fd \cup {-1}) /\ ParentClose \in Fd \cup {-1}
    BY <1>1, ParentCloseIs DEF TypeInv, TypeOK
  <2>2. /\ toClose' \in Seq(Fd \cup {-1}) /\ Len(toClose') = n + 1
        /\ \A i \in 1 .. n : toClose'[i] = toClose[i]
        /\ toClose'[n + 1] = ParentClose
    BY <1>1, <2>1, AppendProperties
  <2>3. DOMAIN toClose = 1 .. n /\ DOMAIN toClose' = 1 .. n + 1 /\ n \in Nat
    BY <2>1, <2>2, LenProperties
  <2>4. toClose' # <<>>
    BY <2>2, <2>3, EmptySeq
  <2> QED BY <2>2, <2>3, <2>4
<1>8. NonEmpty' = NonEmpty /\ N' = N /\ Piped' = Piped
  BY <1>1 DEF NonEmpty, N, Piped
<1>9. Count("rd")' = Count("rd") /\ Count("wr")' = Count("wr")
      /\ Ends("rd")' = Ends("rd") /\ Ends("wr")' = Ends("wr")
  BY <1>1 DEF Count, Ends
<1> HIDE DEF made, n
<1>10. ASSUME NEW i \in DOMAIN toClose', i # 1, Passed # {} \/ ~IsLast
       PROVE  toClose'[i] # -1 /\ fds'[toClose'[i]][1] = "rd"
  <2>1. CASE i \in 1 .. n
    BY <1>1, <1>5, <1>7, <1>10, <2>1
  <2>2. CASE i = n + 1
    <3>1. Passed # {}
      BY <1>5, <1>10, <2>2
    <3> QED BY <1>1, <1>4, <1>7, <2>2, <3>1
  <2>3. i \in 1 .. n \/ i = n + 1
    BY <1>5, <1>7
  <2> QED BY <2>1, <2>2, <2>3
<1>11. ASSUME Passed # {} \/ ~IsLast PROVE FirstIsWrite' /\ toClose'[1] # -1
  <2>1. CASE Passed # {}
    <3>1. 1 \in 1 .. n
      BY <1>5, <2>1
    <3>2. toClose'[1] = toClose[1]
      BY <1>7, <3>1
    <3> QED BY <1>1, <1>5, <1>7, <2>1, <3>2 DEF FirstIsWrite
  <2>2. CASE Passed = {}
    <3>1. toClose'[1] = ParentClose
      BY <1>5, <1>7, <2>2
    <3> QED BY <1>1, <1>4, <1>7, <1>11, <2>2, <3>1 DEF FirstIsWrite
  <2> QED BY <2>1, <2>2
<1>12. CASE IsLast
  <2>1. Piped = Passed /\ N \in NonEmpty
    BY <1>1, <1>6, <1>12, PassedIs
  <2>2. CASE Passed = {}
    <3>1. Ends("rd") = {} /\ Ends("wr") = {}
      BY <1>5, <1>12, <2>2, CountIs, EndsFinite DEF Ends
    <3>2. \A i \in DOMAIN toClose' : toClose'[i] = -1
      BY <1>4, <1>5, <1>7, <1>12, <2>2
    <3> QED BY <1>1, <1>2, <1>8, <1>9, <1>12, <2>1, <2>2, <3>1, <3>2 DEF EndsAre, CloseEnds
  <2>3. CASE Passed # {}
    <3>1. Cardinality(Piped)' = made
      BY <1>8, <2>1 DEF made
    <3>2. Count("wr")' = (made - 1) + 1 /\ Count("rd")' = (0 + Len(toClose')) - 1
      BY <1>5, <1>7, <1>9, <1>12
    <3>3. \A i \in DOMAIN toClose' : toClose'[i] # -1 /\ (i # 1 => fds'[toClose'[i]][1] = "rd")
      BY <1>10, <1>11, <2>3
    <3>4. CloseEnds'
      BY <1>8, <1>11, <2>1, <2>3, <3>1, <3>2, <3>3 DEF CloseEnds
    <3> QED BY <1>1, <1>2, <1>12, <3>4 DEF EndsAre
  <2> QED BY <2>2, <2>3
<1>13. CASE ~IsLast
  <2>1. Passed' = Passed \cup {seg} /\ Cardinality(Passed') = made + 1
    BY <1>1, <1>6, <1>8, <1>13, PassedIs DEF Passed, made
  <2>2. Passed' # {}
    BY <2>1
  <2>3. Count("rd")' = made + 1 /\ Count("wr")' = made + 1 /\ Len(toClose') = made + 1
    BY <1>5, <1>7, <1>9, <1>13
  <2>4. prevRead' # inFd'
    BY <1>1, <1>4, <1>13
  <2>5. LoopEnds(prevRead, Cardinality(Passed))'
    BY <1>10, <1>11, <1>13, <2>1, <2>2, <2>3, <2>4 DEF LoopEnds
  <2> QED BY <1>1, <1>2, <1>13, <2>5 DEF EndsAre
<1> QED BY <1>12, <1>13

\* Each close takes away one end of the kind the entry is of.
LEMMA CloseLeft ==
    ASSUME TypeInv, DescriptorInv, FilesAre, EndsAre, CloseNext
    PROVE  FilesAre' /\ EndsAre'
<1> DEFINE h == Head(toClose)
           n == Len(toClose)
<1>1. /\ pc = "close" /\ pc' = "close" /\ toClose # <<>>
      /\ fds' = ClosedAbove2(fds, h) /\ toClose' = Tail(toClose)
      /\ UNCHANGED <<line, outFd, inFd>>
  BY DEF CloseNext
<1>2. /\ n \in Nat /\ n # 0 /\ DOMAIN toClose = 1 .. n /\ h = toClose[1]
      /\ DOMAIN toClose' = 1 .. n - 1 /\ Len(toClose') = n - 1
      /\ \A i \in 1 .. n - 1 : toClose'[i] = toClose[i + 1]
      /\ \A i \in 1 .. n : toClose[i] \in Fd \cup {-1}
      /\ toClose' = <<>> <=> n - 1 = 0
  <2>1. toClose \in Seq(Fd \cup {-1}) /\ n \in Nat /\ n # 0 /\ DOMAIN toClose = 1 .. n
    BY <1>1, LenProperties, EmptySeq DEF TypeInv, TypeOK
  <2>2. /\ Tail(toClose) \in Seq(Fd \cup {-1}) /\ Len(Tail(toClose)) = n - 1
        /\ \A i \in 1 .. n - 1 : Tail(toClose)[i] = toClose[i + 1]
        /\ h = toClose[1]
    BY <1>1, <2>1, HeadTailProperties
  <2> QED BY <1>1, <2>1, <2>2, LenProperties, EmptySeq, ElementOfSeq
<1> HIDE DEF h, n
<1>3. NonEmpty' = NonEmpty /\ N' = N /\ Piped' = Piped /\ CloseEnds
  BY <1>1 DEF NonEmpty, N, Piped, EndsAre
<1>4. 1 \in DOMAIN toClose
  BY <1>2
<1>5. fds \in [Fd -> Objects]
  BY DEF TypeInv, TypeOK
<1>6. CASE Piped = {}
  <2>1. /\ Ends("rd") = {} /\ Ends("wr") = {} /\ \A i \in DOMAIN toClose : toClose[i] = -1
    BY <1>3, <1>6 DEF CloseEnds
  <2>2. fds' = fds
    BY <1>1, <1>2, <1>4, <1>5, <2>1, ClosedAbove2Is
  <2>3. \A i \in DOMAIN toClose' : toClose'[i] = -1
    <3>1. \A i \in 1 .. n - 1 : i + 1 \in 1 .. n
      BY <1>2
    <3> QED BY <1>2, <2>1, <3>1
  <2>4. CloseEnds'
    BY <1>3, <1>6, <2>1, <2>2, <2>3 DEF CloseEnds, Ends
  <2>5. FilesAre'
    BY <1>1, <2>2, FilesStay DEF Ends
  <2> QED BY <1>1, <2>4, <2>5 DEF EndsAre
<1>7. CASE Piped # {}
  <2> DEFINE write == IF FirstIsWrite THEN 1 ELSE 0
             over == IF N \in NonEmpty THEN 0 ELSE 1
             made == Cardinality(Piped)
  <2>1. /\ Count("wr") = made - 1 + write
        /\ Count("rd") = over + n - write
        /\ \A i \in DOMAIN toClose : toClose[i] # -1 /\ (i # 1 => fds[toClose[i]][1] = "rd")
    BY <1>3, <1>7 DEF CloseEnds, n
  <2>2. h # -1 /\ h \in Fd
    BY <1>2, <1>4, <2>1
  <2>3. fds[h][1] \in {"rd", "wr"}
    BY <1>2, <1>4, <2>2 DEF DescriptorInv, ClosesOwnPipeEnds
  <2>4. h > 2
    <3>1. Tty[1] \notin {"rd", "wr"} /\ Fd \subseteq Nat
      BY ObjectsType DEF Tty
    <3> QED BY <2>2, <2>3, <3>1 DEF DescriptorInv, ShellKeepsTerminal
  <2>5. fds' = With(fds, h, None)
    BY <1>1, <2>2, <2>4 DEF ClosedAbove2, Closed, With
  <2>6. write = IF fds[h][1] = "wr" THEN 1 ELSE 0
    BY <1>1, <1>2 DEF FirstIsWrite
  <2>7. ASSUME NEW kind \in {"file", "rd", "wr"}
        PROVE  /\ EndsOf(fds', kind) = EndsOf(fds, kind) \ {h}
               /\ Cardinality(EndsOf(fds', kind))
                    = Cardinality(EndsOf(fds, kind)) - IF fds[h][1] = kind THEN 1 ELSE 0
    BY <1>5, <2>2, <2>4, <2>5, OneClosed
  <2>8. Ends("file")' = Ends("file")
    <3>1. h \notin EndsOf(fds, "file")
      BY <2>3 DEF EndsOf
    <3> QED BY <2>7, <3>1 DEF Ends
  <2>9. /\ Count("wr")' = Count("wr") - (IF fds[h][1] = "wr" THEN 1 ELSE 0)
        /\ Count("rd")' = Count("rd") - (IF fds[h][1] = "rd" THEN 1 ELSE 0)
    BY <2>7, CountIs DEF Ends
  <2>10. ASSUME NEW i \in DOMAIN toClose'
         PROVE  toClose'[i] # -1 /\ fds'[toClose'[i]][1] = "rd"
    <3>1. i + 1 \in 1 .. n /\ i + 1 # 1 /\ toClose'[i] = toClose[i + 1] /\ 1 \in 1 .. n
      BY <1>2
    <3>2. toClose[i + 1] # -1 /\ fds[toClose[i + 1]][1] = "rd" /\ toClose[i + 1] \in Fd
      BY <1>2, <2>1, <3>1
    <3>3. toClose[i + 1] # h
      BY <1>2, <3>1, <3>2 DEF DescriptorInv, ClosesOwnPipeEnds
    <3> QED BY <1>5, <2>5, <3>1, <3>2, <3>3 DEF With
  <2>11. ~FirstIsWrite'
    <3>1. CASE toClose' = <<>>
      BY <3>1 DEF FirstIsWrite
    <3>2. CASE toClose' # <<>>
      <4>1. 1 \in DOMAIN toClose'
        BY <1>2, <3>2
      <4>2. fds'[toClose'[1]][1] = "rd"
        BY <2>10, <4>1
      <4> QED BY <4>2 DEF FirstIsWrite
    <3> QED BY <3>1, <3>2
  <2>12. made \in Nat /\ over \in Nat /\ write \in {0, 1}
    BY PassedIs
  <2>13. over' = over /\ made' = made
    BY <1>3
  <2> HIDE DEF made, over, write
  <2>14. Count("wr")' = made - 1 + 0 /\ Count("rd")' = over + (n - 1) - 0
    <3>1. CASE fds[h][1] = "wr"
      <4>1. /\ write = 1 /\ Count("wr")' = Count("wr") - 1 /\ Count("rd")' = Count("rd") - 0
        BY <2>6, <2>9, <3>1
      <4> QED BY <1>2, <2>1, <2>12, <4>1
    <3>2. CASE fds[h][1] = "rd"
      <4>1. /\ write = 0 /\ Count("wr")' = Count("wr") - 0 /\ Count("rd")' = Count("rd") - 1
        BY <2>6, <2>9, <3>2
      <4> QED BY <1>2, <2>1, <2>12, <4>1
    <3> QED BY <2>3, <3>1, <3>2
  <2>15. CloseEnds'
    BY <1>2, <1>3, <1>7, <2>10, <2>11, <2>13, <2>14 DEF CloseEnds, made, over
  <2>16. FilesAre'
    BY <1>1, <2>8, FilesStay
  <2> QED BY <1>1, <2>15, <2>16 DEF EndsAre
<1> QED BY <1>6, <1>7

LEMMA NextLeft == TypeInv /\ DescriptorInv /\ LeftInv /\ [Next]_vars => LeftInv'
<1> SUFFICES ASSUME TypeInv, DescriptorInv, LeftInv, [Next]_vars PROVE LeftInv'
  OBVIOUS
<1>1. entered \in Nat
  BY DEF TypeInv, TypeOK
<1>2. CASE Begin
  <2>1. pc' = "out" /\ entered' = entered + 1 /\ fds' = fds
    BY <1>2 DEF Begin
  <2>2. ASSUME entered' = 1 PROVE FilesAre' /\ EndsAre'
    <3>1. \A f \in Fd : f > 2 => fds[f] = None
      BY <1>1, <2>1, <2>2 DEF LeftInv
    <3>2. None[1] \notin {"file", "rd", "wr"}
      BY DEF None
    <3>3. Ends("file")' = {} /\ Ends("rd")' = {} /\ Ends("wr")' = {}
      BY <2>1, <3>1, <3>2 DEF Ends, EndsOf
    <3> QED BY <2>1, <3>3 DEF FilesAre, EndsAre
  <2>3. entered' # 0
    BY <1>1, <2>1
  <2> QED BY <2>2, <2>3 DEF LeftInv
<1>3. ASSUME pc # "prompt", entered' = entered,
             entered = 1 /\ FilesAre /\ EndsAre => pc' = "prompt" \/ (FilesAre' /\ EndsAre')
      PROVE  LeftInv'
  BY <1>3 DEF LeftInv
<1>4. CASE DispatchInShell \/ OutFailed \/ InFailed \/ LoneEmpty \/ LoneInProcess
              \/ PipeFail \/ ForkFail \/ Finish
  <2>1. pc # "prompt" /\ Return
    BY <1>4 DEF DispatchInShell, OutFailed, InFailed, LoneEmpty, LoneInProcess, PipeFail,
       ForkFail, Finish, Opens
  <2> QED BY <1>3, <2>1 DEF Return
<1>5. CASE OpenOut \/ OpenIn
  <2>1. pc # "prompt" /\ entered' = entered
    BY <1>5 DEF OpenOut, OpenIn, userVars
  <2> QED BY <1>3, <1>5, <2>1, OpenLeft
<1>6. CASE StartSegments
  <2>1. pc # "prompt" /\ entered' = entered
    BY <1>6 DEF StartSegments, Opens, userVars
  <2> QED BY <1>3, <1>6, <2>1, StartLeft
<1>7. CASE SkipEmpty
  <2>1. pc # "prompt" /\ entered' = entered
    BY <1>7 DEF SkipEmpty, userVars
  <2> QED BY <1>3, <1>7, <2>1, SkipLeft
<1>8. CASE LastSegment
  <2>1. pc # "prompt" /\ entered' = entered
    BY <1>8 DEF LastSegment, userVars
  <2> QED BY <1>3, <1>8, <2>1, LastLeft
<1>9. CASE MakePipe
  <2>1. pc # "prompt" /\ entered' = entered
    BY <1>9 DEF MakePipe, userVars
  <2> QED BY <1>3, <1>9, <2>1, MakePipeLeft
<1>10. ASSUME NEW k \in Kids, Fork(k) PROVE LeftInv'
  <2>1. pc # "prompt" /\ entered' = entered
    BY <1>10 DEF Fork, userVars
  <2> QED BY <1>3, <1>10, <2>1, ForkLeft
<1>11. CASE CloseNext
  <2>1. pc # "prompt" /\ entered' = entered
    BY <1>11 DEF CloseNext, userVars
  <2> QED BY <1>3, <1>11, <2>1, CloseLeft
<1>12. CASE UNCHANGED <<entered, pc, line, seg, fds, outFd, inFd, prevRead, curRead, toClose>>
  BY <1>12 DEF LeftInv, FilesAre, EndsAre, LoopEnds, CloseEnds, Ends, Count, Passed, Piped,
     NonEmpty, FirstIsWrite, IsLast, N
<1>13. ASSUME Wait \/ (\E k \in Kids : Child(k)) \/ UNCHANGED vars PROVE LeftInv'
  <2>1. UNCHANGED <<entered, pc, line, seg, fds, outFd, inFd, prevRead, curRead, toClose>>
    BY <1>13 DEF Wait, Child, Redirect, Write, Read, Exit, vars, shellVars, userVars
  <2> QED BY <1>12, <2>1
<1> QED BY <1>2, <1>4, <1>5, <1>6, <1>7, <1>8, <1>9, <1>10, <1>11, <1>13 DEF Next, Shell

\* When the first line has run its course it leaves open its redirections,
\* the write end of every pipe but the first, and the read end of the last
\* pipe if the last segment is empty, for any number of segments, whichever
\* are empty: parent_close has room for one end of each segment.
THEOREM FirstLineLeaves == Spec => []LeftOpenByFirstLine
<1>1. Init => LeftInv
  BY ObjectsType DEF Init, LeftInv
<1>2. TypeInv /\ LeftInv => LeftOpenByFirstLine
  <2> SUFFICES ASSUME TypeInv, LeftInv, pc = "close", toClose = <<>>, entered = 1
               PROVE  LET made == Cardinality(Piped)
                      IN  /\ Count("file") = (IF line.out THEN 1 ELSE 0) + (IF line.inp THEN 1 ELSE 0)
                          /\ Count("wr") = IF made = 0 THEN 0 ELSE made - 1
                          /\ Count("rd") = IF made > 0 /\ N \notin NonEmpty THEN 1 ELSE 0
    BY DEF LeftOpenByFirstLine, Piped, N
  <2>1. FilesAre /\ CloseEnds /\ outFd # -1 /\ inFd # -1
    BY DEF LeftInv, EndsAre, TypeInv, InLoop
  <2>2. ASSUME NEW b \in BOOLEAN, NEW f, f # -1
        PROVE  /\ IsFiniteSet(OpenFile(b, f))
               /\ Cardinality(OpenFile(b, f)) = IF b THEN 1 ELSE 0
    BY <2>2, FS_EmptySet, FS_Singleton DEF OpenFile
  <2>3. Count("file") = (IF line.out THEN 1 ELSE 0) + (IF line.inp THEN 1 ELSE 0)
    <3> DEFINE o == OpenFile(line.out, outFd)
               i == OpenFile(line.inp, inFd)
    <3>1. line.out \in BOOLEAN /\ line.inp \in BOOLEAN
      BY DEF TypeInv, TypeOK, Line
    <3>2. /\ IsFiniteSet(o) /\ Cardinality(o) = IF line.out THEN 1 ELSE 0
      BY <2>1, <2>2, <3>1
    <3>3. /\ IsFiniteSet(i) /\ Cardinality(i) = IF line.inp THEN 1 ELSE 0
      BY <2>1, <2>2, <3>1
    <3>4. Count("file") = Cardinality(o \cup i) /\ o \cap i = {}
      BY <2>1, CountIs DEF FilesAre
    <3> HIDE DEF o, i
    <3>5. Cardinality(o \cup i) = Cardinality(o) + Cardinality(i) - Cardinality(o \cap i)
      BY <3>2, <3>3, FS_Union, Zenon
    <3>6. Cardinality(o \cap i) = 0
      BY <3>4, FS_EmptySet
    <3> QED BY <3>2, <3>3, <3>4, <3>5, <3>6
  <2>4. ~FirstIsWrite /\ Len(toClose) = 0
    BY EmptySeq DEF FirstIsWrite
  <2> DEFINE made == Cardinality(Piped)
  <2>5. made \in Nat /\ (made = 0 <=> Piped = {})
    BY PassedIs
  <2>6. CASE Piped = {}
    <3>1. Count("rd") = 0 /\ Count("wr") = 0
      BY <2>1, <2>6, CountIs, FS_EmptySet DEF CloseEnds
    <3> QED BY <2>3, <2>5, <2>6, <3>1
  <2>7. CASE Piped # {}
    <3>1. /\ Count("wr") = made - 1 + 0
          /\ Count("rd") = (IF N \in NonEmpty THEN 0 ELSE 1) + 0 - 0
      BY <2>1, <2>4, <2>7 DEF CloseEnds
    <3> HIDE DEF made
    <3>2. Count("wr") = made - 1 /\ Count("rd") = IF N \in NonEmpty THEN 0 ELSE 1
      BY <2>5, <3>1
    <3> QED BY <2>3, <2>5, <2>7, <3>2 DEF made
  <2> QED BY <2>6, <2>7
<1> QED BY <1>1, <1>2, NextLeft, TypeCorrect, DescriptorsCorrect, PTL DEF Spec

-----------------------------------------------------------------------------
(* What a line means, one token at a time                                  *)

\* An operator is a token that looks like one and is not the name another
\* waits for.
LEMMA OperatorAt ==
    ASSUME NEW l \in Seq(STRING)
    PROVE  /\ OperatorsOf(l) \subseteq 1 .. Len(l)
           /\ \A i \in 1 .. Len(l) :
                i \in OperatorsOf(l) <=> l[i] \in Operators /\ i - 1 \notin OperatorsOf(l)
<1> DEFINE n == Len(l)
           Q(f) == f = [i \in 0 .. n |-> IF i = 0 THEN FALSE ELSE l[i] \in Operators /\ ~f[i - 1]]
           step == [x \in (1 .. n) \X BOOLEAN |-> l[x[1]] \in Operators /\ ~x[2]]
<1>1. n \in Nat /\ DOMAIN l = 1 .. n
  BY LenProperties
<1>2. IsOperator(l) = CHOOSE f : Q(f)
  BY DEF IsOperator
<1> HIDE DEF n
<1>3. step \in [(1 .. n) \X BOOLEAN -> BOOLEAN]
  OBVIOUS
<1>4. \A i \in 1 .. n, b \in BOOLEAN : step[<<i, b>>] = (l[i] \in Operators /\ ~b)
  OBVIOUS
<1> HIDE DEF step
<1>5. PICK f : Recurs(BOOLEAN, FALSE, step, n, f)
  BY <1>1, <1>3, RecursionExists
<1>6. Q(f)
  <2>1. f = [i \in 0 .. n |-> f[i]] /\ f[0] = FALSE /\ \A i \in 0 .. n : f[i] \in BOOLEAN
    BY <1>5 DEF Recurs
  <2>2. ASSUME NEW i \in 0 .. n
        PROVE  f[i] = IF i = 0 THEN FALSE ELSE l[i] \in Operators /\ ~f[i - 1]
    <3>1. CASE i = 0
      BY <2>1, <3>1
    <3>2. CASE i # 0
      <4>1. i \in 1 .. n /\ i - 1 \in 0 .. n
        BY <1>1, <3>2
      <4>2. f[i] = step[<<i, f[i - 1]>>] /\ f[i - 1] \in BOOLEAN
        BY <1>5, <2>1, <4>1 DEF Recurs
      <4> QED BY <1>4, <3>2, <4>1, <4>2
    <3> QED BY <3>1, <3>2
  <2> QED BY <2>1, <2>2
<1>7. Q(IsOperator(l))
  <2>1. \E g : Q(g)
    BY <1>6
  <2> HIDE DEF Q
  <2> QED BY <1>2, <2>1
<1> DEFINE op == IsOperator(l)
<1>8. \A i \in 0 .. n : op[i] = IF i = 0 THEN FALSE ELSE l[i] \in Operators /\ ~op[i - 1]
  <2> HIDE DEF op
  <2>1. op = [i \in 0 .. n |-> IF i = 0 THEN FALSE ELSE l[i] \in Operators /\ ~op[i - 1]]
    BY <1>7 DEF op
  <2> QED BY <2>1, Zenon
<1> HIDE DEF Q
<1>9. OperatorsOf(l) = { i \in 1 .. n : op[i] }
  BY <1>1 DEF OperatorsOf
<1> HIDE DEF op
<1>10. ASSUME NEW i \in 1 .. n
       PROVE  i \in OperatorsOf(l) <=> l[i] \in Operators /\ i - 1 \notin OperatorsOf(l)
  <2>1. i \in 0 .. n /\ i # 0 /\ i - 1 \in 0 .. n
    BY <1>1
  <2>2. op[i] = (l[i] \in Operators /\ ~op[i - 1])
    BY <1>8, <2>1
  <2>3. CASE i - 1 = 0
    <3>1. op[i - 1] = FALSE /\ i - 1 \notin OperatorsOf(l)
      BY <1>8, <1>9, <2>1, <2>3
    <3> QED BY <1>9, <2>2, <3>1
  <2>4. CASE i - 1 # 0
    <3>1. i - 1 \in 1 .. n
      BY <1>1, <2>1, <2>4
    <3> QED BY <1>9, <2>2, <3>1
  <2> QED BY <2>3, <2>4
<1> QED BY <1>9, <1>10 DEF n

LEMMA WordAt ==
    ASSUME NEW l \in Seq(STRING)
    PROVE  /\ WordsOf(l) \subseteq 1 .. Len(l)
           /\ \A i \in 1 .. Len(l) :
                i \in WordsOf(l) <=> /\ l[i] # Bar
                                        /\ i \notin OperatorsOf(l)
                                        /\ i - 1 \notin OperatorsOf(l)
BY LenProperties DEF WordsOf

LEMMA NthStep ==
    ASSUME NEW l \in Seq(STRING)
    PROVE  /\ Nth(l, 0) = 0
           /\ \A m \in Nat : Nth(l, m) \in Nat
           /\ \A k \in 1 .. Len(l) :
                Nth(l, k) = IF k \in WordsOf(l) THEN Nth(l, k - 1) + 1 ELSE Nth(l, k - 1)
           /\ \A m \in Nat : \A i \in WordsOf(l) :
                i <= m => Nth(l, i) >= 1 /\ Nth(l, i) <= Nth(l, m)
<1> DEFINE n == Len(l)
           W == WordsOf(l)
           U(m) == { j \in 1 .. n : j \in W /\ j <= m }
<1>1. n \in Nat /\ W \in SUBSET (1 .. n) /\ \A j \in W : j \in Int /\ 1 <= j /\ j <= n
  <2>1. n \in Nat /\ W \in SUBSET (1 .. n)
    BY LenProperties, WordAt
  <2> HIDE DEF n, W
  <2> QED BY <2>1
<1>2. \A m : Nth(l, m) = Cardinality(U(m))
  <2> TAKE m
  <2>1. U(m) = { j \in WordsOf(l) : j <= m }
    BY <1>1
  <2> HIDE DEF U
  <2> QED BY <2>1 DEF Nth
<1> HIDE DEF n, W
<1>3. \A m : U(m) \in SUBSET (1 .. n)
  BY <1>1
<1>4. U(0) = {}
  BY <1>1
<1>5. Cardinality({}) = 0
  BY FS_EmptySet
<1>6. ASSUME NEW k \in 1 .. n
      PROVE  Nth(l, k) = IF k \in W THEN Nth(l, k - 1) + 1 ELSE Nth(l, k - 1)
  <2>1. CASE k \in W
    <3>1. U(k) = U(k - 1) \cup {k} /\ k \notin U(k - 1)
      BY <1>1, <2>1
    <3>2. Cardinality(U(k - 1) \cup {k}) = Cardinality(U(k - 1)) + 1
      <4> HIDE DEF U
      <4> QED BY <1>1, <1>3, <3>1, CountOneMore
    <3> HIDE DEF U
    <3> QED BY <1>2, <2>1, <3>1, <3>2
  <2>2. CASE k \notin W
    <3>1. U(k) = U(k - 1)
      BY <1>1, <2>2
    <3> HIDE DEF U
    <3> QED BY <1>2, <2>2, <3>1
  <2> QED BY <2>1, <2>2
<1>7. ASSUME NEW m \in Nat, NEW i \in W, i <= m
      PROVE  Nth(l, i) >= 1 /\ Nth(l, i) <= Nth(l, m)
  <2>1. i \in 1 .. n /\ i - 1 \in Nat
    BY <1>1
  <2>2. U(i) \in SUBSET U(m) /\ U(m) \in SUBSET (1 .. n) /\ U(i - 1) \in SUBSET (1 .. n)
    BY <1>1, <1>7, <2>1
  <2> HIDE DEF U
  <2>3. Cardinality(U(i)) <= Cardinality(U(m))
    BY <1>1, <2>2, CountPart
  <2>4. Cardinality(U(i - 1)) \in Nat
    BY <1>1, <2>2, CountTo
  <2>5. Nth(l, i) = Nth(l, i - 1) + 1
    BY <1>6, <2>1
  <2> QED BY <1>2, <2>3, <2>4, <2>5
<1>8. \A m \in Nat : Nth(l, m) \in Nat
  <2> HIDE DEF U
  <2> QED BY <1>1, <1>2, <1>3, CountTo
<1> QED BY <1>2, <1>4, <1>5, <1>6, <1>7, <1>8 DEF n, W

LEMMA BarsStep ==
    ASSUME NEW l \in Seq(STRING)
    PROVE  /\ \A i \in 1 .. Len(l) + 1 : BarsBefore(l, i) \in Nat
           /\ \A i \in 1 .. Len(l) :
                BarsBefore(l, i + 1) = IF l[i] = Bar THEN BarsBefore(l, i) + 1 ELSE BarsBefore(l, i)
           /\ \A i, j \in 1 .. Len(l) + 1 : i <= j => BarsBefore(l, i) <= BarsBefore(l, j)
<1> DEFINE n == Len(l)
           B(i) == { j \in 1 .. i - 1 : l[j] = Bar }
<1>1. n \in Nat
  BY LenProperties
<1>2. \A i : BarsBefore(l, i) = Cardinality(B(i))
  BY DEF BarsBefore
<1> HIDE DEF n
<1>3. \A i \in 1 .. n + 1 : B(i) \in SUBSET (1 .. n)
  BY <1>1
<1>4. ASSUME NEW i \in 1 .. n
      PROVE  BarsBefore(l, i + 1) = IF l[i] = Bar THEN BarsBefore(l, i) + 1 ELSE BarsBefore(l, i)
  <2>1. CASE l[i] = Bar
    <3>1. B(i + 1) = B(i) \cup {i} /\ i \notin B(i) /\ i \in 1 .. n + 1
      BY <1>1, <2>1
    <3>2. Cardinality(B(i) \cup {i}) = Cardinality(B(i)) + 1
      <4> HIDE DEF B
      <4> QED BY <1>1, <1>3, <3>1, CountOneMore
    <3> HIDE DEF B
    <3> QED BY <1>2, <2>1, <3>1, <3>2
  <2>2. CASE l[i] # Bar
    <3>1. B(i + 1) = B(i)
      BY <1>1, <2>2
    <3> HIDE DEF B
    <3> QED BY <1>2, <2>2, <3>1
  <2> QED BY <2>1, <2>2
<1>5. ASSUME NEW i \in 1 .. n + 1, NEW j \in 1 .. n + 1, i <= j
      PROVE  BarsBefore(l, i) <= BarsBefore(l, j)
  <2>1. B(i) \in SUBSET B(j)
    BY <1>1, <1>5
  <2> HIDE DEF B
  <2> QED BY <1>1, <1>2, <1>3, <2>1, CountPart
<1>6. \A i \in 1 .. n + 1 : BarsBefore(l, i) \in Nat
  <2> HIDE DEF B
  <2> QED BY <1>1, <1>2, <1>3, CountTo
<1> QED BY <1>4, <1>5, <1>6 DEF n

LEMMA SinceBarStep ==
    ASSUME NEW l \in Seq(STRING)
    PROVE  /\ \A i \in 1 .. Len(l) + 1 : SinceBar(l, i) \in Nat
           /\ \A i \in 1 .. Len(l) :
                SinceBar(l, i + 1) = IF l[i] = Bar THEN 0
                                        ELSE IF i \in WordsOf(l) THEN SinceBar(l, i) + 1
                                        ELSE SinceBar(l, i)
           /\ \A i, j \in 1 .. Len(l) + 1 :
                i <= j /\ BarsBefore(l, i) = BarsBefore(l, j) => SinceBar(l, i) <= SinceBar(l, j)
<1> DEFINE n == Len(l)
           W == WordsOf(l)
           B(i) == BarsBefore(l, i)
           U(i) == { j \in 1 .. n : j \in W /\ j < i /\ B(j) = B(i) }
<1>1. n \in Nat /\ W \in SUBSET (1 .. n) /\ \A j \in W : j \in Int /\ 1 <= j /\ j <= n
  <2>1. n \in Nat /\ W \in SUBSET (1 .. n)
    BY LenProperties, WordAt
  <2> HIDE DEF n, W
  <2> QED BY <2>1
<1>2. /\ \A i \in 1 .. n + 1 : B(i) \in Nat
      /\ \A i \in 1 .. n : B(i + 1) = IF l[i] = Bar THEN B(i) + 1 ELSE B(i)
      /\ \A i, j \in 1 .. n + 1 : i <= j => B(i) <= B(j)
  BY BarsStep
<1>3. \A i : SinceBar(l, i) = Cardinality(U(i))
  <2> TAKE i
  <2>1. U(i) = { j \in WordsOf(l) : j < i /\ BarsBefore(l, j) = BarsBefore(l, i) }
    BY <1>1
  <2> HIDE DEF U
  <2> QED BY <2>1 DEF SinceBar
<1>4. \A i \in 1 .. n : l[i] = Bar => i \notin W
  BY WordAt
<1> HIDE DEF n, W, B
<1>5. \A i \in 1 .. n + 1 : U(i) \in SUBSET (1 .. n)
  BY <1>1
<1>6. ASSUME NEW i \in 1 .. n
      PROVE  SinceBar(l, i + 1) = IF l[i] = Bar THEN 0
                                     ELSE IF i \in W THEN SinceBar(l, i) + 1
                                     ELSE SinceBar(l, i)
  <2>0. i \in 1 .. n + 1 /\ i + 1 \in 1 .. n + 1
    BY <1>1
  <2>1. CASE l[i] = Bar
    <3>1. ASSUME NEW j \in W, j < i + 1 PROVE B(j) # B(i + 1)
      <4>1. j \in 1 .. n + 1 /\ j <= i
        BY <1>1, <3>1
      <4>2. B(j) <= B(i) /\ B(i + 1) = B(i) + 1 /\ B(j) \in Nat /\ B(i) \in Nat
        BY <1>2, <2>0, <2>1, <4>1
      <4> QED BY <4>2
    <3>2. U(i + 1) = {}
      BY <3>1
    <3> HIDE DEF U
    <3> QED BY <1>3, <2>1, <3>2, FS_EmptySet
  <2>2. CASE l[i] # Bar /\ i \in W
    <3>1. B(i + 1) = B(i)
      BY <1>2, <2>2
    <3>2. U(i + 1) = U(i) \cup {i} /\ i \notin U(i)
      BY <1>1, <2>2, <3>1
    <3>3. Cardinality(U(i) \cup {i}) = Cardinality(U(i)) + 1
      <4> HIDE DEF U
      <4> QED BY <1>1, <1>5, <2>0, <3>2, CountOneMore
    <3> HIDE DEF U
    <3> QED BY <1>3, <2>2, <3>2, <3>3
  <2>3. CASE l[i] # Bar /\ i \notin W
    <3>1. B(i + 1) = B(i)
      BY <1>2, <2>3
    <3>2. U(i + 1) = U(i)
      BY <1>1, <2>3, <3>1
    <3> HIDE DEF U
    <3> QED BY <1>3, <2>3, <3>2
  <2> QED BY <2>1, <2>2, <2>3
<1>7. ASSUME NEW i \in 1 .. n + 1, NEW j \in 1 .. n + 1, i <= j, B(i) = B(j)
      PROVE  SinceBar(l, i) <= SinceBar(l, j)
  <2>1. U(i) \in SUBSET U(j)
    BY <1>1, <1>7
  <2> HIDE DEF U
  <2> QED BY <1>1, <1>3, <1>5, <2>1, CountPart
<1>8. \A i \in 1 .. n + 1 : SinceBar(l, i) \in Nat
  <2> HIDE DEF U
  <2> QED BY <1>1, <1>3, <1>5, CountTo
<1> QED BY <1>6, <1>7, <1>8 DEF n, W, B


LEMMA StageStep ==
    ASSUME NEW l \in Seq(STRING), NEW k \in 1 .. Len(l)
    PROVE  /\ SinceBar(l, k) \in Nat
           /\ l[k] = Bar =>
                SinceBar(l, k + 1) = 0 /\ \A j \in 1 .. k : Stage(l, j) # Stage(l, k + 1)
           /\ l[k] # Bar /\ k \notin WordsOf(l) =>
                SinceBar(l, k + 1) = SinceBar(l, k) /\ Stage(l, k + 1) = Stage(l, k)
           /\ k \in WordsOf(l) =>
                IF (SinceBar(l, k) % MaxArgs) + 1 = MaxArgs
                THEN SinceBar(l, k + 1) % MaxArgs = 0 /\ \A j \in 1 .. k : Stage(l, j) # Stage(l, k + 1)
                ELSE /\ SinceBar(l, k + 1) % MaxArgs = (SinceBar(l, k) % MaxArgs) + 1
                     /\ Stage(l, k + 1) = Stage(l, k)
<1> DEFINE n == Len(l)
           B(i) == BarsBefore(l, i)
           R(i) == SinceBar(l, i)
<1>1. n \in Nat /\ k \in 1 .. n /\ k \in 1 .. n + 1 /\ k + 1 \in 1 .. n + 1 /\ 1 .. k \subseteq 1 .. n + 1
  BY LenProperties
<1>2. /\ \A i \in 1 .. n + 1 : B(i) \in Nat
      /\ B(k + 1) = IF l[k] = Bar THEN B(k) + 1 ELSE B(k)
      /\ \A i, j \in 1 .. n + 1 : i <= j => B(i) <= B(j)
  BY BarsStep
<1>3. /\ \A i \in 1 .. n + 1 : R(i) \in Nat
      /\ R(k + 1) = IF l[k] = Bar THEN 0 ELSE IF k \in WordsOf(l) THEN R(k) + 1 ELSE R(k)
      /\ \A i, j \in 1 .. n + 1 : i <= j /\ B(i) = B(j) => R(i) <= R(j)
  BY SinceBarStep
<1>4. \A i : Stage(l, i) = <<B(i), R(i) \div MaxArgs>>
  BY DEF Stage
<1>5. k \in WordsOf(l) => l[k] # Bar
  BY WordAt
<1>6. MaxArgs \in Nat /\ MaxArgs > 0
  BY ParseAssumption
<1> HIDE DEF n, B, R
<1>7. CASE l[k] = Bar
  <2>1. ASSUME NEW j \in 1 .. k PROVE Stage(l, j) # Stage(l, k + 1)
    <3>1. B(j) <= B(k) /\ B(j) \in Nat /\ B(k) \in Nat /\ B(k + 1) = B(k) + 1
      BY <1>1, <1>2, <1>7
    <3> QED BY <1>4, <3>1
  <2>2. R(k + 1) = 0 /\ R(k) \in Nat
    BY <1>1, <1>3, <1>7
  <2> QED BY <1>5, <1>7, <2>1, <2>2 DEF R
<1>8. CASE l[k] # Bar /\ k \notin WordsOf(l)
  <2>1. R(k + 1) = R(k) /\ B(k + 1) = B(k) /\ R(k) \in Nat
    BY <1>1, <1>2, <1>3, <1>8
  <2>2. Stage(l, k + 1) = Stage(l, k)
    BY <1>4, <2>1
  <2> QED BY <1>8, <2>1, <2>2 DEF R
<1>9. CASE k \in WordsOf(l)
  <2>1. R(k + 1) = R(k) + 1 /\ B(k + 1) = B(k) /\ R(k) \in Nat
    BY <1>1, <1>2, <1>3, <1>5, <1>9
  <2>2. IF (R(k) % MaxArgs) + 1 = MaxArgs
        THEN R(k + 1) % MaxArgs = 0 /\ R(k + 1) \div MaxArgs = (R(k) \div MaxArgs) + 1
        ELSE R(k + 1) % MaxArgs = (R(k) % MaxArgs) + 1 /\ R(k + 1) \div MaxArgs = R(k) \div MaxArgs
    BY <1>6, <2>1, NextQuotient, ZenonT(60)
  <2>3. CASE (R(k) % MaxArgs) + 1 = MaxArgs
    <3>1. ASSUME NEW j \in 1 .. k PROVE Stage(l, j) # Stage(l, k + 1)
      <4>1. CASE B(j) = B(k)
        <5>1. R(j) <= R(k) /\ R(j) \in Nat
          BY <1>1, <1>3, <4>1
        <5>2. R(j) \div MaxArgs <= R(k) \div MaxArgs
          BY <1>6, <2>1, <5>1, QuotientGrows
        <5>3. R(j) \div MaxArgs \in Int /\ R(k) \div MaxArgs \in Int
          BY <1>6, <2>1, <5>1
        <5>4. R(j) \div MaxArgs # R(k + 1) \div MaxArgs
          BY <2>2, <2>3, <5>2, <5>3
        <5> QED BY <1>4, <5>4
      <4>2. CASE B(j) # B(k)
        BY <1>4, <2>1, <4>2
      <4> QED BY <4>1, <4>2
    <3> QED BY <1>5, <1>9, <2>1, <2>2, <2>3, <3>1 DEF R
  <2>4. CASE (R(k) % MaxArgs) + 1 # MaxArgs
    <3>1. Stage(l, k + 1) = Stage(l, k)
      BY <1>4, <2>1, <2>2, <2>4
    <3> QED BY <1>5, <1>9, <2>1, <2>2, <2>4, <3>1 DEF R
  <2> QED BY <2>3, <2>4
<1> QED BY <1>7, <1>8, <1>9


-----------------------------------------------------------------------------
(* The segments as rows of words                                           *)

\* Which segment each of the words in a row comes from.
Tagged(segs) == [s \in DOMAIN segs |-> [k \in 1 .. Len(segs[s]) |-> s]]

Tags(segs) == FlattenSeq(Tagged(segs))

LEMMA TaggedType ==
    ASSUME NEW segs \in Seq(Seq(STRING))
    PROVE  /\ Tagged(segs) \in Seq(Seq(Nat))
           /\ Len(Tagged(segs)) = Len(segs)
           /\ \A s \in 1 .. Len(segs) : Tagged(segs)[s] = [k \in 1 .. Len(segs[s]) |-> s]
<1>1. DOMAIN segs = 1 .. Len(segs) /\ Len(segs) \in Nat
  BY LenProperties
<1>2. ASSUME NEW s \in 1 .. Len(segs) PROVE [k \in 1 .. Len(segs[s]) |-> s] \in Seq(Nat)
  <2>1. Len(segs[s]) \in Nat
    BY ElementOfSeq, LenProperties
  <2>2. s \in Nat
    BY <1>1
  <2> DEFINE m == Len(segs[s])
  <2> HIDE DEF m
  <2>3. [k \in 1 .. m |-> s] \in Seq(Nat)
    BY <2>1, <2>2 DEF m
  <2> QED BY <2>3 DEF m
<1> DEFINE e(s) == [k \in 1 .. Len(segs[s]) |-> s]
           n == Len(segs)
<1>3. \A s \in 1 .. n : e(s) \in Seq(Nat)
  BY <1>2
<1>4. Tagged(segs) = [s \in 1 .. n |-> e(s)] /\ n \in Nat
  BY <1>1 DEF Tagged
<1> HIDE DEF e, n
<1>5. [s \in 1 .. n |-> e(s)] \in Seq(Seq(Nat)) /\ Len([s \in 1 .. n |-> e(s)]) = n
  BY <1>3, <1>4
<1> QED BY <1>4, <1>5 DEF e, n

\* Every word has a segment, and the last segment has words exactly if the
\* last word of all is there.
Shape(segs) ==
    /\ FlattenSeq(segs) \in Seq(STRING)
    /\ Tags(segs) \in Seq(Nat)
    /\ Len(Tags(segs)) = Len(FlattenSeq(segs))
    /\ \A k \in 1 .. Len(FlattenSeq(segs)) : Tags(segs)[k] \in 1 .. Len(segs)
    /\ segs # <<>> =>
         /\ segs[Len(segs)] # <<>> <=>
              Len(FlattenSeq(segs)) > 0 /\ Tags(segs)[Len(FlattenSeq(segs))] = Len(segs)
         /\ segs[Len(segs)] # <<>> =>
              Last(segs[Len(segs)]) = FlattenSeq(segs)[Len(FlattenSeq(segs))]

LEMMA ShapeOpened ==
    ASSUME NEW segs \in Seq(Seq(STRING)), Shape(segs)
    PROVE  /\ Shape(Append(segs, <<>>))
           /\ FlattenSeq(Append(segs, <<>>)) = FlattenSeq(segs)
           /\ Tags(Append(segs, <<>>)) = Tags(segs)
<1> DEFINE n == Len(segs)
           tt == Append(segs, <<>>)
           K == FlattenSeq(segs)
           G == Tags(segs)
<1>0. n \in Nat /\ K \in Seq(STRING) /\ G \in Seq(Nat) /\ Len(G) = Len(K) /\ Len(K) \in Nat
  BY LenProperties DEF Shape
<1>1. tt \in Seq(Seq(STRING)) /\ Len(tt) = n + 1 /\ tt[n + 1] = <<>> /\ \A s \in 1 .. n : tt[s] = segs[s]
  <2>1. <<>> \in Seq(STRING)
    BY EmptySeq
  <2> QED BY <1>0, <2>1, AppendProperties
<1>2. FlattenSeq(tt) = K
  <2>1. <<>> \in Seq(STRING)
    BY EmptySeq
  <2>2. FlattenSeq(tt) = K \o <<>>
    BY <2>1, FlattenedAppend
  <2> HIDE DEF K, tt
  <2> QED BY <1>0, <2>2
<1> HIDE DEF tt
<1>3. Tags(tt) = G
  <2> DEFINE a == Tagged(segs)
             b == Tagged(tt)
             c == Append(a, <<>>)
  <2>1. a \in Seq(Seq(Nat)) /\ Len(a) = n /\ \A s \in 1 .. n : a[s] = [k \in 1 .. Len(segs[s]) |-> s]
    BY TaggedType
  <2>2. b \in Seq(Seq(Nat)) /\ Len(b) = n + 1 /\ \A s \in 1 .. n + 1 : b[s] = [k \in 1 .. Len(tt[s]) |-> s]
    BY <1>1, TaggedType
  <2>3. <<>> \in Seq(Nat)
    BY EmptySeq
  <2>4. c \in Seq(Seq(Nat)) /\ Len(c) = n + 1 /\ c[n + 1] = <<>> /\ \A s \in 1 .. n : c[s] = a[s]
    <3> HIDE DEF a
    <3> QED BY <2>1, <2>3, AppendProperties
  <2>5. FlattenSeq(c) = FlattenSeq(a) \o <<>>
    <3> HIDE DEF a
    <3> QED BY <2>1, <2>3, FlattenedAppend
  <2> HIDE DEF a, b, c
  <2>6. \A s \in 1 .. n + 1 : b[s] = c[s]
    <3> TAKE s \in 1 .. n + 1
    <3>1. CASE s = n + 1
      <4>1. b[n + 1] = [k \in 1 .. Len(<<>>) |-> n + 1]
        BY <1>0, <1>1, <2>2
      <4>2. [k \in 1 .. Len(<<>>) |-> n + 1] = <<>>
        OBVIOUS
      <4> QED BY <2>4, <3>1, <4>1, <4>2
    <3>2. CASE s # n + 1
      <4>1. s \in 1 .. n
        BY <1>0, <3>2
      <4>2. b[s] = a[s]
        BY <1>1, <2>1, <2>2, <4>1
      <4>3. c[s] = a[s]
        BY <2>4, <4>1
      <4> QED BY <4>2, <4>3
    <3> QED BY <3>1, <3>2
  <2>7. b = c
    BY <2>2, <2>4, <2>6, SeqEqual
  <2>8. FlattenSeq(a) = G
    BY DEF Tags, a
  <2>9. FlattenSeq(b) = G \o <<>>
    BY <2>5, <2>7, <2>8
  <2> HIDE DEF G
  <2>10. FlattenSeq(b) = G
    BY <1>0, <2>9
  <2> QED BY <2>10 DEF Tags, b
<1> DEFINE kk == Len(K)
<1>4. \A k \in 1 .. kk : G[k] \in 1 .. n
  BY DEF Shape
<1>5. kk \in Nat
  BY <1>0
<1> HIDE DEF K, G, n, kk
<1>6. kk > 0 => G[kk] # n + 1
  <2>1. kk > 0 => kk \in 1 .. kk
    BY <1>5
  <2> QED BY <1>0, <1>4, <2>1
<1>7. \A k \in 1 .. kk : G[k] \in 1 .. n + 1
  BY <1>0, <1>4
<1>8. Shape(tt)
  <2>1. tt[Len(tt)] = <<>>
    BY <1>1
  <2> QED BY <1>0, <1>1, <1>2, <1>3, <1>6, <1>7, <2>1 DEF Shape, kk
<1> QED BY <1>2, <1>3, <1>8 DEF tt, K, G

LEMMA ShapeExtended ==
    ASSUME NEW segs \in Seq(Seq(STRING)), Shape(segs), segs # <<>>,
           NEW tt \in Seq(Seq(STRING)), NEW x \in STRING, Len(tt) = Len(segs),
           \A s \in 1 .. Len(segs) - 1 : tt[s] = segs[s],
           tt[Len(segs)] = Append(segs[Len(segs)], x)
    PROVE  /\ Shape(tt)
           /\ FlattenSeq(tt) = Append(FlattenSeq(segs), x)
           /\ Len(FlattenSeq(tt)) = Len(FlattenSeq(segs)) + 1
           /\ FlattenSeq(tt)[Len(FlattenSeq(segs)) + 1] = x
           /\ \A i \in 1 .. Len(FlattenSeq(segs)) : FlattenSeq(tt)[i] = FlattenSeq(segs)[i]
           /\ Tags(tt) = Append(Tags(segs), Len(segs))
<1> DEFINE n == Len(segs)
           K == FlattenSeq(segs)
           G == Tags(segs)
           y == segs[n]
<1>0. n \in Nat /\ n # 0 /\ n \in 1 .. n /\ K \in Seq(STRING) /\ G \in Seq(Nat) /\ Len(G) = Len(K) /\ Len(K) \in Nat
  BY LenProperties, EmptySeq DEF Shape
<1>1. y \in Seq(STRING) /\ Len(y) \in Nat
  BY <1>0, ElementOfSeq, LenProperties
<1>2. FlattenSeq(tt) = Append(K, x)
  BY FlattenedLast
<1>3. Tags(tt) = Append(G, n)
  <2> DEFINE a == Tagged(segs)
             b == Tagged(tt)
  <2>1. a \in Seq(Seq(Nat)) /\ Len(a) = n /\ \A s \in 1 .. n : a[s] = [k \in 1 .. Len(segs[s]) |-> s]
    BY TaggedType
  <2>2. b \in Seq(Seq(Nat)) /\ Len(b) = n /\ \A s \in 1 .. n : b[s] = [k \in 1 .. Len(tt[s]) |-> s]
    BY TaggedType
  <2> HIDE DEF a, b
  <2>3. \A s \in 1 .. n - 1 : b[s] = a[s]
    <3> TAKE s \in 1 .. n - 1
    <3>1. s \in 1 .. n /\ tt[s] = segs[s]
      BY <1>0
    <3> QED BY <2>1, <2>2, <3>1
  <2>4. b[n] = Append(a[n], n)
    <3> DEFINE m == Len(y)
               u == [k \in 1 .. m |-> n]
               v == [k \in 1 .. m + 1 |-> n]
               w == Append(u, n)
    <3>1. Len(tt[n]) = m + 1
      <4> HIDE DEF y
      <4> QED BY <1>1, AppendProperties DEF y
    <3>2. m \in Nat
      BY <1>1
    <3>3. a[n] = u /\ b[n] = v
      BY <1>0, <2>1, <2>2, <3>1
    <3> HIDE DEF m
    <3>4. u \in Seq(Nat) /\ Len(u) = m /\ \A k \in 1 .. m : u[k] = n
      BY <1>0, <3>2
    <3>5. v \in Seq(Nat) /\ Len(v) = m + 1 /\ \A k \in 1 .. m + 1 : v[k] = n
      BY <1>0, <3>2
    <3> HIDE DEF u, v
    <3>6. w \in Seq(Nat) /\ Len(w) = m + 1 /\ w[m + 1] = n /\ \A k \in 1 .. m : w[k] = n
      <4>1. n \in Nat
        BY <1>0
      <4>2. /\ w \in Seq(Nat) /\ Len(w) = Len(u) + 1
            /\ \A k \in 1 .. Len(u) : w[k] = u[k]
            /\ w[Len(u) + 1] = n
        BY ONLY <4>1, <3>4, AppendProperties
      <4> QED BY <3>2, <3>4, <4>2
    <3> HIDE DEF w
    <3>7. ASSUME NEW k \in 1 .. m + 1 PROVE v[k] = w[k]
      <4>1. k = m + 1 \/ k \in 1 .. m
        BY <3>2
      <4>2. v[k] = n
        BY <3>5
      <4>3. w[k] = n
        BY <3>6, <4>1
      <4> QED BY <4>2, <4>3
    <3>8. v = w
      BY <3>5, <3>6, <3>7, SeqEqual
    <3> QED BY <3>3, <3>8 DEF w
  <2>5. a # <<>>
    BY <1>0, <2>1, EmptySeq
  <2>6. FlattenSeq(b) = Append(FlattenSeq(a), n)
    <3> HIDE DEF n
    <3>1. Len(b) = Len(a) /\ (\A i \in 1 .. Len(a) - 1 : b[i] = a[i]) /\ b[Len(a)] = Append(a[Len(a)], n)
      BY <2>1, <2>2, <2>3, <2>4
    <3>2. a \in Seq(Seq(Nat)) /\ b \in Seq(Seq(Nat)) /\ n \in Nat
      BY <1>0, <2>1, <2>2
    <3> QED BY <2>5, <3>1, <3>2, FlattenedLast
  <2> QED BY <2>6 DEF Tags, a, b
<1> DEFINE kk == Len(K)
           K2 == Append(K, x)
           G2 == Append(G, n)
<1>4. \A k \in 1 .. kk : G[k] \in 1 .. n
  BY DEF Shape
<1>5. kk \in Nat /\ Len(G) = kk
  BY <1>0
<1> HIDE DEF K, G, kk
<1>6. K2 \in Seq(STRING) /\ Len(K2) = kk + 1 /\ K2[kk + 1] = x /\ \A k \in 1 .. kk : K2[k] = K[k]
  <2>1. K \in Seq(STRING) /\ Len(K) = kk
    BY <1>0 DEF kk
  <2> QED BY <2>1, AppendProperties
<1>7. G2 \in Seq(Nat) /\ Len(G2) = kk + 1 /\ G2[kk + 1] = n /\ \A k \in 1 .. kk : G2[k] = G[k]
  <2> HIDE DEF n
  <2> QED BY <1>0, <1>5, AppendProperties
<1>8. tt[n] = Append(y, x)
  OBVIOUS
<1>9. tt[n] # <<>> /\ Last(tt[n]) = x
  <2> DEFINE z == tt[n]
  <2>1. z \in Seq(STRING) /\ Len(z) = Len(y) + 1 /\ z[Len(y) + 1] = x
    <3> HIDE DEF y
    <3> QED BY <1>1, <1>8, AppendProperties
  <2> HIDE DEF z
  <2>2. Len(z) # 0 /\ Last(z) = x
    BY <1>1, <2>1 DEF Last
  <2>3. z # <<>>
    BY <2>2, EmptySeq
  <2> QED BY <2>2, <2>3 DEF z
<1> HIDE DEF y, n, K2, G2
<1>10. \A k \in 1 .. kk + 1 : G2[k] \in 1 .. n
  <2> TAKE k \in 1 .. kk + 1
  <2>1. CASE k = kk + 1
    BY <1>0, <1>7, <2>1
  <2>2. CASE k # kk + 1
    <3>1. k \in 1 .. kk
      BY <1>5, <2>2
    <3> QED BY <1>4, <1>7, <3>1
  <2> QED BY <2>1, <2>2
<1>11. Len(tt) = n
  BY DEF n
<1>12. FlattenSeq(tt) = K2 /\ Tags(tt) = G2
  BY <1>2, <1>3 DEF K2, G2
<1>13. kk + 1 > 0
  BY <1>5
<1>14. Shape(tt)
  BY <1>6, <1>7, <1>9, <1>10, <1>11, <1>12, <1>13 DEF Shape
<1> QED BY <1>6, <1>12, <1>14 DEF K2, G2, K, G, n, kk


-----------------------------------------------------------------------------
(* What parse has found after m tokens                                     *)

\* The words kept so far are the first words of the line, in their order,
\* and share a segment exactly if they share a stage.
Placed(l, m, segs) ==
    /\ Shape(segs)
    /\ Len(FlattenSeq(segs)) <= Nth(l, m)
    /\ \A i \in 1 .. m :
          i \in WordsOf(l) /\ Nth(l, i) <= Len(FlattenSeq(segs)) => FlattenSeq(segs)[Nth(l, i)] = l[i]
    /\ \A i, j \in 1 .. m :
          /\ i \in WordsOf(l) /\ Nth(l, i) <= Len(FlattenSeq(segs))
          /\ j \in WordsOf(l) /\ Nth(l, j) <= Len(FlattenSeq(segs))
          => (Tags(segs)[Nth(l, i)] = Tags(segs)[Nth(l, j)] <=> Stage(l, i) = Stage(l, j))

\* Nothing is dropped yet: the next word belongs to the last segment, if
\* that takes more, exactly if its stage is that segment's.
Current(l, m, p) ==
    /\ Len(FlattenSeq(p.segs)) = Nth(l, m)
    /\ p.want = IF m \in OperatorsOf(l) THEN l[m] ELSE NoName
    /\ \A i \in 1 .. m :
          i \in WordsOf(l) => (Tags(p.segs)[Nth(l, i)] = Len(p.segs) /\ ~SegmentOver(p)
                                  <=> Stage(l, i) = Stage(l, m + 1))
    /\ SinceBar(l, m + 1) % MaxArgs = IF SegmentOver(p) THEN 0 ELSE Len(Last(p.segs))

\* v is the name after the last o among the first m tokens.
NameIs(l, o, m, v) ==
    \/ /\ \A i \in 1 .. m : i \in OperatorsOf(l) => l[i] # o
       /\ v = NoName
    \/ \E x \in 1 .. m : /\ x \in OperatorsOf(l) /\ l[x] = o
                         /\ \A i \in 1 .. m : i \in OperatorsOf(l) /\ l[i] = o => i <= x
                         /\ v = IF x = m \/ l[x + 1] = Bar THEN NoName ELSE l[x + 1]

\* w is the last word among the first m tokens.
LastWord(l, m, w) == w \in WordsOf(l) /\ \A i \in 1 .. m : i \in WordsOf(l) => i <= w

\* The last word is in the last segment unless an operator after it began
\* another.
Ended(l, m, p) ==
    \A w \in 1 .. m : LastWord(l, m, w) =>
        (Tags(p.segs)[Nth(l, w)] = Len(p.segs)
            <=> \A j \in w + 1 .. m : j \in OperatorsOf(l) => Stage(l, j) = Stage(l, w))

ReadSoFar(l, m, p) ==
    /\ SoFar(p)
    /\ Placed(l, m, p.segs)
    /\ p.full => Len(p.segs) = MaxSegments
    /\ ~p.full => /\ Current(l, m, p)
                  /\ \A o \in Operators : NameIs(l, o, m, p.name[o])
                  /\ Ended(l, m, p)

\* A token that adds no word changes nothing about the words before it.
LEMMA PlacedSame ==
    ASSUME NEW l \in Seq(STRING), NEW m \in 0 .. Len(l) - 1, NEW segs, Placed(l, m, segs)
    PROVE  Placed(l, m + 1, segs)
<1> DEFINE K == FlattenSeq(segs)
           G == Tags(segs)
           W == WordsOf(l)
           k == m + 1
           c == Len(K)
<1>1. Len(l) \in Nat /\ m \in Nat /\ k \in 1 .. Len(l) /\ k - 1 = m /\ \A i \in 1 .. k : i # k => i \in 1 .. m
  BY LenProperties
<1>2. Nth(l, k) = (IF k \in W THEN Nth(l, k - 1) + 1 ELSE Nth(l, k - 1)) /\ Nth(l, m) \in Nat
  <2> HIDE DEF k
  <2> QED BY <1>1, NthStep
<1>3. /\ Shape(segs) /\ c <= Nth(l, m)
      /\ \A i \in 1 .. m : i \in W /\ Nth(l, i) <= c => K[Nth(l, i)] = l[i]
      /\ \A i, j \in 1 .. m : i \in W /\ Nth(l, i) <= c /\ j \in W /\ Nth(l, j) <= c
                                => (G[Nth(l, i)] = G[Nth(l, j)] <=> Stage(l, i) = Stage(l, j))
  BY DEF Placed
<1>4. c \in Nat
  BY LenProperties DEF Placed, Shape
<1> HIDE DEF K, G, W, k, c
<1>5. c <= Nth(l, k)
  BY <1>1, <1>2, <1>3, <1>4
<1>6. ASSUME NEW i \in 1 .. k, i \in W, Nth(l, i) <= c PROVE i \in 1 .. m
  <2>1. SUFFICES ASSUME i = k PROVE FALSE
    BY <1>1
  <2> QED BY <1>1, <1>2, <1>3, <1>4, <1>6, <2>1
<1>7. Placed(l, k, segs)
  <2>1. \A i \in 1 .. k : i \in W /\ Nth(l, i) <= c => K[Nth(l, i)] = l[i]
    BY <1>3, <1>6
  <2>2. \A i, j \in 1 .. k : i \in W /\ Nth(l, i) <= c /\ j \in W /\ Nth(l, j) <= c
                                => (G[Nth(l, i)] = G[Nth(l, j)] <=> Stage(l, i) = Stage(l, j))
    BY <1>3, <1>6
  <2> QED BY <1>3, <1>5, <2>1, <2>2 DEF Placed, K, G, W, c
<1> QED BY <1>7 DEF k

LEMMA PlacedOpened ==
    ASSUME NEW l, NEW m, NEW segs \in Seq(Seq(STRING)), Placed(l, m, segs)
    PROVE  Placed(l, m, Append(segs, <<>>))
<1>1. Shape(segs)
  BY DEF Placed
<1> DEFINE tt == Append(segs, <<>>)
<1>2. Shape(tt) /\ FlattenSeq(tt) = FlattenSeq(segs) /\ Tags(tt) = Tags(segs)
  BY <1>1, ShapeOpened
<1> HIDE DEF tt
<1>3. Placed(l, m, tt)
  BY <1>2 DEF Placed
<1> QED BY <1>3 DEF tt

\* A word goes to the segment that takes its stage.
LEMMA PlacedWord ==
    ASSUME NEW l \in Seq(STRING), NEW m \in 0 .. Len(l) - 1, m + 1 \in WordsOf(l),
           NEW segs \in Seq(Seq(STRING)), Placed(l, m, segs), segs # <<>>,
           Len(FlattenSeq(segs)) = Nth(l, m),
           \A i \in 1 .. m : i \in WordsOf(l) =>
               (Tags(segs)[Nth(l, i)] = Len(segs) <=> Stage(l, i) = Stage(l, m + 1)),
           NEW tt \in Seq(Seq(STRING)), Len(tt) = Len(segs),
           \A s \in 1 .. Len(segs) - 1 : tt[s] = segs[s],
           tt[Len(segs)] = Append(segs[Len(segs)], l[m + 1])
    PROVE  /\ Placed(l, m + 1, tt)
           /\ Len(FlattenSeq(tt)) = Nth(l, m + 1)
           /\ Tags(tt)[Nth(l, m + 1)] = Len(segs)
           /\ \A i \in 1 .. m : i \in WordsOf(l) => Tags(tt)[Nth(l, i)] = Tags(segs)[Nth(l, i)]
<1> DEFINE K == FlattenSeq(segs)
           G == Tags(segs)
           K2 == FlattenSeq(tt)
           G2 == Tags(tt)
           W == WordsOf(l)
           k == m + 1
           n == Len(segs)
           c == Nth(l, m)
           x == l[m + 1]
<1>1. Len(l) \in Nat /\ m \in Nat /\ k \in 1 .. Len(l) /\ k - 1 = m /\ \A i \in 1 .. k : i # k => i \in 1 .. m
  BY LenProperties
<1>2. x \in STRING
  BY <1>1, ElementOfSeq
<1>3. Shape(segs) /\ K \in Seq(STRING) /\ G \in Seq(Nat) /\ Len(G) = Len(K) /\ Len(K) = c /\ c \in Nat
  BY LenProperties DEF Placed, Shape
<1>4. /\ Shape(tt) /\ K2 = Append(K, x) /\ G2 = Append(G, n)
      /\ Len(K2) = Len(K) + 1 /\ K2[Len(K) + 1] = x /\ \A i \in 1 .. Len(K) : K2[i] = K[i]
  <2> HIDE DEF x
  <2>1. tt[Len(segs)] = Append(segs[Len(segs)], x)
    BY DEF x
  <2> QED BY <1>2, <1>3, <2>1, ShapeExtended, ZenonT(60)
<1>5. n \in Nat
  BY LenProperties
<1>6. /\ \A i \in 1 .. m : i \in W /\ Nth(l, i) <= c => K[Nth(l, i)] = l[i]
      /\ \A i, j \in 1 .. m : i \in W /\ Nth(l, i) <= c /\ j \in W /\ Nth(l, j) <= c
                                => (G[Nth(l, i)] = G[Nth(l, j)] <=> Stage(l, i) = Stage(l, j))
  BY <1>3 DEF Placed
<1>7. Nth(l, k) = c + 1
  <2>1. k \in W
    OBVIOUS
  <2> HIDE DEF k
  <2> QED BY <1>1, <2>1, NthStep
<1>8. \A i \in 1 .. m : i \in W => Nth(l, i) \in 1 .. c
  <2> TAKE i \in 1 .. m
  <2>1. i \in Nat /\ i <= m
    BY <1>1
  <2>2. Nth(l, i) \in Nat /\ (i \in W => Nth(l, i) >= 1 /\ Nth(l, i) <= Nth(l, m))
    BY <1>1, <2>1, NthStep
  <2> QED BY <1>3, <2>2
<1>9. \A i \in 1 .. m : i \in W => (G[Nth(l, i)] = n <=> Stage(l, i) = Stage(l, k))
  OBVIOUS
<1>10. x = l[k]
  OBVIOUS
<1> HIDE DEF K, G, K2, G2, W, k, n, c, x
<1>11. Len(K2) = c + 1 /\ K2[c + 1] = x /\ \A i \in 1 .. c : K2[i] = K[i]
  BY <1>3, <1>4
<1>12. Len(G2) = c + 1 /\ G2[c + 1] = n /\ \A i \in 1 .. c : G2[i] = G[i]
  BY <1>3, <1>4, <1>5, AppendProperties, SMTT(30)
<1>13. \A i \in 1 .. m : i \in W => /\ K2[Nth(l, i)] = l[i]
                                    /\ G2[Nth(l, i)] = G[Nth(l, i)]
                                    /\ (G2[Nth(l, i)] = n <=> Stage(l, i) = Stage(l, k))
  <2> TAKE i \in 1 .. m
  <2> HAVE i \in W
  <2>1. Nth(l, i) \in 1 .. c /\ Nth(l, i) <= c
    BY <1>3, <1>8
  <2> QED BY <1>6, <1>9, <1>11, <1>12, <2>1
<1>14. G2[Nth(l, k)] = n /\ K2[Nth(l, k)] = l[k]
  BY <1>7, <1>10, <1>11, <1>12
<1>15. \A i \in 1 .. k : i \in W => K2[Nth(l, i)] = l[i]
  BY <1>1, <1>13, <1>14
<1>16. ASSUME NEW i \in 1 .. k, i \in W, NEW j \in 1 .. k, j \in W
       PROVE  G2[Nth(l, i)] = G2[Nth(l, j)] <=> Stage(l, i) = Stage(l, j)
  <2>1. CASE i = k
    <3>1. CASE j = k
      BY <2>1, <3>1
    <3>2. CASE j # k
      <4>1. j \in 1 .. m
        BY <1>1, <3>2
      <4> QED BY <1>13, <1>14, <1>16, <2>1, <4>1
    <3> QED BY <3>1, <3>2
  <2>2. CASE i # k
    <3>0. i \in 1 .. m
      BY <1>1, <2>2
    <3>1. CASE j = k
      BY <1>13, <1>14, <1>16, <3>0, <3>1
    <3>2. CASE j # k
      <4>1. j \in 1 .. m
        BY <1>1, <3>2
      <4>2. Nth(l, i) <= c /\ Nth(l, j) <= c
        <5>1. Nth(l, i) \in 1 .. c /\ Nth(l, j) \in 1 .. c
          BY <1>8, <1>16, <3>0, <4>1
        <5> QED BY <1>3, <5>1
      <4> QED BY <1>6, <1>13, <1>16, <3>0, <4>1, <4>2
    <3> QED BY <3>1, <3>2
  <2> QED BY <2>1, <2>2
<1>17. Len(K2) = Nth(l, k)
  BY <1>7, <1>11
<1>18. Nth(l, k) \in Nat
  BY <1>3, <1>7
<1>19. Placed(l, k, tt)
  <2>1. Len(K2) <= Nth(l, k)
    BY <1>17, <1>18
  <2> QED BY <1>4, <1>15, <1>16, <2>1 DEF Placed, K2, G2, W
<1> QED BY <1>13, <1>14, <1>17, <1>19 DEF k, K2, G2, G, W, n


\* What the next token is.
LEMMA NextToken ==
    ASSUME NEW l \in Seq(STRING), NEW m \in 0 .. Len(l) - 1
    PROVE  /\ m + 1 \in 1 .. Len(l) /\ m \in Nat /\ l[m + 1] \in STRING
           /\ \A i \in 1 .. m + 1 : i # m + 1 => i \in 1 .. m
           /\ m + 1 \in OperatorsOf(l) <=> l[m + 1] \in Operators /\ m \notin OperatorsOf(l)
           /\ m + 1 \in WordsOf(l) <=>
                l[m + 1] # Bar /\ l[m + 1] \notin Operators /\ m \notin OperatorsOf(l)
           /\ m \in OperatorsOf(l) => m \in 1 .. m /\ l[m] \in Operators
           /\ Bar \notin Operators /\ NoName \notin Operators
<1>1. Len(l) \in Nat /\ m + 1 \in 1 .. Len(l) /\ m \in Nat /\ (m + 1) - 1 = m /\ (m # 0 => m \in 1 .. m)
  BY LenProperties
<1>2. l[m + 1] \in STRING
  BY <1>1, ElementOfSeq
<1>3. \A i \in 1 .. m + 1 : i # m + 1 => i \in 1 .. m
  BY <1>1
<1>4. OperatorsOf(l) \subseteq 1 .. Len(l)
  BY OperatorAt
<1>5. m + 1 \in OperatorsOf(l) <=> l[m + 1] \in Operators /\ m \notin OperatorsOf(l)
  BY <1>1, OperatorAt
<1>6. m + 1 \in WordsOf(l) <=>
        l[m + 1] # Bar /\ m + 1 \notin OperatorsOf(l) /\ m \notin OperatorsOf(l)
  BY <1>1, WordAt
<1>7. m \in OperatorsOf(l) => m \in 1 .. m /\ m \in 1 .. Len(l)
  BY <1>1, <1>4
<1>8. m \in OperatorsOf(l) => l[m] \in Operators
  BY <1>7, OperatorAt
<1>9. Bar \notin Operators /\ NoName \notin Operators
  BY DEF Bar, NoName, Operators
<1> QED BY <1>1, <1>2, <1>3, <1>5, <1>6, <1>7, <1>8, <1>9

\* The name after the last o, when one more token is read.
LEMMA NameStep ==
    ASSUME NEW l \in Seq(STRING), NEW m \in 0 .. Len(l) - 1, NEW o \in Operators
    PROVE  /\ m + 1 \in OperatorsOf(l) /\ l[m + 1] = o => NameIs(l, o, m + 1, NoName)
           /\ m \in OperatorsOf(l) /\ l[m] = o =>
                /\ NameIs(l, o, m + 1, IF l[m + 1] = Bar THEN NoName ELSE l[m + 1])
                /\ \A v : NameIs(l, o, m, v) => v = NoName
           /\ ~(m + 1 \in OperatorsOf(l) /\ l[m + 1] = o) /\ ~(m \in OperatorsOf(l) /\ l[m] = o) =>
                \A v : NameIs(l, o, m, v) => NameIs(l, o, m + 1, v)
<1> DEFINE k == m + 1
           Is(i) == i \in OperatorsOf(l) /\ l[i] = o
<1>1. /\ k \in Nat /\ m \in Nat /\ m < k /\ k \in 1 .. k
      /\ \A i \in 1 .. k : i # k => i \in 1 .. m
      /\ \A i \in 1 .. m : i \in 1 .. k /\ i # k
      /\ m \in OperatorsOf(l) => m \in 1 .. m /\ m + 1 \notin OperatorsOf(l)
  BY NextToken
<1>2. \A v, j : NameIs(l, o, j, v) <=>
         \/ (\A i \in 1 .. j : ~Is(i)) /\ v = NoName
         \/ \E x \in 1 .. j : /\ Is(x) /\ \A i \in 1 .. j : Is(i) => i <= x
                              /\ v = IF x = j \/ l[x + 1] = Bar THEN NoName ELSE l[x + 1]
  BY DEF NameIs
<1>3. m + 1 = k
  OBVIOUS
<1>4. m \in OperatorsOf(l) <=> m \in OperatorsOf(l)
  OBVIOUS
<1>5. Is(m) => m \in 1 .. m /\ ~Is(k)
  BY <1>1
<1> HIDE DEF k, Is
<1>6. ASSUME Is(k) PROVE NameIs(l, o, k, NoName)
  <2>1. \A i \in 1 .. k : i <= k
    BY <1>1
  <2> QED BY <1>1, <1>2, <1>6, <2>1
<1>7. ASSUME Is(m) PROVE NameIs(l, o, k, IF l[k] = Bar THEN NoName ELSE l[k])
  <2>1. \A i \in 1 .. k : Is(i) => i <= m
    <3> TAKE i \in 1 .. k
    <3>1. i # k => i \in 1 .. m
      BY <1>1
    <3> QED BY <1>1, <1>5, <1>7, <3>1
  <2>2. m \in 1 .. k /\ m # k /\ m + 1 = k
    BY <1>1, <1>3, <1>5, <1>7
  <2> QED BY <1>2, <1>7, <2>1, <2>2
<1>8. ASSUME Is(m), NEW v, NameIs(l, o, m, v) PROVE v = NoName
  <2>1. m \in 1 .. m
    BY <1>5, <1>8
  <2>2. PICK x \in 1 .. m : /\ Is(x) /\ \A i \in 1 .. m : Is(i) => i <= x
                            /\ v = IF x = m \/ l[x + 1] = Bar THEN NoName ELSE l[x + 1]
    BY <1>2, <1>8, <2>1
  <2>3. x = m
    BY <1>1, <1>8, <2>1, <2>2
  <2> QED BY <2>2, <2>3
<1>9. ASSUME ~Is(k), ~Is(m), NEW v, NameIs(l, o, m, v) PROVE NameIs(l, o, k, v)
  <2>1. CASE (\A i \in 1 .. m : ~Is(i)) /\ v = NoName
    <3>1. \A i \in 1 .. k : ~Is(i)
      BY <1>1, <1>9, <2>1
    <3> QED BY <1>2, <2>1, <3>1
  <2>2. CASE \E x \in 1 .. m : /\ Is(x) /\ \A i \in 1 .. m : Is(i) => i <= x
                               /\ v = IF x = m \/ l[x + 1] = Bar THEN NoName ELSE l[x + 1]
    <3>1. PICK x \in 1 .. m : /\ Is(x) /\ \A i \in 1 .. m : Is(i) => i <= x
                              /\ v = IF x = m \/ l[x + 1] = Bar THEN NoName ELSE l[x + 1]
      BY <2>2
    <3>2. x # m /\ x # k /\ x \in 1 .. k
      BY <1>1, <1>9, <3>1
    <3>3. v = IF x = k \/ l[x + 1] = Bar THEN NoName ELSE l[x + 1]
      BY <3>1, <3>2
    <3>4. \A i \in 1 .. k : Is(i) => i <= x
      BY <1>1, <1>9, <3>1
    <3> QED BY <1>2, <3>1, <3>2, <3>3, <3>4
  <2> QED BY <1>2, <1>9, <2>1, <2>2
<1> QED BY <1>3, <1>6, <1>7, <1>8, <1>9 DEF Is

\* A token that is neither a word nor an operator ends nothing.
LEMMA EndedSame ==
    ASSUME NEW l \in Seq(STRING), NEW m \in 0 .. Len(l) - 1, NEW p, NEW r, Ended(l, m, p), r.segs = p.segs,
           m + 1 \notin WordsOf(l), m + 1 \notin OperatorsOf(l)
    PROVE  Ended(l, m + 1, r)
<1> DEFINE k == m + 1
<1>1. /\ k \in Nat /\ m \in Nat /\ m < k
      /\ \A i \in 1 .. k : i # k => i \in 1 .. m
      /\ \A i \in 1 .. m : i \in 1 .. k
  BY NextToken
<1>2. k \notin WordsOf(l) /\ k \notin OperatorsOf(l)
  OBVIOUS
<1> HIDE DEF k
<1>3. ASSUME NEW w \in 1 .. k, LastWord(l, k, w)
      PROVE  Tags(r.segs)[Nth(l, w)] = Len(r.segs)
               <=> \A j \in w + 1 .. k : j \in OperatorsOf(l) => Stage(l, j) = Stage(l, w)
  <2>1. w \in WordsOf(l) /\ \A i \in 1 .. k : i \in WordsOf(l) => i <= w
    BY <1>3 DEF LastWord
  <2>2. w \in 1 .. m
    BY <1>1, <1>2, <2>1
  <2>3. LastWord(l, m, w)
    BY <1>1, <2>1 DEF LastWord
  <2>4. Tags(p.segs)[Nth(l, w)] = Len(p.segs)
          <=> \A j \in w + 1 .. m : j \in OperatorsOf(l) => Stage(l, j) = Stage(l, w)
    BY <2>2, <2>3 DEF Ended
  <2>5. \A j \in w + 1 .. k : j \in w + 1 .. m \/ j = k
    BY <1>1, <2>2
  <2>6. \A j \in w + 1 .. m : j \in w + 1 .. k
    BY <1>1, <2>2
  <2> QED BY <1>2, <2>4, <2>5, <2>6
<1> QED BY <1>3 DEF Ended, k


\* Nothing is kept of a token when the segments are used up.
LEMMA ReadNothing ==
    ASSUME NEW l \in Seq(STRING), NEW m \in 0 .. Len(l) - 1, NEW p, ReadSoFar(l, m, p),
           NEW r, SoFar(r), r.segs = p.segs, r.full, Len(p.segs) = MaxSegments
    PROVE  ReadSoFar(l, m + 1, r)
<1>1. Placed(l, m + 1, p.segs)
  BY PlacedSame DEF ReadSoFar
<1> QED BY <1>1 DEF ReadSoFar

\* A token that is a name or a bar is no word; what the next word's segment
\* is remains to be shown for each.
LEMMA ReadNoWord ==
    ASSUME NEW l \in Seq(STRING), NEW m \in 0 .. Len(l) - 1, NEW p, ReadSoFar(l, m, p), ~p.full,
           NEW r, SoFar(r), r.segs = p.segs, ~r.full, r.want = NoName,
           m + 1 \notin WordsOf(l), m + 1 \notin OperatorsOf(l),
           \A i \in 1 .. m :
              i \in WordsOf(l) => (Tags(p.segs)[Nth(l, i)] = Len(p.segs) /\ ~SegmentOver(r)
                                      <=> Stage(l, i) = Stage(l, m + 2)),
           SinceBar(l, m + 2) % MaxArgs = IF SegmentOver(r) THEN 0 ELSE Len(Last(p.segs)),
           \A o \in Operators : NameIs(l, o, m + 1, r.name[o])
    PROVE  ReadSoFar(l, m + 1, r)
<1>1. Placed(l, m + 1, p.segs)
  BY PlacedSame DEF ReadSoFar
<1>2. Nth(l, m + 1) = Nth(l, m)
  <2>1. m + 1 \in 1 .. Len(l) /\ (m + 1) - 1 = m
    BY NextToken
  <2> QED BY <2>1, NthStep
<1>3. Len(FlattenSeq(p.segs)) = Nth(l, m + 1)
  BY <1>2 DEF ReadSoFar, Current
<1>4. \A i \in 1 .. m + 1 : i \in WordsOf(l) => i \in 1 .. m
  BY NextToken
<1>5. (m + 1) + 1 = m + 2
  BY NextToken
<1>6. Current(l, m + 1, r)
  BY <1>3, <1>4, <1>5 DEF Current
<1>7. Ended(l, m + 1, r)
  BY EndedSame DEF ReadSoFar
<1> QED BY <1>1, <1>6, <1>7 DEF ReadSoFar

LEMMA ReadName ==
    ASSUME NEW l \in Seq(STRING), NEW m \in 0 .. Len(l) - 1, NEW p, ReadSoFar(l, m, p), ~p.full,
           p.want # NoName, l[m + 1] # Bar,
           NEW r, SoFar(r), r.segs = p.segs, r.open = p.open, ~r.full, r.want = NoName,
           \A o \in Operators : r.name[o] = IF o = p.want THEN l[m + 1] ELSE p.name[o]
    PROVE  ReadSoFar(l, m + 1, r)
<1>1. Current(l, m, p) /\ \A o \in Operators : NameIs(l, o, m, p.name[o])
  BY DEF ReadSoFar
<1>2. m \in OperatorsOf(l) /\ p.want = l[m]
  BY <1>1 DEF Current
<1>3. m + 1 \notin OperatorsOf(l) /\ m + 1 \notin WordsOf(l) /\ m + 1 \in 1 .. Len(l) /\ (m + 1) + 1 = m + 2
  BY <1>2, NextToken
<1>4. SinceBar(l, m + 2) = SinceBar(l, m + 1) /\ Stage(l, m + 2) = Stage(l, m + 1)
  BY <1>3, StageStep
<1>5. SegmentOver(r) <=> SegmentOver(p)
  BY DEF SegmentOver
<1>6. \A i \in 1 .. m :
         i \in WordsOf(l) => (Tags(p.segs)[Nth(l, i)] = Len(p.segs) /\ ~SegmentOver(r)
                                 <=> Stage(l, i) = Stage(l, m + 2))
  BY <1>1, <1>4, <1>5 DEF Current
<1>7. SinceBar(l, m + 2) % MaxArgs = IF SegmentOver(r) THEN 0 ELSE Len(Last(p.segs))
  BY <1>1, <1>4, <1>5 DEF Current
<1>8. ASSUME NEW o \in Operators PROVE NameIs(l, o, m + 1, r.name[o])
  <2>1. CASE o = l[m]
    <3>1. NameIs(l, o, m + 1, IF l[m + 1] = Bar THEN NoName ELSE l[m + 1])
      BY <1>2, <2>1, NameStep
    <3>2. (IF l[m + 1] = Bar THEN NoName ELSE l[m + 1]) = r.name[o]
      BY <1>2, <2>1
    <3> QED BY <3>1, <3>2
  <2>2. CASE o # l[m]
    <3>1. r.name[o] = p.name[o] /\ NameIs(l, o, m, p.name[o])
      BY <1>1, <1>2, <2>2
    <3>2. \A v : NameIs(l, o, m, v) => NameIs(l, o, m + 1, v)
      BY <1>3, <2>2, NameStep
    <3> QED BY <3>1, <3>2
  <2> QED BY <2>1, <2>2
<1> QED BY <1>3, <1>6, <1>7, <1>8, ReadNoWord

LEMMA ReadBar ==
    ASSUME NEW l \in Seq(STRING), NEW m \in 0 .. Len(l) - 1, NEW p, ReadSoFar(l, m, p), ~p.full,
           l[m + 1] = Bar,
           NEW r, SoFar(r), r.segs = p.segs, ~r.open, ~r.full, r.want = NoName, r.name = p.name
    PROVE  ReadSoFar(l, m + 1, r)
<1>1. \A o \in Operators : NameIs(l, o, m, p.name[o])
  BY DEF ReadSoFar
<1>2. m + 1 \notin OperatorsOf(l) /\ m + 1 \notin WordsOf(l) /\ m + 1 \in 1 .. Len(l) /\ (m + 1) + 1 = m + 2
  BY NextToken
<1>3. SinceBar(l, m + 2) = 0 /\ \A j \in 1 .. m + 1 : Stage(l, j) # Stage(l, m + 2)
  BY <1>2, StageStep
<1>4. SegmentOver(r)
  BY DEF SegmentOver
<1>5. \A i \in 1 .. m : Stage(l, i) # Stage(l, m + 2)
  <2>1. \A i \in 1 .. m : i \in 1 .. m + 1
    BY NextToken
  <2> QED BY <1>3, <2>1
<1>6. \A i \in 1 .. m :
         i \in WordsOf(l) => (Tags(p.segs)[Nth(l, i)] = Len(p.segs) /\ ~SegmentOver(r)
                                 <=> Stage(l, i) = Stage(l, m + 2))
  BY <1>4, <1>5
<1>7. SinceBar(l, m + 2) % MaxArgs = IF SegmentOver(r) THEN 0 ELSE Len(Last(p.segs))
  <2>1. 0 % MaxArgs = 0
    BY ParseAssumption
  <2> QED BY <1>3, <1>4, <2>1
<1>8. ASSUME NEW o \in Operators PROVE NameIs(l, o, m + 1, r.name[o])
  <2>1. NameIs(l, o, m, p.name[o])
    BY <1>1
  <2>2. CASE m \in OperatorsOf(l) /\ l[m] = o
    <3>1. NameIs(l, o, m + 1, IF l[m + 1] = Bar THEN NoName ELSE l[m + 1])
      BY <2>2, NameStep
    <3>2. p.name[o] = NoName
      BY <2>1, <2>2, NameStep
    <3> QED BY <3>1, <3>2
  <2>3. CASE ~(m \in OperatorsOf(l) /\ l[m] = o)
    <3>1. \A v : NameIs(l, o, m, v) => NameIs(l, o, m + 1, v)
      BY <1>2, <2>3, NameStep
    <3> QED BY <2>1, <3>1
  <2> QED BY <2>2, <2>3
<1> QED BY <1>2, <1>6, <1>7, <1>8, ReadNoWord


\* The segment q is ready to take the next word, if one comes.
Entered(l, m, p, q) ==
    /\ SoFar(q) /\ q.segs # <<>> /\ ~SegmentOver(q)
    /\ ~q.full /\ q.want = p.want /\ q.name = p.name
    /\ Placed(l, m, q.segs)
    /\ Len(FlattenSeq(q.segs)) = Nth(l, m)
    /\ \A i \in 1 .. m :
          i \in WordsOf(l) => (Tags(q.segs)[Nth(l, i)] = Len(q.segs) <=> Stage(l, i) = Stage(l, m + 1))
    /\ SinceBar(l, m + 1) % MaxArgs = Len(q.segs[Len(q.segs)])
    /\ Len(q.segs[Len(q.segs)]) < MaxArgs
    /\ \A w \in 1 .. m : LastWord(l, m, w) =>
          (Tags(q.segs)[Nth(l, w)] = Len(q.segs)
              <=> /\ \A j \in w + 1 .. m : j \in OperatorsOf(l) => Stage(l, j) = Stage(l, w)
                  /\ Stage(l, m + 1) = Stage(l, w))

LEMMA NthOfWord ==
    ASSUME NEW l \in Seq(STRING), NEW m \in Nat
    PROVE  Nth(l, m) \in Nat /\ \A i \in 1 .. m : i \in WordsOf(l) => Nth(l, i) \in 1 .. Nth(l, m)
<1>1. ASSUME NEW i \in 1 .. m, i \in WordsOf(l) PROVE Nth(l, i) \in 1 .. Nth(l, m)
  <2>1. i \in Nat /\ i <= m
    OBVIOUS
  <2>2. Nth(l, i) >= 1 /\ Nth(l, i) <= Nth(l, m)
    BY <1>1, <2>1, NthStep
  <2>3. Nth(l, i) \in Nat /\ Nth(l, m) \in Nat
    BY <2>1, NthStep
  <2> QED BY <2>2, <2>3
<1> QED BY <1>1, NthStep

LEMMA EnteredSegment ==
    ASSUME NEW l \in Seq(STRING), NEW m \in 0 .. Len(l) - 1, NEW p, ReadSoFar(l, m, p), ~p.full,
           ~(SegmentOver(p) /\ Len(p.segs) = MaxSegments)
    PROVE  Entered(l, m, p, InSegment(p))
<1> DEFINE q == InSegment(p)
<1>1. SoFar(p) /\ Placed(l, m, p.segs) /\ Current(l, m, p) /\ Ended(l, m, p)
  BY DEF ReadSoFar
<1>2. SoFar(q) /\ q.segs # <<>> /\ Len(q.segs[Len(q.segs)]) < MaxArgs
  BY <1>1, InSegmentType
<1>3. p \in ParseStates /\ p.segs \in Seq(Seq(STRING)) /\ Len(p.segs) \in Nat
  BY <1>1, LenProperties DEF SoFar, ParseStates
<1>4. m \in Nat /\ Nth(l, m) \in Nat /\ \A i \in 1 .. m : i \in WordsOf(l) => Nth(l, i) \in 1 .. Nth(l, m)
  <2>1. m \in Nat
    BY NextToken
  <2> QED BY <2>1, NthOfWord
<1>5. CASE SegmentOver(p)
  <2> DEFINE tt == Append(p.segs, <<>>)
  <2>1. q.segs = tt /\ q.open /\ q.full = p.full /\ q.want = p.want /\ q.name = p.name
    BY <1>3, <1>5 DEF InSegment, ParseStates
  <2>2. Len(tt) = Len(p.segs) + 1 /\ tt[Len(tt)] = <<>>
    <3>1. <<>> \in Seq(STRING)
      BY EmptySeq
    <3> QED BY <1>3, <3>1, AppendProperties
  <2>3. Tags(tt) = Tags(p.segs) /\ FlattenSeq(tt) = FlattenSeq(p.segs)
    BY <1>1, <1>3, ShapeOpened DEF Placed
  <2>4. Placed(l, m, tt)
    BY <1>1, <1>3, PlacedOpened
  <2> HIDE DEF tt, q
  <2>5. ~SegmentOver(q)
    <3>1. Last(q.segs) = q.segs[Len(q.segs)]
      BY DEF Last
    <3>2. Len(q.segs[Len(q.segs)]) # MaxArgs
      <4>1. q.segs[Len(q.segs)] = <<>> /\ Len(<<>>) = 0
        BY <2>1, <2>2, EmptySeq
      <4> QED BY <4>1, LimitsAreNumbers
    <3> QED BY <2>1, <3>1, <3>2 DEF SegmentOver
  <2>6. ASSUME NEW i \in 1 .. m, i \in WordsOf(l)
        PROVE  Tags(tt)[Nth(l, i)] # Len(tt) /\ Stage(l, i) # Stage(l, m + 1)
    <3>1. Nth(l, i) \in 1 .. Len(FlattenSeq(p.segs))
      BY <1>1, <1>4, <2>6 DEF Current
    <3>2. Tags(p.segs)[Nth(l, i)] \in 1 .. Len(p.segs)
      BY <1>1, <3>1 DEF Placed, Shape
    <3>3. Tags(p.segs)[Nth(l, i)] # Len(p.segs) + 1
      BY <1>3, <3>2
    <3>4. Stage(l, i) # Stage(l, m + 1)
      BY <1>1, <1>5, <2>6 DEF Current
    <3> QED BY <2>2, <2>3, <3>3, <3>4
  <2>7. \A w \in 1 .. m : LastWord(l, m, w) => Tags(tt)[Nth(l, w)] # Len(tt) /\ Stage(l, m + 1) # Stage(l, w)
    BY <2>6 DEF LastWord
  <2>8. SinceBar(l, m + 1) % MaxArgs = Len(q.segs[Len(q.segs)])
    <3>1. q.segs[Len(q.segs)] = <<>> /\ Len(<<>>) = 0
      BY <2>1, <2>2, EmptySeq
    <3> QED BY <1>1, <1>5, <3>1 DEF Current
  <2>9. Len(FlattenSeq(q.segs)) = Nth(l, m)
    BY <1>1, <2>1, <2>3 DEF Current
  <2> QED BY <1>2, <2>1, <2>4, <2>5, <2>6, <2>7, <2>8, <2>9 DEF Entered, q
<1>6. CASE ~SegmentOver(p)
  <2>1. q = p
    BY <1>6 DEF InSegment
  <2>2. SinceBar(l, m + 1) % MaxArgs = Len(p.segs[Len(p.segs)])
    BY <1>1, <1>6 DEF Current, Last
  <2>3. \A i \in 1 .. m :
          i \in WordsOf(l) => (Tags(p.segs)[Nth(l, i)] = Len(p.segs) <=> Stage(l, i) = Stage(l, m + 1))
    BY <1>1, <1>6 DEF Current
  <2>4. \A w \in 1 .. m : LastWord(l, m, w) =>
          (Tags(p.segs)[Nth(l, w)] = Len(p.segs)
              <=> /\ \A j \in w + 1 .. m : j \in OperatorsOf(l) => Stage(l, j) = Stage(l, w)
                  /\ Stage(l, m + 1) = Stage(l, w))
    BY <1>1, <2>3 DEF Ended, LastWord
  <2>5. Len(FlattenSeq(p.segs)) = Nth(l, m)
    BY <1>1 DEF Current
  <2> HIDE DEF q
  <2> QED BY <1>1, <1>2, <1>6, <2>1, <2>2, <2>3, <2>4, <2>5 DEF Entered, q
<1> QED BY <1>5, <1>6

LEMMA ReadOperator ==
    ASSUME NEW l \in Seq(STRING), NEW m \in 0 .. Len(l) - 1, NEW p, ReadSoFar(l, m, p), ~p.full,
           p.want = NoName, l[m + 1] \in Operators,
           NEW q, Entered(l, m, p, q),
           NEW r, SoFar(r), r.segs = q.segs, r.open = q.open, ~r.full, r.want = l[m + 1],
           \A o \in Operators : r.name[o] = IF o = l[m + 1] THEN NoName ELSE p.name[o]
    PROVE  ReadSoFar(l, m + 1, r)
<1> DEFINE k == m + 1
<1>1. Current(l, m, p) /\ \A o \in Operators : NameIs(l, o, m, p.name[o])
  BY DEF ReadSoFar
<1>2. m \notin OperatorsOf(l)
  BY <1>1, NextToken DEF Current
<1>3. /\ k \in OperatorsOf(l) /\ k \notin WordsOf(l) /\ k \in 1 .. Len(l) /\ k + 1 = m + 2 /\ k - 1 = m
      /\ k \in Nat /\ m \in Nat /\ m < k
      /\ \A i \in 1 .. k : i # k => i \in 1 .. m
      /\ \A i \in 1 .. m : i \in 1 .. k
      /\ l[k] # Bar
  BY <1>2, NextToken
<1>4. SinceBar(l, k + 1) = SinceBar(l, k) /\ Stage(l, k + 1) = Stage(l, k)
  BY <1>3, StageStep
<1>5. Nth(l, k) = Nth(l, m)
  <2> HIDE DEF k
  <2> QED BY <1>3, NthStep
<1>6. Placed(l, k, r.segs)
  BY PlacedSame DEF Entered
<1>7. ~SegmentOver(r)
  BY DEF Entered, SegmentOver
<1>8. Current(l, k, r)
  <2> HIDE DEF k
  <2>1. Len(FlattenSeq(r.segs)) = Nth(l, k)
    BY <1>5 DEF Entered
  <2>2. r.want = IF k \in OperatorsOf(l) THEN l[k] ELSE NoName
    BY <1>3 DEF k
  <2>3. ASSUME NEW i \in 1 .. k, i \in WordsOf(l)
        PROVE  Tags(r.segs)[Nth(l, i)] = Len(r.segs) /\ ~SegmentOver(r) <=> Stage(l, i) = Stage(l, k + 1)
    <3>1. i \in 1 .. m
      BY <1>3, <2>3
    <3>2. Tags(q.segs)[Nth(l, i)] = Len(q.segs) <=> Stage(l, i) = Stage(l, k)
      BY <2>3, <3>1 DEF Entered, k
    <3> QED BY <1>4, <1>7, <3>2
  <2>4. SinceBar(l, k + 1) % MaxArgs = Len(Last(r.segs))
    <3>1. SinceBar(l, k) % MaxArgs = Len(q.segs[Len(q.segs)])
      BY DEF Entered, k
    <3> QED BY <1>4, <3>1 DEF Last
  <2> QED BY <1>7, <2>1, <2>2, <2>3, <2>4 DEF Current
<1>9. ASSUME NEW o \in Operators PROVE NameIs(l, o, k, r.name[o])
  <2>1. CASE o = l[k]
    <3>1. r.name[o] = NoName
      BY <2>1
    <3> QED BY <1>3, <2>1, <3>1, NameStep
  <2>2. CASE o # l[k]
    <3>1. r.name[o] = p.name[o] /\ NameIs(l, o, m, p.name[o])
      BY <1>1, <2>2
    <3> QED BY <1>2, <2>2, <3>1, NameStep
  <2> QED BY <2>1, <2>2
<1>10. Ended(l, k, r)
  <2> HIDE DEF k
  <2>1. ASSUME NEW w \in 1 .. k, LastWord(l, k, w)
        PROVE  Tags(r.segs)[Nth(l, w)] = Len(r.segs)
                 <=> \A j \in w + 1 .. k : j \in OperatorsOf(l) => Stage(l, j) = Stage(l, w)
    <3>1. w \in WordsOf(l) /\ \A i \in 1 .. k : i \in WordsOf(l) => i <= w
      BY <2>1 DEF LastWord
    <3>2. w \in 1 .. m
      BY <1>3, <3>1
    <3>3. LastWord(l, m, w)
      BY <1>3, <3>1 DEF LastWord
    <3>4. Tags(q.segs)[Nth(l, w)] = Len(q.segs)
            <=> /\ \A j \in w + 1 .. m : j \in OperatorsOf(l) => Stage(l, j) = Stage(l, w)
                /\ Stage(l, k) = Stage(l, w)
      BY <3>2, <3>3 DEF Entered, k
    <3>5. \A j \in w + 1 .. k : j \in w + 1 .. m \/ j = k
      BY <1>3, <3>2
    <3>6. k \in w + 1 .. k /\ \A j \in w + 1 .. m : j \in w + 1 .. k
      BY <1>3, <3>2
    <3> QED BY <1>3, <3>4, <3>5, <3>6
  <2> QED BY <2>1 DEF Ended
<1> QED BY <1>6, <1>8, <1>9, <1>10 DEF ReadSoFar

LEMMA ReadWord ==
    ASSUME NEW l \in Seq(STRING), NEW m \in 0 .. Len(l) - 1, NEW p, ReadSoFar(l, m, p), ~p.full,
           p.want = NoName, l[m + 1] # Bar, l[m + 1] \notin Operators,
           NEW q, Entered(l, m, p, q),
           NEW r, SoFar(r), r.open = q.open, ~r.full, r.want = NoName, r.name = p.name,
           r.segs \in Seq(Seq(STRING)), Len(r.segs) = Len(q.segs),
           \A s \in 1 .. Len(q.segs) - 1 : r.segs[s] = q.segs[s],
           r.segs[Len(q.segs)] = Append(q.segs[Len(q.segs)], l[m + 1])
    PROVE  ReadSoFar(l, m + 1, r)
<1> DEFINE k == m + 1
           n == Len(q.segs)
           y == q.segs[n]
           x == l[m + 1]
<1>1. Current(l, m, p) /\ \A o \in Operators : NameIs(l, o, m, p.name[o])
  BY DEF ReadSoFar
<1>2. m \notin OperatorsOf(l)
  BY <1>1, NextToken DEF Current
<1>3. /\ k \notin OperatorsOf(l) /\ k \in WordsOf(l) /\ k \in 1 .. Len(l) /\ k + 1 = m + 2 /\ k - 1 = m
      /\ k \in Nat /\ m \in Nat /\ m < k /\ x \in STRING
      /\ \A i \in 1 .. k : i # k => i \in 1 .. m
      /\ \A i \in 1 .. m : i \in 1 .. k
  BY <1>2, NextToken, SMTT(30)
<1>4. q.segs \in Seq(Seq(STRING)) /\ q.segs # <<>>
  BY DEF Entered, SoFar, ParseStates
<1>5. y \in Seq(STRING) /\ n \in Nat /\ Len(y) \in Nat
  <2>1. n \in Nat /\ n # 0
    BY <1>4, LenProperties, EmptySeq
  <2>2. n \in 1 .. Len(q.segs)
    BY <2>1
  <2>3. y \in Seq(STRING)
    BY <1>4, <2>2, ElementOfSeq
  <2> HIDE DEF y
  <2> QED BY <2>1, <2>3, LenProperties
<1>6. Len(r.segs[n]) = Len(y) + 1
  <2>1. r.segs[n] = Append(y, x)
    OBVIOUS
  <2> HIDE DEF y, x
  <2> QED BY <1>3, <1>5, <2>1, AppendProperties
<1>7. /\ Placed(l, k, r.segs)
      /\ Len(FlattenSeq(r.segs)) = Nth(l, k)
      /\ Tags(r.segs)[Nth(l, k)] = n
      /\ \A i \in 1 .. m : i \in WordsOf(l) => Tags(r.segs)[Nth(l, i)] = Tags(q.segs)[Nth(l, i)]
  BY <1>3, <1>4, PlacedWord DEF Entered
<1>8. /\ \A i \in 1 .. m : i \in WordsOf(l) => (Tags(q.segs)[Nth(l, i)] = n <=> Stage(l, i) = Stage(l, k))
      /\ SinceBar(l, k) % MaxArgs = Len(y) /\ Len(y) < MaxArgs /\ q.open = TRUE
  BY DEF Entered, SegmentOver, SoFar, ParseStates
<1>9. IF (SinceBar(l, k) % MaxArgs) + 1 = MaxArgs
      THEN SinceBar(l, k + 1) % MaxArgs = 0 /\ \A j \in 1 .. k : Stage(l, j) # Stage(l, k + 1)
      ELSE /\ SinceBar(l, k + 1) % MaxArgs = (SinceBar(l, k) % MaxArgs) + 1
           /\ Stage(l, k + 1) = Stage(l, k)
  BY <1>3, StageStep
<1>10. SegmentOver(r) <=> Len(y) + 1 = MaxArgs
  BY <1>6, <1>8 DEF SegmentOver, Last
<1>11. Len(r.segs) = n
  OBVIOUS
<1> HIDE DEF k, n, y, x
<1>12. \A i \in 1 .. k : i \in WordsOf(l) => (Tags(r.segs)[Nth(l, i)] = n <=> Stage(l, i) = Stage(l, k))
  <2> TAKE i \in 1 .. k
  <2> HAVE i \in WordsOf(l)
  <2>1. CASE i = k
    BY <1>7, <2>1
  <2>2. CASE i # k
    BY <1>3, <1>7, <1>8, <2>2
  <2> QED BY <2>1, <2>2
<1>13. Current(l, k, r)
  <2>1. r.want = IF k \in OperatorsOf(l) THEN l[k] ELSE NoName
    BY <1>3
  <2>2. \A i \in 1 .. k : i \in WordsOf(l) =>
          (Tags(r.segs)[Nth(l, i)] = Len(r.segs) /\ ~SegmentOver(r) <=> Stage(l, i) = Stage(l, k + 1))
    <3>1. CASE Len(y) + 1 = MaxArgs
      BY <1>8, <1>9, <1>10, <3>1
    <3>2. CASE Len(y) + 1 # MaxArgs
      BY <1>8, <1>9, <1>10, <1>11, <1>12, <3>2
    <3> QED BY <3>1, <3>2
  <2>3. SinceBar(l, k + 1) % MaxArgs = IF SegmentOver(r) THEN 0 ELSE Len(Last(r.segs))
    <3>1. Last(r.segs) = r.segs[n]
      BY <1>11 DEF Last
    <3> QED BY <1>6, <1>8, <1>9, <1>10, <3>1
  <2> QED BY <1>7, <2>1, <2>2, <2>3 DEF Current
<1>14. ASSUME NEW o \in Operators PROVE NameIs(l, o, k, r.name[o])
  <2>1. r.name[o] = p.name[o] /\ NameIs(l, o, m, p.name[o])
    BY <1>1
  <2>2. NameIs(l, o, m + 1, p.name[o])
    BY <1>2, <1>3, <2>1, NameStep DEF k
  <2> QED BY <2>1, <2>2 DEF k
<1>15. Ended(l, k, r)
  <2>1. ASSUME NEW w \in 1 .. k, LastWord(l, k, w)
        PROVE  Tags(r.segs)[Nth(l, w)] = Len(r.segs)
                 <=> \A j \in w + 1 .. k : j \in OperatorsOf(l) => Stage(l, j) = Stage(l, w)
    <3>1. w = k
      <4>1. k \in 1 .. k /\ k <= w /\ w <= k
        BY <1>3, <2>1 DEF LastWord
      <4> QED BY <1>3, <4>1
    <3>2. k + 1 .. k = {}
      BY <1>3
    <3> QED BY <1>7, <1>11, <3>1, <3>2
  <2> QED BY <2>1 DEF Ended
<1>16. Placed(l, k, r.segs)
  BY <1>7
<1> QED BY <1>13, <1>14, <1>15, <1>16 DEF ReadSoFar, k


\* Whatever the next token is, parse has found what it should when it has
\* read it.
LEMMA ReadToken ==
    ASSUME NEW l \in Seq(STRING), NEW m \in 0 .. Len(l) - 1, NEW p, ReadSoFar(l, m, p)
    PROVE  ReadSoFar(l, m + 1, ParseToken(p, l[m + 1]))
<1> DEFINE t == l[m + 1]
           r == ParseToken(p, t)
<1>1. t \in STRING
  BY NextToken
<1>2. SoFar(p) /\ p \in ParseStates
  BY DEF ReadSoFar, SoFar
<1>3. SoFar(r)
  BY <1>1, <1>2, ParseTokenType
<1>4. p.name \in [Operators -> STRING \cup {NoName}] /\ p.full \in BOOLEAN
  BY <1>2 DEF ParseStates
<1>5. CASE p.full
  <2>1. r = p
    BY <1>5 DEF ParseToken
  <2>2. Len(p.segs) = MaxSegments
    BY <1>5 DEF ReadSoFar
  <2> HIDE DEF r
  <2> QED BY <1>3, <1>5, <2>1, <2>2, ReadNothing DEF r
<1>6. CASE ~p.full /\ p.want # NoName /\ t # Bar
  <2>1. r = [p EXCEPT !.name[p.want] = t, !.want = NoName]
    BY <1>6 DEF ParseToken
  <2>2. r.segs = p.segs /\ r.open = p.open /\ r.full = p.full /\ r.want = NoName
        /\ r.name = [p.name EXCEPT ![p.want] = t]
    BY <1>2, <2>1 DEF ParseStates
  <2>3. \A o \in Operators : r.name[o] = IF o = p.want THEN t ELSE p.name[o]
    BY <1>4, <2>2
  <2> HIDE DEF r
  <2> QED BY <1>3, <1>6, <2>2, <2>3, ReadName DEF r
<1>7. CASE ~p.full /\ t = Bar
  <2>1. r = [p EXCEPT !.open = FALSE, !.want = NoName]
    BY <1>7 DEF ParseToken
  <2>2. r.segs = p.segs /\ ~r.open /\ r.full = p.full /\ r.want = NoName /\ r.name = p.name
    BY <1>2, <2>1 DEF ParseStates
  <2> HIDE DEF r
  <2> QED BY <1>3, <1>7, <2>2, ReadBar DEF r
<1>8. CASE ~p.full /\ p.want = NoName /\ t # Bar /\ SegmentOver(p) /\ Len(p.segs) = MaxSegments
  <2>1. r = [p EXCEPT !.full = TRUE]
    BY <1>8 DEF ParseToken
  <2>2. r.segs = p.segs /\ r.full
    BY <1>2, <2>1 DEF ParseStates
  <2> HIDE DEF r
  <2> QED BY <1>3, <1>8, <2>2, ReadNothing DEF r
<1>9. CASE ~p.full /\ p.want = NoName /\ t # Bar /\ ~(SegmentOver(p) /\ Len(p.segs) = MaxSegments)
  <2> DEFINE q == InSegment(p)
  <2>1. Entered(l, m, p, q)
    BY <1>9, EnteredSegment
  <2>2. q \in ParseStates /\ q.segs # <<>> /\ ~q.full /\ q.want = NoName /\ q.name = p.name
    BY <1>9, <2>1 DEF Entered, SoFar
  <2>3. CASE t \in Operators
    <3>1. r = [q EXCEPT !.want = t, !.name[t] = NoName]
      BY <1>9, <2>3 DEF ParseToken
    <3> HIDE DEF q
    <3>2. r.segs = q.segs /\ r.open = q.open /\ ~r.full /\ r.want = t /\ r.name = [q.name EXCEPT ![t] = NoName]
      BY <2>2, <3>1 DEF ParseStates
    <3>3. \A o \in Operators : r.name[o] = IF o = t THEN NoName ELSE p.name[o]
      BY <1>4, <2>2, <3>2
    <3> HIDE DEF r
    <3>4. p.want = NoName /\ l[m + 1] \in Operators /\ ~p.full
      BY <1>9, <2>3
    <3>5. r.segs = q.segs /\ r.open = q.open /\ ~r.full /\ r.want = l[m + 1]
      BY <3>2
    <3>6. \A o \in Operators : r.name[o] = IF o = l[m + 1] THEN NoName ELSE p.name[o]
      BY <3>3
    <3>7. ReadSoFar(l, m + 1, r)
      BY <1>3, <2>1, <3>4, <3>5, <3>6, ReadOperator
    <3> QED BY <3>7 DEF r
  <2>4. CASE t \notin Operators
    <3> DEFINE n == Len(q.segs)
               w == Append(q.segs[n], t)
               ss == [q.segs EXCEPT ![n] = w]
    <3>1. r = [q EXCEPT !.segs[n] = w]
      BY <1>9, <2>4 DEF ParseToken
    <3> HIDE DEF q
    <3>2. r.open = q.open /\ ~r.full /\ r.want = NoName /\ r.name = p.name
      BY <2>2, <3>1 DEF ParseStates
    <3>3. r.segs = [q.segs EXCEPT ![n] = w]
      BY <2>2, <3>1 DEF ParseStates
    <3>4. q.segs \in Seq(Seq(STRING)) /\ DOMAIN q.segs = 1 .. n /\ n \in Nat /\ n # 0
      BY <2>2, LenProperties, EmptySeq DEF ParseStates
    <3>5. r.segs \in Seq(Seq(STRING))
      BY <1>3 DEF SoFar, ParseStates
    <3> HIDE DEF r, w, n
    <3>6. DOMAIN r.segs = 1 .. n /\ r.segs[n] = w /\ \A s \in 1 .. n - 1 : r.segs[s] = q.segs[s]
      BY <3>3, <3>4
    <3>7. Len(r.segs) = n
      <4>1. DOMAIN r.segs = 1 .. Len(r.segs) /\ Len(r.segs) \in Nat
        BY <3>5, LenProperties
      <4> QED BY <3>4, <3>6, <4>1
    <3>8. /\ Len(r.segs) = Len(q.segs)
          /\ \A s \in 1 .. Len(q.segs) - 1 : r.segs[s] = q.segs[s]
          /\ r.segs[Len(q.segs)] = Append(q.segs[Len(q.segs)], t)
      BY <3>6, <3>7 DEF n, w
    <3> QED BY <1>3, <1>9, <2>1, <2>4, <3>2, <3>5, <3>8, ReadWord DEF r
  <2> QED BY <2>3, <2>4
<1> QED BY <1>4, <1>5, <1>6, <1>7, <1>8, <1>9

LEMMA ReadNone ==
    ASSUME NEW l \in Seq(STRING)
    PROVE  ReadSoFar(l, 0, Unparsed)
<1>1. <<>> \in Seq(Seq(STRING)) /\ <<>> \in Seq(STRING) /\ <<>> \in Seq(Nat) /\ Len(<<>>) = 0 /\ DOMAIN <<>> = {}
  BY EmptySeq
<1>2. FlattenSeq(<<>>) = <<>>
  BY EmptySeq DEF FlattenSeq
<1>3. Tags(<<>>) = <<>>
  <2>1. Tagged(<<>>) = <<>>
    BY <1>1 DEF Tagged
  <2> QED BY <1>2, <2>1 DEF Tags
<1>4. Unparsed.segs = <<>> /\ Unparsed.open = FALSE /\ Unparsed.want = NoName /\ Unparsed.full = FALSE
      /\ Unparsed.name = [o \in Operators |-> NoName]
  BY DEF Unparsed
<1>5. SoFar(Unparsed)
  <2>1. Unparsed \in ParseStates
    BY <1>1 DEF Unparsed, ParseStates
  <2> QED BY <1>1, <1>4, <2>1, LimitsAreNumbers DEF SoFar, WithinLimits
<1>6. Shape(<<>>)
  <2>1. Len(FlattenSeq(<<>>)) = 0 /\ Len(Tags(<<>>)) = 0 /\ 1 .. 0 = {}
    BY <1>1, <1>2, <1>3
  <2>2. \A k \in 1 .. Len(FlattenSeq(<<>>)) : Tags(<<>>)[k] \in 1 .. Len(<<>>)
    BY <2>1
  <2> QED BY <1>1, <1>2, <1>3, <2>1, <2>2 DEF Shape
<1>7. Placed(l, 0, <<>>)
  <2>1. Nth(l, 0) = 0
    BY NthStep
  <2> QED BY <1>1, <1>2, <1>6, <2>1 DEF Placed
<1>8. SegmentOver(Unparsed)
  BY <1>4 DEF SegmentOver
<1>9. SinceBar(l, 1) = 0
  <2>1. \A j \in WordsOf(l) : ~(j < 1)
    <3> TAKE j \in WordsOf(l)
    <3>1. j \in 1 .. Len(l)
      BY WordAt
    <3> QED BY <3>1
  <2>2. { j \in WordsOf(l) : j < 1 /\ BarsBefore(l, j) = BarsBefore(l, 1) } = {}
    BY <2>1
  <2> QED BY <2>2, FS_EmptySet DEF SinceBar
<1>10. Current(l, 0, Unparsed)
  <2>1. Nth(l, 0) = 0
    BY NthStep
  <2>2. 0 \notin OperatorsOf(l)
    <3>1. OperatorsOf(l) \subseteq 1 .. Len(l)
      BY OperatorAt
    <3> QED BY <3>1
  <2>3. 0 % MaxArgs = 0
    BY ParseAssumption
  <2>4. SinceBar(l, 0 + 1) = 0
    BY <1>9
  <2> QED BY <1>1, <1>2, <1>4, <1>8, <2>1, <2>2, <2>3, <2>4 DEF Current
<1>11. \A o \in Operators : NameIs(l, o, 0, Unparsed.name[o])
  BY <1>4 DEF NameIs
<1>12. Ended(l, 0, Unparsed)
  BY DEF Ended
<1> QED BY <1>4, <1>5, <1>7, <1>10, <1>11, <1>12 DEF ReadSoFar

LEMMA ReadLine ==
    ASSUME NEW l \in Seq(STRING)
    PROVE  ReadSoFar(l, Len(l), FoldLeft(ParseToken, Unparsed, l))
<1> DEFINE n == Len(l)
<1>1. n \in Nat /\ DOMAIN l = 1 .. n
  BY LenProperties
<1>2. PICK p : /\ p[0] = Unparsed
               /\ \A i \in 1 .. n : p[i] = ParseToken(p[i - 1], l[i])
               /\ FoldLeft(ParseToken, Unparsed, l) = p[n]
  BY <1>1, ParsedByToken
<1> DEFINE T == { i \in 0 .. n : ReadSoFar(l, i, p[i]) }
<1>3. 0 \in T
  BY <1>1, <1>2, ReadNone
<1>4. ASSUME NEW m \in 0 .. n - 1, m \in T PROVE m + 1 \in T
  <2>1. m + 1 \in 1 .. n /\ m + 1 \in 0 .. n /\ (m + 1) - 1 = m
    BY <1>1
  <2>2. p[m + 1] = ParseToken(p[m], l[m + 1])
    BY <1>2, <2>1
  <2>3. ReadSoFar(l, m, p[m])
    BY <1>4
  <2>4. ReadSoFar(l, m + 1, ParseToken(p[m], l[m + 1]))
    BY <2>3, ReadToken
  <2> QED BY <2>1, <2>2, <2>4
<1>5. n \in T
  <2>1. n \in 0 .. n
    BY <1>1
  <2> HIDE DEF T, n
  <2> QED BY <1>1, <1>3, <1>4, <2>1, Counted
<1> QED BY <1>2, <1>5


-----------------------------------------------------------------------------
(* What parse returns is what the line means                               *)

LEMMA NthAll ==
    ASSUME NEW l \in Seq(STRING)
    PROVE  /\ Nth(l, Len(l)) = Cardinality(WordsOf(l))
           /\ \A w \in 1 .. Len(l) : LastWord(l, Len(l), w) => Nth(l, w) = Nth(l, Len(l))
<1> DEFINE n == Len(l)
           W == WordsOf(l)
<1>1. n \in Nat /\ W \subseteq 1 .. n
  BY LenProperties, WordAt
<1> HIDE DEF n, W
<1>2. { j \in W : j <= n } = W
  <2>1. \A j \in 1 .. n : j <= n
    BY <1>1
  <2> QED BY <1>1, <2>1
<1>3. ASSUME NEW w \in 1 .. n, LastWord(l, n, w) PROVE { j \in W : j <= w } = W
  BY <1>1, <1>3 DEF LastWord, W
<1> QED BY <1>2, <1>3 DEF Nth, n, W

\* A name found by the last o of the whole line is the one its meaning has.
LEMMA NameOfLine ==
    ASSUME NEW l \in Seq(STRING), NEW o \in Operators, NEW v, NameIs(l, o, Len(l), v)
    PROVE  v = LastName(l, o)
<1> DEFINE n == Len(l)
           S == { i \in OperatorsOf(l) : l[i] = o }
<1>1. n \in Nat /\ OperatorsOf(l) \subseteq 1 .. n
  BY LenProperties, OperatorAt
<1>2. LastName(l, o) =
        IF (\A i \in OperatorsOf(l) : l[i] # o) \/ Max(S) = n \/ l[Max(S) + 1] = Bar
        THEN NoName ELSE l[Max(S) + 1]
  BY DEF LastName
<1>3. CASE (\A i \in 1 .. n : i \in OperatorsOf(l) => l[i] # o) /\ v = NoName
  BY <1>1, <1>2, <1>3
<1>4. CASE \E x \in 1 .. n : /\ x \in OperatorsOf(l) /\ l[x] = o
                             /\ \A i \in 1 .. n : i \in OperatorsOf(l) /\ l[i] = o => i <= x
                             /\ v = IF x = n \/ l[x + 1] = Bar THEN NoName ELSE l[x + 1]
  <2>1. PICK x \in 1 .. n : /\ x \in OperatorsOf(l) /\ l[x] = o
                            /\ \A i \in 1 .. n : i \in OperatorsOf(l) /\ l[i] = o => i <= x
                            /\ v = IF x = n \/ l[x + 1] = Bar THEN NoName ELSE l[x + 1]
    BY <1>4
  <2>2. x \in S /\ S \in SUBSET Nat /\ \A y \in S : y <= x
    <3>1. x \in S
      BY <2>1
    <3>2. \A y \in S : y \in 1 .. n /\ y \in OperatorsOf(l) /\ l[y] = o
      BY <1>1
    <3>3. \A y \in S : y <= x
      BY <2>1, <3>2
    <3>4. S \in SUBSET Nat
      BY <1>1
    <3> QED BY <3>1, <3>3, <3>4
  <2> HIDE DEF S, n
  <2>3. Max(S) = x
    BY <2>2, MaxIs
  <2>4. ~(\A i \in OperatorsOf(l) : l[i] # o)
    BY <2>1
  <2> QED BY <1>2, <2>1, <2>3, <2>4
<1>5. NameIs(l, o, n, v)
  OBVIOUS
<1> HIDE DEF n
<1> QED BY <1>3, <1>4, <1>5 DEF NameIs

\* The & that became the background flag stands where it stood.
LEMMA KeptByParse ==
    ASSUME NEW l \in Seq(STRING), NEW p, p = FoldLeft(ParseToken, Unparsed, l), Shape(p.segs)
    PROVE  /\ KeptWords(Parse(l)) = FlattenSeq(p.segs)
           /\ KeptIn(Parse(l)) = Tags(p.segs)
           /\ Len(Parse(l).segs) = Len(p.segs)
           /\ Parse(l).out = p.name[">"] /\ Parse(l).inp = p.name["<"]
           /\ Parse(l).bg = (Len(p.segs) > 0 /\ p.segs[Len(p.segs)] # <<>> /\ Last(p.segs[Len(p.segs)]) = Amp)
<1> DEFINE n == Len(p.segs)
           y == p.segs[n]
           bg == n > 0 /\ y # <<>> /\ Last(y) = Amp
           ss == [p.segs EXCEPT ![n] = Front(@)]
           P == Parse(l)
<1>1. P = [segs |-> IF bg THEN ss ELSE p.segs, out |-> p.name[">"], inp |-> p.name["<"], bg |-> bg]
  BY DEF Parse
<1>2. p.segs \in Seq(Seq(STRING))
  BY ParsedSoFar DEF SoFar, ParseStates
<1>3. n \in Nat /\ DOMAIN p.segs = 1 .. n /\ \A s \in 1 .. n : p.segs[s] \in Seq(STRING) /\ Len(p.segs[s]) \in Nat
  BY <1>2, LenProperties, ElementOfSeq
<1>4. FlattenSeq(p.segs) \in Seq(STRING)
  BY DEF Shape
<1>5. P.out = p.name[">"] /\ P.inp = p.name["<"] /\ P.bg = bg /\ P.segs = IF bg THEN ss ELSE p.segs
  <2> HIDE DEF bg, ss
  <2> QED BY <1>1
<1>6. CASE ~bg
  <2>1. P.segs = p.segs /\ ~P.bg
    BY <1>5, <1>6
  <2> HIDE DEF P, bg, ss, y
  <2>2. KeptWords(P) = FlattenSeq(p.segs) \o <<>>
    BY <2>1 DEF KeptWords
  <2>3. KeptWords(P) = FlattenSeq(p.segs)
    BY <1>4, <2>2
  <2>4. KeptIn(P) = FlattenSeq([s \in DOMAIN p.segs |-> [k \in 1 .. Len(p.segs[s]) + 0 |-> s]])
    BY <2>1 DEF KeptIn
  <2>5. \A s \in DOMAIN p.segs : Len(p.segs[s]) + 0 = Len(p.segs[s])
    BY <1>3
  <2>6. KeptIn(P) = Tags(p.segs)
    BY <2>4, <2>5 DEF Tags, Tagged
  <2> QED BY <1>5, <2>1, <2>3, <2>6 DEF P, bg, y
<1>7. CASE bg
  <2>1. n \in 1 .. n /\ y \in Seq(STRING) /\ y # <<>> /\ Last(y) = Amp /\ P.segs = ss /\ P.bg
    <3>1. n > 0 /\ y # <<>> /\ Last(y) = Amp
      BY <1>7
    <3>2. P.segs = ss /\ P.bg
      BY <1>5, <1>7
    <3>3. n \in 1 .. n
      <4> HIDE DEF n
      <4> QED BY <1>3, <3>1
    <3> HIDE DEF n, ss, P, bg
    <3>4. y \in Seq(STRING)
      BY <1>3, <3>3
    <3> QED BY <3>1, <3>2, <3>3, <3>4
  <2> DEFINE z == Front(y)
  <2>2. z \in Seq(STRING) /\ Len(z) = Len(y) - 1 /\ Len(y) \in Nat /\ Len(y) # 0
    BY <2>1, FrontType, LenProperties, EmptySeq
  <2>6. Amp \in STRING
    <3>1. Len(y) \in 1 .. Len(y)
      BY <2>2
    <3>2. y[Len(y)] \in STRING
      BY <2>1, <3>1, ElementOfSeq
    <3> HIDE DEF y
    <3> QED BY <2>1, <3>2 DEF Last
  <2>3. y = Append(z, Amp)
    <3>1. \A i \in 1 .. Len(y) - 1 : z[i] = y[i]
      BY <2>2 DEF Front
    <3>2. y[Len(y)] = Amp
      BY <2>1 DEF Last
    <3> DEFINE a == Append(z, Amp)
    <3>3. a \in Seq(STRING) /\ Len(a) = Len(y) /\ a[Len(y)] = Amp /\ \A i \in 1 .. Len(y) - 1 : a[i] = z[i]
      <4>1. Amp \in STRING
        BY <2>6
      <4>2. (Len(y) - 1) + 1 = Len(y)
        BY <2>2
      <4> HIDE DEF z, y
      <4> QED BY <2>2, <4>1, <4>2, AppendProperties
    <3> HIDE DEF a, z, y
    <3>4. \A i \in 1 .. Len(y) : y[i] = a[i]
      <4> TAKE i \in 1 .. Len(y)
      <4>1. CASE i = Len(y)
        BY <3>2, <3>3, <4>1
      <4>2. CASE i # Len(y)
        <5>1. i \in 1 .. Len(y) - 1
          BY <2>2, <4>2
        <5> QED BY <3>1, <3>3, <5>1
      <4> QED BY <4>1, <4>2
    <3>5. y = a
      BY <2>1, <3>3, <3>4, SeqEqual
    <3> QED BY <3>5 DEF a
  <2>4. ss \in Seq(Seq(STRING)) /\ Len(ss) = n /\ ss[n] = z /\ \A s \in 1 .. n : s # n => ss[s] = p.segs[s]
    <3>1. ss = [p.segs EXCEPT ![n] = z]
      OBVIOUS
    <3> DEFINE uu == [p.segs EXCEPT ![n] = z]
    <3> HIDE DEF z, n, ss
    <3>2. uu \in Seq(Seq(STRING)) /\ Len(uu) = Len(p.segs)
      BY <1>2, <1>3, <2>1, <2>2, ExceptSeq
    <3>3. uu[n] = z /\ \A s \in 1 .. n : s # n => uu[s] = p.segs[s]
      BY <1>3, <2>1
    <3> QED BY <3>1, <3>2, <3>3 DEF n
  <2>5. p.segs[n] = Append(ss[n], Amp) /\ ss # <<>> /\ Len(p.segs) = Len(ss) /\ Amp \in STRING
    <3>1. ss # <<>>
      <4> HIDE DEF ss
      <4> QED BY <2>1, <2>4, <1>3, EmptySeq
    <3>2. Amp \in STRING
      BY <2>6
    <3> HIDE DEF ss, z
    <3> QED BY <2>3, <2>4, <3>1, <3>2
  <2> HIDE DEF P, bg, ss, y, z, n
  <2>9. FlattenSeq(p.segs) = Append(FlattenSeq(ss), Amp)
    <3>1. \A s \in 1 .. Len(ss) - 1 : p.segs[s] = ss[s]
      <4> TAKE s \in 1 .. Len(ss) - 1
      <4>1. s \in 1 .. n /\ s # n
        BY <1>3, <2>4
      <4> QED BY <2>4, <4>1
    <3>2. p.segs[Len(ss)] = Append(ss[Len(ss)], Amp)
      BY <2>4, <2>5
    <3> QED BY <1>2, <2>4, <2>5, <3>1, <3>2, FlattenedLast
  <2>7. KeptWords(P) = FlattenSeq(p.segs)
    <3>1. FlattenSeq(ss) \in Seq(STRING)
      BY <2>4, FlattenedType
    <3>2. Append(FlattenSeq(ss), Amp) = FlattenSeq(ss) \o <<Amp>>
      BY <2>5, <3>1, AppendIsConcat
    <3>3. KeptWords(P) = FlattenSeq(ss) \o <<Amp>>
      BY <2>1 DEF KeptWords
    <3> QED BY <2>9, <3>2, <3>3
  <2>8. KeptIn(P) = Tags(p.segs)
    <3> DEFINE L(s) == Len(ss[s]) + (IF s = n THEN 1 ELSE 0)
    <3>1. DOMAIN ss = 1 .. n
      BY <2>4, LenProperties
    <3>2. ASSUME NEW s \in 1 .. n PROVE L(s) = Len(p.segs[s])
      <4>1. CASE s = n
        <5>1. ss[s] = z /\ p.segs[s] = y
          BY <2>4, <4>1 DEF y
        <5> QED BY <2>2, <4>1, <5>1
      <4>2. CASE s # n
        <5>1. ss[s] = p.segs[s] /\ Len(p.segs[s]) \in Nat
          BY <1>3, <2>4, <4>2
        <5> QED BY <4>2, <5>1
      <4> QED BY <4>1, <4>2
    <3>3. KeptIn(P) = FlattenSeq([s \in 1 .. n |-> [k \in 1 .. L(s) |-> s]])
      <4>1. P.segs = ss /\ P.bg /\ Len(ss) = n
        BY <2>1, <2>4
      <4>2. KeptIn(P) = FlattenSeq([s \in DOMAIN ss |->
                          [k \in 1 .. Len(ss[s]) + (IF s = n THEN 1 ELSE 0) |-> s]])
        BY <4>1 DEF KeptIn
      <4> QED BY <3>1, <4>2
    <3> HIDE DEF L
    <3>4. [s \in 1 .. n |-> [k \in 1 .. L(s) |-> s]] = [s \in DOMAIN p.segs |-> [k \in 1 .. Len(p.segs[s]) |-> s]]
      BY <1>3, <3>2
    <3> QED BY <3>3, <3>4 DEF Tags, Tagged
  <2> QED BY <1>5, <2>1, <2>4, <2>7, <2>8 DEF P, n, bg, y
<1> QED BY <1>6, <1>7

LEMMA ParsedMeans ==
    ASSUME NEW l \in Seq(STRING)
    PROVE  MeaningOf(l, Parse(l))
<1> DEFINE n == Len(l)
           p == FoldLeft(ParseToken, Unparsed, l)
           P == Parse(l)
           K == FlattenSeq(p.segs)
           G == Tags(p.segs)
           W == WordsOf(l)
           kept == { i \in W : Nth(l, i) <= Len(K) }
<1>1. ReadSoFar(l, n, p)
  BY ReadLine
<1>2. SoFar(p) /\ Placed(l, n, p.segs) /\ Shape(p.segs)
  BY <1>1 DEF ReadSoFar, Placed
<1>3. /\ KeptWords(P) = K /\ KeptIn(P) = G /\ Len(P.segs) = Len(p.segs)
      /\ P.out = p.name[">"] /\ P.inp = p.name["<"]
      /\ P.bg = (Len(p.segs) > 0 /\ p.segs[Len(p.segs)] # <<>> /\ Last(p.segs[Len(p.segs)]) = Amp)
  BY <1>2, KeptByParse
<1>4. n \in Nat /\ W \subseteq 1 .. n /\ OperatorsOf(l) \subseteq 1 .. n
  BY LenProperties, WordAt, OperatorAt
<1>5. Nth(l, n) = Cardinality(W) /\ \A w \in 1 .. n : LastWord(l, n, w) => Nth(l, w) = Nth(l, n)
  BY NthAll
<1>6. Nth(l, n) \in Nat /\ \A i \in 1 .. n : i \in W => Nth(l, i) \in 1 .. Nth(l, n)
  BY <1>4, NthOfWord
<1>7. /\ Len(K) <= Nth(l, n)
      /\ \A i \in 1 .. n : i \in W /\ Nth(l, i) <= Len(K) => K[Nth(l, i)] = l[i]
      /\ \A i, j \in 1 .. n : i \in W /\ Nth(l, i) <= Len(K) /\ j \in W /\ Nth(l, j) <= Len(K)
            => (G[Nth(l, i)] = G[Nth(l, j)] <=> Stage(l, i) = Stage(l, j))
  BY <1>2 DEF Placed
<1>8. p \in ParseStates /\ p.full \in BOOLEAN /\ p.segs \in Seq(Seq(STRING)) /\ Len(p.segs) \in Nat
  BY <1>2, LenProperties DEF SoFar, ParseStates
<1>9. Len(K) \in Nat
  BY <1>2, LenProperties DEF Shape
<1> HIDE DEF n, p, P, K, G, W
<1>10. ASSUME Len(P.segs) < MaxSegments
       PROVE  /\ kept = W
              /\ \A o \in Operators : (IF o = ">" THEN P.out ELSE P.inp) = LastName(l, o)
              /\ P.bg <=> \E i \in W : /\ l[i] = Amp
                                       /\ \A j \in W : j <= i
                                       /\ \A j \in OperatorsOf(l) : j > i => Stage(l, j) = Stage(l, i)
  <2>1. ~p.full
    BY <1>1, <1>3, <1>8, <1>10, LimitsAreNumbers DEF ReadSoFar
  <2>2. Current(l, n, p) /\ Ended(l, n, p) /\ \A o \in Operators : NameIs(l, o, n, p.name[o])
    BY <1>1, <2>1 DEF ReadSoFar
  <2>3. Len(K) = Nth(l, n)
    BY <2>2 DEF Current, K
  <2>4. kept = W
    <3>1. \A i \in W : Nth(l, i) <= Len(K)
      <4> TAKE i \in W
      <4>1. Nth(l, i) \in 1 .. Nth(l, n)
        BY <1>4, <1>6
      <4> QED BY <1>6, <2>3, <4>1
    <3> QED BY <3>1
  <2>5. ASSUME NEW o \in Operators PROVE (IF o = ">" THEN P.out ELSE P.inp) = LastName(l, o)
    <3>1. p.name[o] = LastName(l, o)
      BY <2>2, NameOfLine DEF n
    <3>2. (IF o = ">" THEN P.out ELSE P.inp) = p.name[o]
      BY <1>3 DEF Operators
    <3> QED BY <3>1, <3>2
  <2>6. ASSUME P.bg
        PROVE  \E i \in W : /\ l[i] = Amp
                            /\ \A j \in W : j <= i
                            /\ \A j \in OperatorsOf(l) : j > i => Stage(l, j) = Stage(l, i)
    <3>1. Len(p.segs) > 0 /\ p.segs[Len(p.segs)] # <<>> /\ Last(p.segs[Len(p.segs)]) = Amp
      BY <1>3, <2>6
    <3>2. p.segs # <<>>
      BY <1>8, <3>1, EmptySeq
    <3>3. Len(K) > 0 /\ G[Len(K)] = Len(p.segs) /\ K[Len(K)] = Amp
      BY <1>2, <3>1, <3>2 DEF Shape, K, G
    <3>4. W # {}
      <4>1. Cardinality(W) # 0
        BY <1>5, <1>6, <2>3, <3>3
      <4> QED BY <4>1, FS_EmptySet
    <3>5. PICK w \in W : \A j \in W : j <= w
      <4>1. W \in SUBSET Nat /\ \A x \in W : x <= n
        <5>1. \A x \in 1 .. n : x \in Nat /\ x <= n
          BY <1>4
        <5> QED BY <1>4, <5>1
      <4>2. Max(W) \in W /\ \A y \in W : y <= Max(W)
        BY <1>4, <3>4, <4>1, Greatest
      <4> QED BY <4>2
    <3>6. w \in 1 .. n
      BY <1>4
    <3>7. LastWord(l, n, w)
      BY <3>5 DEF LastWord, W
    <3>8. Nth(l, w) = Len(K)
      BY <1>5, <2>3, <3>6, <3>7
    <3>9. l[w] = Amp
      BY <1>7, <1>9, <3>3, <3>6, <3>8
    <3>10. \A j \in w + 1 .. n : j \in OperatorsOf(l) => Stage(l, j) = Stage(l, w)
      BY <2>2, <3>3, <3>6, <3>7, <3>8 DEF Ended, G
    <3>11. \A j \in OperatorsOf(l) : j > w => j \in w + 1 .. n
      <4> TAKE j \in OperatorsOf(l)
      <4>1. j \in 1 .. n
        BY <1>4
      <4> QED BY <1>4, <3>6, <4>1
    <3>12. \A j \in OperatorsOf(l) : j > w => Stage(l, j) = Stage(l, w)
      BY <3>10, <3>11
    <3> QED BY <3>5, <3>9, <3>12
  <2>7. ASSUME NEW w \in W, l[w] = Amp, \A j \in W : j <= w,
               \A j \in OperatorsOf(l) : j > w => Stage(l, j) = Stage(l, w)
        PROVE  P.bg
    <3>1. w \in 1 .. n
      BY <1>4
    <3>2. LastWord(l, n, w)
      BY <2>7 DEF LastWord, W
    <3>3. Nth(l, w) = Len(K) /\ Len(K) \in 1 .. Len(K)
      <4>1. Nth(l, w) = Nth(l, n) /\ Nth(l, w) \in 1 .. Nth(l, n)
        BY <1>5, <1>6, <3>1, <3>2
      <4> QED BY <2>3, <4>1
    <3>4. \A j \in w + 1 .. n : j \in OperatorsOf(l) => Stage(l, j) = Stage(l, w)
      <4>1. \A j \in w + 1 .. n : j > w
        BY <1>4, <3>1
      <4> QED BY <2>7, <4>1
    <3>5. G[Len(K)] = Len(p.segs)
      BY <2>2, <3>1, <3>2, <3>3, <3>4 DEF Ended, G
    <3>6. G[Len(K)] \in 1 .. Len(p.segs)
      BY <1>2, <3>3 DEF Shape, K, G
    <3>7. Len(p.segs) > 0 /\ p.segs # <<>> /\ Len(K) > 0
      <4>1. Len(p.segs) > 0 /\ Len(K) > 0
        BY <1>8, <1>9, <3>3, <3>6
      <4> QED BY <4>1, EmptySeq
    <3>8. p.segs[Len(p.segs)] # <<>> /\ Last(p.segs[Len(p.segs)]) = K[Len(K)]
      BY <1>2, <3>5, <3>7 DEF Shape, K, G
    <3>9. K[Len(K)] = Amp
      BY <1>7, <1>9, <2>7, <3>1, <3>3
    <3> QED BY <1>3, <3>7, <3>8, <3>9
  <2>8. P.bg \in BOOLEAN
    BY <1>3
  <2> QED BY <2>4, <2>5, <2>6, <2>7, <2>8
<1>11. Len(K) <= Cardinality(W)
  BY <1>5, <1>7
<1>12. \A i \in kept : i \in 1 .. n /\ i \in W /\ Nth(l, i) <= Len(K)
  BY <1>4
<1> HIDE DEF kept
<1>13. \A i \in kept : K[Nth(l, i)] = l[i]
  BY <1>7, <1>12
<1>14. \A i, j \in kept : G[Nth(l, i)] = G[Nth(l, j)] <=> Stage(l, i) = Stage(l, j)
  BY <1>7, <1>12
<1>15. kept = { i \in WordsOf(l) : Nth(l, i) <= Len(KeptWords(P)) }
  BY <1>3 DEF kept, W
<1>16. MeaningOf(l, P)
  <2> DEFINE M ==
        /\ Len(KeptWords(P)) <= Cardinality(W)
        /\ \A i \in kept : KeptWords(P)[Nth(l, i)] = l[i]
        /\ \A i, j \in kept : KeptIn(P)[Nth(l, i)] = KeptIn(P)[Nth(l, j)] <=> Stage(l, i) = Stage(l, j)
        /\ Len(P.segs) < MaxSegments =>
             /\ kept = W
             /\ \A o \in Operators : (IF o = ">" THEN P.out ELSE P.inp) = LastName(l, o)
             /\ P.bg <=> \E i \in W : /\ l[i] = Amp
                                      /\ \A j \in W : j <= i
                                      /\ \A j \in OperatorsOf(l) : j > i => Stage(l, j) = Stage(l, i)
  <2>1. M
    BY <1>3, <1>10, <1>11, <1>13, <1>14
  <2>2. MeaningOf(l, P) <=> M
    BY <1>15 DEF MeaningOf, W
  <2> HIDE DEF M
  <2> QED BY <2>1, <2>2
<1> QED BY <1>16 DEF P

\* Every line, with whatever limits, is executed as it was typed.
THEOREM LinesMeanWhatTheySay == Spec => []ParsedAsTyped
<1>1. TypeInv => ParsedAsTyped
  BY ParsedMeans DEF TypeInv, TypeOK, ParsedAsTyped
<1> QED BY <1>1, TypeCorrect, PTL
=============================================================================
