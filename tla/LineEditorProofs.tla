------------------------- MODULE LineEditorProofs -------------------------
(***************************************************************************)
(* Proofs about LineEditor for every prompt, every size of the line        *)
(* buffer, every set of keys a read may bring and every directory.         *)
(***************************************************************************)
EXTENDS LineEditor, SequenceLemmas, SequenceTheorems, FiniteSetTheorems, TLAPS

LEMMA Sizes ==
    /\ Len(Prompt) \in Nat /\ LineMax \in Nat /\ LineMax > 1
    /\ Width = Len(Prompt) + LineMax
BY LinesAssumption, LineMaxAssumption, LenProperties DEF Width

-----------------------------------------------------------------------------
(* The line and its text                                                   *)

LineOK ==
    /\ line \in [0 .. LineMax - 1 -> Chars \cup {Nul}]
    /\ lineLen \in 0 .. LineMax - 1 /\ cursor \in 0 .. lineLen
    /\ \A i \in 0 .. lineLen - 1 : line[i] \in Chars

LEMMA TextType ==
    ASSUME LineOK
    PROVE  /\ Text \in Seq(Chars) /\ Len(Text) = lineLen
           /\ \A i \in 1 .. lineLen : Text[i] = line[i - 1] /\ Text[i] \in Chars
<1>1. lineLen \in Nat /\ LineMax \in Nat /\ lineLen <= LineMax - 1
  BY LineMaxAssumption DEF LineOK
<1>2. ASSUME NEW i \in 1 .. lineLen PROVE line[i - 1] \in Chars
  <2>1. i - 1 \in 0 .. lineLen - 1
    BY <1>1
  <2> QED BY <2>1 DEF LineOK
<1>3. Text \in [1 .. lineLen -> Chars]
  BY <1>2 DEF Text
<1>4. Text \in Seq(Chars)
  BY <1>1, <1>3, SeqDef
<1>5. Len(Text) = lineLen
  BY <1>1, <1>3, <1>4, LenProperties
<1> QED BY <1>2, <1>4, <1>5 DEF Text

\* What a text is written over is behind it afterwards.
LEMMA OverwrittenIs ==
    ASSUME LineOK, NEW text \in Seq(Chars), Len(text) <= LineMax - 1
    PROVE  /\ Overwritten(text) \in [0 .. LineMax - 1 -> Chars \cup {Nul}]
           /\ \A i \in 0 .. Len(text) - 1 : Overwritten(text)[i] \in Chars
           /\ [i \in 1 .. Len(text) |-> Overwritten(text)[i - 1]] = text
<1>1. /\ Len(text) \in Nat /\ LineMax \in Nat
      /\ DOMAIN line = 0 .. LineMax - 1
      /\ \A i \in 0 .. LineMax - 1 : line[i] \in Chars \cup {Nul}
  BY LenProperties, LineMaxAssumption DEF LineOK
<1>2. ASSUME NEW i \in 0 .. LineMax - 1, i < Len(text)
      PROVE  text[i + 1] \in Chars /\ Overwritten(text)[i] = text[i + 1]
  <2>1. i + 1 \in 1 .. Len(text)
    BY <1>1, <1>2
  <2> QED BY <1>1, <1>2, <2>1, ElementOfSeq DEF Overwritten
<1>3. ASSUME NEW i \in 0 .. LineMax - 1, ~(i < Len(text))
      PROVE  Overwritten(text)[i] = line[i]
  BY <1>1, <1>3 DEF Overwritten
<1>4. \A i \in 0 .. LineMax - 1 : Overwritten(text)[i] \in Chars \cup {Nul}
  BY <1>1, <1>2, <1>3
<1>5. Overwritten(text) \in [0 .. LineMax - 1 -> Chars \cup {Nul}]
  BY <1>1, <1>4 DEF Overwritten
<1>6. \A i \in 0 .. Len(text) - 1 : Overwritten(text)[i] \in Chars
  <2> TAKE i \in 0 .. Len(text) - 1
  <2>1. i \in 0 .. LineMax - 1 /\ i < Len(text)
    BY <1>1
  <2> QED BY <1>2, <2>1
<1>7. [i \in 1 .. Len(text) |-> Overwritten(text)[i - 1]] = text
  <2> DEFINE s == [i \in 1 .. Len(text) |-> Overwritten(text)[i - 1]]
  <2>1. \A i \in 1 .. Len(text) : s[i] = text[i]
    <3> TAKE i \in 1 .. Len(text)
    <3>1. i - 1 \in 0 .. LineMax - 1 /\ i - 1 < Len(text) /\ (i - 1) + 1 = i
      BY <1>1
    <3> QED BY <1>2, <3>1
  <2>2. text \in [1 .. Len(text) -> Chars]
    BY LenProperties
  <2> QED BY <2>1, <2>2
<1> QED BY <1>5, <1>6, <1>7

-----------------------------------------------------------------------------
(* The terminal                                                            *)

Cell == Chars \cup ToSet(Prompt) \cup {Nul}
Terminal == [col : Nat, row : [0 .. Width - 1 -> Cell]]

LEMMA PutIs ==
    ASSUME NEW t \in Terminal, NEW s \in Seq(Cell)
    PROVE  /\ Put(t, s) \in Terminal
           /\ Put(t, s).col = t.col + Len(s)
           /\ \A c \in 0 .. Width - 1 :
                 Put(t, s).row[c] = IF t.col <= c /\ c < t.col + Len(s)
                                    THEN s[c - t.col + 1] ELSE t.row[c]
<1>1. /\ t.col \in Nat /\ Len(s) \in Nat /\ Width \in Nat
      /\ t.row \in [0 .. Width - 1 -> Cell] /\ DOMAIN t.row = 0 .. Width - 1
  BY Sizes, LenProperties DEF Terminal
<1> DEFINE r == [c \in DOMAIN t.row |->
                    IF c \in t.col .. t.col + Len(s) - 1 THEN s[c - t.col + 1] ELSE t.row[c]]
<1>2. ASSUME NEW c \in 0 .. Width - 1
      PROVE  /\ r[c] \in Cell
             /\ r[c] = IF t.col <= c /\ c < t.col + Len(s) THEN s[c - t.col + 1] ELSE t.row[c]
  <2>1. c \in t.col .. t.col + Len(s) - 1 <=> (t.col <= c /\ c < t.col + Len(s))
    BY <1>1
  <2>2. CASE t.col <= c /\ c < t.col + Len(s)
    <3>1. c - t.col + 1 \in 1 .. Len(s)
      BY <1>1, <2>2
    <3> QED BY <1>1, <2>1, <2>2, <3>1, ElementOfSeq
  <2>3. CASE ~(t.col <= c /\ c < t.col + Len(s))
    BY <1>1, <2>1, <2>3
  <2> QED BY <2>2, <2>3
<1>3. r \in [0 .. Width - 1 -> Cell]
  BY <1>1, <1>2
<1>4. Put(t, s) = [col |-> t.col + Len(s), row |-> r]
  BY DEF Put
<1> HIDE DEF r
<1>5. t.col + Len(s) \in Nat
  BY <1>1
<1> QED BY <1>2, <1>3, <1>4, <1>5 DEF Terminal

LEMMA BackIs ==
    ASSUME NEW t \in Terminal, NEW n \in Nat, n <= t.col
    PROVE  /\ Back(t, n) \in Terminal
           /\ Back(t, n).col = t.col - n
           /\ Back(t, n).row = t.row
<1>1. t.col \in Nat /\ t.row \in [0 .. Width - 1 -> Cell]
  BY DEF Terminal
<1>2. Back(t, n) = [t EXCEPT !.col = IF n < t.col THEN t.col - n ELSE 0]
  BY DEF Back
<1>3. (IF n < t.col THEN t.col - n ELSE 0) = t.col - n /\ t.col - n \in Nat
  BY <1>1
<1>4. Back(t, n) = [t EXCEPT !.col = t.col - n]
  BY <1>2, <1>3
<1> QED BY <1>1, <1>3, <1>4 DEF Terminal

LEMMA ClearIs ==
    ASSUME NEW t \in Terminal, lineLen \in Nat
    PROVE  /\ ClearLine(t) \in Terminal
           /\ ClearLine(t).col = 0
           /\ \A c \in 0 .. Width - 1 :
                 ClearLine(t).row[c] = IF c < lineLen THEN Blank ELSE t.row[c]
<1> DEFINE blanks == [i \in 1 .. lineLen |-> Blank]
           t0 == Return(t)
<1>1. t0 \in Terminal /\ t0.col = 0 /\ t0.row = t.row
  BY DEF Return, Terminal
<1>2. Blank \in Cell
  BY CharsAssumption DEF Cell
<1>3. blanks \in Seq(Cell) /\ Len(blanks) = lineLen
  <2>1. blanks \in [1 .. lineLen -> Cell]
    BY <1>2
  <2>2. blanks \in Seq(Cell)
    BY <2>1, SeqDef
  <2> QED BY <2>1, <2>2, LenProperties
<1>4. \A i \in 1 .. lineLen : blanks[i] = Blank
  OBVIOUS
<1>5. ClearLine(t) = Return(Put(t0, blanks))
  BY DEF ClearLine
<1> HIDE DEF blanks, t0
<1>6. /\ Put(t0, blanks) \in Terminal
      /\ \A c \in 0 .. Width - 1 :
            Put(t0, blanks).row[c] = IF t0.col <= c /\ c < t0.col + Len(blanks)
                                     THEN blanks[c - t0.col + 1] ELSE t0.row[c]
  BY <1>1, <1>3, PutIs
<1>7. \A c \in 0 .. Width - 1 :
         Put(t0, blanks).row[c] = IF c < lineLen THEN Blank ELSE t.row[c]
  BY <1>1, <1>3, <1>4, <1>6, Sizes
<1>8. /\ ClearLine(t) \in Terminal /\ ClearLine(t).col = 0
      /\ ClearLine(t).row = Put(t0, blanks).row
  BY <1>5, <1>6 DEF Return, Terminal
<1> QED BY <1>7, <1>8

\* The cells from n on that show something.
Beyond(t, n) == { c \in n .. Width - 1 : t.row[c] \notin {Nul, Blank} }

\* The terminal shows the text after a prompt or at the left margin.
Shows(t, margin, text, at) ==
    /\ t \in Terminal
    /\ margin \in {0, Len(Prompt)}
    /\ t.col = margin + at
    /\ \A i \in 1 .. Len(text) : t.row[margin + i - 1] = text[i]
    /\ Cardinality(Beyond(t, margin + Len(text))) <= IF margin = 0 THEN Len(Prompt) ELSE 0

LEMMA IntervalSize ==
    ASSUME NEW a \in Int, NEW b \in Int
    PROVE  IsFiniteSet(a .. b) /\ Cardinality(a .. b) = IF a > b THEN 0 ELSE b - a + 1
BY FS_Interval, Zenon

LEMMA BeyondFinite ==
    ASSUME NEW t, NEW n \in Int
    PROVE  IsFiniteSet(Beyond(t, n)) /\ Cardinality(Beyond(t, n)) \in Nat
<1>1. Width - 1 \in Int
  BY Sizes
<1>2. IsFiniteSet(n .. Width - 1)
  BY <1>1, IntervalSize
<1>3. Beyond(t, n) \subseteq n .. Width - 1
  BY DEF Beyond
<1>4. IsFiniteSet(Beyond(t, n))
  BY <1>2, <1>3, FS_Subset
<1> QED BY <1>4, FS_CardinalityType

\* Fewer cells show something once some are overwritten.
LEMMA BeyondFewer ==
    ASSUME NEW S, IsFiniteSet(S), NEW t, NEW n, Beyond(t, n) \subseteq S
    PROVE  Cardinality(Beyond(t, n)) <= Cardinality(S)
BY FS_Subset

LEMMA NothingBeyond ==
    ASSUME NEW t, NEW n \in Int, Cardinality(Beyond(t, n)) <= 0
    PROVE  Beyond(t, n) = {}
<1>1. IsFiniteSet(Beyond(t, n)) /\ Cardinality(Beyond(t, n)) = 0
  BY BeyondFinite
<1> QED BY <1>1, FS_EmptySet

LEMMA CharsAreCells ==
    ASSUME NEW s \in Seq(Chars)
    PROVE  s \in Seq(Cell)
<1>1. s \in [1 .. Len(s) -> Chars] /\ Len(s) \in Nat
  BY LenProperties
<1>2. s \in [1 .. Len(s) -> Cell]
  BY <1>1 DEF Cell
<1> QED BY <1>1, <1>2, SeqDef

\* Printing a text where the left margin has been cleared.
LEMMA PrintAtMargin ==
    ASSUME NEW t \in Terminal, t.col = 0, NEW text \in Seq(Chars),
           Len(text) <= LineMax - 1, NEW at \in 0 .. Len(text),
           Cardinality(Beyond(t, 0)) <= Len(Prompt)
    PROVE  Shows(Back(Put(t, text), Len(text) - at), 0, text, at)
<1> DEFINE u == Put(t, text)
           v == Back(u, Len(text) - at)
<1>1. /\ Len(text) \in Nat /\ Len(Prompt) \in Nat /\ LineMax \in Nat
      /\ Width = Len(Prompt) + LineMax
  BY LenProperties, Sizes
<1>2. /\ u \in Terminal /\ u.col = Len(text)
      /\ \A c \in 0 .. Width - 1 :
            u.row[c] = IF c < Len(text) THEN text[c + 1] ELSE t.row[c]
  <2>1. text \in Seq(Cell)
    BY CharsAreCells
  <2>2. /\ u \in Terminal /\ u.col = t.col + Len(text)
        /\ \A c \in 0 .. Width - 1 :
              u.row[c] = IF t.col <= c /\ c < t.col + Len(text)
                         THEN text[c - t.col + 1] ELSE t.row[c]
    BY <2>1, PutIs
  <2> HIDE DEF u
  <2> QED BY <1>1, <2>2
<1>3. v \in Terminal /\ v.col = at /\ v.row = u.row
  <2>1. Len(text) - at \in Nat /\ Len(text) - at <= u.col
    BY <1>1, <1>2
  <2> HIDE DEF u
  <2>2. v \in Terminal /\ v.col = u.col - (Len(text) - at) /\ v.row = u.row
    BY <1>2, <2>1, BackIs
  <2> HIDE DEF v
  <2> QED BY <1>1, <1>2, <2>2
<1> HIDE DEF u, v
<1>4. ASSUME NEW i \in 1 .. Len(text) PROVE v.row[0 + i - 1] = text[i]
  <2>1. 0 + i - 1 \in 0 .. Width - 1 /\ 0 + i - 1 < Len(text) /\ (0 + i - 1) + 1 = i
    BY <1>1
  <2> QED BY <1>2, <1>3, <2>1
<1>5. Cardinality(Beyond(v, 0 + Len(text))) <= Len(Prompt)
  <2>1. Beyond(v, 0 + Len(text)) \subseteq Beyond(t, 0)
    BY <1>1, <1>2, <1>3 DEF Beyond
  <2>2. IsFiniteSet(Beyond(t, 0)) /\ Cardinality(Beyond(t, 0)) \in Nat
    BY BeyondFinite
  <2>3. Cardinality(Beyond(v, 0 + Len(text))) <= Cardinality(Beyond(t, 0))
    BY <2>1, <2>2, BeyondFewer
  <2>4. Cardinality(Beyond(v, 0 + Len(text))) \in Nat
    BY <1>1, BeyondFinite
  <2> QED BY <1>1, <2>2, <2>3, <2>4
<1> QED BY <1>1, <1>3, <1>4, <1>5 DEF Shows, v, u

\* After clear_line of a shown line, at most a prompt's cells show something.
LEMMA ClearLeavesPrompt ==
    ASSUME LineOK, NEW m, Shows(term, m, Text, cursor)
    PROVE  /\ ClearLine(term) \in Terminal /\ ClearLine(term).col = 0
           /\ Cardinality(Beyond(ClearLine(term), 0)) <= Len(Prompt)
<1> DEFINE u == ClearLine(term)
           P == Len(Prompt)
<1>1. /\ P \in Nat /\ LineMax \in Nat /\ Width = P + LineMax
      /\ lineLen \in Nat /\ lineLen < LineMax /\ Len(Text) = lineLen
  BY Sizes, TextType DEF LineOK
<1>2. /\ u \in Terminal /\ u.col = 0
      /\ \A c \in 0 .. Width - 1 : u.row[c] = IF c < lineLen THEN Blank ELSE term.row[c]
  BY <1>1, ClearIs DEF Shows
<1> HIDE DEF u
<1>3. CASE m = 0
  <2>1. Cardinality(Beyond(term, lineLen)) <= P
    BY <1>1, <1>3 DEF Shows
  <2>2. Beyond(u, 0) \subseteq Beyond(term, lineLen)
    BY <1>1, <1>2 DEF Beyond
  <2>3. IsFiniteSet(Beyond(term, lineLen)) /\ Cardinality(Beyond(term, lineLen)) \in Nat
    BY <1>1, BeyondFinite
  <2>4. Cardinality(Beyond(u, 0)) <= Cardinality(Beyond(term, lineLen))
    BY <2>2, <2>3, BeyondFewer
  <2>5. Cardinality(Beyond(u, 0)) \in Nat
    BY BeyondFinite
  <2> QED BY <1>1, <1>2, <2>1, <2>3, <2>4, <2>5 DEF u
<1>4. CASE m # 0
  <2>1. m = P /\ Cardinality(Beyond(term, P + lineLen)) <= 0
    BY <1>1, <1>4 DEF Shows
  <2>2. Beyond(term, P + lineLen) = {}
    BY <1>1, <2>1, NothingBeyond
  <2>3. Beyond(u, 0) \subseteq lineLen .. P + lineLen - 1
    <3> SUFFICES ASSUME NEW c \in Beyond(u, 0) PROVE c \in lineLen .. P + lineLen - 1
      OBVIOUS
    <3>1. c \in 0 .. Width - 1 /\ u.row[c] \notin {Nul, Blank}
      BY DEF Beyond
    <3>2. ~(c < lineLen) /\ term.row[c] \notin {Nul, Blank}
      BY <1>2, <3>1
    <3>3. ~(c >= P + lineLen)
      BY <1>1, <2>2, <3>1, <3>2 DEF Beyond
    <3> QED BY <1>1, <3>1, <3>2, <3>3
  <2>4. /\ IsFiniteSet(lineLen .. P + lineLen - 1)
        /\ Cardinality(lineLen .. P + lineLen - 1) = P
    <3>1. lineLen \in Int /\ P + lineLen - 1 \in Int
      BY <1>1
    <3>2. /\ IsFiniteSet(lineLen .. P + lineLen - 1)
          /\ Cardinality(lineLen .. P + lineLen - 1) =
               IF lineLen > P + lineLen - 1 THEN 0 ELSE (P + lineLen - 1) - lineLen + 1
      BY <3>1, IntervalSize
    <3> QED BY <1>1, <3>2
  <2>5. Cardinality(Beyond(u, 0)) <= P
    BY <2>3, <2>4, BeyondFewer
  <2> QED BY <1>2, <2>5 DEF u
<1> QED BY <1>3, <1>4

-----------------------------------------------------------------------------
(* What Tab makes of the line (tab_complete)                               *)

LEMMA LastAtIs ==
    ASSUME NEW S, NEW s \in Seq(S), NEW c
    PROVE  /\ LastAt(s, c) \in 0 .. Len(s)
           /\ LastAt(s, c) > 0 => s[LastAt(s, c)] = c
           /\ \A i \in LastAt(s, c) + 1 .. Len(s) : s[i] # c
<1> DEFINE T == {0} \cup { i \in DOMAIN s : s[i] = c }
<1>1. Len(s) \in Nat /\ DOMAIN s = 1 .. Len(s)
  BY LenProperties
<1>2. T \in SUBSET Nat /\ T # {} /\ \A x \in T : x <= Len(s)
  BY <1>1
<1>3. LastAt(s, c) = Max(T)
  BY DEF LastAt
<1>4. \A x \in T : x \in 0 .. Len(s) /\ (x > 0 => s[x] = c)
  BY <1>1
<1>5. \A i \in 1 .. Len(s) : s[i] = c => i \in T
  BY <1>1
<1> HIDE DEF T
<1>6. Max(T) \in T /\ \A y \in T : y <= Max(T)
  BY <1>1, <1>2, Greatest
<1>7. Max(T) \in 0 .. Len(s) /\ (Max(T) > 0 => s[Max(T)] = c)
  BY <1>4, <1>6
<1>8. \A i \in Max(T) + 1 .. Len(s) : s[i] # c
  <2> TAKE i \in Max(T) + 1 .. Len(s)
  <2>1. i \in 1 .. Len(s) /\ ~(i <= Max(T))
    BY <1>1, <1>7
  <2> QED BY <1>5, <1>6, <2>1
<1> QED BY <1>3, <1>7, <1>8

\* The beginning of a sequence, element by element.
LEMMA BeginningIs ==
    ASSUME NEW S, NEW s \in Seq(S), NEW n \in 0 .. Len(s)
    PROVE  /\ SubSeq(s, 1, n) \in Seq(S) /\ Len(SubSeq(s, 1, n)) = n
           /\ \A i \in 1 .. n : SubSeq(s, 1, n)[i] = s[i]
<1>1. n \in Nat /\ Len(s) \in Nat /\ n <= Len(s)
  BY LenProperties
<1>2. \A i \in 1 .. n : s[i] \in S
  BY <1>1, ElementOfSeq
<1>3. /\ SubSeq(s, 1, n) \in Seq(S)
      /\ Len(SubSeq(s, 1, n)) = IF 1 <= n THEN n - 1 + 1 ELSE 0
      /\ \A i \in 1 .. n - 1 + 1 : SubSeq(s, 1, n)[i] = s[1 + i - 1]
  BY <1>1, <1>2, SubSeqProperties
<1> QED BY <1>1, <1>3

\* The end of a sequence, element by element.
LEMMA EndIs ==
    ASSUME NEW S, NEW s \in Seq(S), NEW n \in 0 .. Len(s)
    PROVE  /\ SubSeq(s, n + 1, Len(s)) \in Seq(S)
           /\ Len(SubSeq(s, n + 1, Len(s))) = Len(s) - n
           /\ \A i \in 1 .. Len(s) - n : SubSeq(s, n + 1, Len(s))[i] = s[n + i]
<1>1. n \in Nat /\ Len(s) \in Nat /\ n <= Len(s)
  BY LenProperties
<1>2. \A i \in n + 1 .. Len(s) : s[i] \in S
  BY <1>1, ElementOfSeq
<1>3. /\ SubSeq(s, n + 1, Len(s)) \in Seq(S)
      /\ Len(SubSeq(s, n + 1, Len(s))) = IF n + 1 <= Len(s) THEN Len(s) - (n + 1) + 1 ELSE 0
      /\ \A i \in 1 .. Len(s) - (n + 1) + 1 : SubSeq(s, n + 1, Len(s))[i] = s[n + 1 + i - 1]
  BY <1>1, <1>2, SubSeqProperties
<1> DEFINE e == SubSeq(s, n + 1, Len(s))
<1> HIDE DEF e
<1>4. Len(e) = Len(s) - n
  BY <1>1, <1>3 DEF e
<1>5. \A i \in 1 .. Len(s) - n : e[i] = s[n + i]
  <2> TAKE i \in 1 .. Len(s) - n
  <2>1. i \in 1 .. Len(s) - (n + 1) + 1 /\ n + 1 + i - 1 = n + i
    BY <1>1
  <2>2. e[i] = s[n + 1 + i - 1]
    BY <1>3, <2>1 DEF e
  <2> QED BY <2>1, <2>2
<1> QED BY <1>3, <1>4, <1>5 DEF e

\* What the names have in common is the beginning of one of them.
LEMMA CommonIsPrefix ==
    ASSUME NEW names \in SUBSET Seq(Chars), names # {}
    PROVE  \E k \in names : \E m \in 0 .. Len(k) : LongestCommonPrefix(names) = SubSeq(k, 1, m)
<1> DEFINE C == CommonPrefixes(names)
           T == { Len(c) : c \in C }
<1>1. PICK k0 \in names : TRUE
  OBVIOUS
<1>2. \A c \in C : \E k \in names : \E m \in 0 .. Len(k) : c = SubSeq(k, 1, m)
  BY DEF CommonPrefixes, Prefixes
<1>3. \A c \in C : Len(c) \in Nat /\ Len(c) <= Len(k0)
  <2> TAKE c \in C
  <2>1. PICK k \in names : \E m \in 0 .. Len(k) : c = SubSeq(k, 1, m)
    BY <1>2
  <2>2. c \in Seq(Chars)
    BY <2>1, BeginningIs
  <2>3. Len(c) \in Nat
    BY <2>2, LenProperties
  <2>4. IsPrefix(c, k0)
    BY DEF CommonPrefixes
  <2> QED BY <2>3, <2>4 DEF IsPrefix
<1>4. <<>> \in C
  <2>1. \A t \in names : SubSeq(t, 1, 0) = <<>> /\ 0 \in 0 .. Len(t) /\ IsPrefix(<<>>, t)
    <3> TAKE t \in names
    <3>1. Len(t) \in Nat
      BY LenProperties
    <3>2. SubSeq(t, 1, 0) = <<>>
      BY SubSeqEmpty
    <3>3. Len(<<>>) = 0 /\ SubSeq(<<>>, 1, 0) = <<>>
      BY EmptySeq, SubSeqEmpty
    <3> QED BY <3>1, <3>2, <3>3 DEF IsPrefix
  <2>2. <<>> \in Prefixes(k0)
    BY <2>1 DEF Prefixes
  <2> QED BY <2>1, <2>2 DEF CommonPrefixes
<1> HIDE DEF C
<1>5. T \in SUBSET Nat /\ T # {} /\ Len(k0) \in Nat /\ \A x \in T : x <= Len(k0)
  <2>1. Len(k0) \in Nat
    BY LenProperties
  <2> QED BY <1>3, <1>4, <2>1
<1>6. Max(T) \in T /\ \A y \in T : y <= Max(T)
  <2> HIDE DEF T
  <2> QED BY <1>5, Greatest
<1>7. \E longest \in C : \A other \in C : Len(other) <= Len(longest)
  BY <1>6
<1>8. LongestCommonPrefix(names) \in C
  BY <1>7 DEF LongestCommonPrefix, C
<1> QED BY <1>2, <1>8

\* The word before the cursor, and the line around it.
LEMMA WordIs ==
    ASSUME NEW text \in Seq(Chars), NEW cur \in 0 .. Len(text)
    PROVE  LET before == SubSeq(text, 1, cur)
               tok == WordBefore(text, cur)
               start == cur - Len(tok)
           IN  /\ before \in Seq(Chars) /\ Len(before) = cur
               /\ tok \in Seq(Chars) /\ start \in 0 .. cur
               /\ start = LastAt(before, Blank)
               /\ tok = SubSeq(before, start + 1, Len(before))
               /\ SubSeq(text, 1, start) \in Seq(Chars)
               /\ SubSeq(text, 1, start) = SubSeq(before, 1, start)
               /\ SubSeq(text, 1, start) \o tok \o SubSeq(text, cur + 1, Len(text)) = text
<1> DEFINE before == SubSeq(text, 1, cur)
           tok == WordBefore(text, cur)
           at == LastAt(before, Blank)
<1>1. cur \in Nat /\ Len(text) \in Nat /\ cur <= Len(text)
  BY LenProperties
<1>2. /\ before \in Seq(Chars) /\ Len(before) = cur
      /\ \A i \in 1 .. cur : before[i] = text[i]
  BY BeginningIs
<1>3. tok = SubSeq(before, at + 1, Len(before))
  BY <1>2 DEF WordBefore
<1>4. before \o SubSeq(text, cur + 1, Len(text)) = text
  BY CutInTwo
<1> HIDE DEF before, tok
<1>5. at \in 0 .. cur
  BY <1>2, LastAtIs
<1>6. tok \in Seq(Chars) /\ Len(tok) = cur - at
  BY <1>2, <1>3, <1>5, EndIs
<1>7. SubSeq(before, 1, at) \o tok = before
  BY <1>2, <1>3, <1>5, CutInTwo
<1>8. at \in Nat /\ cur - Len(tok) = at /\ at \in 0 .. Len(text)
  BY <1>1, <1>5, <1>6
<1> HIDE DEF at
<1>9. SubSeq(text, 1, at) = SubSeq(before, 1, at)
  <2>1. /\ SubSeq(text, 1, at) \in Seq(Chars) /\ Len(SubSeq(text, 1, at)) = at
        /\ \A i \in 1 .. at : SubSeq(text, 1, at)[i] = text[i]
    BY <1>8, BeginningIs
  <2>2. /\ SubSeq(before, 1, at) \in Seq(Chars) /\ Len(SubSeq(before, 1, at)) = at
        /\ \A i \in 1 .. at : SubSeq(before, 1, at)[i] = before[i]
    BY <1>2, <1>5, BeginningIs
  <2>3. \A i \in 1 .. at : before[i] = text[i]
    BY <1>1, <1>2, <1>5
  <2> QED BY <2>1, <2>2, <2>3, SeqEqual
<1>10. SubSeq(text, 1, at) \in Seq(Chars)
  BY <1>8, BeginningIs
<1>11. SubSeq(text, 1, at) \o tok \o SubSeq(text, cur + 1, Len(text)) = text
  BY <1>4, <1>7, <1>9
<1> QED BY <1>1, <1>2, <1>3, <1>5, <1>6, <1>8, <1>9, <1>10, <1>11 DEF before, tok, at

KnownNames == ToSet(Builtins) \cup UNION { ToSet(s) : s \in Scans }

\* k begins like the part of the word tok after its last slash.
FitsWord(tok, k) ==
    \E n \in 0 .. Len(tok) :
        /\ n > 0 => tok[n] = Slash
        /\ \A i \in n + 1 .. Len(tok) : tok[i] # Slash
        /\ IsPrefix(SubSeq(tok, n + 1, Len(tok)), k)

LEMMA NamesType == KnownNames \in SUBSET Seq(Chars)
<1>1. \A i \in DOMAIN Builtins : Builtins[i] \in Seq(Chars)
  <2> TAKE i \in DOMAIN Builtins
  <2>1. Builtins[i] \in Seq(Chars \ {Slash})
    BY LinesAssumption, ElementOfSeq, LenProperties
  <2> DEFINE b == Builtins[i]
  <2> HIDE DEF b
  <2>2. b \in [1 .. Len(b) -> Chars \ {Slash}] /\ Len(b) \in Nat
    BY <2>1, LenProperties DEF b
  <2>3. b \in [1 .. Len(b) -> Chars]
    BY <2>2
  <2>4. b \in Seq(Chars)
    BY <2>2, <2>3, SeqDef
  <2> QED BY <2>4 DEF b
<1>2. ASSUME NEW s \in Scans, NEW i \in DOMAIN s PROVE s[i] \in Seq(Chars)
  BY LinesAssumption, ElementOfSeq, LenProperties
<1> QED BY <1>1, <1>2 DEF KnownNames, ToSet

\* A match is a known name that fits the word.
LEMMA MatchFits ==
    ASSUME NEW text \in Seq(Chars), NEW cur \in 0 .. Len(text), NEW entries \in Scans,
           NEW m \in Matching(text, cur, entries)
    PROVE  m[2] \in KnownNames /\ FitsWord(WordBefore(text, cur), m[2])
<1> DEFINE tok == WordBefore(text, cur)
<1>1. tok \in Seq(Chars) /\ Len(tok) \in Nat
  BY WordIs, LenProperties
<1>2. \/ \E i \in Fitting(Builtins, tok) : m = <<i, Builtins[i]>>
      \/ \E i \in Fitting(entries, FilePrefix(tok)) : m = <<i + Len(Builtins), entries[i]>>
  BY DEF Matching
<1> HIDE DEF tok
<1>3. ASSUME NEW i \in Fitting(Builtins, tok), m = <<i, Builtins[i]>>
      PROVE  m[2] \in KnownNames /\ FitsWord(tok, m[2])
  <2> DEFINE b == Builtins[i]
  <2>1. i \in DOMAIN Builtins /\ IsPrefix(tok, b) /\ m[2] = b
    BY <1>3 DEF Fitting
  <2>2. b \in Seq(Chars \ {Slash})
    BY <2>1, LinesAssumption, ElementOfSeq, LenProperties
  <2>3. b \in KnownNames
    BY <2>1 DEF KnownNames, ToSet
  <2> HIDE DEF b
  <2>4. SubSeq(tok, 0 + 1, Len(tok)) = tok
    BY <1>1, SubSeqFull
  <2>5. \A j \in 0 + 1 .. Len(tok) : tok[j] # Slash
    <3> TAKE j \in 0 + 1 .. Len(tok)
    <3>1. Len(b) \in Nat /\ Len(tok) <= Len(b)
      BY <2>1, <2>2, LenProperties DEF IsPrefix
    <3>2. Len(tok) \in 0 .. Len(b) /\ j \in 1 .. Len(tok) /\ j \in 1 .. Len(b)
      BY <1>1, <3>1
    <3>3. SubSeq(b, 1, Len(tok))[j] = b[j]
      BY <2>2, <3>2, BeginningIs
    <3>4. SubSeq(tok, 1, Len(tok)) = tok
      BY <1>1, SubSeqFull
    <3>5. tok[j] = b[j]
      BY <2>1, <3>3, <3>4 DEF IsPrefix
    <3>6. b[j] \in Chars \ {Slash}
      BY <2>2, <3>2, ElementOfSeq
    <3> QED BY <3>5, <3>6
  <2>6. FitsWord(tok, b)
    <3>1. 0 \in 0 .. Len(tok) /\ ~(0 > 0)
      BY <1>1
    <3>2. IsPrefix(SubSeq(tok, 0 + 1, Len(tok)), b)
      BY <2>1, <2>4
    <3> QED BY <2>5, <3>1, <3>2, Zenon DEF FitsWord
  <2> QED BY <2>1, <2>3, <2>6
<1>4. ASSUME NEW i \in Fitting(entries, FilePrefix(tok)), m = <<i + Len(Builtins), entries[i]>>
      PROVE  m[2] \in KnownNames /\ FitsWord(tok, m[2])
  <2>1. i \in DOMAIN entries /\ IsPrefix(FilePrefix(tok), entries[i]) /\ m[2] = entries[i]
    BY <1>4 DEF Fitting
  <2>2. entries[i] \in KnownNames
    BY <2>1 DEF KnownNames, ToSet
  <2>3. /\ LastAt(tok, Slash) \in 0 .. Len(tok)
        /\ LastAt(tok, Slash) > 0 => tok[LastAt(tok, Slash)] = Slash
        /\ \A j \in LastAt(tok, Slash) + 1 .. Len(tok) : tok[j] # Slash
    BY <1>1, LastAtIs
  <2>4. FitsWord(tok, entries[i])
    BY <2>1, <2>3 DEF FitsWord, FilePrefix
  <2> QED BY <2>1, <2>2, <2>4
<1> QED BY <1>2, <1>3, <1>4 DEF tok

\* The word stays, becomes a known name that fits it and a blank, or a
\* longer part of such a name.
Replacement(tok, new) ==
    \/ new = tok
    \/ \E k \in KnownNames : FitsWord(tok, k) /\ new = Append(k, Blank)
    \/ \E k \in KnownNames : \E m \in 0 .. Len(k) :
          FitsWord(tok, k) /\ m > Len(tok) /\ new = SubSeq(k, 1, m)

CompletedWith(r, text, cur, new) ==
    LET tok == WordBefore(text, cur)
        start == cur - Len(tok)
    IN  /\ Replacement(tok, new)
        /\ r.text = SubSeq(text, 1, start) \o new \o SubSeq(text, cur + 1, Len(text))
        /\ r.cursor = start + Len(new)
        /\ r.printed \in BOOLEAN

LEMMA CompletedIs ==
    ASSUME NEW text \in Seq(Chars), NEW cur \in 0 .. Len(text), NEW entries \in Scans
    PROVE  \E new \in Seq(Chars) : CompletedWith(Completed(text, cur, entries), text, cur, new)
<1> DEFINE r == Completed(text, cur, entries)
           tok == WordBefore(text, cur)
           start == cur - Len(tok)
           matches == Matching(text, cur, entries)
           names == { m[2] : m \in matches }
           common == LongestCommonPrefix(names)
           With(new, printed) ==
               [text |-> SubSeq(text, 1, start) \o new \o SubSeq(text, cur + 1, Len(text)),
                cursor |-> start + Len(new), printed |-> printed]
           Good(new) == CompletedWith(r, text, cur, new)
<1>1. r = IF matches = {} THEN With(tok, FALSE)
          ELSE IF \E m \in matches : matches = {m}
          THEN With(Append(CHOOSE n \in names : TRUE, Blank), FALSE)
          ELSE With(IF Len(common) > Len(tok) THEN common ELSE tok, TRUE)
  BY DEF Completed
<1>2. tok \in Seq(Chars)
  BY WordIs
<1>3. \A k \in names : k \in KnownNames /\ k \in Seq(Chars) /\ FitsWord(tok, k)
  BY MatchFits, NamesType
<1> HIDE DEF r
<1>4. ASSUME NEW new, NEW printed \in BOOLEAN, r = With(new, printed), Replacement(tok, new)
      PROVE  Good(new)
  <2>1. /\ r.text = SubSeq(text, 1, start) \o new \o SubSeq(text, cur + 1, Len(text))
        /\ r.cursor = start + Len(new) /\ r.printed \in BOOLEAN
    BY <1>4
  <2> QED BY <1>4, <2>1 DEF CompletedWith
<1>5. matches # {} => names # {}
  OBVIOUS
<1> SUFFICES \E new \in Seq(Chars) : Good(new)
  BY DEF r
<1> HIDE DEF tok, start, matches, names, common, With, Good
<1>6. CASE r = With(tok, FALSE) \/ r = With(tok, TRUE)
  BY <1>2, <1>4, <1>6 DEF Replacement
<1>7. CASE names # {} /\ r = With(Append(CHOOSE n \in names : TRUE, Blank), FALSE)
  <2> DEFINE k == CHOOSE n \in names : TRUE
  <2>1. k \in names
    BY <1>7
  <2> HIDE DEF k
  <2>2. Append(k, Blank) \in Seq(Chars)
    BY <1>3, <2>1, CharsAssumption, AppendProperties
  <2>3. Replacement(tok, Append(k, Blank))
    BY <1>3, <2>1 DEF Replacement
  <2> QED BY <1>4, <1>7, <2>2, <2>3 DEF k
<1>8. CASE names # {} /\ Len(common) > Len(tok) /\ r = With(common, TRUE)
  <2>1. PICK k \in names : \E m \in 0 .. Len(k) : common = SubSeq(k, 1, m)
    BY <1>3, <1>8, CommonIsPrefix DEF common
  <2>2. PICK m \in 0 .. Len(k) : common = SubSeq(k, 1, m)
    BY <2>1
  <2>3. common \in Seq(Chars) /\ Len(common) = m
    BY <1>3, <2>2, BeginningIs
  <2>4. Replacement(tok, common)
    BY <1>3, <1>8, <2>2, <2>3 DEF Replacement
  <2> QED BY <1>4, <1>8, <2>3, <2>4
<1> QED BY <1>1, <1>5, <1>6, <1>7, <1>8

-----------------------------------------------------------------------------
(* Line and screen                                                         *)

ScreenInv == \E m : Shows(term, m, Text, cursor)

LEMMA ScreenIsShown == LineOK /\ ScreenInv => ScreenShowsLine
<1> SUFFICES ASSUME LineOK, NEW m, Shows(term, m, Text, cursor) PROVE ScreenShowsLine
  BY DEF ScreenInv
<1>1. Len(Text) = lineLen
  BY TextType
<1>2. Behind(m) = Beyond(term, m + lineLen)
  BY DEF Behind, Beyond, Shown
<1> QED BY <1>1, <1>2 DEF Shows, ScreenShowsLine

LEMMA ReplaceKeeps ==
    ASSUME LineOK, NEW text \in Seq(Chars), Len(text) <= LineMax - 1, NEW at \in 0 .. Len(text),
           NEW t, NEW m, Shows(Back(Put(t, text), Len(text) - at), m, text, at),
           Replace(text, at, t)
    PROVE  LineOK' /\ ScreenInv' /\ Text' = text
<1>1. Len(text) \in 0 .. LineMax - 1
  BY LenProperties, LineMaxAssumption
<1>2. LineOK'
  BY <1>1, OverwrittenIs DEF Replace, LineOK
<1>3. Text' = text
  <2>1. Text' = [i \in 1 .. Len(text) |-> Overwritten(text)[i - 1]]
    BY DEF Text, Replace
  <2> QED BY <2>1, OverwrittenIs
<1>4. ScreenInv'
  BY <1>3 DEF ScreenInv, Replace, Shows, Beyond
<1> QED BY <1>2, <1>3, <1>4

\* What recall and completion make of a text too long for the buffer.
LEMMA CutToBuffer ==
    ASSUME NEW S, NEW s \in Seq(S)
    PROVE  LET text == SubSeq(s, 1, Min({Len(s), LineMax - 1}))
           IN  /\ text \in Seq(S)
               /\ Len(text) = IF Len(s) <= LineMax - 1 THEN Len(s) ELSE LineMax - 1
               /\ Len(text) <= LineMax - 1
<1>1. Len(s) \in Nat /\ LineMax - 1 \in Nat
  BY LenProperties, LineMaxAssumption
<1>2. Min({Len(s), LineMax - 1}) = IF Len(s) <= LineMax - 1 THEN Len(s) ELSE LineMax - 1
  BY <1>1, MinOfTwo
<1>3. Min({Len(s), LineMax - 1}) \in 0 .. Len(s) /\ Min({Len(s), LineMax - 1}) <= LineMax - 1
  BY <1>1, <1>2
<1> DEFINE n == Min({Len(s), LineMax - 1})
<1> HIDE DEF n
<1>4. SubSeq(s, 1, n) \in Seq(S) /\ Len(SubSeq(s, 1, n)) = n
  BY <1>3, BeginningIs DEF n
<1> QED BY <1>2, <1>3, <1>4 DEF n

\* Recalled lines, and completions that print no list.
LEMMA RedrawKeeps ==
    ASSUME LineOK, ScreenInv, NEW text \in Seq(Chars), Len(text) <= LineMax - 1,
           NEW at \in 0 .. Len(text), Replace(text, at, ClearLine(term))
    PROVE  LineOK' /\ ScreenInv' /\ Text' = text
<1>1. PICK m : Shows(term, m, Text, cursor)
  BY DEF ScreenInv
<1>2. /\ ClearLine(term) \in Terminal /\ ClearLine(term).col = 0
      /\ Cardinality(Beyond(ClearLine(term), 0)) <= Len(Prompt)
  BY <1>1, ClearLeavesPrompt
<1>3. Shows(Back(Put(ClearLine(term), text), Len(text) - at), 0, text, at)
  BY <1>2, PrintAtMargin
<1> QED BY <1>3, ReplaceKeeps

\* An empty row with the prompt on it.
LEMMA PromptShown ==
    ASSUME NEW t \in Terminal, t.col = 0, Beyond(t, 0) = {}
    PROVE  /\ Put(t, Prompt) \in Terminal /\ Put(t, Prompt).col = Len(Prompt)
           /\ Beyond(Put(t, Prompt), Len(Prompt)) = {}
<1>1. Prompt \in Seq(Cell)
  <2>1. Prompt \in [1 .. Len(Prompt) -> ToSet(Prompt)] /\ Len(Prompt) \in Nat
    BY LinesAssumption, LenProperties
  <2>2. Prompt \in [1 .. Len(Prompt) -> Cell]
    BY <2>1 DEF Cell
  <2> QED BY <2>1, <2>2, SeqDef
<1> DEFINE u == Put(t, Prompt)
<1>2. /\ u \in Terminal /\ u.col = 0 + Len(Prompt)
      /\ \A c \in 0 .. Width - 1 :
            u.row[c] = IF 0 <= c /\ c < 0 + Len(Prompt) THEN Prompt[c - 0 + 1] ELSE t.row[c]
  BY <1>1, PutIs
<1> HIDE DEF u
<1>3. \A c \in Len(Prompt) .. Width - 1 : c \in 0 .. Width - 1 /\ u.row[c] = t.row[c]
  BY <1>2, Sizes
<1>4. Beyond(u, Len(Prompt)) = {}
  BY <1>3 DEF Beyond
<1> QED BY <1>2, <1>4, Sizes DEF u

LEMMA FreshIsEmpty ==
    /\ Fresh \in Terminal /\ Fresh.col = 0 /\ Beyond(Fresh, 0) = {}
    /\ \A c \in 0 .. Width - 1 : Fresh.row[c] = Nul
BY DEF Fresh, Terminal, Cell, Beyond

\* Completions that print the list and the prompt again.
LEMMA ReprintKeeps ==
    ASSUME LineOK, NEW text \in Seq(Chars), Len(text) <= LineMax - 1,
           NEW at \in 0 .. Len(text), Replace(text, at, Put(ClearLine(Fresh), Prompt))
    PROVE  LineOK' /\ ScreenInv' /\ Text' = text
<1> DEFINE t == Put(ClearLine(Fresh), Prompt)
           u == Put(t, text)
           v == Back(u, Len(text) - at)
           P == Len(Prompt)
<1>1. /\ P \in Nat /\ LineMax \in Nat /\ Width = P + LineMax
      /\ Len(text) \in Nat /\ lineLen \in Nat
  BY Sizes, LenProperties DEF LineOK
<1>2. /\ ClearLine(Fresh) \in Terminal /\ ClearLine(Fresh).col = 0
      /\ \A c \in 0 .. Width - 1 :
            ClearLine(Fresh).row[c] = IF c < lineLen THEN Blank ELSE Fresh.row[c]
  BY <1>1, FreshIsEmpty, ClearIs
<1>3. Beyond(ClearLine(Fresh), 0) = {}
  BY <1>2, FreshIsEmpty DEF Beyond
<1>4. t \in Terminal /\ t.col = P /\ Beyond(t, P) = {}
  BY <1>2, <1>3, PromptShown
<1> HIDE DEF t
<1>5. /\ u \in Terminal /\ u.col = P + Len(text)
      /\ \A c \in 0 .. Width - 1 :
            u.row[c] = IF P <= c /\ c < P + Len(text) THEN text[c - P + 1] ELSE t.row[c]
  <2>1. text \in Seq(Cell)
    BY CharsAreCells
  <2> QED BY <1>4, <2>1, PutIs
<1> HIDE DEF u
<1>6. v \in Terminal /\ v.col = P + at /\ v.row = u.row
  <2>1. Len(text) - at \in Nat /\ Len(text) - at <= u.col
    BY <1>1, <1>5
  <2>2. v \in Terminal /\ v.col = u.col - (Len(text) - at) /\ v.row = u.row
    BY <1>5, <2>1, BackIs
  <2> HIDE DEF v
  <2> QED BY <1>1, <1>5, <2>2
<1> HIDE DEF v
<1>7. ASSUME NEW i \in 1 .. Len(text) PROVE v.row[P + i - 1] = text[i]
  <2>1. /\ P + i - 1 \in 0 .. Width - 1 /\ P <= P + i - 1 /\ P + i - 1 < P + Len(text)
        /\ (P + i - 1) - P + 1 = i
    BY <1>1
  <2> QED BY <1>5, <1>6, <2>1
<1>8. Beyond(v, P + Len(text)) = {}
  <2>1. ASSUME NEW c \in P + Len(text) .. Width - 1 PROVE c \in P .. Width - 1 /\ v.row[c] = t.row[c]
    <3>1. c \in 0 .. Width - 1 /\ ~(c < P + Len(text)) /\ c \in P .. Width - 1
      BY <1>1
    <3> QED BY <1>5, <1>6, <3>1
  <2> QED BY <1>4, <2>1 DEF Beyond
<1>9. Cardinality(Beyond(v, P + Len(text))) = 0
  BY <1>8, FS_EmptySet
<1>10. Shows(v, P, text, at)
  BY <1>1, <1>6, <1>7, <1>9 DEF Shows
<1> QED BY <1>10, ReplaceKeeps DEF v, u, t

\* A line of length 0, whatever is in its buffer.
LEMMA EmptyLine ==
    ASSUME NEW a \in [0 .. LineMax - 1 -> Chars \cup {Nul}]
    PROVE  /\ 0 \in 0 .. LineMax - 1 /\ 0 \in 0 .. 0
           /\ \A i \in 0 .. 0 - 1 : a[i] \in Chars
           /\ [i \in 1 .. 0 |-> a[i - 1]] = <<>>
<1>1. LineMax \in Nat /\ LineMax > 1
  BY LineMaxAssumption
<1>2. [i \in 1 .. 0 |-> a[i - 1]] = <<>>
  <2> DEFINE s == [i \in 1 .. 0 |-> a[i - 1]]
  <2>1. s \in Seq({}) /\ Len(s) = 0
    BY LenProperties, SeqDef
  <2> QED BY <2>1, EmptySeq
<1> QED BY <1>1, <1>2

LEMMA InitLine == Init => LineOK /\ ScreenInv
<1> SUFFICES ASSUME Init PROVE LineOK /\ ScreenInv
  OBVIOUS
<1>1. <<>> \in Seq(Chars) /\ Len(<<>>) = 0
  BY EmptySeq
<1>2. LineOK
  <2>1. line \in [0 .. LineMax - 1 -> Chars \cup {Nul}]
    BY DEF Init
  <2> QED BY <2>1, EmptyLine DEF Init, LineOK
<1>3. Len(Text) = 0
  BY <1>2, TextType DEF Init
<1>4. Shows(Put(Fresh, Prompt), Len(Prompt), Text, 0)
  <2>1. Cardinality(Beyond(Put(Fresh, Prompt), Len(Prompt))) = 0
    BY FreshIsEmpty, PromptShown, FS_EmptySet
  <2> QED BY <1>3, <2>1, FreshIsEmpty, PromptShown, Sizes DEF Shows
<1> QED BY <1>2, <1>4 DEF Init, ScreenInv

LEMMA HandOverKeeps ==
    ASSUME LineOK, HandOver
    PROVE  LineOK' /\ ScreenInv' /\ Text' = <<>>
<1>1. <<>> \in Seq(Chars) /\ Len(<<>>) = 0
  BY EmptySeq
<1>2. line' \in [0 .. LineMax - 1 -> Chars \cup {Nul}]
  BY DEF HandOver, LineOK
<1>3. LineOK' /\ Text' = <<>>
  BY <1>2, EmptyLine DEF HandOver, LineOK, Text
<1>4. Shows(Put(Fresh, Prompt), Len(Prompt), <<>>, 0)
  <2>1. Cardinality(Beyond(Put(Fresh, Prompt), Len(Prompt))) = 0
    BY FreshIsEmpty, PromptShown, FS_EmptySet
  <2> QED BY <1>1, <2>1, FreshIsEmpty, PromptShown, Sizes DEF Shows
<1>5. ScreenInv'
  BY <1>3, <1>4 DEF ScreenInv, HandOver, Shows, Beyond
<1> QED BY <1>3, <1>5

\* A step that moves only the cursor, here and on the screen.
LEMMA MoveKeeps ==
    ASSUME LineOK, NEW m, Shows(term, m, Text, cursor), UNCHANGED <<line, lineLen>>,
           cursor' \in 0 .. lineLen, term' \in Terminal,
           term'.row = term.row, term'.col = m + cursor'
    PROVE  LineOK' /\ ScreenInv' /\ Text' = Text
<1>1. LineOK' /\ Text' = Text
  BY DEF LineOK, Text
<1>2. Shows(term, m, Text, cursor)' <=> Shows(term', m, Text, cursor')
  BY <1>1 DEF Shows, Beyond
<1>3. Beyond(term', m + Len(Text)) = Beyond(term, m + Len(Text))
  BY DEF Beyond
<1>4. Shows(term', m, Text, cursor')
  BY <1>3 DEF Shows
<1> QED BY <1>1, <1>2, <1>4 DEF ScreenInv

LEMMA LeftKeeps ==
    ASSUME LineOK, ScreenInv, Left
    PROVE  /\ LineOK' /\ ScreenInv' /\ Text' = Text
           /\ cursor' = IF cursor = 0 THEN 0 ELSE cursor - 1
<1>1. PICK m : Shows(term, m, Text, cursor)
  BY DEF ScreenInv
<1>2. /\ cursor \in Nat /\ lineLen \in Nat /\ cursor <= lineLen /\ m \in Nat
      /\ term \in Terminal /\ term.col = m + cursor
  BY <1>1, Sizes DEF LineOK, Shows
<1>3. cursor' = IF cursor = 0 THEN 0 ELSE cursor - 1
  <2>1. Max({cursor - 1, 0}) = IF cursor - 1 >= 0 THEN cursor - 1 ELSE 0
    BY <1>2, MaxOfTwo
  <2> QED BY <1>2, <2>1 DEF Left
<1>4. cursor - cursor' \in Nat /\ cursor - cursor' <= term.col /\ cursor' \in 0 .. lineLen
  BY <1>2, <1>3
<1>5. term' \in Terminal /\ term'.col = term.col - (cursor - cursor') /\ term'.row = term.row
  BY <1>2, <1>4, BackIs DEF Left
<1>6. term'.col = m + cursor'
  BY <1>2, <1>3, <1>5
<1>7. UNCHANGED <<line, lineLen>>
  BY DEF Left
<1> QED BY <1>1, <1>3, <1>4, <1>5, <1>6, <1>7, MoveKeeps

LEMMA RightKeeps ==
    ASSUME LineOK, ScreenInv, Right
    PROVE  /\ LineOK' /\ ScreenInv' /\ Text' = Text
           /\ cursor' = IF cursor = lineLen THEN cursor ELSE cursor + 1
<1>1. PICK m : Shows(term, m, Text, cursor)
  BY DEF ScreenInv
<1>2. /\ cursor \in Nat /\ lineLen \in Nat /\ cursor <= lineLen /\ m \in Nat
      /\ term \in Terminal /\ term.col = m + cursor
  BY <1>1, Sizes DEF LineOK, Shows
<1>3. cursor' = IF cursor = lineLen THEN cursor ELSE cursor + 1
  <2>1. Min({cursor + 1, lineLen}) = IF cursor + 1 <= lineLen THEN cursor + 1 ELSE lineLen
    BY <1>2, MinOfTwo
  <2> QED BY <1>2, <2>1 DEF Right
<1>4. cursor' - cursor \in Nat /\ cursor' \in 0 .. lineLen
  BY <1>2, <1>3
<1>5. term' \in Terminal /\ term'.col = term.col + (cursor' - cursor) /\ term'.row = term.row
  <2>1. term.col \in Nat /\ term.row \in [0 .. Width - 1 -> Cell]
    BY <1>2 DEF Terminal
  <2>2. term' = [term EXCEPT !.col = term.col + (cursor' - cursor)]
    BY DEF Right
  <2>3. term.col + (cursor' - cursor) \in Nat
    BY <1>4, <2>1
  <2> QED BY <1>2, <2>1, <2>2, <2>3 DEF Terminal
<1>6. term'.col = m + cursor'
  BY <1>2, <1>3, <1>5
<1>7. UNCHANGED <<line, lineLen>>
  BY DEF Right
<1> QED BY <1>1, <1>3, <1>4, <1>5, <1>6, <1>7, MoveKeeps

\* The text behind the cursor, as Type and Backspace print it again.
LEMMA RestIs ==
    ASSUME LineOK
    PROVE  LET rem == SubSeq(Text, cursor + 1, lineLen)
           IN  /\ rem \in Seq(Chars) /\ Len(rem) = lineLen - cursor
               /\ \A i \in 1 .. lineLen - cursor : rem[i] = Text[cursor + i]
<1>1. Text \in Seq(Chars) /\ Len(Text) = lineLen /\ cursor \in 0 .. Len(Text)
  BY TextType DEF LineOK
<1> QED BY <1>1, EndIs

TypedText(c) == [i \in 1 .. lineLen + 1 |->
                    IF i <= cursor THEN Text[i] ELSE IF i = cursor + 1 THEN c ELSE Text[i - 1]]

LEMMA TypeKeepsLine ==
    ASSUME LineOK, Type, lineLen < LineMax - 1
    PROVE  LineOK' /\ Text' = TypedText(rx[1]) /\ lineLen' = lineLen + 1 /\ cursor' = cursor + 1
<1>1. /\ lineLen \in Nat /\ LineMax \in Nat /\ cursor \in Nat /\ cursor <= lineLen
      /\ Nul \notin Chars /\ rx[1] \in Chars
      /\ line \in [0 .. LineMax - 1 -> Chars \cup {Nul}]
  BY LineMaxAssumption, CharsAssumption DEF LineOK, Type
<1>2. /\ line' = [i \in DOMAIN line |->
                     IF i = cursor THEN rx[1]
                     ELSE IF i \in cursor + 1 .. lineLen THEN line[i - 1] ELSE line[i]]
      /\ lineLen' = lineLen + 1 /\ cursor' = cursor + 1
  BY <1>1 DEF Type
<1>3. \A i \in 0 .. lineLen - 1 : line[i] \in Chars
  BY DEF LineOK
<1>4. ASSUME NEW i \in 0 .. LineMax - 1
      PROVE  /\ line'[i] \in Chars \cup {Nul}
             /\ i < lineLen + 1 => line'[i] \in Chars
             /\ line'[i] = IF i < cursor THEN line[i] ELSE IF i = cursor THEN rx[1]
                           ELSE IF i <= lineLen THEN line[i - 1] ELSE line[i]
  <2>1. CASE i = cursor
    BY <1>1, <1>2, <2>1
  <2>2. CASE i # cursor /\ i \in cursor + 1 .. lineLen
    <3>1. i - 1 \in 0 .. lineLen - 1 /\ ~(i < cursor) /\ i <= lineLen
      BY <1>1, <2>2
    <3>2. line'[i] = line[i - 1]
      BY <1>1, <1>2, <2>2
    <3> QED BY <1>1, <1>3, <2>2, <3>1, <3>2
  <2>3. CASE i # cursor /\ i \notin cursor + 1 .. lineLen
    <3>1. i < cursor \/ i > lineLen
      BY <1>1, <2>3
    <3>2. line'[i] = line[i]
      BY <1>1, <1>2, <2>3
    <3> QED BY <1>1, <1>3, <2>3, <3>1, <3>2
  <2> QED BY <2>1, <2>2, <2>3
<1>5. line' \in [0 .. LineMax - 1 -> Chars \cup {Nul}]
  BY <1>1, <1>2, <1>4
<1>6. LineOK'
  BY <1>1, <1>2, <1>4, <1>5 DEF LineOK
<1>7. Text' = TypedText(rx[1])
  <2>1. Text' = [i \in 1 .. lineLen + 1 |-> line'[i - 1]]
    BY <1>2 DEF Text
  <2>2. ASSUME NEW i \in 1 .. lineLen + 1
        PROVE  line'[i - 1] = IF i <= cursor THEN Text[i]
                              ELSE IF i = cursor + 1 THEN rx[1] ELSE Text[i - 1]
    <3>1. i - 1 \in 0 .. LineMax - 1
      BY <1>1
    <3>2. \A j \in 1 .. lineLen : Text[j] = line[j - 1]
      BY DEF Text
    <3>3. line'[i - 1] = IF i - 1 < cursor THEN line[i - 1] ELSE IF i - 1 = cursor THEN rx[1]
                         ELSE IF i - 1 <= lineLen THEN line[(i - 1) - 1] ELSE line[i - 1]
      BY <1>4, <3>1
    <3> QED BY <1>1, <3>2, <3>3
  <2> QED BY <2>1, <2>2 DEF TypedText
<1> QED BY <1>2, <1>6, <1>7

\* Printing s, the end of the text w and perhaps blanks, behind its first k
\* characters.
LEMMA PrintEnd ==
    ASSUME NEW t \in Terminal, NEW m \in {0, Len(Prompt)}, NEW k \in Nat, t.col = m + k,
           NEW s \in Seq(Chars), k + Len(s) <= LineMax,
           NEW w \in Seq(Chars), k <= Len(w), Len(w) <= k + Len(s),
           \A i \in 1 .. k : t.row[m + i - 1] = w[i],
           \A i \in k + 1 .. Len(w) : s[i - k] = w[i],
           \A i \in Len(w) + 1 .. k + Len(s) : s[i - k] = Blank,
           NEW n \in Int, n <= m + k + Len(s),
           Cardinality(Beyond(t, n)) <= IF m = 0 THEN Len(Prompt) ELSE 0,
           NEW at \in Nat, at <= k + Len(s)
    PROVE  Shows(Back(Put(t, s), k + Len(s) - at), m, w, at)
<1> DEFINE u == Put(t, s)
           v == Back(u, k + Len(s) - at)
<1>1. /\ Len(s) \in Nat /\ Len(w) \in Nat /\ Len(Prompt) \in Nat /\ m \in Nat
      /\ LineMax \in Nat /\ Width = Len(Prompt) + LineMax /\ m <= Len(Prompt)
  BY LenProperties, Sizes
<1>2. /\ u \in Terminal /\ u.col = m + k + Len(s)
      /\ \A c \in 0 .. Width - 1 :
            u.row[c] = IF m + k <= c /\ c < m + k + Len(s) THEN s[c - (m + k) + 1] ELSE t.row[c]
  <2>1. s \in Seq(Cell)
    BY CharsAreCells
  <2>2. /\ u \in Terminal /\ u.col = t.col + Len(s)
        /\ \A c \in 0 .. Width - 1 :
              u.row[c] = IF t.col <= c /\ c < t.col + Len(s) THEN s[c - t.col + 1] ELSE t.row[c]
    BY <2>1, PutIs
  <2> HIDE DEF u
  <2> QED BY <1>1, <2>2
<1> HIDE DEF u
<1>3. v \in Terminal /\ v.col = m + at /\ v.row = u.row
  <2>1. k + Len(s) - at \in Nat /\ k + Len(s) - at <= u.col
    BY <1>1, <1>2
  <2>2. v \in Terminal /\ v.col = u.col - (k + Len(s) - at) /\ v.row = u.row
    BY <1>2, <2>1, BackIs
  <2> HIDE DEF v
  <2> QED BY <1>1, <1>2, <2>2
<1> HIDE DEF v
<1>4. ASSUME NEW i \in 1 .. Len(w) PROVE v.row[m + i - 1] = w[i]
  <2>1. m + i - 1 \in 0 .. Width - 1
    BY <1>1
  <2>2. CASE i <= k
    <3>1. ~(m + k <= m + i - 1) /\ i \in 1 .. k
      BY <1>1, <2>2
    <3>2. u.row[m + i - 1] = t.row[m + i - 1]
      BY <1>2, <2>1, <3>1
    <3>3. t.row[m + i - 1] = w[i]
      BY <3>1
    <3> QED BY <1>3, <3>2, <3>3
  <2>3. CASE i > k
    <3>1. /\ m + k <= m + i - 1 /\ m + i - 1 < m + k + Len(s)
          /\ (m + i - 1) - (m + k) + 1 = i - k /\ i \in k + 1 .. Len(w)
      <4>1. i \in Nat /\ i <= Len(w)
        BY <1>1
      <4> QED BY <1>1, <2>3, <4>1, SMTT(30)
    <3>2. u.row[m + i - 1] = s[(m + i - 1) - (m + k) + 1]
      BY <1>2, <2>1, <3>1
    <3> QED BY <1>3, <3>1, <3>2
  <2> QED BY <1>1, <2>2, <2>3
<1>5. Beyond(v, m + Len(w)) \subseteq Beyond(t, n)
  <2> SUFFICES ASSUME NEW c \in m + Len(w) .. Width - 1, v.row[c] \notin {Nul, Blank}
               PROVE  c \in n .. Width - 1 /\ t.row[c] \notin {Nul, Blank}
    BY DEF Beyond
  <2>1. c \in 0 .. Width - 1 /\ m + k <= c
    BY <1>1
  <2>2. ~(c < m + k + Len(s))
    <3> SUFFICES ASSUME c < m + k + Len(s) PROVE FALSE
      OBVIOUS
    <3>1. /\ c - m + 1 \in Len(w) + 1 .. k + Len(s)
          /\ c - (m + k) + 1 = (c - m + 1) - k
      BY <1>1
    <3>2. u.row[c] = s[c - (m + k) + 1]
      BY <1>2, <2>1
    <3> QED BY <1>3, <3>1, <3>2
  <2>3. v.row[c] = t.row[c]
    BY <1>2, <1>3, <2>1, <2>2
  <2> QED BY <1>1, <2>2, <2>3
<1>6. Cardinality(Beyond(v, m + Len(w))) <= IF m = 0 THEN Len(Prompt) ELSE 0
  <2>1. IsFiniteSet(Beyond(t, n)) /\ Cardinality(Beyond(t, n)) \in Nat
    BY BeyondFinite
  <2>2. Cardinality(Beyond(v, m + Len(w))) <= Cardinality(Beyond(t, n))
    BY <1>5, <2>1, BeyondFewer
  <2>3. Cardinality(Beyond(v, m + Len(w))) \in Nat
    BY <1>1, BeyondFinite
  <2> QED BY <1>1, <2>1, <2>2, <2>3
<1> QED BY <1>3, <1>4, <1>6 DEF Shows, v, u

\* One element before a sequence.
LEMMA HeadedBy ==
    ASSUME NEW S, NEW x \in S, NEW s \in Seq(S)
    PROVE  /\ <<x>> \o s \in Seq(S)
           /\ Len(<<x>> \o s) = 1 + Len(s)
           /\ (<<x>> \o s)[1] = x
           /\ \A i \in 2 .. 1 + Len(s) : (<<x>> \o s)[i] = s[i - 1]
<1>1. Len(s) \in Nat
  BY LenProperties
<1> DEFINE one == <<x>>
<1>2. one \in Seq(S) /\ Len(one) = 1 /\ one[1] = x
  OBVIOUS
<1> HIDE DEF one
<1> DEFINE v == one \o s
<1>3. /\ v \in Seq(S) /\ Len(v) = Len(one) + Len(s)
      /\ \A i \in 1 .. Len(one) + Len(s) :
            v[i] = IF i <= Len(one) THEN one[i] ELSE s[i - Len(one)]
  BY <1>2, ConcatProperties
<1> HIDE DEF v
<1>4. v \in Seq(S) /\ Len(v) = 1 + Len(s) /\ v[1] = x
  BY <1>1, <1>2, <1>3
<1>5. \A i \in 2 .. 1 + Len(s) : v[i] = s[i - 1]
  BY <1>1, <1>2, <1>3
<1> QED BY <1>4, <1>5 DEF v, one

LEMMA TypeKeeps ==
    ASSUME LineOK, ScreenInv, Type, lineLen < LineMax - 1
    PROVE  LineOK' /\ ScreenInv'
<1>1. PICK m : Shows(term, m, Text, cursor)
  BY DEF ScreenInv
<1>2. LineOK' /\ Text' = TypedText(rx[1]) /\ lineLen' = lineLen + 1 /\ cursor' = cursor + 1
  BY TypeKeepsLine
<1> DEFINE rem == SubSeq(Text, cursor + 1, lineLen)
           s == <<rx[1]>> \o rem
           w == TypedText(rx[1])
<1>3. /\ cursor \in Nat /\ lineLen \in Nat /\ cursor <= lineLen
      /\ LineMax \in Nat /\ m \in Nat /\ Len(Prompt) \in Nat /\ rx[1] \in Chars
  BY <1>1, Sizes DEF LineOK, Shows, Type
<1>4. /\ Text \in Seq(Chars) /\ Len(Text) = lineLen
      /\ \A i \in 1 .. lineLen : Text[i] \in Chars
  BY TextType
<1>5. /\ s \in Seq(Chars) /\ Len(s) = lineLen - cursor + 1 /\ s[1] = rx[1]
      /\ \A i \in 2 .. lineLen - cursor + 1 : s[i] = Text[cursor + i - 1]
  <2>1. /\ rem \in Seq(Chars) /\ Len(rem) = lineLen - cursor
        /\ \A i \in 1 .. lineLen - cursor : rem[i] = Text[cursor + i]
    BY RestIs
  <2> HIDE DEF rem
  <2>2. /\ s \in Seq(Chars) /\ Len(s) = 1 + Len(rem) /\ s[1] = rx[1]
        /\ \A i \in 2 .. 1 + Len(rem) : s[i] = rem[i - 1]
    BY <1>3, <2>1, HeadedBy
  <2> HIDE DEF s
  <2>3. \A i \in 2 .. lineLen - cursor + 1 : s[i] = Text[cursor + i - 1]
    <3> TAKE i \in 2 .. lineLen - cursor + 1
    <3>1. /\ i \in 2 .. 1 + Len(rem) /\ i - 1 \in 1 .. lineLen - cursor
          /\ cursor + (i - 1) = cursor + i - 1
      BY <1>3, <2>1
    <3> QED BY <2>1, <2>2, <3>1
  <2> QED BY <1>3, <2>1, <2>2, <2>3
<1>6. /\ w \in Seq(Chars) /\ Len(w) = lineLen + 1
      /\ \A i \in 1 .. lineLen + 1 :
            w[i] = IF i <= cursor THEN Text[i] ELSE IF i = cursor + 1 THEN rx[1] ELSE Text[i - 1]
  <2>1. \A i \in 1 .. lineLen + 1 :
           (IF i <= cursor THEN Text[i] ELSE IF i = cursor + 1 THEN rx[1] ELSE Text[i - 1]) \in Chars
    <3> TAKE i \in 1 .. lineLen + 1
    <3>1. (i <= cursor => i \in 1 .. lineLen) /\ (i > cursor /\ i # cursor + 1 => i - 1 \in 1 .. lineLen)
      BY <1>3
    <3> QED BY <1>3, <1>4, <3>1
  <2>2. w \in [1 .. lineLen + 1 -> Chars]
    BY <2>1 DEF TypedText
  <2>3. lineLen + 1 \in Nat
    BY <1>3
  <2>4. w \in Seq(Chars)
    BY <2>2, <2>3, SeqDef
  <2> QED BY <2>2, <2>3, <2>4, LenProperties DEF TypedText
<1> HIDE DEF s, w
<1>7. \A i \in 1 .. cursor : term.row[m + i - 1] = w[i]
  BY <1>1, <1>3, <1>4, <1>6 DEF Shows
<1>8. \A i \in cursor + 1 .. Len(w) : s[i - cursor] = w[i]
  <2> TAKE i \in cursor + 1 .. Len(w)
  <2>1. i \in 1 .. lineLen + 1 /\ ~(i <= cursor)
    BY <1>3, <1>6
  <2>2. CASE i = cursor + 1
    <3>1. i - cursor = 1
      BY <1>3, <2>2
    <3> QED BY <1>5, <1>6, <2>1, <2>2, <3>1
  <2>3. CASE i # cursor + 1
    <3>1. i - cursor \in 2 .. lineLen - cursor + 1 /\ cursor + (i - cursor) - 1 = i - 1
      BY <1>3, <2>1, <2>3
    <3> QED BY <1>5, <1>6, <2>1, <2>3, <3>1
  <2> QED BY <2>2, <2>3
<1>9. /\ cursor + Len(s) <= LineMax /\ cursor <= Len(w) /\ Len(w) = cursor + Len(s)
      /\ m + lineLen \in Int /\ m + lineLen <= m + cursor + Len(s)
      /\ cursor + 1 \in Nat /\ cursor + 1 <= cursor + Len(s)
  BY <1>3, <1>5, <1>6
<1>10. \A i \in Len(w) + 1 .. cursor + Len(s) : s[i - cursor] = Blank
  BY <1>3, <1>5, <1>6
<1>11. Shows(Back(Put(term, s), cursor + Len(s) - (cursor + 1)), m, w, cursor + 1)
  <2>1. /\ term \in Terminal /\ m \in {0, Len(Prompt)} /\ term.col = m + cursor
        /\ Cardinality(Beyond(term, m + lineLen)) <= IF m = 0 THEN Len(Prompt) ELSE 0
    BY <1>1, <1>4 DEF Shows
  <2> DEFINE n == m + lineLen
             at == cursor + 1
  <2>2. n \in Int /\ n <= m + cursor + Len(s) /\ at \in Nat /\ at <= cursor + Len(s)
    BY <1>9
  <2>3. Cardinality(Beyond(term, n)) <= IF m = 0 THEN Len(Prompt) ELSE 0
    BY <2>1
  <2>4. s \in Seq(Chars) /\ w \in Seq(Chars) /\ cursor \in Nat
    BY <1>3, <1>5, <1>6
  <2>5. cursor + Len(s) <= LineMax /\ cursor <= Len(w) /\ Len(w) <= cursor + Len(s)
    BY <1>3, <1>5, <1>9
  <2> HIDE DEF n, at
  <2>6. Shows(Back(Put(term, s), cursor + Len(s) - at), m, w, at)
    BY <1>7, <1>8, <1>10, <2>1, <2>2, <2>3, <2>4, <2>5, PrintEnd
  <2> QED BY <2>6 DEF at
<1>12. term' = Back(Put(term, s), cursor + Len(s) - (cursor + 1))
  <2>1. lineLen' - cursor' = cursor + Len(s) - (cursor + 1)
    BY <1>2, <1>3, <1>5
  <2>2. ~(lineLen >= LineMax - 1)
    BY <1>3
  <2>3. term' = Back(Put(term, s), lineLen' - cursor')
    BY <2>2 DEF Type, s
  <2> QED BY <2>1, <2>3
<1>13. Shows(term', m, Text', cursor')
  BY <1>2, <1>11, <1>12 DEF w
<1>14. ScreenInv'
  BY <1>13 DEF ScreenInv, Shows, Beyond
<1> QED BY <1>2, <1>14

ErasedText == [i \in 1 .. lineLen - 1 |-> IF i < cursor THEN Text[i] ELSE Text[i + 1]]

LEMMA BackspaceKeepsLine ==
    ASSUME LineOK, Backspace, cursor > 0
    PROVE  LineOK' /\ Text' = ErasedText /\ lineLen' = lineLen - 1 /\ cursor' = cursor - 1
<1>1. /\ lineLen \in Nat /\ LineMax \in Nat /\ cursor \in Nat /\ cursor <= lineLen
      /\ lineLen <= LineMax - 1 /\ cursor > 0 /\ Nul \notin Chars
      /\ line \in [0 .. LineMax - 1 -> Chars \cup {Nul}]
  BY LineMaxAssumption, CharsAssumption DEF LineOK
<1>2. /\ line' = [i \in DOMAIN line |->
                     IF i \in cursor - 1 .. lineLen - 1 THEN line[i + 1] ELSE line[i]]
      /\ lineLen' = lineLen - 1 /\ cursor' = cursor - 1
  BY <1>1 DEF Backspace
<1>3. \A i \in 0 .. lineLen - 1 : line[i] \in Chars
  BY DEF LineOK
<1>4. ASSUME NEW i \in 0 .. LineMax - 1
      PROVE  /\ line'[i] \in Chars \cup {Nul}
             /\ i < lineLen - 1 => line'[i] \in Chars
             /\ i < lineLen - 1 => line'[i] = IF i < cursor - 1 THEN line[i] ELSE line[i + 1]
  <2>1. CASE i \in cursor - 1 .. lineLen - 1
    <3>1. i + 1 \in 0 .. LineMax - 1 /\ ~(i < cursor - 1)
      BY <1>1, <2>1
    <3>2. line'[i] = line[i + 1]
      BY <1>1, <1>2, <2>1
    <3> QED BY <1>1, <1>3, <2>1, <3>1, <3>2
  <2>2. CASE i \notin cursor - 1 .. lineLen - 1
    <3>1. i < cursor - 1 \/ i > lineLen - 1
      BY <1>1, <2>2
    <3>2. line'[i] = line[i]
      BY <1>1, <1>2, <2>2
    <3> QED BY <1>1, <1>3, <2>2, <3>1, <3>2
  <2> QED BY <2>1, <2>2
<1>5. line' \in [0 .. LineMax - 1 -> Chars \cup {Nul}]
  BY <1>1, <1>2, <1>4
<1>6. LineOK'
  BY <1>1, <1>2, <1>4, <1>5 DEF LineOK
<1>7. Text' = ErasedText
  <2>1. Text' = [i \in 1 .. lineLen - 1 |-> line'[i - 1]]
    BY <1>2 DEF Text
  <2>2. ASSUME NEW i \in 1 .. lineLen - 1
        PROVE  line'[i - 1] = IF i < cursor THEN Text[i] ELSE Text[i + 1]
    <3>1. i - 1 \in 0 .. LineMax - 1 /\ i - 1 < lineLen - 1 /\ (i - 1) + 1 = (i + 1) - 1
      BY <1>1
    <3>2. \A j \in 1 .. lineLen : Text[j] = line[j - 1]
      BY DEF Text
    <3>3. line'[i - 1] = IF i - 1 < cursor - 1 THEN line[i - 1] ELSE line[(i - 1) + 1]
      BY <1>4, <3>1
    <3>4. i \in 1 .. lineLen /\ i + 1 \in 1 .. lineLen
      BY <1>1
    <3>5. Text[i] = line[i - 1] /\ Text[i + 1] = line[(i + 1) - 1]
      BY <3>2, <3>4
    <3>6. i - 1 < cursor - 1 <=> i < cursor
      BY <1>1
    <3> QED BY <3>1, <3>3, <3>5, <3>6
  <2> QED BY <2>1, <2>2 DEF ErasedText
<1> QED BY <1>2, <1>6, <1>7

LEMMA BackspaceKeeps ==
    ASSUME LineOK, ScreenInv, Backspace, cursor > 0
    PROVE  LineOK' /\ ScreenInv'
<1>1. PICK m : Shows(term, m, Text, cursor)
  BY DEF ScreenInv
<1>2. LineOK' /\ Text' = ErasedText /\ lineLen' = lineLen - 1 /\ cursor' = cursor - 1
  BY BackspaceKeepsLine
<1> DEFINE rem == SubSeq(Text, cursor + 1, lineLen)
           s == rem \o <<Blank>>
           w == ErasedText
           t == Back(term, 1)
           k == cursor - 1
           n == m + lineLen
<1>3. /\ cursor \in Nat /\ lineLen \in Nat /\ cursor <= lineLen /\ cursor > 0
      /\ lineLen <= LineMax - 1
      /\ LineMax \in Nat /\ m \in Nat /\ Len(Prompt) \in Nat /\ Blank \in Chars
  BY <1>1, Sizes, CharsAssumption DEF LineOK, Shows
<1>4. /\ Text \in Seq(Chars) /\ Len(Text) = lineLen
      /\ \A i \in 1 .. lineLen : Text[i] \in Chars
  BY TextType
<1>5. /\ s \in Seq(Chars) /\ Len(s) = lineLen - cursor + 1
      /\ \A i \in 1 .. lineLen - cursor : s[i] = Text[cursor + i]
      /\ s[lineLen - cursor + 1] = Blank
  <2>1. /\ rem \in Seq(Chars) /\ Len(rem) = lineLen - cursor
        /\ \A i \in 1 .. lineLen - cursor : rem[i] = Text[cursor + i]
    BY RestIs
  <2> HIDE DEF rem
  <2> DEFINE one == <<Blank>>
  <2>2. one \in Seq(Chars) /\ Len(one) = 1 /\ one[1] = Blank
    BY <1>3
  <2> HIDE DEF one
  <2>3. /\ rem \o one \in Seq(Chars) /\ Len(rem \o one) = Len(rem) + Len(one)
        /\ \A i \in 1 .. Len(rem) + Len(one) :
              (rem \o one)[i] = IF i <= Len(rem) THEN rem[i] ELSE one[i - Len(rem)]
    BY <2>1, <2>2, ConcatProperties
  <2> DEFINE v == rem \o one
  <2> HIDE DEF v
  <2>4. \A i \in 1 .. lineLen - cursor : v[i] = Text[cursor + i]
    <3> TAKE i \in 1 .. lineLen - cursor
    <3>1. i \in 1 .. Len(rem) + Len(one) /\ i <= Len(rem)
      BY <1>3, <2>1, <2>2
    <3> QED BY <2>1, <2>3, <3>1 DEF v
  <2>5. v[lineLen - cursor + 1] = Blank
    <3> DEFINE j == lineLen - cursor + 1
    <3>1. j \in 1 .. Len(rem) + Len(one) /\ ~(j <= Len(rem)) /\ j - Len(rem) = 1
      BY <1>3, <2>1, <2>2
    <3> HIDE DEF j
    <3>2. v[j] = one[j - Len(rem)]
      BY <2>3, <3>1 DEF v
    <3> QED BY <2>2, <3>1, <3>2 DEF j
  <2>6. v \in Seq(Chars) /\ Len(v) = lineLen - cursor + 1
    BY <2>1, <2>2, <2>3 DEF v
  <2> QED BY <2>4, <2>5, <2>6 DEF v, one
<1>6. /\ w \in Seq(Chars) /\ Len(w) = lineLen - 1
      /\ \A i \in 1 .. lineLen - 1 : w[i] = IF i < cursor THEN Text[i] ELSE Text[i + 1]
  <2>1. \A i \in 1 .. lineLen - 1 : (IF i < cursor THEN Text[i] ELSE Text[i + 1]) \in Chars
    <3> TAKE i \in 1 .. lineLen - 1
    <3>1. i \in 1 .. lineLen /\ i + 1 \in 1 .. lineLen
      BY <1>3
    <3> QED BY <1>4, <3>1
  <2>2. w \in [1 .. lineLen - 1 -> Chars]
    BY <2>1 DEF ErasedText
  <2>3. lineLen - 1 \in Nat
    BY <1>3
  <2>4. w \in Seq(Chars)
    BY <2>2, <2>3, SeqDef
  <2> QED BY <2>2, <2>3, <2>4, LenProperties DEF ErasedText
<1>7. /\ t \in Terminal /\ t.col = m + k /\ t.row = term.row
      /\ m \in {0, Len(Prompt)}
      /\ Cardinality(Beyond(t, n)) <= IF m = 0 THEN Len(Prompt) ELSE 0
      /\ \A i \in 1 .. lineLen : term.row[m + i - 1] = Text[i]
  <2>1. /\ term \in Terminal /\ m \in {0, Len(Prompt)} /\ term.col = m + cursor
        /\ Cardinality(Beyond(term, n)) <= IF m = 0 THEN Len(Prompt) ELSE 0
        /\ \A i \in 1 .. lineLen : term.row[m + i - 1] = Text[i]
    BY <1>1, <1>4 DEF Shows
  <2>2. 1 \in Nat /\ 1 <= term.col
    BY <1>3, <2>1
  <2>3. t \in Terminal /\ t.col = term.col - 1 /\ t.row = term.row
    BY <2>1, <2>2, BackIs
  <2>4. Beyond(t, n) = Beyond(term, n)
    BY <2>3 DEF Beyond
  <2> HIDE DEF t, n
  <2> QED BY <1>3, <2>1, <2>3, <2>4
<1> HIDE DEF s, w, t
<1>8. \A i \in 1 .. k : t.row[m + i - 1] = w[i]
  <2> TAKE i \in 1 .. k
  <2>1. i \in 1 .. lineLen /\ i \in 1 .. lineLen - 1 /\ i < cursor
    BY <1>3
  <2> QED BY <1>6, <1>7, <2>1
<1>9. \A i \in k + 1 .. Len(w) : s[i - k] = w[i]
  <2> TAKE i \in k + 1 .. Len(w)
  <2>1. i \in 1 .. lineLen - 1 /\ ~(i < cursor)
    BY <1>3, <1>6
  <2>2. i - k \in 1 .. lineLen - cursor /\ cursor + (i - k) = i + 1
    BY <1>3, <1>6
  <2>3. s[i - k] = Text[cursor + (i - k)]
    BY <1>5, <2>2
  <2> QED BY <1>6, <2>1, <2>2, <2>3
<1>10. \A i \in Len(w) + 1 .. k + Len(s) : s[i - k] = Blank
  <2> TAKE i \in Len(w) + 1 .. k + Len(s)
  <2>1. i - k = lineLen - cursor + 1
    BY <1>3, <1>5, <1>6
  <2> QED BY <1>5, <2>1
<1>11. /\ k \in Nat /\ k + Len(s) <= LineMax /\ k <= Len(w) /\ Len(w) <= k + Len(s)
       /\ n \in Int /\ n <= m + k + Len(s) /\ k <= k + Len(s)
       /\ lineLen - 1 - k + 1 = k + Len(s) - k
  BY <1>3, <1>5, <1>6
<1> HIDE DEF k, n
<1>12. Shows(Back(Put(t, s), k + Len(s) - k), m, w, k)
  BY <1>5, <1>6, <1>7, <1>8, <1>9, <1>10, <1>11, PrintEnd
<1>13. term' = Back(Put(t, s), k + Len(s) - k)
  <2>1. cursor # 0 /\ lineLen' - cursor' + 1 = k + Len(s) - k
    BY <1>2, <1>3, <1>11 DEF k
  <2>2. term' = Back(Put(t, s), lineLen' - cursor' + 1)
    BY <2>1 DEF Backspace, s, t
  <2> QED BY <2>1, <2>2
<1>14. Shows(term', m, Text', cursor')
  BY <1>2, <1>12, <1>13 DEF w, k
<1>15. ScreenInv'
  BY <1>14 DEF ScreenInv, Shows, Beyond
<1> QED BY <1>2, <1>15

-----------------------------------------------------------------------------
(* The other keys                                                          *)

LEMMA UpKeeps ==
    ASSUME LineOK, ScreenInv, Up
    PROVE  LineOK' /\ ScreenInv'
<1>1. CASE UNCHANGED <<editVars, term>>
  BY <1>1, ZenonT(60) DEF editVars, LineOK, ScreenInv, Shows, Beyond, Text
<1>2. ASSUME NEW entry \in Recallable,
             LET text == SubSeq(entry, 1, Min({Len(entry), LineMax - 1}))
             IN  Replace(text, Len(text), ClearLine(term))
      PROVE  LineOK' /\ ScreenInv'
  <2> DEFINE text == SubSeq(entry, 1, Min({Len(entry), LineMax - 1}))
  <2>1. entry \in Seq(Chars)
    BY LinesAssumption
  <2>2. text \in Seq(Chars) /\ Len(text) <= LineMax - 1
    BY <2>1, CutToBuffer
  <2>3. Replace(text, Len(text), ClearLine(term))
    BY <1>2
  <2> HIDE DEF text
  <2>4. Len(text) \in 0 .. Len(text)
    BY <2>2, LenProperties
  <2> QED BY <2>2, <2>3, <2>4, RedrawKeeps
<1> QED BY <1>1, <1>2 DEF Up

LEMMA DownKeeps ==
    ASSUME LineOK, ScreenInv, Down
    PROVE  LineOK' /\ ScreenInv'
<1>1. PICK entry \in Recallable \cup {<<>>} :
         LET text == SubSeq(entry, 1, Min({Len(entry), LineMax - 1}))
         IN  Replace(text, Len(text), ClearLine(term))
  BY DEF Down
<1> DEFINE text == SubSeq(entry, 1, Min({Len(entry), LineMax - 1}))
<1>2. entry \in Seq(Chars)
  BY LinesAssumption, EmptySeq
<1>3. text \in Seq(Chars) /\ Len(text) <= LineMax - 1
  BY <1>2, CutToBuffer
<1>4. Replace(text, Len(text), ClearLine(term))
  BY <1>1
<1> HIDE DEF text
<1>5. Len(text) \in 0 .. Len(text)
  BY <1>3, LenProperties
<1> QED BY <1>3, <1>4, <1>5, RedrawKeeps

\* What Tab writes into the buffer: the completed text, cut to the buffer.
LEMMA CompletedFits ==
    ASSUME LineOK, NEW entries \in Scans
    PROVE  LET r == Completed(Text, cursor, entries)
               text == SubSeq(r.text, 1, Min({Len(r.text), LineMax - 1}))
           IN  /\ text \in Seq(Chars) /\ Len(text) <= LineMax - 1
               /\ Min({r.cursor, Len(text)}) \in 0 .. Len(text)
               /\ r.printed \in BOOLEAN
<1> DEFINE r == Completed(Text, cursor, entries)
           tok == WordBefore(Text, cursor)
           start == cursor - Len(tok)
           front == SubSeq(Text, 1, start)
           back == SubSeq(Text, cursor + 1, Len(Text))
           text == SubSeq(r.text, 1, Min({Len(r.text), LineMax - 1}))
<1>1. Text \in Seq(Chars) /\ Len(Text) = lineLen /\ cursor \in 0 .. Len(Text)
  BY TextType DEF LineOK
<1>2. PICK new \in Seq(Chars) : CompletedWith(r, Text, cursor, new)
  BY <1>1, CompletedIs
<1>3. /\ r.text = front \o new \o back /\ r.cursor = start + Len(new)
      /\ r.printed \in BOOLEAN
  BY <1>2 DEF CompletedWith
<1>4. start \in 0 .. cursor /\ front \in Seq(Chars) /\ back \in Seq(Chars)
  BY <1>1, WordIs, EndIs
<1> HIDE DEF r, start, front, back
<1>5. r.text \in Seq(Chars)
  BY <1>3, <1>4, ConcatProperties
<1>6. text \in Seq(Chars) /\ Len(text) <= LineMax - 1
  BY <1>5, CutToBuffer
<1> HIDE DEF text
<1>7. r.cursor \in Nat /\ Len(text) \in Nat
  <2>1. cursor \in Nat /\ start \in Nat
    BY <1>1, <1>4
  <2>2. Len(new) \in Nat /\ Len(text) \in Nat
    BY <1>6, LenProperties
  <2> QED BY <1>3, <2>1, <2>2
<1>8. Min({r.cursor, Len(text)}) = IF r.cursor <= Len(text) THEN r.cursor ELSE Len(text)
  BY <1>7, MinOfTwo
<1>9. Min({r.cursor, Len(text)}) \in 0 .. Len(text)
  BY <1>7, <1>8
<1> QED BY <1>3, <1>6, <1>9 DEF r, text

LEMMA CompleteKeeps ==
    ASSUME LineOK, ScreenInv, Complete
    PROVE  LineOK' /\ ScreenInv'
<1>1. PICK entries \in Scans :
         LET result == Completed(Text, cursor, entries)
             text   == SubSeq(result.text, 1, Min({Len(result.text), LineMax - 1}))
         IN  Replace(text, Min({result.cursor, Len(text)}),
                     IF result.printed THEN Put(ClearLine(Fresh), Prompt) ELSE ClearLine(term))
  BY DEF Complete
<1> DEFINE result == Completed(Text, cursor, entries)
           text == SubSeq(result.text, 1, Min({Len(result.text), LineMax - 1}))
           at == Min({result.cursor, Len(text)})
<1>2. /\ text \in Seq(Chars) /\ Len(text) <= LineMax - 1 /\ at \in 0 .. Len(text)
      /\ result.printed \in BOOLEAN
  BY CompletedFits
<1>3. Replace(text, at, IF result.printed THEN Put(ClearLine(Fresh), Prompt) ELSE ClearLine(term))
  BY <1>1
<1> HIDE DEF result, text, at
<1>4. CASE result.printed
  BY <1>2, <1>3, <1>4, ReprintKeeps
<1>5. CASE ~result.printed
  BY <1>2, <1>3, <1>5, RedrawKeeps
<1> QED BY <1>4, <1>5

LineInv == LineOK /\ ScreenInv

LEMMA NextKeepsLine == LineInv /\ [Next]_vars => LineInv'
<1> SUFFICES ASSUME LineOK, ScreenInv, [Next]_vars PROVE LineOK' /\ ScreenInv'
  BY DEF LineInv
<1>1. CASE UNCHANGED <<editVars, term>>
  BY <1>1, ZenonT(60) DEF editVars, LineOK, ScreenInv, Shows, Beyond, Text
<1>2. CASE Enter \/ Interrupt
  BY <1>2, HandOverKeeps DEF Enter, Interrupt
<1>3. CASE Backspace
  <2>1. cursor \in Nat
    BY DEF LineOK
  <2>2. CASE cursor > 0
    BY <1>3, <2>2, BackspaceKeeps
  <2>3. CASE cursor = 0
    BY <1>1, <1>3, <2>3 DEF Backspace
  <2> QED BY <2>1, <2>2, <2>3
<1>4. CASE Type
  <2>1. lineLen \in Nat /\ LineMax \in Nat
    BY LineMaxAssumption DEF LineOK
  <2>2. CASE lineLen < LineMax - 1
    BY <1>4, <2>2, TypeKeeps
  <2>3. CASE lineLen >= LineMax - 1
    BY <1>1, <1>4, <2>3 DEF Type
  <2> QED BY <2>1, <2>2, <2>3
<1>5. CASE Read \/ ReadError \/ SkipEscape \/ Exit \/ UNCHANGED vars
  BY <1>1, <1>5 DEF Read, ReadError, SkipEscape, Exit, vars, editVars
<1>6. CASE Up \/ Down \/ Right \/ Left \/ Complete
  BY <1>6, UpKeeps, DownKeeps, RightKeeps, LeftKeeps, CompleteKeeps
<1> QED BY <1>2, <1>3, <1>4, <1>5, <1>6 DEF Next, Handle

-----------------------------------------------------------------------------
(* The bytes of the keys                                                   *)

Letters == {"A", "B", "C", "D"}
Bytes == Chars \cup {Esc, Del, Tab, Ret, CtrlC, CtrlD}
Rests == {<<>>} \cup { <<Bracket, a>> : a \in Letters } \cup { <<a>> : a \in Letters }

KeysInv ==
    /\ rx \in Seq(Bytes) /\ rest \in Rests
    /\ torn \in BOOLEAN /\ alive \in BOOLEAN
    /\ rest # <<>> => torn

LEMMA KeyIs ==
    ASSUME NEW k \in Keys
    PROVE  /\ k \in Seq(Bytes)
           /\ \/ /\ Len(k) = 3 /\ k[1] = Esc /\ k[2] = Bracket /\ k[3] \in Letters
              \/ Len(k) = 1 /\ k = <<k[1]>> /\ k[1] \in Chars \cup {Del, Tab, Ret, CtrlC, CtrlD}
<1>1. CASE k \in { Arrow(a) : a \in {"A", "B", "C", "D"} }
  <2>1. PICK a \in Letters : k = <<Esc, Bracket, a>>
    BY <1>1 DEF Arrow, Letters
  <2>2. a \in Bytes /\ Esc \in Bytes /\ Bracket \in Bytes
    BY CharsAssumption DEF Bytes, Letters
  <2> QED BY <2>1, <2>2
<1>2. CASE k \in { <<b>> : b \in Chars \cup {Del, Tab, Ret, CtrlC, CtrlD} }
  <2>1. PICK b \in Chars \cup {Del, Tab, Ret, CtrlC, CtrlD} : k = <<b>>
    BY <1>2
  <2>2. b \in Bytes
    BY DEF Bytes
  <2> QED BY <2>1, <2>2
<1> QED BY <1>1, <1>2 DEF Keys

\* A run of keys as bytes, its last key at the end.
LEMMA RunIs ==
    ASSUME NEW run \in Seq(Keys), run # <<>>
    PROVE  /\ FlattenSeq(run) \in Seq(Bytes)
           /\ run[Len(run)] \in Keys
           /\ \E p \in Seq(Bytes) : FlattenSeq(run) = p \o run[Len(run)]
<1> DEFINE n == Len(run)
<1>1. n \in Nat /\ n # 0 /\ \A i \in 1 .. n : run[i] \in Keys /\ run[i] \in Seq(Bytes)
  BY LenProperties, EmptySeq, ElementOfSeq, KeyIs
<1>2. PICK f : /\ f[1] = run[1]
               /\ \A i \in 2 .. n : f[i] = f[i - 1] \o run[i]
               /\ FlattenSeq(run) = f[n]
  BY <1>1, FlattenedByStep
<1> HIDE DEF n
<1> DEFINE T == { i \in 1 .. n : f[i] \notin Seq(Bytes) }
<1>3. T = {}
  <2> SUFFICES ASSUME T # {} PROVE FALSE
    OBVIOUS
  <2>1. PICK i \in T : \A j \in T : i <= j
    <3>1. T \in SUBSET Nat
      BY <1>1
    <3> HIDE DEF T
    <3> QED BY <3>1, Least
  <2>2. CASE i = 1
    BY <1>1, <1>2, <2>1, <2>2
  <2>3. CASE i # 1
    <3>1. i \in 2 .. n /\ i - 1 \in 1 .. n /\ i - 1 \notin T /\ i \in 1 .. n
      BY <1>1, <2>1, <2>3
    <3>2. f[i - 1] \in Seq(Bytes) /\ run[i] \in Seq(Bytes)
      BY <1>1, <3>1
    <3>3. f[i] \in Seq(Bytes)
      BY <1>2, <3>1, <3>2, ConcatProperties, ZenonT(60)
    <3> QED BY <2>1, <3>3
  <2> QED BY <2>2, <2>3
<1>4. n \in 1 .. n /\ f[n] \in Seq(Bytes) /\ run[n] \in Keys /\ run[n] \in Seq(Bytes)
  BY <1>1, <1>3
<1>5. CASE n = 1
  <2>1. <<>> \in Seq(Bytes) /\ <<>> \o run[n] = run[n]
    BY <1>4, EmptySeq, ConcatEmptySeq
  <2> QED BY <1>2, <1>4, <1>5, <2>1 DEF n
<1>6. CASE n # 1
  <2>1. n \in 2 .. n /\ n - 1 \in 1 .. n
    BY <1>1, <1>6
  <2>2. f[n - 1] \in Seq(Bytes) /\ f[n] = f[n - 1] \o run[n]
    BY <1>2, <1>3, <2>1
  <2> QED BY <1>2, <1>4, <2>2 DEF n
<1> QED BY <1>5, <1>6

\* What a read may leave of the last key.
LEMMA CutKeyIs ==
    ASSUME NEW p \in Seq(Bytes), NEW k \in Keys, NEW n \in Nat,
           Len(p \o k) - Len(k) + 1 <= n, n < Len(p \o k)
    PROVE  SubSeq(p \o k, n + 1, Len(p \o k)) \in Rests
<1> DEFINE s == p \o k
           r == SubSeq(s, n + 1, Len(s))
           q == Len(p)
<1>1. k \in Seq(Bytes) /\ Len(k) \in Nat /\ q \in Nat
  BY KeyIs, LenProperties
<1>2. /\ s \in Seq(Bytes) /\ Len(s) = q + Len(k)
      /\ \A i \in 1 .. q + Len(k) : s[i] = IF i <= q THEN p[i] ELSE k[i - q]
  BY <1>1, ConcatProperties
<1> HIDE DEF s, q
<1>3. q + 1 <= n /\ n < q + Len(k) /\ n \in 0 .. Len(s)
  BY <1>1, <1>2 DEF s
<1>4. Len(k) = 3 /\ k[2] = Bracket /\ k[3] \in Letters
  <2> DEFINE l == Len(k)
  <2>1. q + 1 <= n /\ n < q + l /\ l \in Nat /\ q \in Nat /\ n \in Nat
    BY <1>1, <1>3
  <2> HIDE DEF l
  <2>2. l # 1
    BY <2>1
  <2> QED BY <2>2, KeyIs DEF l
<1>5. /\ r \in Seq(Bytes) /\ Len(r) = Len(s) - n
      /\ \A i \in 1 .. Len(s) - n : r[i] = s[n + i]
  BY <1>2, <1>3, EndIs
<1> HIDE DEF r
<1>6. CASE n = q + 1
  <2>1. Len(r) = 2 /\ 1 \in 1 .. Len(s) - n /\ 2 \in 1 .. Len(s) - n
    BY <1>1, <1>2, <1>4, <1>5, <1>6
  <2>2. /\ n + 1 \in 1 .. q + Len(k) /\ n + 2 \in 1 .. q + Len(k)
        /\ ~(n + 1 <= q) /\ ~(n + 2 <= q) /\ (n + 1) - q = 2 /\ (n + 2) - q = 3
    BY <1>1, <1>4, <1>6
  <2>3. r[1] = Bracket /\ r[2] = k[3]
    BY <1>2, <1>4, <1>5, <2>1, <2>2
  <2>4. r = <<Bracket, k[3]>>
    BY <1>5, <2>1, <2>3
  <2> QED BY <1>4, <2>4 DEF Rests, r, s
<1>7. CASE n = q + 2
  <2>1. Len(r) = 1 /\ 1 \in 1 .. Len(s) - n
    BY <1>1, <1>2, <1>4, <1>5, <1>7
  <2>2. n + 1 \in 1 .. q + Len(k) /\ ~(n + 1 <= q) /\ (n + 1) - q = 3
    BY <1>1, <1>4, <1>7
  <2>3. r[1] = k[3]
    BY <1>2, <1>5, <2>1, <2>2
  <2>4. r = <<k[3]>>
    BY <1>5, <2>1, <2>3
  <2> QED BY <1>4, <2>4 DEF Rests, r, s
<1> QED BY <1>1, <1>3, <1>4, <1>6, <1>7

LEMMA ReadKeepsKeys == KeysInv /\ Read => KeysInv'
<1> SUFFICES ASSUME KeysInv, Read PROVE KeysInv'
  OBVIOUS
<1>1. PICK run \in KeyRuns :
         LET bytes == rest \o FlattenSeq(run)
             last  == IF run = <<>> THEN Len(rest) ELSE Len(run[Len(run)])
         IN  \E n \in Len(bytes) - last + 1 .. Len(bytes) :
                /\ n > 0 /\ (torn => n = Len(bytes))
                /\ rx' = SubSeq(bytes, 1, n)
                /\ rest' = SubSeq(bytes, n + 1, Len(bytes))
                /\ torn' = (torn \/ n < Len(bytes))
  BY DEF Read
<1> DEFINE flat == FlattenSeq(run)
           bytes == rest \o flat
           last == IF run = <<>> THEN Len(rest) ELSE Len(run[Len(run)])
<1>2. PICK n \in Len(bytes) - last + 1 .. Len(bytes) :
         /\ n > 0 /\ (torn => n = Len(bytes))
         /\ rx' = SubSeq(bytes, 1, n)
         /\ rest' = SubSeq(bytes, n + 1, Len(bytes))
         /\ torn' = (torn \/ n < Len(bytes))
  BY <1>1
<1>3. run \in Seq(Keys)
  BY KeysAssumption
<1>4. flat \in Seq(Bytes)
  <2>1. CASE run = <<>>
    <3>1. FlattenSeq(<<>>) = <<>>
      BY EmptySeq DEF FlattenSeq
    <3> QED BY <2>1, <3>1, EmptySeq
  <2>2. CASE run # <<>>
    BY <1>3, <2>2, RunIs
  <2> QED BY <2>1, <2>2
<1>5. rest \in Seq(Bytes)
  <2>1. Bracket \in Bytes /\ Letters \subseteq Bytes
    BY CharsAssumption DEF Bytes, Letters
  <2>2. CASE rest = <<>>
    BY <2>2
  <2>3. CASE rest \in { <<Bracket, a>> : a \in Letters }
    <3>1. PICK a \in Letters : rest = <<Bracket, a>>
      BY <2>3
    <3>2. a \in Bytes
      BY <2>1
    <3> QED BY <2>1, <3>1, <3>2
  <2>4. CASE rest \in { <<a>> : a \in Letters }
    <3>1. PICK a \in Letters : rest = <<a>>
      BY <2>4
    <3>2. a \in Bytes
      BY <2>1
    <3> QED BY <3>1, <3>2
  <2> QED BY <2>2, <2>3, <2>4 DEF KeysInv, Rests
<1>6. bytes \in Seq(Bytes)
  BY <1>4, <1>5, ConcatProperties
<1>7. bytes = flat \/ rest # <<>>
  BY <1>4, ConcatEmptySeq
<1>8. Len(bytes) \in Nat /\ n \in Nat /\ n \in 0 .. Len(bytes)
  <2>1. Len(bytes) \in Nat
    BY <1>6, LenProperties
  <2> HIDE DEF bytes, last
  <2>2. n > 0 /\ n <= Len(bytes) /\ n \in Int
    BY <1>2
  <2> QED BY <2>1, <2>2
<1>9. rx' \in Seq(Bytes)
  BY <1>2, <1>6, <1>8, BeginningIs
<1>10. rest' \in Rests /\ (rest' # <<>> => torn')
  <2>1. CASE n = Len(bytes)
    <3>1. rest' = <<>>
      <4> HIDE DEF bytes
      <4> QED BY <1>2, <1>8, <2>1, SubSeqEmpty
    <3> QED BY <3>1 DEF Rests
  <2>2. CASE n # Len(bytes)
    <3>1. rest = <<>> /\ bytes = flat /\ torn'
      <4>1. ~torn /\ n < Len(bytes)
        BY <1>2, <1>8, <2>2
      <4> QED BY <1>2, <1>7, <4>1 DEF KeysInv
    <3>2. run # <<>>
      <4> SUFFICES ASSUME run = <<>> PROVE FALSE
        OBVIOUS
      <4>1. FlattenSeq(<<>>) = <<>> /\ Len(<<>>) = 0
        BY EmptySeq DEF FlattenSeq
      <4>2. Len(bytes) = 0
        BY <3>1, <4>1
      <4> HIDE DEF bytes
      <4> QED BY <1>2, <1>8, <2>2, <4>2
    <3>3. PICK p \in Seq(Bytes) : flat = p \o run[Len(run)]
      BY <1>3, <3>2, RunIs
    <3> DEFINE k == run[Len(run)]
    <3>4. k \in Keys
      BY <1>3, <3>2, RunIs
    <3>5. bytes = p \o k /\ last = Len(k)
      BY <3>1, <3>2, <3>3
    <3>6. Len(k) \in Nat
      BY <3>4, KeyIs, LenProperties
    <3> HIDE DEF bytes, last, k
    <3>7. Len(bytes) - Len(k) + 1 <= n /\ n < Len(bytes)
      BY <1>2, <1>8, <2>2, <3>5, <3>6
    <3>8. SubSeq(bytes, n + 1, Len(bytes)) \in Rests
      BY <1>8, <3>4, <3>5, <3>7, CutKeyIs
    <3> QED BY <1>2, <3>1, <3>8
  <2> QED BY <2>1, <2>2
<1>11. torn' \in BOOLEAN
  BY <1>2
<1>12. alive' \in BOOLEAN
  BY DEF Read, KeysInv
<1> QED BY <1>9, <1>10, <1>11, <1>12 DEF KeysInv

LEMMA EatenKeepsKeys ==
    ASSUME KeysInv, NEW n \in 0 .. Len(rx), Eaten(n)
    PROVE  KeysInv'
<1>1. rx' \in Seq(Bytes)
  BY EndIs DEF KeysInv, Eaten
<1> QED BY <1>1 DEF KeysInv, Eaten

LEMMA NextKeepsKeys == KeysInv /\ [Next]_vars => KeysInv'
<1> SUFFICES ASSUME KeysInv, [Next]_vars PROVE KeysInv'
  OBVIOUS
<1>1. rx \in Seq(Bytes) /\ Len(rx) \in Nat /\ (rx # <<>> => Len(rx) >= 1)
  <2>1. rx \in Seq(Bytes)
    BY DEF KeysInv
  <2> QED BY <2>1, LenProperties, EmptySeq
<1>2. CASE Read
  BY <1>2, ReadKeepsKeys
<1>3. CASE ReadError \/ UNCHANGED vars
  BY <1>3 DEF KeysInv, ReadError, vars
<1>4. CASE Up \/ Down \/ Right \/ Left
  <2>1. Len(rx) > 2 /\ Eaten(3)
    BY <1>4 DEF Up, Down, Right, Left, IsArrow
  <2>2. 3 \in 0 .. Len(rx)
    BY <1>1, <2>1
  <2> QED BY <2>1, <2>2, EatenKeepsKeys
<1>5. CASE SkipEscape \/ Backspace \/ Complete \/ Type
  <2>1. rx # <<>> /\ Eaten(1)
    BY <1>5 DEF SkipEscape, Backspace, Complete, Type
  <2>2. 1 \in 0 .. Len(rx)
    BY <1>1, <2>1
  <2> QED BY <2>1, <2>2, EatenKeepsKeys
<1>6. CASE Enter \/ Interrupt
  <2>1. HandOver
    BY <1>6 DEF Enter, Interrupt
  <2> QED BY <2>1, EmptySeq DEF HandOver, KeysInv
<1>7. CASE Exit
  <2>1. rx # <<>> /\ rx' = Tail(rx) /\ alive' = (lineLen > 0) /\ UNCHANGED <<rest, torn>>
    BY <1>7 DEF Exit
  <2>2. rx' \in Seq(Bytes)
    BY <1>1, <2>1, HeadTailProperties
  <2>3. alive' \in BOOLEAN
    <3>1. CASE lineLen > 0
      BY <2>1, <3>1
    <3>2. CASE ~(lineLen > 0)
      BY <2>1, <3>2
    <3> QED BY <3>1, <3>2
  <2> QED BY <2>1, <2>2, <2>3 DEF KeysInv
<1> QED BY <1>2, <1>3, <1>4, <1>5, <1>6, <1>7 DEF Next, Handle

-----------------------------------------------------------------------------
(* Whole arrow keys type nothing                                           *)

Plain == Chars \ {Bracket}

\* The only brackets that can arrive are those of arrow keys.
NoOtherBracket ==
    /\ \A run \in KeyRuns : \A i \in DOMAIN run : run[i] # <<Bracket>>
    /\ Recallable \in SUBSET Seq(Plain)
    /\ KnownNames \in SUBSET Seq(Plain)

\* Every escape begins an arrow, and every bracket is in one.
WholeKeys(s) ==
    /\ \A i \in 1 .. Len(s) : s[i] = Esc =>
          i + 2 <= Len(s) /\ s[i + 1] = Bracket /\ s[i + 2] \in Letters
    /\ \A i \in 1 .. Len(s) : s[i] = Bracket => i > 1 /\ s[i - 1] = Esc

ArrowsInv == ~torn => WholeKeys(rx) /\ Text \in Seq(Plain)

LEMMA PlainIsText == Seq(Plain) \subseteq Seq(Chars) /\ Blank \in Plain
<1>1. ASSUME NEW s \in Seq(Plain) PROVE s \in Seq(Chars)
  <2>1. s \in [1 .. Len(s) -> Plain] /\ Len(s) \in Nat
    BY LenProperties
  <2>2. s \in [1 .. Len(s) -> Chars]
    BY <2>1 DEF Plain
  <2> QED BY <2>1, <2>2, SeqDef
<1> QED BY <1>1, CharsAssumption DEF Plain

\* One whole key more.
LEMMA OneKeyMore ==
    ASSUME NEW p \in Seq(Bytes), WholeKeys(p), NEW k \in Keys, k # <<Bracket>>
    PROVE  p \o k \in Seq(Bytes) /\ WholeKeys(p \o k)
<1> DEFINE s == p \o k
           q == Len(p)
<1>1. k \in Seq(Bytes) /\ Len(k) \in Nat /\ q \in Nat
  BY KeyIs, LenProperties
<1>2. /\ s \in Seq(Bytes) /\ Len(s) = q + Len(k)
      /\ \A i \in 1 .. q + Len(k) : s[i] = IF i <= q THEN p[i] ELSE k[i - q]
  BY <1>1, ConcatProperties
<1>3. \/ Len(k) = 3 /\ k[1] = Esc /\ k[2] = Bracket /\ k[3] \in Letters
      \/ Len(k) = 1 /\ k[1] # Esc /\ k[1] # Bracket
  <2>1. Esc \notin Chars /\ Esc \notin {Del, Tab, Ret, CtrlC, CtrlD}
    BY CharsAssumption DEF Esc, Del, Tab, Ret, CtrlC, CtrlD
  <2> QED BY <2>1, KeyIs
<1>4. \A a \in Letters : a # Esc /\ a # Bracket
  BY DEF Letters, Esc, Bracket
<1>5. Esc # Bracket
  BY DEF Esc, Bracket
<1> HIDE DEF s, q
<1>6. ASSUME NEW i \in 1 .. q
      PROVE  /\ s[i] = Esc => i + 2 <= q + Len(k) /\ s[i + 1] = Bracket /\ s[i + 2] \in Letters
             /\ s[i] = Bracket => i > 1 /\ s[i - 1] = Esc
  <2>1. i \in 1 .. q + Len(k) /\ i <= q /\ s[i] = p[i]
    BY <1>1, <1>2
  <2>2. s[i] = Esc => i + 2 <= q /\ p[i + 1] = Bracket /\ p[i + 2] \in Letters
    BY <2>1 DEF WholeKeys, q
  <2>3. i + 2 <= q => i + 1 \in 1 .. q + Len(k) /\ i + 2 \in 1 .. q + Len(k) /\ i + 1 <= q
    BY <1>1
  <2>4. i + 2 <= q => s[i + 1] = p[i + 1] /\ s[i + 2] = p[i + 2] /\ i + 2 <= q + Len(k)
    BY <1>1, <1>2, <2>3
  <2>5. s[i] = Bracket => i > 1 /\ p[i - 1] = Esc
    BY <2>1 DEF WholeKeys, q
  <2>6. i > 1 => i - 1 \in 1 .. q + Len(k) /\ i - 1 <= q
    BY <1>1
  <2>7. i > 1 => s[i - 1] = p[i - 1]
    BY <1>2, <2>6
  <2> QED BY <2>2, <2>4, <2>5, <2>7
<1>7. ASSUME NEW i \in q + 1 .. q + Len(k)
      PROVE  /\ s[i] = Esc => i + 2 <= q + Len(k) /\ s[i + 1] = Bracket /\ s[i + 2] \in Letters
             /\ s[i] = Bracket => i > 1 /\ s[i - 1] = Esc
  <2> DEFINE j == i - q
  <2>1. /\ j \in 1 .. Len(k) /\ i = q + j /\ i \in 1 .. q + Len(k) /\ ~(i <= q)
    BY <1>1
  <2>2. s[i] = k[j]
    BY <1>2, <2>1
  <2>3. CASE Len(k) = 1
    <3>1. j = 1
      BY <2>1, <2>3
    <3> QED BY <1>3, <2>2, <2>3, <3>1
  <2>4. CASE Len(k) = 3 /\ j = 1
    <3>1. /\ i + 1 \in 1 .. q + Len(k) /\ i + 2 \in 1 .. q + Len(k)
          /\ ~(i + 1 <= q) /\ ~(i + 2 <= q) /\ (i + 1) - q = 2 /\ (i + 2) - q = 3
      BY <1>1, <2>1, <2>4
    <3>2. s[i + 1] = k[2] /\ s[i + 2] = k[3] /\ i + 2 <= q + Len(k)
      BY <1>2, <3>1
    <3> QED BY <1>3, <1>5, <2>2, <2>4, <3>2
  <2>5. CASE Len(k) = 3 /\ j = 2
    <3>1. i - 1 \in 1 .. q + Len(k) /\ ~(i - 1 <= q) /\ (i - 1) - q = 1 /\ i > 1
      BY <1>1, <2>1, <2>5
    <3>2. s[i - 1] = k[1]
      BY <1>2, <3>1
    <3> QED BY <1>3, <1>5, <2>2, <2>5, <3>1, <3>2
  <2>6. CASE Len(k) = 3 /\ j = 3
    BY <1>3, <1>4, <2>2, <2>6
  <2>7. Len(k) = 3 => j = 1 \/ j = 2 \/ j = 3
    BY <2>1
  <2> HIDE DEF j
  <2> QED BY <1>3, <2>3, <2>4, <2>5, <2>6, <2>7
<1>8. \A i \in 1 .. q + Len(k) : i \in 1 .. q \/ i \in q + 1 .. q + Len(k)
  BY <1>1
<1>9. WholeKeys(s)
  BY <1>2, <1>6, <1>7, <1>8 DEF WholeKeys
<1> QED BY <1>2, <1>9 DEF s

LEMMA RunIsWhole ==
    ASSUME NEW run \in Seq(Keys), \A i \in DOMAIN run : run[i] # <<Bracket>>
    PROVE  FlattenSeq(run) \in Seq(Bytes) /\ WholeKeys(FlattenSeq(run))
<1>1. /\ <<>> \in Seq(Bytes) /\ Len(<<>>) = 0 /\ WholeKeys(<<>>)
  BY EmptySeq DEF WholeKeys
<1>2. CASE run = <<>>
  BY <1>1, <1>2 DEF FlattenSeq
<1>3. CASE run # <<>>
  <2> DEFINE n == Len(run)
  <2>1. n \in Nat /\ n # 0 /\ \A i \in 1 .. n : run[i] \in Keys /\ run[i] # <<Bracket>>
    BY <1>3, LenProperties, EmptySeq, ElementOfSeq
  <2>2. PICK f : /\ f[1] = run[1]
                 /\ \A i \in 2 .. n : f[i] = f[i - 1] \o run[i]
                 /\ FlattenSeq(run) = f[n]
    BY <2>1, FlattenedByStep
  <2> HIDE DEF n
  <2> DEFINE Good(s) == s \in Seq(Bytes) /\ WholeKeys(s)
             T == { i \in 1 .. n : ~Good(f[i]) }
  <2>3. Good(f[1])
    <3>1. 1 \in 1 .. n
      BY <2>1
    <3>2. run[1] \in Seq(Bytes) /\ Good(<<>> \o run[1])
      BY <1>1, <2>1, <3>1, KeyIs, OneKeyMore
    <3>3. <<>> \o run[1] = run[1]
      BY <3>2, ConcatEmptySeq
    <3> QED BY <2>2, <3>2, <3>3
  <2>4. ASSUME NEW i \in 2 .. n, Good(f[i - 1]) PROVE Good(f[i])
    <3>1. i \in 1 .. n
      BY <2>1
    <3> QED BY <2>1, <2>2, <2>4, <3>1, OneKeyMore
  <2> HIDE DEF Good
  <2>5. T = {}
    <3> SUFFICES ASSUME T # {} PROVE FALSE
      OBVIOUS
    <3>1. PICK i \in T : \A j \in T : i <= j
      <4>1. T \in SUBSET Nat
        BY <2>1
      <4> HIDE DEF T
      <4> QED BY <4>1, Least
    <3>2. CASE i = 1
      BY <2>3, <3>1, <3>2
    <3>3. CASE i # 1
      <4>1. i \in 2 .. n /\ i - 1 \in 1 .. n /\ i - 1 \notin T
        BY <2>1, <3>1, <3>3
      <4> QED BY <2>4, <3>1, <4>1
    <3> QED BY <3>2, <3>3
  <2>6. Good(f[n])
    <3>1. n \in 1 .. n
      BY <2>1
    <3> QED BY <2>5, <3>1
  <2> QED BY <2>2, <2>6 DEF Good
<1> QED BY <1>2, <1>3

\* What follows a byte that begins no key.
LEMMA WholeAfter ==
    ASSUME NEW s \in Seq(Bytes), WholeKeys(s), NEW n \in 1 .. Len(s), s[n] # Esc
    PROVE  WholeKeys(SubSeq(s, n + 1, Len(s)))
<1> DEFINE r == SubSeq(s, n + 1, Len(s))
<1>1. Len(s) \in Nat /\ n \in Nat /\ n >= 1 /\ n \in 0 .. Len(s)
  BY LenProperties
<1>2. /\ r \in Seq(Bytes) /\ Len(r) = Len(s) - n
      /\ \A i \in 1 .. Len(s) - n : r[i] = s[n + i]
  BY <1>1, EndIs
<1> HIDE DEF r
<1>3. ASSUME NEW i \in 1 .. Len(r)
      PROVE  /\ r[i] = Esc => i + 2 <= Len(r) /\ r[i + 1] = Bracket /\ r[i + 2] \in Letters
             /\ r[i] = Bracket => i > 1 /\ r[i - 1] = Esc
  <2>1. n + i \in 1 .. Len(s) /\ i \in 1 .. Len(s) - n /\ r[i] = s[n + i]
    BY <1>1, <1>2
  <2>2. s[n + i] = Esc => n + i + 2 <= Len(s) /\ s[n + i + 1] = Bracket /\ s[n + i + 2] \in Letters
    BY <2>1 DEF WholeKeys
  <2>3. n + i + 2 <= Len(s) => i + 1 \in 1 .. Len(s) - n /\ i + 2 \in 1 .. Len(s) - n
    BY <1>1, <2>1
  <2>4. n + i + 2 <= Len(s) =>
           r[i + 1] = s[n + (i + 1)] /\ r[i + 2] = s[n + (i + 2)] /\ i + 2 <= Len(r)
    BY <1>1, <1>2, <2>3
  <2>5. n + (i + 1) = n + i + 1 /\ n + (i + 2) = n + i + 2
    BY <1>1, <2>1
  <2>6. s[n + i] = Bracket => s[n + i - 1] = Esc
    BY <2>1 DEF WholeKeys
  <2>7. i = 1 => n + i - 1 = n
    BY <1>1
  <2>8. i > 1 => i - 1 \in 1 .. Len(s) - n /\ n + (i - 1) = n + i - 1
    BY <1>1, <2>1
  <2>9. i > 1 => r[i - 1] = s[n + i - 1]
    BY <1>2, <2>8
  <2>10. i = 1 \/ i > 1
    BY <2>1
  <2>11. r[i] = Bracket => i > 1 /\ r[i - 1] = Esc
    BY <2>1, <2>6, <2>7, <2>9, <2>10
  <2>12. r[i] = Esc => i + 2 <= Len(r) /\ r[i + 1] = Bracket /\ r[i + 2] \in Letters
    BY <2>1, <2>2, <2>4, <2>5
  <2> QED BY <2>11, <2>12
<1>4. WholeKeys(r)
  BY <1>3 DEF WholeKeys
<1> QED BY <1>4 DEF r

\* The bytes left of a read, and the text, when no key has been cut.
LEMMA ReadIsWhole ==
    ASSUME KeysInv, ArrowsInv, NoOtherBracket, Read
    PROVE  ArrowsInv'
<1> SUFFICES ASSUME ~torn' PROVE WholeKeys(rx)' /\ (Text \in Seq(Plain))'
  BY DEF ArrowsInv
<1>1. PICK run \in KeyRuns :
         LET bytes == rest \o FlattenSeq(run)
         IN  \E n \in Nat : /\ rx' = SubSeq(bytes, 1, n)
                            /\ torn' = (torn \/ n < Len(bytes))
                            /\ n <= Len(bytes)
  <2>1. PICK run \in KeyRuns :
           LET bytes == rest \o FlattenSeq(run)
               last  == IF run = <<>> THEN Len(rest) ELSE Len(run[Len(run)])
           IN  \E n \in Len(bytes) - last + 1 .. Len(bytes) :
                  /\ n > 0 /\ (torn => n = Len(bytes))
                  /\ rx' = SubSeq(bytes, 1, n)
                  /\ rest' = SubSeq(bytes, n + 1, Len(bytes))
                  /\ torn' = (torn \/ n < Len(bytes))
    BY DEF Read
  <2> DEFINE bytes == rest \o FlattenSeq(run)
             last == IF run = <<>> THEN Len(rest) ELSE Len(run[Len(run)])
  <2>2. PICK n \in Len(bytes) - last + 1 .. Len(bytes) :
           n > 0 /\ rx' = SubSeq(bytes, 1, n) /\ torn' = (torn \/ n < Len(bytes))
    BY <2>1
  <2> HIDE DEF bytes, last
  <2>3. n \in Nat /\ n <= Len(bytes)
    BY <2>2
  <2>4. \E i \in Nat : rx' = SubSeq(bytes, 1, i) /\ torn' = (torn \/ i < Len(bytes)) /\ i <= Len(bytes)
    BY <2>2, <2>3
  <2> QED BY <2>4 DEF bytes
<1> DEFINE flat == FlattenSeq(run)
           bytes == rest \o flat
<1>2. flat \in Seq(Bytes) /\ WholeKeys(flat)
  BY KeysAssumption, RunIsWhole DEF NoOtherBracket
<1>3. PICK n \in Nat : /\ rx' = SubSeq(bytes, 1, n)
                       /\ torn' = (torn \/ n < Len(bytes))
                       /\ n <= Len(bytes)
  BY <1>1
<1> HIDE DEF flat
<1>4. ~torn /\ ~(n < Len(bytes)) /\ rest = <<>>
  BY <1>3 DEF KeysInv
<1>5. bytes = flat
  BY <1>2, <1>4, ConcatEmptySeq
<1>6. n = Len(flat)
  <2>1. Len(flat) \in Nat
    BY <1>2, LenProperties
  <2> HIDE DEF bytes
  <2> QED BY <1>3, <1>4, <1>5, <2>1
<1>7. rx' = flat
  BY <1>2, <1>3, <1>5, <1>6, SubSeqFull
<1>8. Text' = Text /\ Text \in Seq(Plain)
  BY <1>4 DEF Read, editVars, Text, ArrowsInv
<1> QED BY <1>2, <1>7, <1>8 DEF WholeKeys

\* A whole arrow is eaten whole.
LEMMA ArrowIsEaten ==
    ASSUME KeysInv, ArrowsInv, NEW a \in Letters, IsArrow(a), Eaten(3), ~torn
    PROVE  WholeKeys(rx')
<1>1. rx \in Seq(Bytes) /\ WholeKeys(rx) /\ Len(rx) \in Nat
  BY LenProperties DEF KeysInv, ArrowsInv
<1>2. 3 \in 1 .. Len(rx) /\ 3 \in 0 .. Len(rx)
  BY <1>1 DEF IsArrow
<1>3. rx[3] = a
  <2> DEFINE b == SubSeq(rx, 1, 3)
  <2>1. b[3] = rx[3]
    BY <1>1, <1>2, BeginningIs
  <2>2. b = <<Esc, Bracket, a>>
    BY DEF IsArrow, Arrow
  <2> HIDE DEF b
  <2> QED BY <2>1, <2>2
<1>4. rx[3] # Esc
  BY <1>3 DEF Letters, Esc
<1> QED BY <1>1, <1>2, <1>4, WholeAfter DEF Eaten

LEMMA ByteIsEaten ==
    ASSUME KeysInv, ArrowsInv, rx # <<>>, rx[1] # Esc, Eaten(1), ~torn
    PROVE  WholeKeys(rx')
<1>1. rx \in Seq(Bytes) /\ WholeKeys(rx) /\ Len(rx) \in Nat /\ Len(rx) # 0
  BY LenProperties, EmptySeq DEF KeysInv, ArrowsInv
<1>2. 1 \in 1 .. Len(rx)
  BY <1>1
<1> QED BY <1>1, <1>2, WholeAfter DEF Eaten

\* No escape is skipped and no bracket typed while keys arrive whole.
LEMMA WholeKeysOnly ==
    ASSUME KeysInv, ArrowsInv, ~torn, rx # <<>>
    PROVE  /\ ~SkipEscape
           /\ rx[1] # Bracket
<1>1. rx \in Seq(Bytes) /\ WholeKeys(rx) /\ Len(rx) \in Nat /\ Len(rx) # 0
  BY LenProperties, EmptySeq DEF KeysInv, ArrowsInv
<1>2. 1 \in 1 .. Len(rx) /\ ~(1 > 1)
  BY <1>1
<1>3. rx[1] # Bracket
  BY <1>1, <1>2 DEF WholeKeys
<1>4. SUFFICES ASSUME SkipEscape PROVE FALSE
  BY <1>3
<1>5. 1 + 2 <= Len(rx) /\ rx[1] = Esc /\ rx[1 + 1] = Bracket /\ rx[1 + 2] \in Letters
  BY <1>1, <1>2, <1>4 DEF SkipEscape, WholeKeys
<1>6. 3 \in 0 .. Len(rx) /\ Len(rx) > 2
  BY <1>1, <1>5
<1>7. SubSeq(rx, 1, 3) = <<Esc, Bracket, rx[3]>>
  <2> DEFINE b == SubSeq(rx, 1, 3)
  <2>1. b \in Seq(Bytes) /\ Len(b) = 3 /\ \A i \in 1 .. 3 : b[i] = rx[i]
    BY <1>1, <1>6, BeginningIs
  <2> HIDE DEF b
  <2>2. b[1] = Esc /\ b[2] = Bracket /\ b[3] = rx[3]
    BY <1>5, <2>1
  <2>3. b = <<Esc, Bracket, rx[3]>>
    BY <2>1, <2>2
  <2> QED BY <2>3 DEF b
<1>8. IsArrow(rx[3])
  BY <1>6, <1>7 DEF IsArrow, Arrow
<1> QED BY <1>4, <1>5, <1>8 DEF SkipEscape, Letters

\* The text stays free of brackets.
LEMMA RecalledIsPlain ==
    ASSUME LineOK, ScreenInv, NoOtherBracket, Text \in Seq(Plain), Up \/ Down
    PROVE  Text' \in Seq(Plain)
<1>1. ASSUME NEW entry \in Recallable \cup {<<>>},
             LET text == SubSeq(entry, 1, Min({Len(entry), LineMax - 1}))
             IN  Replace(text, Len(text), ClearLine(term))
      PROVE  Text' \in Seq(Plain)
  <2> DEFINE text == SubSeq(entry, 1, Min({Len(entry), LineMax - 1}))
  <2>1. entry \in Seq(Plain)
    BY EmptySeq DEF NoOtherBracket
  <2>2. text \in Seq(Plain) /\ Len(text) <= LineMax - 1
    BY <2>1, CutToBuffer
  <2>3. Replace(text, Len(text), ClearLine(term))
    BY <1>1
  <2> HIDE DEF text
  <2>4. text \in Seq(Chars) /\ Len(text) \in 0 .. Len(text)
    BY <2>2, PlainIsText, LenProperties
  <2>5. Text' = text
    BY <2>2, <2>3, <2>4, RedrawKeeps
  <2> QED BY <2>2, <2>5
<1>2. CASE UNCHANGED <<editVars, term>>
  BY <1>2 DEF editVars, Text
<1> QED BY <1>1, <1>2 DEF Up, Down

LEMMA CompletedIsPlain ==
    ASSUME LineOK, NoOtherBracket, Text \in Seq(Plain), NEW entries \in Scans
    PROVE  Completed(Text, cursor, entries).text \in Seq(Plain)
<1> DEFINE r == Completed(Text, cursor, entries)
           before == SubSeq(Text, 1, cursor)
           tok == WordBefore(Text, cursor)
           start == cursor - Len(tok)
           front == SubSeq(Text, 1, start)
           back == SubSeq(Text, cursor + 1, Len(Text))
<1>1. /\ Text \in Seq(Chars) /\ Len(Text) = lineLen /\ cursor \in 0 .. Len(Text)
      /\ Len(Text) \in Nat /\ cursor \in Nat
  BY TextType, LenProperties DEF LineOK
<1>2. PICK new \in Seq(Chars) : CompletedWith(r, Text, cursor, new)
  BY <1>1, CompletedIs
<1>3. Replacement(tok, new) /\ r.text = front \o new \o back
  BY <1>2 DEF CompletedWith
<1>4. /\ before \in Seq(Plain) /\ Len(before) = cursor /\ back \in Seq(Plain)
  BY <1>1, BeginningIs, EndIs
<1>5. /\ start \in 0 .. cursor /\ tok = SubSeq(before, start + 1, Len(before))
      /\ front = SubSeq(Text, 1, start)
  BY <1>1, WordIs
<1> HIDE DEF r, before, tok, back
<1>6. tok \in Seq(Plain)
  BY <1>4, <1>5, EndIs
<1>7. front \in Seq(Plain)
  <2> HIDE DEF start
  <2>1. start \in 0 .. Len(Text)
    BY <1>1, <1>5
  <2> QED BY <2>1, BeginningIs
<1>8. new \in Seq(Plain)
  <2>1. CASE new = tok
    BY <1>6, <2>1
  <2>2. ASSUME NEW k \in KnownNames, new = Append(k, Blank) PROVE new \in Seq(Plain)
    <3>1. k \in Seq(Plain)
      BY DEF NoOtherBracket
    <3> QED BY <2>2, <3>1, PlainIsText, AppendProperties
  <2>3. ASSUME NEW k \in KnownNames, NEW m \in 0 .. Len(k), new = SubSeq(k, 1, m)
        PROVE  new \in Seq(Plain)
    <3>1. k \in Seq(Plain)
      BY DEF NoOtherBracket
    <3> QED BY <2>3, <3>1, BeginningIs
  <2> QED BY <1>3, <2>1, <2>2, <2>3 DEF Replacement
<1> HIDE DEF front
<1>9. r.text \in Seq(Plain)
  BY <1>3, <1>4, <1>7, <1>8, ConcatProperties
<1> QED BY <1>9 DEF r

LEMMA CompleteIsPlain ==
    ASSUME LineOK, ScreenInv, NoOtherBracket, Text \in Seq(Plain), Complete
    PROVE  Text' \in Seq(Plain)
<1>1. PICK entries \in Scans :
         LET result == Completed(Text, cursor, entries)
             text   == SubSeq(result.text, 1, Min({Len(result.text), LineMax - 1}))
         IN  Replace(text, Min({result.cursor, Len(text)}),
                     IF result.printed THEN Put(ClearLine(Fresh), Prompt) ELSE ClearLine(term))
  BY DEF Complete
<1> DEFINE result == Completed(Text, cursor, entries)
           text == SubSeq(result.text, 1, Min({Len(result.text), LineMax - 1}))
           at == Min({result.cursor, Len(text)})
<1>2. /\ text \in Seq(Chars) /\ Len(text) <= LineMax - 1 /\ at \in 0 .. Len(text)
      /\ result.printed \in BOOLEAN
  BY CompletedFits
<1>3. Replace(text, at, IF result.printed THEN Put(ClearLine(Fresh), Prompt) ELSE ClearLine(term))
  BY <1>1
<1>4. text \in Seq(Plain)
  BY CompletedIsPlain, CutToBuffer
<1> HIDE DEF result, text, at
<1>5. Text' = text
  BY <1>2, <1>3, ReprintKeeps, RedrawKeeps
<1> QED BY <1>4, <1>5

LEMMA TypeIsPlain ==
    ASSUME LineOK, Text \in Seq(Plain), Type, rx[1] # Bracket
    PROVE  Text' \in Seq(Plain)
<1>1. lineLen \in Nat /\ cursor \in Nat /\ LineMax \in Nat /\ Len(Text) = lineLen
  BY TextType, LineMaxAssumption DEF LineOK
<1>2. CASE lineLen >= LineMax - 1
  BY <1>2 DEF Type, editVars, Text
<1>3. CASE lineLen < LineMax - 1
  <2>1. Text' = TypedText(rx[1])
    BY <1>3, TypeKeepsLine
  <2>2. rx[1] \in Plain /\ \A i \in 1 .. lineLen : Text[i] \in Plain
    BY <1>1, ElementOfSeq DEF Type, Plain
  <2>3. \A i \in 1 .. lineLen + 1 :
           (IF i <= cursor THEN Text[i] ELSE IF i = cursor + 1 THEN rx[1] ELSE Text[i - 1]) \in Plain
    <3> TAKE i \in 1 .. lineLen + 1
    <3>1. (i <= cursor => i \in 1 .. lineLen) /\ (i > cursor /\ i # cursor + 1 => i - 1 \in 1 .. lineLen)
      BY <1>1 DEF LineOK
    <3> QED BY <1>1, <2>2, <3>1
  <2>4. TypedText(rx[1]) \in [1 .. lineLen + 1 -> Plain] /\ lineLen + 1 \in Nat
    BY <1>1, <2>3 DEF TypedText
  <2> QED BY <2>1, <2>4, SeqDef
<1> QED BY <1>1, <1>2, <1>3

LEMMA BackspaceIsPlain ==
    ASSUME LineOK, Text \in Seq(Plain), Backspace
    PROVE  Text' \in Seq(Plain)
<1>1. /\ lineLen \in Nat /\ cursor \in Nat /\ cursor <= lineLen /\ Len(Text) = lineLen
  BY TextType DEF LineOK
<1>2. CASE cursor = 0
  BY <1>2 DEF Backspace, editVars, Text
<1>3. CASE cursor > 0
  <2>1. Text' = ErasedText
    BY <1>3, BackspaceKeepsLine
  <2>2. \A i \in 1 .. lineLen : Text[i] \in Plain
    BY <1>1, ElementOfSeq
  <2>3. \A i \in 1 .. lineLen - 1 : (IF i < cursor THEN Text[i] ELSE Text[i + 1]) \in Plain
    <3> TAKE i \in 1 .. lineLen - 1
    <3>1. i \in 1 .. lineLen /\ i + 1 \in 1 .. lineLen
      BY <1>1
    <3> QED BY <2>2, <3>1
  <2>4. ErasedText \in [1 .. lineLen - 1 -> Plain] /\ lineLen - 1 \in Nat
    BY <1>1, <1>3, <2>3 DEF ErasedText
  <2> QED BY <2>1, <2>4, SeqDef
<1> QED BY <1>1, <1>2, <1>3

LEMMA NextKeepsArrows ==
    ASSUME LineInv, KeysInv, ArrowsInv, NoOtherBracket, [Next]_vars
    PROVE  ArrowsInv'
<1> USE DEF LineInv
<1>1. CASE UNCHANGED vars
  BY <1>1 DEF vars, ArrowsInv, WholeKeys, Text
<1>2. CASE Read
  BY <1>2, ReadIsWhole
<1>3. CASE ReadError
  BY <1>3 DEF ReadError, editVars, ArrowsInv, WholeKeys, Text
<1>4. CASE Enter \/ Interrupt
  <2>1. HandOver
    BY <1>4 DEF Enter, Interrupt
  <2>2. Text' = <<>> /\ rx' = <<>>
    BY <2>1, HandOverKeeps DEF HandOver
  <2>3. <<>> \in Seq(Plain) /\ Len(<<>>) = 0
    BY EmptySeq
  <2>4. WholeKeys(rx')
    BY <2>2, <2>3 DEF WholeKeys
  <2> QED BY <2>2, <2>3, <2>4 DEF ArrowsInv, WholeKeys
<1>5. CASE ~torn'
  <2>1. SUFFICES ASSUME ~(Enter \/ Interrupt), ~Read, ~ReadError, Next
                 PROVE  WholeKeys(rx') /\ Text' \in Seq(Plain)
    <3>1. WholeKeys(rx') /\ Text' \in Seq(Plain) => ArrowsInv'
      BY DEF ArrowsInv, WholeKeys
    <3> QED BY <1>1, <1>2, <1>3, <1>4, <3>1
  <2>2. UNCHANGED torn /\ ~torn
    BY <1>5, <2>1 DEF Next, Handle, Up, Down, Right, Left, SkipEscape, Backspace, Complete,
          Exit, Type, Eaten
  <2>3. Text \in Seq(Plain) /\ rx \in Seq(Bytes) /\ WholeKeys(rx) /\ Len(rx) \in Nat
    BY <2>2, LenProperties DEF ArrowsInv, KeysInv
  <2>4. CASE Up \/ Down \/ Right \/ Left
    <3>1. \E a \in Letters : IsArrow(a) /\ Eaten(3)
      BY <2>4 DEF Up, Down, Right, Left, Letters
    <3>2. WholeKeys(rx')
      BY <2>2, <3>1, ArrowIsEaten
    <3>3. Text' \in Seq(Plain)
      BY <2>3, <2>4, RecalledIsPlain, LeftKeeps, RightKeeps
    <3> QED BY <3>2, <3>3
  <2>5. ASSUME rx # <<>>, rx[1] # Esc, Eaten(1) PROVE WholeKeys(rx')
    BY <2>2, <2>5, ByteIsEaten
  <2>6. Esc \notin Chars /\ Esc # Del /\ Esc # Tab /\ Esc # CtrlD
    BY CharsAssumption DEF Esc, Del, Tab, CtrlD
  <2>7. CASE Type
    <3>1. rx[1] # Bracket
      BY <2>2, <2>7, WholeKeysOnly DEF Type
    <3>2. Text' \in Seq(Plain)
      BY <2>3, <2>7, <3>1, TypeIsPlain
    <3> QED BY <2>5, <2>6, <2>7, <3>2 DEF Type
  <2>8. CASE Backspace
    <3>1. Text' \in Seq(Plain)
      BY <2>3, <2>8, BackspaceIsPlain
    <3> QED BY <2>5, <2>6, <2>8, <3>1 DEF Backspace
  <2>9. CASE Complete
    <3>1. Text' \in Seq(Plain)
      BY <2>3, <2>9, CompleteIsPlain
    <3> QED BY <2>5, <2>6, <2>9, <3>1 DEF Complete
  <2>10. CASE SkipEscape
    BY <2>2, <2>10, WholeKeysOnly DEF SkipEscape
  <2>11. CASE Exit
    <3>1. rx # <<>> /\ rx[1] # Esc /\ rx' = Tail(rx) /\ UNCHANGED editVars
      BY <2>6, <2>11 DEF Exit
    <3>2. 1 \in 1 .. Len(rx)
      BY <2>3, <3>1, EmptySeq
    <3>3. Tail(rx) = SubSeq(rx, 1 + 1, Len(rx))
      BY <2>3, <3>1, TailIsSubSeq
    <3>4. WholeKeys(rx')
      BY <2>3, <3>1, <3>2, <3>3, WholeAfter
    <3>5. Text' = Text
      BY <3>1 DEF editVars, Text
    <3> QED BY <2>3, <3>4, <3>5
  <2> QED BY <2>1, <2>4, <2>7, <2>8, <2>9, <2>10, <2>11 DEF Next, Handle
<1> QED BY <1>5 DEF ArrowsInv

-----------------------------------------------------------------------------
(* The text before the cursor and after it                                 *)

\* What First of TextBuffer takes.
LEMMA FirstIs ==
    ASSUME NEW S, NEW s \in Seq(S), NEW n \in Nat
    PROVE  /\ Buffer!First(s, n) \in Seq(S)
           /\ Len(Buffer!First(s, n)) = IF n < Len(s) THEN n ELSE Len(s)
           /\ \A i \in 1 .. Len(s) : i <= n => Buffer!First(s, n)[i] = s[i]
           /\ n <= Len(s) => Buffer!First(s, n) = SubSeq(s, 1, n)
           /\ n >= Len(s) => Buffer!First(s, n) = s
<1> DEFINE m == IF n < Len(s) THEN n ELSE Len(s)
<1>1. /\ Len(s) \in Nat /\ m \in 0 .. Len(s) /\ (n <= Len(s) => m = n)
      /\ (n >= Len(s) => m = Len(s))
  BY LenProperties
<1>2. Buffer!First(s, n) = SubSeq(s, 1, m)
  BY DEF Buffer!First
<1>3. \A i \in 1 .. Len(s) : i <= n => i \in 1 .. m
  BY <1>1
<1> HIDE DEF m
<1>4. /\ SubSeq(s, 1, m) \in Seq(S) /\ Len(SubSeq(s, 1, m)) = m
      /\ \A i \in 1 .. m : SubSeq(s, 1, m)[i] = s[i]
  BY <1>1, BeginningIs
<1>5. SubSeq(s, 1, Len(s)) = s
  BY SubSeqFull
<1> QED BY <1>1, <1>2, <1>3, <1>4, <1>5 DEF m

\* A step to the left and a step to the right.
LEMMA OneLeft ==
    ASSUME NEW S, NEW s \in Seq(S), NEW c \in 1 .. Len(s)
    PROVE  /\ SubSeq(s, 1, c) # <<>> /\ Len(SubSeq(s, 1, c)) = c
           /\ SubSeq(s, 1, c - 1) = Buffer!First(SubSeq(s, 1, c), c - 1)
           /\ SubSeq(s, (c - 1) + 1, Len(s)) =
                <<SubSeq(s, 1, c)[Len(SubSeq(s, 1, c))]>> \o SubSeq(s, c + 1, Len(s))
<1> DEFINE b == SubSeq(s, 1, c)
           b1 == SubSeq(s, 1, c - 1)
           a == SubSeq(s, c + 1, Len(s))
           a1 == SubSeq(s, (c - 1) + 1, Len(s))
           one == <<b[Len(b)]>>
<1>1. /\ Len(s) \in Nat /\ c \in Nat /\ c >= 1 /\ c \in 0 .. Len(s) /\ c - 1 \in 0 .. Len(s)
      /\ c - 1 \in Nat
  BY LenProperties
<1>2. b \in Seq(S) /\ Len(b) = c /\ \A i \in 1 .. c : b[i] = s[i]
  BY <1>1, BeginningIs
<1>3. b1 \in Seq(S) /\ Len(b1) = c - 1 /\ \A i \in 1 .. c - 1 : b1[i] = s[i]
  BY <1>1, BeginningIs
<1>4. a \in Seq(S) /\ Len(a) = Len(s) - c /\ \A i \in 1 .. Len(s) - c : a[i] = s[c + i]
  BY <1>1, EndIs
<1> DEFINE d == c - 1
<1>5. /\ a1 \in Seq(S) /\ Len(a1) = Len(s) - d
      /\ \A i \in 1 .. Len(s) - d : a1[i] = s[d + i]
  <2>1. d \in 0 .. Len(s)
    BY <1>1
  <2> HIDE DEF d
  <2>2. /\ SubSeq(s, d + 1, Len(s)) \in Seq(S) /\ Len(SubSeq(s, d + 1, Len(s))) = Len(s) - d
        /\ \A i \in 1 .. Len(s) - d : SubSeq(s, d + 1, Len(s))[i] = s[d + i]
    BY <2>1, EndIs
  <2> QED BY <2>2 DEF d
<1> HIDE DEF b, b1, a, a1
<1>6. b # <<>> /\ c \in 1 .. c
  BY <1>1, <1>2, EmptySeq
<1>7. b1 = Buffer!First(b, c - 1)
  <2>1. /\ Buffer!First(b, c - 1) \in Seq(S)
        /\ Len(Buffer!First(b, c - 1)) = IF c - 1 < Len(b) THEN c - 1 ELSE Len(b)
        /\ \A i \in 1 .. Len(b) : i <= c - 1 => Buffer!First(b, c - 1)[i] = b[i]
    BY <1>1, <1>2, FirstIs
  <2> DEFINE f == Buffer!First(b, c - 1)
  <2> HIDE DEF f
  <2>2. Len(f) = c - 1
    BY <1>1, <1>2, <2>1 DEF f
  <2>3. \A i \in 1 .. c - 1 : f[i] = b1[i]
    <3> TAKE i \in 1 .. c - 1
    <3>1. i \in 1 .. Len(b) /\ i <= c - 1 /\ i \in 1 .. c
      BY <1>1, <1>2
    <3> QED BY <1>2, <1>3, <2>1, <3>1 DEF f
  <2> QED BY <1>3, <2>1, <2>2, <2>3, SeqEqual DEF f
<1>8. a1 = one \o a
  <2>1. one \in Seq(S) /\ Len(one) = 1 /\ one[1] = s[c]
    <3>1. b[Len(b)] = s[c] /\ s[c] \in S
      BY <1>1, <1>2, <1>6, ElementOfSeq
    <3> QED BY <3>1
  <2> HIDE DEF one
  <2>2. /\ one \o a \in Seq(S) /\ Len(one \o a) = Len(one) + Len(a)
        /\ \A i \in 1 .. Len(one) + Len(a) :
              (one \o a)[i] = IF i <= Len(one) THEN one[i] ELSE a[i - Len(one)]
    BY <1>4, <2>1, ConcatProperties
  <2> DEFINE v == one \o a
  <2> HIDE DEF v
  <2>3. Len(v) = Len(s) - d
    BY <1>1, <1>4, <2>1, <2>2 DEF v
  <2>4. \A i \in 1 .. Len(s) - d : v[i] = a1[i]
    <3> TAKE i \in 1 .. Len(s) - d
    <3>1. i \in 1 .. Len(one) + Len(a)
      BY <1>1, <1>4, <2>1
    <3>2. v[i] = IF i <= Len(one) THEN one[i] ELSE a[i - Len(one)]
      BY <2>2, <3>1 DEF v
    <3>3. CASE i = 1
      <4>1. d + i = c /\ i <= Len(one)
        BY <1>1, <2>1, <3>3
      <4>2. a1[i] = s[d + i]
        BY <1>5
      <4> QED BY <2>1, <3>2, <3>3, <4>1, <4>2
    <3>4. CASE i # 1
      <4>1. ~(i <= 1) /\ i - 1 \in 1 .. Len(s) - c /\ c + (i - 1) = d + i
        BY <1>1, <3>4
      <4>2. v[i] = a[i - 1]
        BY <2>1, <3>2, <4>1
      <4>3. a[i - 1] = s[c + (i - 1)]
        BY <1>4, <4>1
      <4>4. a1[i] = s[d + i]
        BY <1>5
      <4> QED BY <4>1, <4>2, <4>3, <4>4
    <3> QED BY <3>3, <3>4
  <2> QED BY <1>5, <2>2, <2>3, <2>4, SeqEqual DEF v
<1> QED BY <1>2, <1>6, <1>7, <1>8 DEF b, b1, a, a1, one

LEMMA OneRight ==
    ASSUME NEW S, NEW s \in Seq(S), NEW c \in 0 .. Len(s) - 1
    PROVE  /\ SubSeq(s, c + 1, Len(s)) # <<>>
           /\ SubSeq(s, 1, c + 1) = Append(SubSeq(s, 1, c), SubSeq(s, c + 1, Len(s))[1])
           /\ SubSeq(s, (c + 1) + 1, Len(s)) = Tail(SubSeq(s, c + 1, Len(s)))
<1> DEFINE b == SubSeq(s, 1, c)
           b1 == SubSeq(s, 1, c + 1)
           a == SubSeq(s, c + 1, Len(s))
           d == c + 1
           a1 == SubSeq(s, d + 1, Len(s))
<1>1. /\ Len(s) \in Nat /\ c \in Nat /\ c \in 0 .. Len(s) /\ d \in 0 .. Len(s) /\ c < Len(s)
      /\ 1 \in 1 .. Len(s) - c
  BY LenProperties
<1>2. b \in Seq(S) /\ Len(b) = c /\ \A i \in 1 .. c : b[i] = s[i]
  BY <1>1, BeginningIs
<1>3. b1 \in Seq(S) /\ Len(b1) = d /\ \A i \in 1 .. d : b1[i] = s[i]
  BY <1>1, BeginningIs
<1>4. a \in Seq(S) /\ Len(a) = Len(s) - c /\ \A i \in 1 .. Len(s) - c : a[i] = s[c + i]
  BY <1>1, EndIs
<1> HIDE DEF d
<1>5. /\ a1 \in Seq(S) /\ Len(a1) = Len(s) - d
      /\ \A i \in 1 .. Len(s) - d : a1[i] = s[d + i]
  BY <1>1, EndIs
<1> HIDE DEF b, b1, a, a1
<1>6. a # <<>> /\ a[1] = s[d] /\ s[d] \in S
  <2>1. Len(a) # 0 /\ d \in 1 .. Len(s) /\ c + 1 = d
    BY <1>1, <1>4 DEF d
  <2> QED BY <1>1, <1>4, <2>1, EmptySeq, ElementOfSeq
<1>7. b1 = Append(b, a[1])
  <2>1. /\ Append(b, a[1]) \in Seq(S) /\ Len(Append(b, a[1])) = Len(b) + 1
        /\ \A i \in 1 .. Len(b) : Append(b, a[1])[i] = b[i]
        /\ Append(b, a[1])[Len(b) + 1] = a[1]
    BY <1>2, <1>6, AppendProperties
  <2> DEFINE v == Append(b, a[1])
  <2> HIDE DEF v
  <2>2. Len(v) = d /\ v[d] = s[d]
    BY <1>1, <1>2, <1>6, <2>1 DEF v, d
  <2>3. \A i \in 1 .. d : v[i] = b1[i]
    <3> TAKE i \in 1 .. d
    <3>1. i = d \/ (i \in 1 .. c /\ i \in 1 .. Len(b))
      BY <1>1, <1>2 DEF d
    <3> QED BY <1>2, <1>3, <2>1, <2>2, <3>1 DEF v
  <2> QED BY <1>3, <2>1, <2>2, <2>3, SeqEqual DEF v
<1>8. a1 = Tail(a)
  <2>1. /\ Tail(a) \in Seq(S) /\ Len(Tail(a)) = Len(a) - 1
        /\ \A i \in 1 .. Len(Tail(a)) : Tail(a)[i] = a[i + 1]
    BY <1>4, <1>6, HeadTailProperties
  <2> DEFINE v == Tail(a)
  <2> HIDE DEF v
  <2>2. Len(v) = Len(s) - d
    BY <1>1, <1>4, <2>1 DEF v, d
  <2>3. \A i \in 1 .. Len(s) - d : v[i] = a1[i]
    <3> TAKE i \in 1 .. Len(s) - d
    <3>1. i + 1 \in 1 .. Len(s) - c /\ c + (i + 1) = d + i
      BY <1>1 DEF d
    <3>2. v[i] = a[i + 1]
      BY <2>1, <2>2 DEF v
    <3> QED BY <1>4, <1>5, <3>1, <3>2
  <2> QED BY <1>5, <2>1, <2>2, <2>3, SeqEqual DEF v
<1> QED BY <1>6, <1>7, <1>8 DEF b, b1, a, a1, d

\* A character typed between the two parts, and one erased.
LEMMA OneTyped ==
    ASSUME LineOK, NEW c \in Chars
    PROVE  /\ SubSeq(TypedText(c), 1, cursor + 1) = Append(SubSeq(Text, 1, cursor), c)
           /\ SubSeq(TypedText(c), (cursor + 1) + 1, lineLen + 1) = SubSeq(Text, cursor + 1, lineLen)
<1> DEFINE w == TypedText(c)
           b == SubSeq(Text, 1, cursor)
           a == SubSeq(Text, cursor + 1, lineLen)
           d == cursor + 1
           n == lineLen + 1
           b1 == SubSeq(w, 1, d)
           a1 == SubSeq(w, d + 1, n)
<1>1. /\ Text \in Seq(Chars) /\ Len(Text) = lineLen /\ lineLen \in Nat /\ cursor \in Nat
      /\ cursor <= lineLen /\ cursor \in 0 .. Len(Text)
      /\ \A i \in 1 .. lineLen : Text[i] \in Chars
  BY TextType DEF LineOK
<1>2. /\ w \in Seq(Chars) /\ Len(w) = n
      /\ \A i \in 1 .. n :
            w[i] = IF i <= cursor THEN Text[i] ELSE IF i = d THEN c ELSE Text[i - 1]
  <2>1. \A i \in 1 .. n :
           (IF i <= cursor THEN Text[i] ELSE IF i = d THEN c ELSE Text[i - 1]) \in Chars
    <3> TAKE i \in 1 .. n
    <3>1. (i <= cursor => i \in 1 .. lineLen) /\ (i > cursor /\ i # d => i - 1 \in 1 .. lineLen)
      BY <1>1
    <3> QED BY <1>1, <3>1
  <2>2. w \in [1 .. n -> Chars] /\ n \in Nat
    BY <1>1, <2>1 DEF TypedText
  <2>3. w \in Seq(Chars)
    BY <2>2, SeqDef
  <2> QED BY <2>2, <2>3, LenProperties DEF TypedText
<1>3. b \in Seq(Chars) /\ Len(b) = cursor /\ \A i \in 1 .. cursor : b[i] = Text[i]
  BY <1>1, BeginningIs
<1>4. a \in Seq(Chars) /\ Len(a) = lineLen - cursor /\ \A i \in 1 .. lineLen - cursor : a[i] = Text[cursor + i]
  BY <1>1, EndIs
<1>5. d \in 0 .. Len(w) /\ d = cursor + 1 /\ n = lineLen + 1
  BY <1>1, <1>2
<1> HIDE DEF w, d, n
<1>6. b1 \in Seq(Chars) /\ Len(b1) = d /\ \A i \in 1 .. d : b1[i] = w[i]
  BY <1>2, <1>5, BeginningIs
<1>7. a1 \in Seq(Chars) /\ Len(a1) = n - d /\ \A i \in 1 .. n - d : a1[i] = w[d + i]
  <2>1. /\ SubSeq(w, d + 1, Len(w)) \in Seq(Chars)
        /\ Len(SubSeq(w, d + 1, Len(w))) = Len(w) - d
        /\ \A i \in 1 .. Len(w) - d : SubSeq(w, d + 1, Len(w))[i] = w[d + i]
    BY <1>2, <1>5, EndIs
  <2> QED BY <1>2, <2>1
<1> HIDE DEF b, a, b1, a1
<1>8. b1 = Append(b, c)
  <2>1. /\ Append(b, c) \in Seq(Chars) /\ Len(Append(b, c)) = Len(b) + 1
        /\ \A i \in 1 .. Len(b) : Append(b, c)[i] = b[i]
        /\ Append(b, c)[Len(b) + 1] = c
    BY <1>3, AppendProperties
  <2> DEFINE v == Append(b, c)
  <2> HIDE DEF v
  <2>2. Len(v) = d /\ v[d] = c
    BY <1>1, <1>3, <1>5, <2>1 DEF v
  <2>3. \A i \in 1 .. d : v[i] = b1[i]
    <3> TAKE i \in 1 .. d
    <3>1. i \in 1 .. n /\ (i = d => ~(i <= cursor))
          /\ (i # d => i \in 1 .. cursor /\ i \in 1 .. Len(b) /\ i <= cursor)
      BY <1>1, <1>3, <1>5
    <3>2. b1[i] = w[i]
      BY <1>6
    <3>3. i # d => v[i] = b[i]
      BY <2>1, <3>1 DEF v
    <3> QED BY <1>2, <1>3, <2>2, <3>1, <3>2, <3>3
  <2> QED BY <1>6, <2>1, <2>2, <2>3, SeqEqual DEF v
<1>9. a1 = a
  <2>1. Len(a1) = Len(a) /\ Len(a) = lineLen - cursor
    BY <1>1, <1>4, <1>5, <1>7
  <2>2. \A i \in 1 .. Len(a1) : a1[i] = a[i]
    <3> TAKE i \in 1 .. Len(a1)
    <3>1. /\ i \in 1 .. n - d /\ i \in 1 .. lineLen - cursor /\ d + i \in 1 .. n
          /\ ~(d + i <= cursor) /\ d + i # d /\ (d + i) - 1 = cursor + i
      BY <1>1, <1>5, <2>1
    <3>2. a1[i] = w[d + i] /\ a[i] = Text[cursor + i]
      BY <1>4, <1>7, <3>1
    <3>3. w[d + i] = Text[(d + i) - 1]
      BY <1>2, <3>1
    <3> QED BY <3>1, <3>2, <3>3
  <2> QED BY <1>4, <1>7, <2>1, <2>2, SeqEqual
<1> QED BY <1>8, <1>9 DEF b, a, b1, a1, w, d, n

LEMMA OneErased ==
    ASSUME LineOK, cursor > 0
    PROVE  /\ SubSeq(ErasedText, 1, cursor - 1) = SubSeq(Text, 1, cursor - 1)
           /\ SubSeq(ErasedText, (cursor - 1) + 1, lineLen - 1) = SubSeq(Text, cursor + 1, lineLen)
<1> DEFINE w == ErasedText
           b == SubSeq(Text, 1, cursor - 1)
           a == SubSeq(Text, cursor + 1, lineLen)
           d == cursor - 1
           n == lineLen - 1
           b1 == SubSeq(w, 1, d)
           a1 == SubSeq(w, d + 1, n)
<1>1. /\ Text \in Seq(Chars) /\ Len(Text) = lineLen /\ lineLen \in Nat /\ cursor \in Nat
      /\ cursor <= lineLen /\ cursor \in 0 .. Len(Text) /\ cursor > 0
      /\ \A i \in 1 .. lineLen : Text[i] \in Chars
  BY TextType DEF LineOK
<1>2. /\ w \in Seq(Chars) /\ Len(w) = n
      /\ \A i \in 1 .. n : w[i] = IF i < cursor THEN Text[i] ELSE Text[i + 1]
  <2>1. \A i \in 1 .. n : (IF i < cursor THEN Text[i] ELSE Text[i + 1]) \in Chars
    <3> TAKE i \in 1 .. n
    <3>1. i \in 1 .. lineLen /\ i + 1 \in 1 .. lineLen
      BY <1>1
    <3> QED BY <1>1, <3>1
  <2>2. w \in [1 .. n -> Chars] /\ n \in Nat
    BY <1>1, <2>1 DEF ErasedText
  <2>3. w \in Seq(Chars)
    BY <2>2, SeqDef
  <2> QED BY <2>2, <2>3, LenProperties DEF ErasedText
<1>3. b \in Seq(Chars) /\ Len(b) = d /\ \A i \in 1 .. d : b[i] = Text[i]
  <2>1. d \in 0 .. Len(Text)
    BY <1>1
  <2> QED BY <1>1, <2>1, BeginningIs
<1>4. a \in Seq(Chars) /\ Len(a) = lineLen - cursor /\ \A i \in 1 .. lineLen - cursor : a[i] = Text[cursor + i]
  BY <1>1, EndIs
<1>5. d \in 0 .. Len(w) /\ d = cursor - 1 /\ n = lineLen - 1
  BY <1>1, <1>2
<1> HIDE DEF w, d, n
<1>6. b1 \in Seq(Chars) /\ Len(b1) = d /\ \A i \in 1 .. d : b1[i] = w[i]
  BY <1>2, <1>5, BeginningIs
<1>7. a1 \in Seq(Chars) /\ Len(a1) = n - d /\ \A i \in 1 .. n - d : a1[i] = w[d + i]
  <2>1. /\ SubSeq(w, d + 1, Len(w)) \in Seq(Chars)
        /\ Len(SubSeq(w, d + 1, Len(w))) = Len(w) - d
        /\ \A i \in 1 .. Len(w) - d : SubSeq(w, d + 1, Len(w))[i] = w[d + i]
    BY <1>2, <1>5, EndIs
  <2> QED BY <1>2, <2>1
<1> HIDE DEF b, a, b1, a1
<1>8. b1 = b
  <2>1. \A i \in 1 .. d : b1[i] = b[i]
    <3> TAKE i \in 1 .. d
    <3>1. i \in 1 .. n /\ i < cursor
      BY <1>1, <1>5
    <3> QED BY <1>2, <1>3, <1>6, <3>1
  <2> QED BY <1>3, <1>6, <2>1, SeqEqual
<1>9. a1 = a
  <2>1. Len(a1) = Len(a) /\ Len(a) = lineLen - cursor
    BY <1>1, <1>4, <1>5, <1>7
  <2>2. \A i \in 1 .. Len(a1) : a1[i] = a[i]
    <3> TAKE i \in 1 .. Len(a1)
    <3>1. /\ i \in 1 .. n - d /\ i \in 1 .. lineLen - cursor /\ d + i \in 1 .. n
          /\ ~(d + i < cursor) /\ (d + i) + 1 = cursor + i
      BY <1>1, <1>5, <2>1
    <3>2. a1[i] = w[d + i] /\ a[i] = Text[cursor + i]
      BY <1>4, <1>7, <3>1
    <3>3. w[d + i] = Text[(d + i) + 1]
      BY <1>2, <3>1
    <3> QED BY <3>1, <3>2, <3>3
  <2> QED BY <1>4, <1>7, <2>1, <2>2, SeqEqual
<1> QED BY <1>8, <1>9 DEF b, a, b1, a1, w, d, n

LEMMA CutLengths ==
    ASSUME NEW lp \in Nat, NEW lq \in Nat, NEW m \in Nat,
           NEW k, k = IF lp + lq <= m THEN lp + lq ELSE m,
           NEW at, at = IF lp <= m THEN lp ELSE m
    PROVE  (IF m - at < lq THEN m - at ELSE lq) = k - at
<1>1. CASE lp + lq <= m
  BY <1>1
<1>2. CASE lp <= m /\ ~(lp + lq <= m)
  BY <1>2
<1>3. CASE ~(lp <= m)
  BY <1>3
<1> QED BY <1>1, <1>2, <1>3

\* Two parts written into the buffer, with the cursor between them.
Joint(p, q, m) == SubSeq(p \o q, 1, Min({Len(p \o q), m}))
Place(p, q, m) == Min({Len(p), Len(Joint(p, q, m))})

LEMMA TwoPartsCut ==
    ASSUME NEW S, NEW p \in Seq(S), NEW q \in Seq(S), NEW m \in Nat
    PROVE  /\ SubSeq(Joint(p, q, m), 1, Place(p, q, m)) = Buffer!First(p, m)
           /\ m - Len(Buffer!First(p, m)) \in Nat
           /\ SubSeq(Joint(p, q, m), Place(p, q, m) + 1, Len(Joint(p, q, m))) =
                Buffer!First(q, m - Len(Buffer!First(p, m)))
<1> DEFINE s == p \o q
           k == Min({Len(s), m})
           t == SubSeq(s, 1, k)
           at == Min({Len(p), Len(t)})
           f == Buffer!First(p, m)
           r == m - Len(f)
           g == Buffer!First(q, r)
           b == SubSeq(t, 1, at)
           a == SubSeq(t, at + 1, Len(t))
<1>1. Len(p) \in Nat /\ Len(q) \in Nat
  BY LenProperties
<1>2. /\ s \in Seq(S) /\ Len(s) = Len(p) + Len(q)
      /\ \A i \in 1 .. Len(p) + Len(q) : s[i] = IF i <= Len(p) THEN p[i] ELSE q[i - Len(p)]
  BY ConcatProperties
<1> HIDE DEF s
<1>3. k = (IF Len(s) <= m THEN Len(s) ELSE m) /\ k \in 0 .. Len(s)
  <2>1. Min({Len(s), m}) = IF Len(s) <= m THEN Len(s) ELSE m
    BY <1>1, <1>2, MinOfTwo
  <2> QED BY <1>1, <1>2, <2>1
<1> HIDE DEF k
<1>4. t \in Seq(S) /\ Len(t) = k /\ \A i \in 1 .. k : t[i] = s[i]
  BY <1>2, <1>3, BeginningIs
<1> HIDE DEF t
<1>5. at = IF Len(p) <= m THEN Len(p) ELSE m
  <2>1. k \in Int /\ Min({Len(p), k}) = IF Len(p) <= k THEN Len(p) ELSE k
    BY <1>1, <1>3, MinOfTwo, SMTT(30)
  <2>2. (IF Len(p) <= k THEN Len(p) ELSE k) = IF Len(p) <= m THEN Len(p) ELSE m
    BY <1>1, <1>2, <1>3
  <2> QED BY <1>4, <2>1, <2>2
<1>6. at \in 0 .. Len(t)
  BY <1>1, <1>2, <1>3, <1>4, <1>5
<1> HIDE DEF at
<1>7. b \in Seq(S) /\ Len(b) = at /\ \A i \in 1 .. at : b[i] = t[i]
  BY <1>4, <1>6, BeginningIs
<1>8. a \in Seq(S) /\ Len(a) = k - at /\ \A i \in 1 .. k - at : a[i] = t[at + i]
  BY <1>4, <1>6, EndIs
<1>9. f \in Seq(S) /\ Len(f) = at /\ \A i \in 1 .. at : f[i] = p[i]
  <2>1. /\ f \in Seq(S) /\ Len(f) = IF m < Len(p) THEN m ELSE Len(p)
        /\ \A i \in 1 .. Len(p) : i <= m => f[i] = p[i]
    BY FirstIs
  <2> HIDE DEF f
  <2>2. at \in Nat /\ \A i \in 1 .. at : i \in 1 .. Len(p) /\ i <= m
    BY <1>1, <1>5
  <2> QED BY <1>1, <1>5, <2>1, <2>2, SMTT(30)
<1> HIDE DEF f
<1>10. r \in Nat /\ r = m - at
  BY <1>1, <1>5, <1>9
<1> HIDE DEF r
<1>11. g \in Seq(S) /\ Len(g) = k - at /\ \A i \in 1 .. k - at : g[i] = q[i]
  <2>1. /\ g \in Seq(S) /\ Len(g) = IF r < Len(q) THEN r ELSE Len(q)
        /\ \A i \in 1 .. Len(q) : i <= r => g[i] = q[i]
    BY <1>10, FirstIs
  <2> HIDE DEF g
  <2>2. (IF r < Len(q) THEN r ELSE Len(q)) = k - at
    <3>1. k = IF Len(p) + Len(q) <= m THEN Len(p) + Len(q) ELSE m
      BY <1>2, <1>3
    <3> DEFINE lp == Len(p)
               lq == Len(q)
    <3>2. /\ lp \in Nat /\ lq \in Nat /\ m \in Nat
          /\ k = (IF lp + lq <= m THEN lp + lq ELSE m)
          /\ at = (IF lp <= m THEN lp ELSE m)
      BY <1>1, <1>5, <3>1
    <3> HIDE DEF lp, lq
    <3>3. (IF m - at < lq THEN m - at ELSE lq) = k - at
      BY <3>2, CutLengths
    <3> QED BY <1>10, <3>3 DEF lq
  <2>3. \A i \in 1 .. k - at : i \in 1 .. Len(q) /\ i <= r
    <3>1. k - at <= Len(q) /\ k - at <= r /\ k - at \in Int /\ r \in Nat
      BY <1>1, <1>2, <1>3, <1>5, <1>10
    <3> QED BY <1>1, <3>1
  <2> QED BY <2>1, <2>2, <2>3
<1> HIDE DEF g, a, b
<1>12. b = f
  <2>1. \A i \in 1 .. at : b[i] = f[i]
    <3> TAKE i \in 1 .. at
    <3>1. i \in 1 .. k /\ i \in 1 .. Len(p) + Len(q) /\ i <= Len(p)
      BY <1>1, <1>2, <1>3, <1>5
    <3> QED BY <1>2, <1>4, <1>7, <1>9, <3>1
  <2> QED BY <1>7, <1>9, <2>1, SeqEqual
<1>13. a = g
  <2>1. \A i \in 1 .. k - at : a[i] = g[i]
    <3> TAKE i \in 1 .. k - at
    <3>1. /\ at + i \in 1 .. k /\ at + i \in 1 .. Len(p) + Len(q)
          /\ ~(at + i <= Len(p)) /\ (at + i) - Len(p) = i
      BY <1>1, <1>2, <1>3, <1>5
    <3>2. s[at + i] = q[(at + i) - Len(p)]
      BY <1>2, <3>1
    <3>3. t[at + i] = s[at + i]
      BY <1>4, <3>1
    <3> QED BY <1>8, <1>11, <3>1, <3>2, <3>3
  <2> QED BY <1>8, <1>11, <2>1, SeqEqual
<1> QED BY <1>10, <1>12, <1>13 DEF s, k, t, at, f, r, g, a, b, Joint, Place

-----------------------------------------------------------------------------
(* The steps of the editor as steps of a text with a cursor                *)

LEMMA CutIsFirst ==
    ASSUME NEW S, NEW s \in Seq(S), NEW m \in Nat
    PROVE  SubSeq(s, 1, Min({Len(s), m})) = Buffer!First(s, m)
<1>1. Len(s) \in Nat
  BY LenProperties
<1>2. Min({Len(s), m}) = IF Len(s) <= m THEN Len(s) ELSE m
  BY <1>1, MinOfTwo
<1>3. CASE Len(s) <= m
  <2>1. Min({Len(s), m}) = Len(s) /\ m >= Len(s)
    BY <1>1, <1>2, <1>3
  <2> QED BY <2>1, FirstIs, SubSeqFull
<1>4. CASE ~(Len(s) <= m)
  <2>1. Min({Len(s), m}) = m /\ m <= Len(s)
    BY <1>1, <1>2, <1>4
  <2> QED BY <2>1, FirstIs
<1> QED BY <1>3, <1>4

\* The two parts of the text.
LEMMA PartsAre ==
    ASSUME LineOK
    PROVE  /\ SubSeq(Text, 1, cursor) \in Seq(Chars) /\ Len(SubSeq(Text, 1, cursor)) = cursor
           /\ SubSeq(Text, cursor + 1, lineLen) \in Seq(Chars)
           /\ Len(SubSeq(Text, cursor + 1, lineLen)) = lineLen - cursor
<1>1. Text \in Seq(Chars) /\ Len(Text) = lineLen /\ cursor \in 0 .. Len(Text)
  BY TextType DEF LineOK
<1> QED BY <1>1, BeginningIs, EndIs

LEMMA RecallMapped ==
    ASSUME LineOK, ScreenInv,
           NEW entry \in Recallable \cup {<<>>},
           LET text == SubSeq(entry, 1, Min({Len(entry), LineMax - 1}))
           IN  Replace(text, Len(text), ClearLine(term))
    PROVE  Buffer!Recall \/ Buffer!HandOver
<1> DEFINE text == SubSeq(entry, 1, Min({Len(entry), LineMax - 1}))
<1>1. entry \in Seq(Chars) /\ LineMax - 1 \in Nat
  <2>1. LineMax - 1 \in Nat
    BY LineMaxAssumption
  <2>2. entry \in Seq(Chars)
    BY LinesAssumption, EmptySeq
  <2> QED BY <2>1, <2>2
<1>2. /\ text \in Seq(Chars) /\ Len(text) <= LineMax - 1
      /\ text = Buffer!First(entry, LineMax - 1)
  BY <1>1, CutToBuffer, CutIsFirst
<1>3. Replace(text, Len(text), ClearLine(term))
  OBVIOUS
<1>4. entry = <<>> => text = <<>>
  <2>1. Len(<<>>) = 0 /\ LineMax - 1 >= 0
    BY <1>1, EmptySeq
  <2> QED BY <1>1, <1>2, <2>1, FirstIs
<1> HIDE DEF text
<1>5. Len(text) \in 0 .. Len(text) /\ Len(text) \in Nat
  BY <1>2, LenProperties
<1>6. Text' = text /\ cursor' = Len(text) /\ lineLen' = Len(text)
  BY <1>2, <1>3, <1>5, RedrawKeeps DEF Replace
<1>7. SubSeq(Text, 1, cursor)' = text /\ SubSeq(Text, cursor + 1, lineLen)' = <<>>
  <2>1. SubSeq(text, 1, Len(text)) = text
    BY <1>2, SubSeqFull
  <2>2. SubSeq(text, Len(text) + 1, Len(text)) = <<>>
    BY <1>5, SubSeqEmpty
  <2> QED BY <1>6, <2>1, <2>2
<1>8. CASE entry \in Recallable
  BY <1>2, <1>7, <1>8 DEF Buffer!Recall
<1>9. CASE entry = <<>>
  BY <1>4, <1>7, <1>9 DEF Buffer!HandOver
<1> QED BY <1>8, <1>9

LEMMA HandOverMapped ==
    ASSUME LineOK, HandOver
    PROVE  Buffer!HandOver
<1>1. Text' = <<>> /\ cursor' = 0 /\ lineLen' = 0
  BY HandOverKeeps DEF HandOver
<1>2. SubSeq(<<>>, 1, 0) = <<>> /\ SubSeq(<<>>, 0 + 1, 0) = <<>>
  BY SubSeqEmpty
<1> QED BY <1>1, <1>2 DEF Buffer!HandOver

LEMMA LeftMapped ==
    ASSUME LineOK, ScreenInv, Left
    PROVE  Buffer!Left \/ UNCHANGED Buffer!vars
<1>1. /\ Text' = Text /\ cursor' = (IF cursor = 0 THEN 0 ELSE cursor - 1) /\ lineLen' = lineLen
  BY LeftKeeps DEF Left
<1>2. CASE cursor = 0
  BY <1>1, <1>2 DEF Buffer!vars
<1>3. CASE cursor # 0
  <2>1. Text \in Seq(Chars) /\ Len(Text) = lineLen /\ cursor \in 1 .. Len(Text)
    BY <1>3, TextType DEF LineOK
  <2>2. cursor' = cursor - 1
    BY <1>1, <1>3
  <2>3. /\ SubSeq(Text, 1, cursor) # <<>> /\ Len(SubSeq(Text, 1, cursor)) = cursor
        /\ SubSeq(Text, 1, cursor - 1) = Buffer!First(SubSeq(Text, 1, cursor), cursor - 1)
        /\ SubSeq(Text, (cursor - 1) + 1, lineLen) =
             <<SubSeq(Text, 1, cursor)[Len(SubSeq(Text, 1, cursor))]>> \o SubSeq(Text, cursor + 1, lineLen)
    BY <2>1, OneLeft
  <2>4. Buffer!Left
    BY <1>1, <2>2, <2>3 DEF Buffer!Left
  <2> QED BY <2>4
<1> QED BY <1>2, <1>3

LEMMA RightMapped ==
    ASSUME LineOK, ScreenInv, Right
    PROVE  Buffer!Right \/ UNCHANGED Buffer!vars
<1>1. /\ Text' = Text /\ cursor' = (IF cursor = lineLen THEN cursor ELSE cursor + 1)
      /\ lineLen' = lineLen
  BY RightKeeps DEF Right
<1>2. CASE cursor = lineLen
  BY <1>1, <1>2 DEF Buffer!vars
<1>3. CASE cursor # lineLen
  <2>1. Text \in Seq(Chars) /\ Len(Text) = lineLen /\ cursor \in 0 .. Len(Text) - 1
    BY <1>3, TextType DEF LineOK
  <2>2. cursor' = cursor + 1
    BY <1>1, <1>3
  <2>3. /\ SubSeq(Text, cursor + 1, lineLen) # <<>>
        /\ SubSeq(Text, 1, cursor + 1) =
             Append(SubSeq(Text, 1, cursor), SubSeq(Text, cursor + 1, lineLen)[1])
        /\ SubSeq(Text, (cursor + 1) + 1, lineLen) = Tail(SubSeq(Text, cursor + 1, lineLen))
    BY <2>1, OneRight
  <2>4. Buffer!Right
    BY <1>1, <2>2, <2>3 DEF Buffer!Right
  <2> QED BY <2>4
<1> QED BY <1>2, <1>3

LEMMA TypeMapped ==
    ASSUME LineOK, Type
    PROVE  Buffer!Insert \/ UNCHANGED Buffer!vars
<1>1. lineLen \in Nat /\ cursor \in Nat /\ LineMax \in Nat
  BY LineMaxAssumption DEF LineOK
<1>2. CASE lineLen >= LineMax - 1
  <2>1. Text' = Text /\ cursor' = cursor /\ lineLen' = lineLen
    BY <1>2 DEF Type, editVars, Text
  <2> QED BY <2>1 DEF Buffer!vars
<1>3. CASE lineLen < LineMax - 1
  <2>1. /\ Text' = TypedText(rx[1]) /\ lineLen' = lineLen + 1 /\ cursor' = cursor + 1
        /\ rx[1] \in Chars
    BY <1>3, TypeKeepsLine DEF Type
  <2>2. /\ SubSeq(TypedText(rx[1]), 1, cursor + 1) = Append(SubSeq(Text, 1, cursor), rx[1])
        /\ SubSeq(TypedText(rx[1]), (cursor + 1) + 1, lineLen + 1) = SubSeq(Text, cursor + 1, lineLen)
    BY <2>1, OneTyped
  <2>3. Len(SubSeq(Text, 1, cursor)) + Len(SubSeq(Text, cursor + 1, lineLen)) < LineMax - 1
    BY <1>1, <1>3, PartsAre
  <2>4. Buffer!Insert
    BY <2>1, <2>2, <2>3 DEF Buffer!Insert
  <2> QED BY <2>4
<1> QED BY <1>1, <1>2, <1>3

LEMMA BackspaceMapped ==
    ASSUME LineOK, Backspace
    PROVE  Buffer!Erase \/ UNCHANGED Buffer!vars
<1>1. lineLen \in Nat /\ cursor \in Nat
  BY DEF LineOK
<1>2. CASE cursor = 0
  <2>1. Text' = Text /\ cursor' = cursor /\ lineLen' = lineLen
    BY <1>2 DEF Backspace, editVars, Text
  <2> QED BY <2>1 DEF Buffer!vars
<1>3. CASE cursor > 0
  <2>1. Text' = ErasedText /\ lineLen' = lineLen - 1 /\ cursor' = cursor - 1
    BY <1>3, BackspaceKeepsLine
  <2>2. /\ SubSeq(ErasedText, 1, cursor - 1) = SubSeq(Text, 1, cursor - 1)
        /\ SubSeq(ErasedText, (cursor - 1) + 1, lineLen - 1) = SubSeq(Text, cursor + 1, lineLen)
    BY <1>3, OneErased
  <2>3. Text \in Seq(Chars) /\ cursor \in 1 .. Len(Text)
    BY <1>3, TextType DEF LineOK
  <2>4. /\ SubSeq(Text, 1, cursor) # <<>> /\ Len(SubSeq(Text, 1, cursor)) = cursor
        /\ SubSeq(Text, 1, cursor - 1) = Buffer!First(SubSeq(Text, 1, cursor), cursor - 1)
    BY <2>3, OneLeft
  <2>5. Buffer!Erase
    BY <2>1, <2>2, <2>4 DEF Buffer!Erase
  <2> QED BY <2>5
<1> QED BY <1>1, <1>2, <1>3

LEMMA WordMapped ==
    ASSUME LineOK
    PROVE  LET tok == WordBefore(Text, cursor)
           IN  Buffer!WordStart = cursor - Len(tok) /\ Buffer!Word = tok
<1> DEFINE b == SubSeq(Text, 1, cursor)
           tok == WordBefore(Text, cursor)
           start == cursor - Len(tok)
           At(n) == /\ n = 0 \/ b[n] = Blank
                    /\ \A i \in n + 1 .. Len(b) : b[i] # Blank
<1>1. Text \in Seq(Chars) /\ Len(Text) = lineLen /\ cursor \in 0 .. Len(Text)
  BY TextType DEF LineOK
<1>2. /\ b \in Seq(Chars) /\ Len(b) = cursor /\ start = LastAt(b, Blank)
      /\ tok = SubSeq(b, start + 1, Len(b))
  BY <1>1, WordIs
<1>3. Buffer!WordStart = CHOOSE n \in 0 .. Len(b) : At(n)
  BY DEF Buffer!WordStart
<1>4. Buffer!Word = SubSeq(b, Buffer!WordStart + 1, Len(b))
  BY DEF Buffer!Word
<1> HIDE DEF b, tok, start
<1>5. start \in 0 .. Len(b) /\ At(start)
  <2>1. /\ LastAt(b, Blank) \in 0 .. Len(b)
        /\ LastAt(b, Blank) > 0 => b[LastAt(b, Blank)] = Blank
        /\ \A i \in LastAt(b, Blank) + 1 .. Len(b) : b[i] # Blank
    BY <1>2, LastAtIs
  <2>2. start \in 0 .. Len(b) /\ (start > 0 => b[start] = Blank)
    BY <1>2, <2>1
  <2>3. start = 0 \/ b[start] = Blank
    BY <2>2
  <2> QED BY <1>2, <2>1, <2>2, <2>3
<1>6. \A n \in 0 .. Len(b) : At(n) => n = start
  <2> SUFFICES ASSUME NEW n \in 0 .. Len(b), At(n), n # start PROVE FALSE
    OBVIOUS
  <2>1. Len(b) \in Nat
    BY <1>2, LenProperties
  <2>2. CASE n < start
    <3>1. start \in n + 1 .. Len(b) /\ start # 0
      BY <1>5, <2>1, <2>2
    <3> QED BY <1>5, <3>1
  <2>3. CASE n > start
    <3>1. n \in start + 1 .. Len(b) /\ n # 0
      BY <1>5, <2>1, <2>3
    <3> QED BY <1>5, <3>1
  <2> QED BY <1>5, <2>1, <2>2, <2>3
<1> HIDE DEF At
<1>7. Buffer!WordStart = start
  BY <1>3, <1>5, <1>6
<1> QED BY <1>2, <1>4, <1>7 DEF tok, start

\* A word and a name that fits it, as Complete of TextBuffer has them.
LEMMA FitMapped ==
    ASSUME NEW tok \in Seq(Chars), NEW k \in Seq(Chars), FitsWord(tok, k)
    PROVE  \E n \in 0 .. Len(tok) :
              /\ n > 0 => tok[n] = Slash
              /\ \A i \in n + 1 .. Len(tok) : tok[i] # Slash
              /\ SubSeq(tok, n + 1, Len(tok)) \in Seq(Chars)
              /\ Len(SubSeq(tok, n + 1, Len(tok))) = Len(tok) - n
              /\ Len(tok) - n <= Len(k)
              /\ Buffer!First(k, Len(tok) - n) = SubSeq(tok, n + 1, Len(tok))
<1>1. PICK n \in 0 .. Len(tok) :
         /\ n > 0 => tok[n] = Slash
         /\ \A i \in n + 1 .. Len(tok) : tok[i] # Slash
         /\ IsPrefix(SubSeq(tok, n + 1, Len(tok)), k)
  BY DEF FitsWord
<1> DEFINE part == SubSeq(tok, n + 1, Len(tok))
<1>2. part \in Seq(Chars) /\ Len(part) = Len(tok) - n /\ IsPrefix(part, k)
  BY <1>1, EndIs
<1> HIDE DEF part
<1>3. Len(part) \in Nat /\ Len(part) <= Len(k)
  BY <1>2, LenProperties DEF IsPrefix
<1>4. SubSeq(part, 1, Len(part)) = part
  BY <1>2, SubSeqFull
<1>5. Buffer!First(k, Len(part)) = part
  BY <1>2, <1>3, <1>4, FirstIs, ZenonT(60) DEF IsPrefix
<1>6. /\ part \in Seq(Chars) /\ Len(part) = Len(tok) - n
      /\ Len(tok) - n <= Len(k) /\ Buffer!First(k, Len(tok) - n) = part
  BY <1>2, <1>3, <1>5
<1> QED BY <1>1, <1>6 DEF part

LEMMA Joined ==
    ASSUME NEW a \in Seq(Chars), NEW b \in Seq(Chars), NEW c \in Seq(Chars)
    PROVE  (a \o b) \o c = a \o (b \o c)
BY ConcatAssociative, SMT

\* What Tab makes of the part of the line before the cursor.
NewBefore(tok, k, front, new) ==
    \E n \in 0 .. Len(tok) :
        /\ n > 0 => tok[n] = Slash
        /\ \A i \in n + 1 .. Len(tok) : tok[i] # Slash
        /\ Buffer!First(k, Len(SubSeq(tok, n + 1, Len(tok)))) = SubSeq(tok, n + 1, Len(tok))
        /\ \E m \in Len(SubSeq(tok, n + 1, Len(tok))) .. Len(k), end \in {<<>>, <<Blank>>} :
              front \o new = front \o Buffer!First(k, m) \o end

LEMMA NewWordMapped ==
    ASSUME NEW tok \in Seq(Chars), NEW k \in KnownNames, FitsWord(tok, k),
           NEW front \in Seq(Chars), NEW new \in Seq(Chars),
           \/ new = Append(k, Blank)
           \/ \E m \in 0 .. Len(k) : m > Len(tok) /\ new = SubSeq(k, 1, m)
    PROVE  NewBefore(tok, k, front, new)
<1>1. k \in Seq(Chars) /\ Len(k) \in Nat /\ Len(tok) \in Nat
  BY NamesType, LenProperties
<1>2. PICK n \in 0 .. Len(tok) :
         /\ n > 0 => tok[n] = Slash
         /\ \A i \in n + 1 .. Len(tok) : tok[i] # Slash
         /\ SubSeq(tok, n + 1, Len(tok)) \in Seq(Chars)
         /\ Len(SubSeq(tok, n + 1, Len(tok))) = Len(tok) - n
         /\ Len(tok) - n <= Len(k)
         /\ Buffer!First(k, Len(tok) - n) = SubSeq(tok, n + 1, Len(tok))
  BY <1>1, FitMapped
<1> DEFINE part == SubSeq(tok, n + 1, Len(tok))
<1>3. \E m \in Len(part) .. Len(k), end \in {<<>>, <<Blank>>} :
         front \o new = front \o Buffer!First(k, m) \o end
  <2>1. CASE new = Append(k, Blank)
    <3>1. Len(k) \in Len(part) .. Len(k)
      BY <1>1, <1>2
    <3>2. Buffer!First(k, Len(k)) = k
      BY <1>1, FirstIs
    <3> DEFINE one == <<Blank>>
    <3>3. one \in Seq(Chars) /\ Append(k, Blank) = k \o one
      BY <1>1, CharsAssumption, AppendIsConcat
    <3> HIDE DEF one
    <3>4. (front \o k) \o one = front \o (k \o one)
      BY <1>1, <3>3, Joined
    <3>5. front \o new = front \o Buffer!First(k, Len(k)) \o <<Blank>>
      BY <2>1, <3>2, <3>3, <3>4 DEF one
    <3> HIDE DEF part
    <3> QED BY <3>1, <3>5
  <2>2. ASSUME NEW m \in 0 .. Len(k), m > Len(tok), new = SubSeq(k, 1, m)
        PROVE  \E m2 \in Len(part) .. Len(k), end \in {<<>>, <<Blank>>} :
                  front \o new = front \o Buffer!First(k, m2) \o end
    <3>1. m \in Len(part) .. Len(k) /\ m \in Nat /\ m <= Len(k)
      BY <1>1, <1>2, <2>2
    <3>2. Buffer!First(k, m) = new
      BY <1>1, <2>2, <3>1, FirstIs
    <3>3. front \o new \in Seq(Chars)
      BY ConcatProperties
    <3>4. (front \o new) \o <<>> = front \o new
      BY <3>3, ConcatEmptySeq
    <3>5. front \o new = front \o Buffer!First(k, m) \o <<>>
      BY <3>2, <3>4
    <3> HIDE DEF part
    <3> QED BY <3>1, <3>5
  <2> QED BY <2>1, <2>2
<1> QED BY <1>2, <1>3 DEF part, NewBefore

LEMMA CompleteMapped ==
    ASSUME LineOK, ScreenInv, Complete
    PROVE  Buffer!Complete \/ UNCHANGED Buffer!vars
<1>1. PICK entries \in Scans :
         LET result == Completed(Text, cursor, entries)
             text   == SubSeq(result.text, 1, Min({Len(result.text), LineMax - 1}))
         IN  Replace(text, Min({result.cursor, Len(text)}),
                     IF result.printed THEN Put(ClearLine(Fresh), Prompt) ELSE ClearLine(term))
  BY DEF Complete
<1> DEFINE result == Completed(Text, cursor, entries)
           text == SubSeq(result.text, 1, Min({Len(result.text), LineMax - 1}))
           at == Min({result.cursor, Len(text)})
           tok == WordBefore(Text, cursor)
           start == cursor - Len(tok)
           b == SubSeq(Text, 1, cursor)
           front == SubSeq(Text, 1, start)
           q == SubSeq(Text, cursor + 1, Len(Text))
<1>2. /\ text \in Seq(Chars) /\ Len(text) <= LineMax - 1 /\ at \in 0 .. Len(text)
      /\ result.printed \in BOOLEAN
  BY CompletedFits
<1>3. /\ Text \in Seq(Chars) /\ Len(Text) = lineLen /\ cursor \in 0 .. Len(Text)
      /\ lineLen \in Nat /\ cursor \in Nat /\ cursor <= lineLen
  BY TextType DEF LineOK
<1>4. LineMax - 1 \in Nat /\ lineLen <= LineMax - 1
  BY LineMaxAssumption DEF LineOK
<1>5. PICK new \in Seq(Chars) : CompletedWith(result, Text, cursor, new)
  BY <1>3, CompletedIs
<1>6. /\ Replacement(tok, new) /\ result.text = front \o new \o q
      /\ result.cursor = start + Len(new)
  BY <1>5 DEF CompletedWith
<1>7. /\ tok \in Seq(Chars) /\ start \in 0 .. cursor /\ front \in Seq(Chars)
      /\ front \o tok \o q = Text
      /\ front = SubSeq(b, 1, start) /\ tok = SubSeq(b, start + 1, Len(b))
  BY <1>3, WordIs
<1>8. b \in Seq(Chars) /\ Len(b) = cursor /\ q \in Seq(Chars) /\ Len(q) = lineLen - cursor
  BY <1>3, BeginningIs, EndIs
<1>9. Len(front) = start
  <2>1. start \in 0 .. Len(Text)
    BY <1>3, <1>7
  <2> HIDE DEF start
  <2> QED BY <1>3, <2>1, BeginningIs
<1>10. Replace(text, at, IF result.printed THEN Put(ClearLine(Fresh), Prompt) ELSE ClearLine(term))
  BY <1>1
<1>11. Text' = text /\ cursor' = at /\ lineLen' = Len(text)
  <2> HIDE DEF result, text, at
  <2>1. Text' = text
    BY <1>2, <1>10, ReprintKeeps, RedrawKeeps
  <2> QED BY <1>10, <2>1 DEF Replace
<1> DEFINE p == front \o new
           m == LineMax - 1
<1> HIDE DEF result, tok, start, b, front, q
<1>12. p \in Seq(Chars) /\ Len(p) = start + Len(new)
  BY <1>7, <1>9, ConcatProperties
<1>13. /\ text = SubSeq(p \o q, 1, Min({Len(p \o q), m}))
       /\ at = Min({Len(p), Len(text)})
  BY <1>6, <1>12
<1> HIDE DEF p, m, text, at
<1>14. /\ SubSeq(text, 1, at) = Buffer!First(p, m)
       /\ m - Len(Buffer!First(p, m)) \in Nat
       /\ SubSeq(text, at + 1, Len(text)) = Buffer!First(q, m - Len(Buffer!First(p, m)))
  <2>1. p \in Seq(Chars) /\ q \in Seq(Chars) /\ m \in Nat
    BY <1>4, <1>8, <1>12 DEF m
  <2>2. text = Joint(p, q, m)
    BY <1>13 DEF Joint
  <2>3. at = Place(p, q, m)
    BY <1>13, <2>2 DEF Place
  <2>4. /\ SubSeq(Joint(p, q, m), 1, Place(p, q, m)) = Buffer!First(p, m)
        /\ m - Len(Buffer!First(p, m)) \in Nat
        /\ SubSeq(Joint(p, q, m), Place(p, q, m) + 1, Len(Joint(p, q, m))) =
             Buffer!First(q, m - Len(Buffer!First(p, m)))
    BY <2>1, TwoPartsCut
  <2> QED BY <2>2, <2>3, <2>4
<1>15. /\ SubSeq(Text, 1, cursor)' = Buffer!First(p, m)
       /\ SubSeq(Text, cursor + 1, lineLen)' = Buffer!First(q, m - Len(Buffer!First(p, m)))
  BY <1>11, <1>14
<1>16. CASE new = tok
  <2>1. p = b
    <3>1. start \in 0 .. Len(b)
      BY <1>7, <1>8
    <3>2. SubSeq(b, 1, start) \o SubSeq(b, start + 1, Len(b)) = b
      BY <1>8, <3>1, CutInTwo
    <3> QED BY <1>7, <1>16, <3>2 DEF p
  <2>2. m \in Nat /\ m >= Len(b) /\ m - cursor \in Nat /\ m - cursor >= Len(q)
    BY <1>3, <1>4, <1>8 DEF m
  <2>3. Buffer!First(p, m) = b
    BY <1>8, <2>1, <2>2, FirstIs
  <2>4. Buffer!First(q, m - cursor) = q
    BY <1>8, <2>2, FirstIs
  <2>5. /\ SubSeq(Text, 1, cursor)' = SubSeq(Text, 1, cursor)
        /\ SubSeq(Text, cursor + 1, lineLen)' = SubSeq(Text, cursor + 1, lineLen)
    BY <1>3, <1>8, <1>15, <2>3, <2>4 DEF b, q
  <2> QED BY <2>5 DEF Buffer!vars
<1>17. ASSUME NEW k \in KnownNames, FitsWord(tok, k),
              \/ new = Append(k, Blank)
              \/ \E i \in 0 .. Len(k) : i > Len(tok) /\ new = SubSeq(k, 1, i)
       PROVE  Buffer!Complete
  <2>1. PICK n \in 0 .. Len(tok) :
              /\ n > 0 => tok[n] = Slash
              /\ \A i \in n + 1 .. Len(tok) : tok[i] # Slash
              /\ Buffer!First(k, Len(SubSeq(tok, n + 1, Len(tok)))) = SubSeq(tok, n + 1, Len(tok))
              /\ \E i \in Len(SubSeq(tok, n + 1, Len(tok))) .. Len(k), end \in {<<>>, <<Blank>>} :
                    front \o new = front \o Buffer!First(k, i) \o end
    <3>1. NewBefore(tok, k, front, new)
      BY <1>7, <1>17, NewWordMapped
    <3> QED BY <3>1 DEF NewBefore
  <2>2. Buffer!WordStart = start /\ Buffer!Word = tok
    BY WordMapped DEF tok, start
  <2>3. Buffer!First(b, start) = front
    <3>1. start \in Nat /\ start <= Len(b)
      BY <1>7, <1>8
    <3> QED BY <1>7, <1>8, <3>1, FirstIs
  <2>4. k \in ToSet(Builtins) \cup UNION { ToSet(s) : s \in Scans }
    BY DEF KnownNames
  <2> DEFINE part == SubSeq(tok, n + 1, Len(tok))
  <2>5. PICK i \in Len(part) .. Len(k), end \in {<<>>, <<Blank>>} :
           p = front \o Buffer!First(k, i) \o end
    BY <2>1 DEF p
  <2>6. /\ SubSeq(Text, 1, cursor)' =
             Buffer!First(Buffer!First(b, start) \o Buffer!First(k, i) \o end, LineMax - 1)
        /\ SubSeq(Text, cursor + 1, lineLen)' =
             Buffer!First(SubSeq(Text, cursor + 1, lineLen), LineMax - 1 - Len(SubSeq(Text, 1, cursor)'))
    BY <1>3, <1>15, <2>3, <2>5 DEF m, q
  <2> HIDE DEF part
  <2>7. /\ n > 0 => Buffer!Word[n] = Slash
        /\ \A j \in n + 1 .. Len(Buffer!Word) : Buffer!Word[j] # Slash
        /\ part = SubSeq(Buffer!Word, n + 1, Len(Buffer!Word))
        /\ Buffer!First(k, Len(part)) = part
        /\ n \in 0 .. Len(Buffer!Word)
    BY <2>1, <2>2 DEF part
  <2>8. \E j \in Len(part) .. Len(k), e \in {<<>>, <<Blank>>} :
           SubSeq(Text, 1, cursor)' =
             Buffer!First(Buffer!First(SubSeq(Text, 1, cursor), Buffer!WordStart)
                            \o Buffer!First(k, j) \o e, LineMax - 1)
    BY <2>2, <2>6 DEF b
  <2> QED BY <2>4, <2>6, <2>7, <2>8 DEF Buffer!Complete
<1> QED BY <1>6, <1>16, <1>17 DEF Replacement

LEMMA NextMapped == LineInv /\ [Next]_vars => [Buffer!Next]_(Buffer!vars)
<1> SUFFICES ASSUME LineOK, ScreenInv, [Next]_vars PROVE [Buffer!Next]_(Buffer!vars)
  BY DEF LineInv
<1> USE DEF Buffer!Next
<1>1. CASE UNCHANGED <<line, lineLen, cursor>>
  BY <1>1 DEF Buffer!vars, Text
<1>2. CASE Up \/ Down
  BY <1>1, <1>2, RecallMapped DEF Up, Down, editVars
<1>3. CASE Enter \/ Interrupt
  BY <1>3, HandOverMapped DEF Enter, Interrupt
<1>4. CASE Left \/ Right \/ Backspace \/ Type \/ Complete
  BY <1>4, LeftMapped, RightMapped, BackspaceMapped, TypeMapped, CompleteMapped
<1>5. CASE Read \/ ReadError \/ SkipEscape \/ Exit \/ UNCHANGED vars
  BY <1>1, <1>5 DEF Read, ReadError, SkipEscape, Exit, vars, editVars
<1> QED BY <1>2, <1>3, <1>4, <1>5 DEF Next, Handle

-----------------------------------------------------------------------------
(* The theorems                                                            *)

LEMMA InitInv == Init => LineInv /\ KeysInv
<1> SUFFICES ASSUME Init PROVE LineInv /\ KeysInv
  OBVIOUS
<1>1. LineInv
  BY InitLine DEF LineInv
<1>2. KeysInv
  BY EmptySeq DEF Init, KeysInv, Rests
<1> QED BY <1>1, <1>2

LEMMA TypesHold == LineInv /\ KeysInv => TypeOK
<1> SUFFICES ASSUME LineOK, ScreenInv, KeysInv PROVE TypeOK
  BY DEF LineInv
<1>1. PICK m : Shows(term, m, Text, cursor)
  BY DEF ScreenInv
<1>2. term.col \in 0 .. Width - 1
  <2>1. /\ m \in {0, Len(Prompt)} /\ term.col = m + cursor
        /\ cursor \in Nat /\ cursor <= LineMax - 1 /\ LineMax \in Nat
    BY <1>1, Sizes DEF Shows, LineOK
  <2> QED BY <2>1, Sizes
<1>3. Text \in Seq(Chars)
  BY TextType
<1> QED BY <1>2, <1>3 DEF TypeOK, LineOK, KeysInv, Bytes, Rests, Letters

\* The type invariant of raw_mode_repl (repl/raw.rs).
THEOREM TypeCorrect == Spec => []TypeOK
<1>1. Init => LineInv /\ KeysInv
  BY InitInv
<1>2. LineInv /\ KeysInv /\ [Next]_vars => LineInv' /\ KeysInv'
  BY NextKeepsLine, NextKeepsKeys
<1>3. LineInv /\ KeysInv => TypeOK
  BY TypesHold
<1> QED BY <1>1, <1>2, <1>3, PTL DEF Spec

\* The screen shows the line and the place of its cursor.
THEOREM ScreenIsLine == Spec => []ScreenShowsLine
<1>1. Init => LineInv
  BY InitInv
<1>2. LineInv /\ [Next]_vars => LineInv'
  BY NextKeepsLine
<1>3. LineInv => ScreenShowsLine
  BY ScreenIsShown DEF LineInv
<1> QED BY <1>1, <1>2, <1>3, PTL DEF Spec

\* While every read brings whole keys, an arrow puts nothing into the line
\* (the escape sequences of raw_mode_repl), if no other key, recalled line
\* or completed name has a bracket.
THEOREM ArrowsTypeNothing == NoOtherBracket /\ Spec => []ArrowsDoNotType
<1> SUFFICES ASSUME NoOtherBracket PROVE Spec => []ArrowsDoNotType
  OBVIOUS
<1>1. Init => LineInv /\ KeysInv /\ ArrowsInv
  <2> SUFFICES ASSUME Init PROVE ArrowsInv
    BY InitInv
  <2>1. LineOK
    BY InitInv DEF LineInv
  <2>2. Text \in Seq(Chars) /\ Len(Text) = 0
    BY <2>1, TextType DEF Init
  <2>3. Text = <<>>
    BY <2>2, EmptySeq
  <2> QED BY <2>3, EmptySeq DEF Init, ArrowsInv, WholeKeys
<1>2. LineInv /\ KeysInv /\ ArrowsInv /\ [Next]_vars => (LineInv /\ KeysInv /\ ArrowsInv)'
  BY NextKeepsLine, NextKeepsKeys, NextKeepsArrows
<1>3. LineInv /\ ArrowsInv => ArrowsDoNotType
  <2> SUFFICES ASSUME LineOK, ArrowsInv, ~torn, NEW i \in 1 .. lineLen
               PROVE  Text[i] # Bracket
    BY DEF LineInv, ArrowsDoNotType
  <2>1. Text \in Seq(Plain) /\ Len(Text) = lineLen
    BY TextType DEF ArrowsInv
  <2>2. Text[i] \in Plain
    BY <2>1, ElementOfSeq
  <2> QED BY <2>2 DEF Plain
<1> QED BY <1>1, <1>2, <1>3, PTL DEF Spec

\* The buffer with its shifts, limits, recalled and completed lines (the
\* line loop of raw_mode_repl) implements a text with a cursor.
THEOREM EditorImplementsTextBuffer == Spec => ImplementsTextBuffer
<1>1. Init => Buffer!Init
  <2> SUFFICES ASSUME Init PROVE Buffer!Init
    OBVIOUS
  <2>1. lineLen = 0 /\ cursor = 0
    BY DEF Init
  <2>2. SubSeq(Text, 1, 0) = <<>> /\ SubSeq(Text, 0 + 1, 0) = <<>>
    BY SubSeqEmpty
  <2> QED BY <2>1, <2>2 DEF Buffer!Init
<1>2. LineInv /\ [Next]_vars => [Buffer!Next]_(Buffer!vars)
  BY NextMapped
<1>3. Init => LineInv
  BY InitInv
<1>4. LineInv /\ [Next]_vars => LineInv'
  BY NextKeepsLine
<1> QED BY <1>1, <1>2, <1>3, <1>4, PTL DEF Spec, ImplementsTextBuffer, Buffer!Spec
=============================================================================
