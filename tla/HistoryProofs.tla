--------------------------- MODULE HistoryProofs ---------------------------
(***************************************************************************)
(* Proofs about History: what is stored keeps its type and its order, what *)
(* runs is the newest line, and the ring implements RecentLines.           *)
(***************************************************************************)
EXTENDS History, SequenceLemmas

Entry == { l \in Seq(Alphabet) : Len(l) <= EntryMax }

\* The types of a ring and its count.
HistType(h) ==
    /\ h.count \in Nat
    /\ DOMAIN h.ring = 0 .. Size - 1
    /\ \A s \in 0 .. Size - 1 : h.ring[s] \in Entry

\* Whether history_push stores the line.
Effective(h, l) == l # <<>> /\ ~(h.count > 0 /\ FromNewest(h, 1) = l)

Lines(h) == [n \in 1 .. Stored(h) |-> FromOldest(h, n)]

-----------------------------------------------------------------------------
(* Slots                                                                   *)

LEMMA CutIs ==
    ASSUME NEW S, NEW l \in Seq(S), NEW n \in Nat
    PROVE  /\ Cut(l, n) \in Seq(S)
           /\ Len(Cut(l, n)) = Smaller(Len(l), n)
           /\ Len(l) <= n => Cut(l, n) = l
           /\ Len(Cut(l, n)) <= n
           /\ l # <<>> /\ n # 0 => Cut(l, n) # <<>>
<1>1. Len(l) \in Nat /\ Smaller(Len(l), n) \in 0 .. Len(l) /\ Smaller(Len(l), n) <= n
  BY DEF Smaller
<1>2. Cut(l, n) \in Seq(S) /\ Len(Cut(l, n)) = Smaller(Len(l), n)
  BY <1>1 DEF Cut
<1>3. ASSUME Len(l) <= n PROVE Cut(l, n) = l
  BY <1>3 DEF Cut, Smaller
<1>4. ASSUME l # <<>>, n # 0 PROVE Cut(l, n) # <<>>
  <2>1. Len(l) # 0
    BY <1>4, EmptySeq
  <2>2. Len(Cut(l, n)) # 0
    BY <1>2, <1>4, <2>1 DEF Smaller
  <2> QED BY <1>2, <2>2, EmptySeq
<1> QED BY <1>1, <1>2, <1>3, <1>4

LEMMA SlotIs ==
    ASSUME NEW h, HistType(h), NEW n \in Int
    PROVE  /\ FromNewest(h, n) \in Entry
           /\ FromNewest(h, n) \in Seq(Alphabet)
           /\ Len(FromNewest(h, n)) \in Nat
           /\ Len(FromNewest(h, n)) <= EntryMax
<1>1. h.count - n \in Int /\ Size \in Nat \ {0}
  BY SizesAssumption DEF HistType
<1>2. (h.count - n) % Size \in 0 .. Size - 1
  BY <1>1, ModIs
<1>3. FromNewest(h, n) \in Entry
  BY <1>2 DEF HistType, FromNewest
<1> QED BY <1>3, LenProperties DEF Entry

LEMMA OldestIs ==
    ASSUME NEW h, HistType(h), NEW n \in Int
    PROVE  FromOldest(h, n) = FromNewest(h, Stored(h) - n + 1)
<1>1. h.count \in Nat /\ Stored(h) \in Nat
  BY SizesAssumption DEF HistType, Stored, Smaller
<1>2. h.count - Stored(h) + (n - 1) = h.count - (Stored(h) - n + 1)
  BY <1>1
<1> QED BY <1>2 DEF FromOldest, FromNewest

\* What a push that stores something does: the line is the newest, the
\* others are one further back.
LEMMA PushStores ==
    ASSUME NEW h, HistType(h), NEW l \in Seq(Alphabet), Effective(h, l)
    PROVE  /\ HistType(Push(h, l))
           /\ Push(h, l).count = h.count + 1
           /\ FromNewest(Push(h, l), 1) = Cut(l, EntryMax)
           /\ \A n \in 1 .. Size - 1 : FromNewest(Push(h, l), n + 1) = FromNewest(h, n)
<1> DEFINE e == Cut(l, EntryMax)
           s == h.count % Size
           h2 == [ring |-> [h.ring EXCEPT ![s] = e], count |-> h.count + 1]
<1>1. e \in Entry
  BY CutIs, SizesAssumption DEF Entry
<1>2. Push(h, l) = h2
  BY DEF Push, Effective
<1>3. s \in 0 .. Size - 1
  <2>1. h.count \in Int /\ Size \in Nat \ {0}
    BY SizesAssumption DEF HistType
  <2> QED BY <2>1, ModIs
<1>4. h2.count = h.count + 1 /\ h.count \in Nat
  BY DEF HistType
<1>5. /\ DOMAIN h2.ring = 0 .. Size - 1 /\ h2.ring[s] = e
      /\ \A i \in 0 .. Size - 1 : i # s => h2.ring[i] = h.ring[i]
  BY <1>3 DEF HistType
<1> HIDE DEF h2, e
<1>6. HistType(h2)
  BY <1>1, <1>3, <1>4, <1>5 DEF HistType
<1>7. FromNewest(h2, 1) = e
  <2>1. h2.count - 1 = h.count
    BY <1>4
  <2> QED BY <1>5, <2>1 DEF FromNewest
<1>8. ASSUME NEW n \in 1 .. Size - 1
      PROVE  FromNewest(h2, n + 1) = FromNewest(h, n)
  <2>1. h2.count - (n + 1) = h.count - n /\ h.count - n \in Int
    BY <1>4
  <2>2. (h.count - n) % Size \in 0 .. Size - 1
    BY <2>1, ModIs, SizesAssumption
  <2>3. (h.count - n) % Size # s
    BY <1>4, ModDiffers, SizesAssumption
  <2> HIDE DEF s
  <2> QED BY <1>5, <2>1, <2>2, <2>3 DEF FromNewest
<1> QED BY <1>2, <1>4, <1>6, <1>7, <1>8 DEF e

LEMMA PushIdle ==
    ASSUME NEW h, NEW l, ~Effective(h, l)
    PROVE  Push(h, l) = h
BY DEF Push, Effective

LEMMA PushType ==
    ASSUME NEW h, HistType(h), NEW l \in Seq(Alphabet)
    PROVE  HistType(Push(h, l))
BY PushStores, PushIdle

-----------------------------------------------------------------------------
(* The list of remembered lines                                            *)

LEMMA StoredIs ==
    ASSUME NEW h, HistType(h)
    PROVE  Stored(h) \in Nat /\ Stored(h) <= Size /\ Stored(h) <= h.count
           /\ (h.count > 0 => Stored(h) > 0)
BY SizesAssumption DEF HistType, Stored, Smaller

LEMMA LinesAre ==
    ASSUME NEW h, HistType(h)
    PROVE  /\ Lines(h) \in Seq(Entry) /\ Len(Lines(h)) = Stored(h)
           /\ \A n \in 1 .. Stored(h) : Lines(h)[n] = FromNewest(h, Stored(h) - n + 1)
           /\ h.count > 0 => Lines(h) # <<>> /\ Lines(h)[Len(Lines(h))] = FromNewest(h, 1)
<1>1. Stored(h) \in Nat
  BY StoredIs
<1>2. ASSUME NEW n \in 1 .. Stored(h)
      PROVE  FromOldest(h, n) \in Entry /\ FromOldest(h, n) = FromNewest(h, Stored(h) - n + 1)
  <2>1. n \in Int /\ Stored(h) - n + 1 \in Int
    BY <1>1
  <2> QED BY <2>1, OldestIs, SlotIs
<1> DEFINE k == Stored(h)
<1> HIDE DEF k
<1>3. [n \in 1 .. k |-> FromOldest(h, n)] \in Seq(Entry)
      /\ Len([n \in 1 .. k |-> FromOldest(h, n)]) = k
  BY <1>1, <1>2 DEF k
<1>4. Lines(h) = [n \in 1 .. k |-> FromOldest(h, n)]
  BY DEF Lines, k
<1>5. \A n \in 1 .. Stored(h) : Lines(h)[n] = FromNewest(h, Stored(h) - n + 1)
  BY <1>2, <1>4 DEF k
<1>6. ASSUME h.count > 0
      PROVE  Lines(h) # <<>> /\ Lines(h)[Len(Lines(h))] = FromNewest(h, 1)
  <2>1. k > 0 /\ k \in 1 .. Stored(h) /\ k - k + 1 = 1
    BY <1>1, <1>6, StoredIs DEF k
  <2> QED BY <1>3, <1>4, <1>5, <2>1, EmptySeq DEF k
<1> QED BY <1>3, <1>4, <1>5, <1>6 DEF k

\* Storing a line appends it to the list, which loses its first if it was full.
LEMMA PushAppends ==
    ASSUME NEW h, HistType(h), NEW l \in Seq(Alphabet), Effective(h, l)
    PROVE  Lines(Push(h, l)) = Abstract!Pushed(Lines(h), Cut(l, EntryMax))
<1> DEFINE h2 == Push(h, l)
           e == Cut(l, EntryMax)
           k == Stored(h)
           L == Lines(h)
           L2 == Lines(h2)
           A == Append(L, e)
<1>1. /\ HistType(h2) /\ h2.count = h.count + 1
      /\ FromNewest(h2, 1) = e
      /\ \A n \in 1 .. Size - 1 : FromNewest(h2, n + 1) = FromNewest(h, n)
  BY PushStores
<1>2. e \in Entry
  BY CutIs, SizesAssumption DEF Entry
<1>3. /\ k \in Nat /\ L \in Seq(Entry) /\ Len(L) = k
      /\ \A n \in 1 .. k : L[n] = FromNewest(h, k - n + 1)
  BY LinesAre, StoredIs
<1>4. /\ Stored(h2) \in Nat /\ L2 \in Seq(Entry) /\ Len(L2) = Stored(h2)
      /\ \A n \in 1 .. Stored(h2) : L2[n] = FromNewest(h2, Stored(h2) - n + 1)
  BY <1>1, LinesAre, StoredIs
<1>5. h.count \in Nat /\ Size \in Nat /\ Size > 0
  BY SizesAssumption DEF HistType
<1>6. k = IF h.count <= Size THEN h.count ELSE Size
  BY DEF Stored, Smaller
<1>7. Stored(h2) = IF h.count + 1 <= Size THEN h.count + 1 ELSE Size
  BY <1>1 DEF Stored, Smaller
<1> HIDE DEF h2, e, k, L, L2
<1>8. A \in Seq(Entry) /\ Len(A) = k + 1 /\ A[k + 1] = e /\ \A n \in 1 .. k : A[n] = L[n]
  BY <1>2, <1>3
<1> HIDE DEF A
<1>9. CASE h.count < Size
  <2>1. Stored(h2) = k + 1 /\ k + 1 <= Size
    BY <1>5, <1>6, <1>7, <1>9
  <2>2. ASSUME NEW n \in 1 .. k + 1 PROVE L2[n] = A[n]
    <3>1. CASE n = k + 1
      <4>1. k + 1 \in 1 .. Stored(h2) /\ Stored(h2) - (k + 1) + 1 = 1
        BY <1>3, <2>1
      <4> QED BY <1>1, <1>4, <1>8, <3>1, <4>1
    <3>2. CASE n # k + 1
      <4>1. /\ n \in 1 .. Stored(h2) /\ n \in 1 .. k
            /\ Stored(h2) - n + 1 = (k - n + 1) + 1 /\ k - n + 1 \in 1 .. Size - 1
        BY <1>3, <1>5, <2>1, <3>2
      <4>2. L2[n] = FromNewest(h2, (k - n + 1) + 1)
        BY <1>4, <4>1
      <4>3. FromNewest(h2, (k - n + 1) + 1) = FromNewest(h, k - n + 1)
        BY <1>1, <4>1
      <4> QED BY <1>3, <1>8, <4>1, <4>2, <4>3
    <3> QED BY <3>1, <3>2
  <2>3. L2 = A
    BY <1>4, <1>8, <2>1, <2>2, SeqEqual
  <2>4. Abstract!Pushed(L, e) = A
    BY <1>8, <2>1 DEF Abstract!Pushed, Abstract!Newest, A
  <2> QED BY <2>3, <2>4 DEF h2, e, L, L2
<1>10. CASE h.count >= Size
  <2>1. Stored(h2) = Size /\ k = Size
    BY <1>5, <1>6, <1>7, <1>10
  <2> DEFINE B == SubSeq(A, 2, Size + 1)
  <2>2. B \in Seq(Entry) /\ Len(B) = Size /\ \A n \in 1 .. Size : B[n] = A[n + 1]
    BY <1>5, <1>8, <2>1
  <2> HIDE DEF B
  <2>3. ASSUME NEW n \in 1 .. Size PROVE L2[n] = B[n]
    <3>1. CASE n = Size
      <4>1. n \in 1 .. Stored(h2) /\ Stored(h2) - n + 1 = 1 /\ n + 1 = k + 1
        BY <1>5, <2>1, <3>1
      <4> QED BY <1>1, <1>4, <1>8, <2>2, <4>1
    <3>2. CASE n # Size
      <4>1. /\ n \in 1 .. Stored(h2) /\ n + 1 \in 1 .. k
            /\ Stored(h2) - n + 1 = (k - (n + 1) + 1) + 1 /\ k - (n + 1) + 1 \in 1 .. Size - 1
        BY <1>5, <2>1, <3>2
      <4>2. L2[n] = FromNewest(h2, (k - (n + 1) + 1) + 1)
        BY <1>4, <4>1
      <4>3. FromNewest(h2, (k - (n + 1) + 1) + 1) = FromNewest(h, k - (n + 1) + 1)
        BY <1>1, <4>1
      <4>4. B[n] = L[n + 1]
        BY <1>8, <2>2, <4>1
      <4> QED BY <1>3, <4>1, <4>2, <4>3, <4>4
    <3> QED BY <3>1, <3>2
  <2>4. L2 = B
    BY <1>4, <2>1, <2>2, <2>3, SeqEqual
  <2>5. Abstract!Pushed(L, e) = B
    <3>1. ~(Len(A) <= Size) /\ Len(A) - Size + 1 = 2 /\ Len(A) = Size + 1
      BY <1>5, <1>8, <2>1
    <3> QED BY <3>1 DEF Abstract!Pushed, Abstract!Newest, A, B
  <2> QED BY <2>4, <2>5 DEF h2, e, L, L2
<1> QED BY <1>5, <1>9, <1>10

\* Neighbours are equal only if they fill a slot.
NoRepeats(h) ==
    \A n \in 1 .. Stored(h) - 1 :
        FromNewest(h, n) = FromNewest(h, n + 1) => Len(FromNewest(h, n)) = EntryMax

LEMMA PushRepeats ==
    ASSUME NEW h, HistType(h), NoRepeats(h), NEW l \in Seq(Alphabet)
    PROVE  NoRepeats(Push(h, l))
<1>1. CASE ~Effective(h, l)
  BY <1>1, PushIdle
<1>2. CASE Effective(h, l)
  <2> DEFINE h2 == Push(h, l)
             e == Cut(l, EntryMax)
  <2>1. /\ HistType(h2) /\ h2.count = h.count + 1
        /\ FromNewest(h2, 1) = e
        /\ \A n \in 1 .. Size - 1 : FromNewest(h2, n + 1) = FromNewest(h, n)
    BY <1>2, PushStores
  <2>2. h.count \in Nat /\ Size \in Nat /\ EntryMax \in Nat
    BY SizesAssumption DEF HistType
  <2>3. Len(l) \in Nat /\ Len(e) = Smaller(Len(l), EntryMax) /\ (Len(l) <= EntryMax => e = l)
    BY <2>2, CutIs
  <2>4. l # FromNewest(h, 1) \/ h.count = 0
    BY <1>2, <2>2 DEF Effective
  <2>5. /\ Stored(h) = IF h.count <= Size THEN h.count ELSE Size
        /\ Stored(h2) = IF h.count + 1 <= Size THEN h.count + 1 ELSE Size
    BY <2>1 DEF Stored, Smaller
  <2> HIDE DEF h2, e
  <2>6. ASSUME NEW n \in 1 .. Stored(h2) - 1, FromNewest(h2, n) = FromNewest(h2, n + 1)
        PROVE  Len(FromNewest(h2, n)) = EntryMax
    <3>1. n \in 1 .. Size - 1 /\ n \in Nat /\ n >= 1 /\ n <= Stored(h)
      BY <2>2, <2>5
    <3>2. FromNewest(h2, n + 1) = FromNewest(h, n)
      BY <2>1, <3>1
    <3>3. CASE n = 1
      <4>1. h.count # 0
        BY <2>2, <2>5, <3>1
      <4>2. e # l
        BY <2>1, <2>4, <2>6, <3>2, <3>3, <4>1
      <4>3. Len(l) > EntryMax
        BY <2>2, <2>3, <4>2
      <4>4. Len(e) = EntryMax
        BY <2>2, <2>3, <4>3 DEF Smaller
      <4> QED BY <2>1, <3>3, <4>4
    <3>4. CASE n # 1
      <4>1. n - 1 \in 1 .. Size - 1 /\ (n - 1) + 1 = n /\ n - 1 \in 1 .. Stored(h) - 1
        BY <2>2, <2>5, <3>1, <3>4
      <4>2. FromNewest(h2, (n - 1) + 1) = FromNewest(h, n - 1)
        BY <2>1, <4>1
      <4>3. FromNewest(h, n - 1) = FromNewest(h, (n - 1) + 1)
        BY <2>6, <3>2, <4>1, <4>2
      <4>4. Len(FromNewest(h, n - 1)) = EntryMax
        BY <4>1, <4>3 DEF NoRepeats
      <4> QED BY <4>1, <4>2, <4>4
    <3> QED BY <3>3, <3>4
  <2> QED BY <2>6 DEF NoRepeats, h2
<1> QED BY <1>1, <1>2

-----------------------------------------------------------------------------
(* What a line becomes when it is evaluated                                *)

LEMMA AtomExpands ==
    ASSUME NEW h, HistType(h), NEW a \in Alphabet
    PROVE  ExpandAtom(h, a) \in Seq(Alphabet)
<1>1. a.kind \in {"back", "nth"} => a.n \in Nat
  BY AlphabetAssumption DEF Word, Op, Last1
<1>2. <<a>> \in Seq(Alphabet) /\ <<>> \in Seq(Alphabet)
  BY EmptySeq
<1>3. CASE a.kind = "last"
  BY <1>2, <1>3, SlotIs DEF ExpandAtom
<1>4. CASE a.kind = "back"
  <2>1. FromNewest(h, a.n) \in Seq(Alphabet)
    BY <1>1, <1>4, SlotIs
  <2> QED BY <1>2, <1>4, <2>1 DEF ExpandAtom
<1>5. CASE a.kind = "nth"
  <2>1. a.n \in Int /\ Stored(h) - a.n + 1 \in Int
    BY <1>1, <1>5, StoredIs
  <2>2. FromOldest(h, a.n) \in Seq(Alphabet)
    BY <2>1, OldestIs, SlotIs
  <2> QED BY <1>2, <1>5, <2>2 DEF ExpandAtom
<1>6. CASE a.kind \notin {"last", "back", "nth"}
  BY <1>2, <1>6 DEF ExpandAtom
<1> QED BY <1>3, <1>4, <1>5, <1>6

LEMMA CommandType ==
    ASSUME NEW h, HistType(h), NEW l \in Seq(Alphabet)
    PROVE  Command(h, l) \in Seq(Alphabet) /\ Len(Command(h, l)) <= VecMax
<1> DEFINE ss == [i \in DOMAIN l |-> ExpandAtom(h, l[i])]
<1>1. ss \in Seq(Seq(Alphabet))
  <2>1. \A i \in 1 .. Len(l) : ExpandAtom(h, l[i]) \in Seq(Alphabet)
    BY ElementOfSeq, AtomExpands
  <2>2. Len(l) \in Nat /\ DOMAIN l = 1 .. Len(l)
    BY LenProperties
  <2> QED BY <2>1, <2>2
<1> HIDE DEF ss
<1> DEFINE s == Cut(FlattenSeq(ss), VecMax)
<1>2. VecMax \in Nat /\ LineMax \in Nat /\ LineMax <= VecMax
  BY SizesAssumption
<1>3. s \in Seq(Alphabet) /\ Len(s) \in Nat /\ Len(s) <= VecMax
  <2>1. FlattenSeq(ss) \in Seq(Alphabet)
    BY <1>1, FlattenedType
  <2> QED BY <1>2, <2>1, CutIs, LenProperties
<1>4. Expand(h, l) = s
  BY DEF Expand, ss
<1> HIDE DEF s
<1>5. Cut(s, LineMax) \in Seq(Alphabet) /\ Len(Cut(s, LineMax)) <= LineMax
      /\ Len(Cut(s, LineMax)) \in Nat
  BY <1>2, <1>3, CutIs, LenProperties
<1> QED BY <1>2, <1>3, <1>4, <1>5 DEF Command

\* A line without references is run as it is.
LEMMA PlainCommand ==
    ASSUME NEW h, NEW l \in Seq(Alphabet), Len(l) <= LineMax,
           \A n \in DOMAIN l : ~IsReference(l[n])
    PROVE  Command(h, l) = l
<1>1. [i \in DOMAIN l |-> ExpandAtom(h, l[i])] = [i \in DOMAIN l |-> <<l[i]>>]
  <2>1. \A i \in DOMAIN l : ExpandAtom(h, l[i]) = <<l[i]>>
    BY DEF ExpandAtom, IsReference
  <2> QED BY <2>1
<1>2. FlattenSeq([i \in DOMAIN l |-> <<l[i]>>]) = l
  BY FlattenedSingletons
<1>3. LineMax \in Nat /\ VecMax \in Nat /\ Len(l) \in Nat /\ Len(l) <= VecMax
  BY SizesAssumption, LenProperties
<1>4. Expand(h, l) = l /\ Cut(l, LineMax) = l
  BY <1>1, <1>2, <1>3, CutIs DEF Expand
<1> QED BY <1>4 DEF Command

-----------------------------------------------------------------------------
(* The invariant                                                           *)

LineInv == edit \in Seq(Alphabet) /\ Len(edit) <= LineMax
RanInv == ran \in Seq(Alphabet) /\ Len(ran) <= VecMax

Inv ==
    /\ raw \in BOOLEAN /\ nav \in Int
    /\ HistType(Hist) /\ NoRepeats(Hist)
    /\ LineInv /\ RanInv

\* What an evaluation leaves: the history keeps its properties, and what
\* runs, if anything does, is its newest line.
LEMMA EvaluatedIs ==
    ASSUME NEW h, HistType(h), NoRepeats(h), NEW l \in Seq(Alphabet), Len(l) <= LineMax, l # <<>>
    PROVE  LET after == Evaluated(h, l)
           IN  /\ HistType(after.hist) /\ NoRepeats(after.hist)
               /\ after.ran \in Seq(Alphabet) /\ Len(after.ran) <= VecMax
               /\ after.ran # <<>> => FromNewest(after.hist, 1) = Cut(after.ran, EntryMax)
<1> DEFINE Good(hist, s) ==
        /\ HistType(hist) /\ NoRepeats(hist)
        /\ s \in Seq(Alphabet) /\ Len(s) <= VecMax
        /\ s # <<>> => FromNewest(hist, 1) = Cut(s, EntryMax)
<1>1. ASSUME NEW g, HistType(g), NoRepeats(g), NEW s \in Seq(Alphabet), Len(s) <= VecMax
      PROVE  Good(Push(g, s), s)
  <2>1. HistType(Push(g, s)) /\ NoRepeats(Push(g, s))
    BY <1>1, PushType, PushRepeats
  <2>2. ASSUME s # <<>> PROVE FromNewest(Push(g, s), 1) = Cut(s, EntryMax)
    <3>1. CASE Effective(g, s)
      BY <1>1, <3>1, PushStores
    <3>2. CASE ~Effective(g, s)
      <4>1. Push(g, s) = g /\ FromNewest(g, 1) = s
        BY <2>2, <3>2, PushIdle DEF Effective
      <4>2. Len(s) <= EntryMax
        BY <1>1, <4>1, SlotIs
      <4>3. EntryMax \in Nat
        BY SizesAssumption
      <4> QED BY <4>1, <4>2, <4>3, CutIs
    <3> QED BY <3>1, <3>2
  <2> QED BY <1>1, <2>1, <2>2
<1>2. ASSUME NEW g, HistType(g), NoRepeats(g)
      PROVE  Good(EvalLine(g, l).hist, EvalLine(g, l).ran)
  <2>1. Command(g, l) \in Seq(Alphabet) /\ Len(Command(g, l)) <= VecMax
    BY <1>2, CommandType
  <2>2. Good(Push(g, Command(g, l)), Command(g, l))
    BY <1>1, <1>2, <2>1
  <2> HIDE DEF Good
  <2> QED BY <2>2 DEF EvalLine
<1>3. Good(Push(h, l), l)
  <2>1. Len(l) <= VecMax
    BY SizesAssumption, LenProperties
  <2> QED BY <1>1, <2>1
<1>4. HistType(Push(h, l)) /\ NoRepeats(Push(h, l))
  BY <1>3
<1>5. Good(EvalLine(Push(h, l), l).hist, EvalLine(Push(h, l), l).ran)
  BY <1>2, <1>4
<1>6. Good(EvalLine(h, l).hist, EvalLine(h, l).ran)
  BY <1>2
<1>7. Good(Evaluated(h, l).hist, Evaluated(h, l).ran)
  <2> HIDE DEF Good
  <2>1. CASE raw /\ HasOp(l)
    BY <1>3, <2>1 DEF Evaluated, RawEnter
  <2>2. CASE raw /\ ~HasOp(l)
    BY <1>5, <2>2 DEF Evaluated, RawEnter
  <2>3. CASE ~raw
    BY <1>6, <2>3 DEF Evaluated
  <2> QED BY <2>1, <2>2, <2>3
<1> QED BY <1>7

LEMMA InitInv == Init => Inv
<1> SUFFICES ASSUME Init PROVE Inv
  OBVIOUS
<1>1. {Size, EntryMax, LineMax, VecMax} \subseteq Nat
  BY SizesAssumption
<1>2. <<>> \in Seq(Alphabet) /\ Len(<<>>) = 0
  BY EmptySeq
<1>3. <<>> \in Entry
  BY <1>1, <1>2 DEF Entry
<1>4. HistType(Hist)
  BY <1>3 DEF Init, Hist, HistType
<1>5. Stored(Hist) = 0
  BY <1>1 DEF Init, Hist, Stored, Smaller
<1>6. NoRepeats(Hist)
  BY <1>5 DEF NoRepeats
<1>7. LineInv /\ RanInv
  BY <1>1, <1>2 DEF Init, LineInv, RanInv
<1> QED BY <1>4, <1>6, <1>7 DEF Init, Inv

\* The history after Enter.
LEMMA EnterIs ==
    ASSUME Inv, Enter, edit # <<>>
    PROVE  LET after == Evaluated(Hist, edit)
           IN  /\ ran' = after.ran
               /\ Hist' = [ring |-> after.hist.ring, count |-> after.hist.count]
               /\ HistType(Hist') /\ NoRepeats(Hist') /\ RanInv'
               /\ Lines(Hist') = Lines(after.hist)
               /\ ran' # <<>> => FromNewest(Hist', 1) = Cut(ran', EntryMax)
<1> DEFINE after == Evaluated(Hist, edit)
           g == after.hist
           g2 == [ring |-> g.ring, count |-> g.count]
<1>1. ran' = after.ran /\ Hist' = g2
  BY DEF Enter, Hist
<1>2. /\ HistType(g) /\ NoRepeats(g)
      /\ after.ran \in Seq(Alphabet) /\ Len(after.ran) <= VecMax
      /\ after.ran # <<>> => FromNewest(g, 1) = Cut(after.ran, EntryMax)
  BY EvaluatedIs DEF Inv, LineInv
<1> HIDE DEF g, after
<1>3. g2.ring = g.ring /\ g2.count = g.count
  OBVIOUS
<1> HIDE DEF g2
<1>4. HistType(g2) /\ NoRepeats(g2) /\ FromNewest(g2, 1) = FromNewest(g, 1)
  BY <1>2, <1>3 DEF HistType, NoRepeats, FromNewest, Stored
<1>5. Lines(g2) = Lines(g)
  BY <1>3 DEF Lines, FromOldest, Stored
<1> QED BY <1>1, <1>2, <1>4, <1>5 DEF RanInv, g, g2, after

LEMMA NextInv == Inv /\ [Next]_vars => Inv'
<1> SUFFICES ASSUME Inv, [Next]_vars PROVE Inv'
  OBVIOUS
<1>1. {Size, EntryMax, LineMax, VecMax} \subseteq Nat
  BY SizesAssumption
<1>2. <<>> \in Seq(Alphabet) /\ Len(<<>>) = 0
  BY EmptySeq
<1>3. HistType(Hist) /\ NoRepeats(Hist) /\ nav \in Int /\ Len(edit) \in Nat
      /\ edit \in Seq(Alphabet) /\ Len(edit) <= LineMax
  BY LenProperties DEF Inv, LineInv
<1>4. CASE Enter
  <2>1. LineInv' /\ raw' \in BOOLEAN /\ nav' \in Int
    BY <1>1, <1>2, <1>4 DEF Enter, LineInv, Inv
  <2>2. CASE edit = <<>>
    <3>1. Hist' = Hist /\ ran' = ran
      BY <1>4, <2>2 DEF Enter, Hist
    <3>2. HistType(Hist') /\ NoRepeats(Hist') /\ RanInv'
      BY <1>3, <3>1 DEF Inv, RanInv
    <3> QED BY <2>1, <3>1, <3>2 DEF Inv
  <2>3. CASE edit # <<>>
    <3>1. HistType(Hist') /\ NoRepeats(Hist') /\ RanInv'
      BY <1>4, <2>3, EnterIs
    <3> QED BY <2>1, <3>1 DEF Inv
  <2> QED BY <2>2, <2>3
<1>5. ASSUME UNCHANGED <<raw, ring, count, ran>>, nav' \in Int, LineInv'
      PROVE  Inv'
  <2>1. Hist' = Hist
    BY <1>5 DEF Hist
  <2>2. HistType(Hist') /\ NoRepeats(Hist') /\ RanInv' /\ raw' \in BOOLEAN
    BY <1>3, <1>5, <2>1 DEF Inv, RanInv
  <2> QED BY <1>5, <2>2 DEF Inv
<1>6. CASE Backspace
  <2>1. edit' \in Seq(Alphabet) /\ Len(edit') = Len(edit) - 1
    BY <1>3, <1>6, FrontType DEF Backspace
  <2>2. LineInv'
    BY <1>1, <1>3, <2>1 DEF LineInv
  <2> QED BY <1>3, <1>5, <1>6, <2>2 DEF Backspace
<1>7. ASSUME NEW n \in Int PROVE Cut(FromNewest(Hist, n), LineMax) \in Seq(Alphabet)
                                 /\ Len(Cut(FromNewest(Hist, n), LineMax)) <= LineMax
  BY <1>1, <1>3, SlotIs, CutIs
<1>8. CASE Up
  <2>1. nav' \in Int /\ nav + 2 \in Int
    BY <1>3, <1>8 DEF Up
  <2>2. LineInv'
    BY <1>7, <1>8, <2>1 DEF Up, LineInv
  <2> QED BY <1>5, <1>8, <2>1, <2>2 DEF Up
<1>9. CASE Down
  <2>1. nav' \in Int
    BY <1>3, <1>9 DEF Down
  <2>2. LineInv'
    <3>1. CASE nav <= 0
      BY <1>1, <1>2, <1>9, <3>1 DEF Down, LineInv
    <3>2. CASE ~(nav <= 0)
      <4>1. edit' = Cut(FromNewest(Hist, nav), LineMax)
        BY <1>9, <3>2 DEF Down
      <4> QED BY <1>3, <1>7, <4>1 DEF LineInv
    <3> QED BY <3>1, <3>2
  <2> QED BY <1>5, <1>9, <2>1, <2>2 DEF Down
<1>10. ASSUME NEW a \in Alphabet, Type(a) PROVE Inv'
  <2>1. LineInv'
    <3>1. Append(edit, a) \in Seq(Alphabet) /\ Len(Append(edit, a)) = Len(edit) + 1
      BY <1>3, AppendProperties
    <3> QED BY <1>1, <1>3, <1>10, <3>1 DEF Type, LineInv
  <2> QED BY <1>3, <1>5, <1>10, <2>1 DEF Type
<1>11. CASE UNCHANGED vars
  BY <1>3, <1>5, <1>11 DEF vars, LineInv
<1> QED BY <1>4, <1>6, <1>8, <1>9, <1>10, <1>11 DEF Next

THEOREM Invariance == Spec => []Inv
BY InitInv, NextInv, PTL DEF Spec

\* Every variable keeps its type: what is stored fits its slot, the line
\* edited its buffer, and what runs the buffer it was expanded into.
THEOREM TypeCorrect == Spec => []TypeOK
<1>1. Inv => TypeOK
  BY DEF Inv, TypeOK, HistType, Hist, Entry, LineInv, RanInv
<1> QED BY <1>1, Invariance, PTL

\* Two neighbours in the history are equal only if they fill a slot,
\* whichever loop feeds it and however often the ring wraps around.
THEOREM OnlyCutLinesRepeat == Spec => []RepeatsOnlyWhenCut
<1>1. Inv => RepeatsOnlyWhenCut
  <2> SUFFICES ASSUME Inv PROVE RepeatsOnlyWhenCut
    OBVIOUS
  <2>1. HistType(Hist) /\ NoRepeats(Hist)
    BY DEF Inv
  <2>2. /\ Stored(Hist) \in Nat
        /\ \A n \in 1 .. Stored(Hist) : Remembered[n] = FromNewest(Hist, Stored(Hist) - n + 1)
    BY <2>1, LinesAre, StoredIs DEF Lines, Remembered
  <2>3. ASSUME NEW n \in 1 .. Stored(Hist) - 1, Remembered[n] = Remembered[n + 1]
        PROVE  Len(Remembered[n]) = EntryMax
    <3> DEFINE k == Stored(Hist) - n
    <3>1. /\ k \in 1 .. Stored(Hist) - 1 /\ n \in 1 .. Stored(Hist) /\ n + 1 \in 1 .. Stored(Hist)
          /\ Stored(Hist) - n + 1 = k + 1 /\ Stored(Hist) - (n + 1) + 1 = k
      BY <2>2
    <3> HIDE DEF k
    <3>2. Remembered[n] = FromNewest(Hist, k + 1) /\ Remembered[n + 1] = FromNewest(Hist, k)
      <4>1. Remembered[n] = FromNewest(Hist, Stored(Hist) - n + 1)
        BY <2>2, <3>1
      <4>2. Remembered[n + 1] = FromNewest(Hist, Stored(Hist) - (n + 1) + 1)
        BY <2>2, <3>1
      <4> QED BY <3>1, <4>1, <4>2
    <3> QED BY <2>1, <2>3, <3>1, <3>2 DEF NoRepeats
  <2> QED BY <2>3 DEF RepeatsOnlyWhenCut
<1> QED BY <1>1, Invariance, PTL

\* What runs is, cut to a slot, the newest line of the history, so that arrow
\* up brings back the command and not the reference that was typed.
THEOREM NewestRan == Spec => NewestIsWhatRan
<1>1. Inv /\ [Next]_vars
      => [ran' # ran /\ ran' # <<>> => FromNewest(Hist, 1)' = Cut(ran', EntryMax)]_vars
  <2> SUFFICES ASSUME Inv, Next, ran' # ran, ran' # <<>>
               PROVE  FromNewest(Hist, 1)' = Cut(ran', EntryMax)
    OBVIOUS
  <2>1. Enter /\ edit # <<>>
    BY DEF Next, Enter, Backspace, Up, Down, Type
  <2>2. FromNewest(Hist', 1) = Cut(ran', EntryMax)
    BY <2>1, EnterIs
  <2> QED BY <2>2
<1> QED BY <1>1, Invariance, PTL DEF Spec, NewestIsWhatRan

-----------------------------------------------------------------------------
(* The ring implements the list                                            *)

Expands == { l \in LinesUpTo(EntryMax) : MayBePushedTwice(l) }

\* R2 is R with one more line, or with two of which the first may expand.
OneMore(R, R2) == \E e \in LinesUpTo(EntryMax) : R2 = Abstract!Pushed(R, e)
TwoMore(R, R2) ==
    /\ R2 # <<>>
    /\ \E e \in Expands, f \in LinesUpTo(EntryMax) \cap {R2[Len(R2)]} :
          R2 = Abstract!Pushed(Abstract!Pushed(R, e), f)

LEMMA EntriesAre ==
    ASSUME NEW l \in Entry
    PROVE  l \in LinesUpTo(EntryMax)
<1>1. Len(l) \in 0 .. EntryMax /\ l \in [1 .. Len(l) -> Alphabet]
  BY SizesAssumption DEF Entry
<1> QED BY <1>1 DEF LinesUpTo, BoundedSeq, SeqOf

LEMMA CutEntry ==
    ASSUME NEW l \in Seq(Alphabet)
    PROVE  Cut(l, EntryMax) \in Entry
<1>1. EntryMax \in Nat
  BY SizesAssumption
<1> QED BY <1>1, CutIs DEF Entry

\* One push stores the line or leaves the history as it is.
LEMMA PushIsOneMore ==
    ASSUME NEW h, HistType(h), NEW l \in Seq(Alphabet)
    PROVE  Lines(Push(h, l)) = Lines(h) \/ OneMore(Lines(h), Lines(Push(h, l)))
<1>1. CASE Effective(h, l)
  <2>1. Cut(l, EntryMax) \in LinesUpTo(EntryMax)
    BY CutEntry, EntriesAre
  <2> QED BY <1>1, <2>1, PushAppends DEF OneMore
<1>2. CASE ~Effective(h, l)
  BY <1>2, PushIdle
<1> QED BY <1>1, <1>2

\* A line that raw_mode_repl pushes and eval_line pushes again has a
\* reference, or was cut.
LEMMA TwicePushed ==
    ASSUME NEW h, HistType(h), NEW l \in Seq(Alphabet), Len(l) <= LineMax,
           Effective(h, l), Effective(Push(h, l), Command(Push(h, l), l))
    PROVE  Cut(l, EntryMax) \in Expands
<1> DEFINE e == Cut(l, EntryMax)
           h2 == Push(h, l)
<1>1. e \in LinesUpTo(EntryMax)
  BY CutEntry, EntriesAre
<1>2. /\ EntryMax \in Nat /\ LineMax \in Nat /\ Len(l) \in Nat
      /\ Len(e) = Smaller(Len(l), EntryMax) /\ (Len(l) <= EntryMax => e = l)
  BY CutIs, SizesAssumption, LenProperties
<1>3. FromNewest(h2, 1) = e /\ h2.count = h.count + 1 /\ h.count \in Nat
  BY PushStores DEF HistType
<1> HIDE DEF h2, e
<1>4. CASE Len(l) > EntryMax
  <2>1. Len(e) = EntryMax /\ EntryMax < LineMax
    BY <1>2, <1>4 DEF Smaller
  <2> QED BY <1>1, <2>1 DEF Expands, MayBePushedTwice, e
<1>5. CASE Len(l) <= EntryMax
  <2>1. e = l
    BY <1>2, <1>5
  <2>2. CASE \E n \in DOMAIN l : IsReference(l[n])
    BY <1>1, <2>1, <2>2 DEF Expands, MayBePushedTwice, e
  <2>3. CASE ~\E n \in DOMAIN l : IsReference(l[n])
    <3>1. Command(h2, l) = l
      BY <2>3, PlainCommand
    <3>2. h2.count > 0
      BY <1>3
    <3>3. ~Effective(h2, l)
      BY <1>3, <2>1, <3>2 DEF Effective
    <3> QED BY <3>1, <3>3 DEF h2
  <2> QED BY <2>2, <2>3
<1> QED BY <1>2, <1>4, <1>5

LEMMA EvaluationPushes ==
    ASSUME NEW h, HistType(h), NEW l \in Seq(Alphabet), Len(l) <= LineMax
    PROVE  LET R2 == Lines(Evaluated(h, l).hist)
           IN  R2 = Lines(h) \/ OneMore(Lines(h), R2) \/ TwoMore(Lines(h), R2)
<1> DEFINE R2 == Lines(Evaluated(h, l).hist)
           h2 == Push(h, l)
           s == Command(h2, l)
           h3 == Push(h2, s)
<1>1. HistType(h2)
  BY PushType
<1>2. CASE ~raw
  <2>1. Evaluated(h, l).hist = Push(h, Command(h, l))
    BY <1>2 DEF Evaluated, EvalLine
  <2>2. Command(h, l) \in Seq(Alphabet)
    BY CommandType
  <2> QED BY <2>1, <2>2, PushIsOneMore
<1>3. CASE raw /\ HasOp(l)
  <2>1. Evaluated(h, l).hist = Push(h, l)
    BY <1>3 DEF Evaluated, RawEnter
  <2> QED BY <2>1, PushIsOneMore
<1>4. CASE raw /\ ~HasOp(l)
  <2>1. Evaluated(h, l).hist = h3
    BY <1>4 DEF Evaluated, RawEnter, EvalLine
  <2>2. s \in Seq(Alphabet)
    BY <1>1, CommandType
  <2>3. CASE ~Effective(h, l)
    <3>1. h2 = h
      BY <2>3, PushIdle
    <3>2. Lines(h3) = Lines(h2) \/ OneMore(Lines(h2), Lines(h3))
      BY <1>1, <2>2, PushIsOneMore
    <3> QED BY <2>1, <3>1, <3>2
  <2>4. CASE ~Effective(h2, s)
    <3>1. h3 = h2
      BY <2>4, PushIdle
    <3>2. Lines(h2) = Lines(h) \/ OneMore(Lines(h), Lines(h2))
      BY PushIsOneMore
    <3> QED BY <2>1, <3>1, <3>2
  <2>5. CASE Effective(h, l) /\ Effective(h2, s)
    <3> DEFINE e == Cut(l, EntryMax)
               f == Cut(s, EntryMax)
    <3>1. e \in Expands
      BY <2>5, TwicePushed
    <3>2. Lines(h2) = Abstract!Pushed(Lines(h), e)
      BY <2>5, PushAppends
    <3>3. Lines(h3) = Abstract!Pushed(Lines(h2), f)
      BY <1>1, <2>2, <2>5, PushAppends
    <3>4. HistType(h3) /\ h3.count = h2.count + 1 /\ FromNewest(h3, 1) = f
      BY <1>1, <2>2, <2>5, PushStores
    <3>5. h3.count > 0
      BY <1>1, <3>4 DEF HistType
    <3>6. Lines(h3) # <<>> /\ Lines(h3)[Len(Lines(h3))] = f
      BY <3>4, <3>5, LinesAre
    <3>7. f \in LinesUpTo(EntryMax)
      BY <2>2, CutEntry, EntriesAre
    <3> HIDE DEF e, f, h2, h3
    <3>8. TwoMore(Lines(h), Lines(h3))
      BY <3>1, <3>2, <3>3, <3>6, <3>7 DEF TwoMore
    <3> QED BY <2>1, <3>8
  <2> QED BY <2>3, <2>4, <2>5
<1> QED BY <1>2, <1>3, <1>4

\* The ring with its slots modulo Size, its count and the repeat check
\* implements the list of the last Size lines pushed, in either loop and for
\* every number of lines; only a line that has a reference or was cut is
\* pushed twice.
THEOREM HistoryImplementsRecentLines == Spec => ImplementsRecentLines
<1>0. Remembered = Lines(Hist) /\ Remembered' = Lines(Hist')
  BY DEF Remembered, Lines, FromOldest, Stored, Hist
<1>1. Init => Abstract!Init
  <2> SUFFICES ASSUME Init PROVE Remembered = <<>>
    BY DEF Abstract!Init
  <2>1. Stored(Hist) = 0
    BY SizesAssumption DEF Init, Hist, Stored, Smaller
  <2>2. Remembered = [n \in 1 .. 0 |-> FromOldest(Hist, n)]
    BY <2>1 DEF Remembered
  <2> QED BY <2>2
<1>2. Inv /\ [Next]_vars => [Abstract!Next]_Remembered
  <2> SUFFICES ASSUME Inv, [Next]_vars PROVE [Abstract!Next]_Remembered
    OBVIOUS
  <2>1. CASE Enter /\ edit # <<>>
    <3>1. Lines(Hist') = Lines(Evaluated(Hist, edit).hist)
      BY <2>1, EnterIs
    <3>2. \/ Remembered' = Remembered
          \/ OneMore(Remembered, Remembered')
          \/ TwoMore(Remembered, Remembered')
      BY <1>0, <3>1, EvaluationPushes DEF Inv, LineInv
    <3>3. OneMore(Remembered, Remembered') => Abstract!Push
      BY DEF OneMore, Abstract!Push
    <3>4. TwoMore(Remembered, Remembered') => Abstract!PushTwo
      BY DEF TwoMore, Abstract!PushTwo, Expands
    <3> QED BY <3>2, <3>3, <3>4 DEF Abstract!Next
  <2>2. CASE ~(Enter /\ edit # <<>>)
    <3>1. ring' = ring /\ count' = count
      BY <2>2 DEF Next, Enter, Backspace, Up, Down, Type, vars
    <3>2. Remembered' = Remembered
      BY <1>0, <3>1 DEF Hist
    <3> QED BY <3>2
  <2> QED BY <2>1, <2>2
<1> QED BY <1>1, <1>2, Invariance, PTL DEF Spec, ImplementsRecentLines, Abstract!Spec
=============================================================================
