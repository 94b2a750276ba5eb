--------------------------- MODULE SequenceLemmas ---------------------------
(***************************************************************************)
(* Facts about sequences and numbers that several of the proofs need.      *)
(***************************************************************************)
EXTENDS Integers, Sequences, SequencesExt, SequenceTheorems, FiniteSetTheorems,
        WellFoundedInduction, TLAPS

-----------------------------------------------------------------------------
(* Remainders                                                              *)

LEMMA ModIs ==
    ASSUME NEW a \in Int, NEW s \in Nat \ {0}
    PROVE  a % s \in 0 .. s - 1
OBVIOUS

LEMMA DivisionIs ==
    ASSUME NEW a \in Int, NEW s \in Nat, s > 0
    PROVE  a \div s \in Int /\ a = s * (a \div s) + (a % s)
BY SMTT(30)

\* Fewer than s numbers in a row have different remainders.
LEMMA ModDiffers ==
    ASSUME NEW a \in Int, NEW s \in Nat \ {0}, NEW k \in 1 .. s - 1
    PROVE  (a - k) % s # a % s
<1> SUFFICES ASSUME (a - k) % s = a % s PROVE FALSE
  OBVIOUS
<1> DEFINE p == a \div s
           q == (a - k) \div s
<1>1. p \in Int /\ q \in Int
  OBVIOUS
<1>2. a = s * p + (a % s) /\ a - k = s * q + ((a - k) % s)
  <2>1. a - k \in Int /\ s \in Nat /\ s > 0
    OBVIOUS
  <2> QED BY <2>1, DivisionIs
<1> HIDE DEF p, q
<1>3. k = s * (p - q)
  BY <1>1, <1>2
<1>4. CASE p - q <= 0
  <2>1. s * (p - q) <= 0
    BY <1>1, <1>4
  <2> QED BY <1>3, <2>1
<1>5. CASE p - q >= 1
  <2>1. s * (p - q) >= s
    BY <1>1, <1>5
  <2> QED BY <1>3, <2>1
<1> QED BY <1>1, <1>4, <1>5

LEMMA RemainderIs ==
    ASSUME NEW a \in Int, NEW s \in Nat, s > 0, NEW q \in Int, NEW r \in 0 .. s - 1, a = s * q + r
    PROVE  a % s = r
BY SMTT(30)

\* One s further the remainder is the same.
LEMMA RemainderRepeats ==
    ASSUME NEW a \in Int, NEW s \in Nat \ {0}
    PROVE  (a + s) % s = a % s
<1> DEFINE q == a \div s
           r == a % s
<1>1. s \in Nat /\ s > 0
  OBVIOUS
<1>2. q \in Int /\ a = s * q + r /\ r \in 0 .. s - 1
  BY <1>1, DivisionIs, ModIs
<1> HIDE DEF q, r
<1>3. a + s = s * (q + 1) + r /\ q + 1 \in Int /\ a + s \in Int
  BY <1>1, <1>2
<1>4. (a + s) % s = r
  BY <1>1, <1>2, <1>3, RemainderIs
<1> QED BY <1>4 DEF r

LEMMA QuotientIs ==
    ASSUME NEW a \in Int, NEW s \in Nat, s > 0, NEW q \in Int, NEW r \in 0 .. s - 1, a = s * q + r
    PROVE  a \div s = q
BY SMTT(30)

\* The next number has the next remainder, or starts the next multiple.
LEMMA NextQuotient ==
    ASSUME NEW a \in Nat, NEW s \in Nat, s > 0
    PROVE  IF (a % s) + 1 = s
           THEN (a + 1) % s = 0 /\ (a + 1) \div s = (a \div s) + 1
           ELSE (a + 1) % s = (a % s) + 1 /\ (a + 1) \div s = a \div s
<1> DEFINE q == a \div s
           r == a % s
<1>1. q \in Int /\ a = s * q + r /\ r \in 0 .. s - 1
  BY DivisionIs, ModIs
<1> HIDE DEF q, r
<1>2. CASE r + 1 = s
  <2>1. a + 1 = s * (q + 1) + 0 /\ q + 1 \in Int /\ 0 \in 0 .. s - 1 /\ a + 1 \in Int
    BY <1>1, <1>2
  <2>2. (a + 1) % s = 0 /\ (a + 1) \div s = q + 1
    BY <2>1, QuotientIs, RemainderIs
  <2> QED BY <1>2, <2>2 DEF q, r
<1>3. CASE r + 1 # s
  <2>1. a + 1 = s * q + (r + 1) /\ r + 1 \in 0 .. s - 1 /\ a + 1 \in Int
    BY <1>1, <1>3
  <2>2. (a + 1) % s = r + 1 /\ (a + 1) \div s = q
    BY <1>1, <2>1, QuotientIs, RemainderIs
  <2> QED BY <1>3, <2>2 DEF q, r
<1> QED BY <1>2, <1>3

LEMMA QuotientGrows ==
    ASSUME NEW a \in Nat, NEW b \in Nat, a <= b, NEW s \in Nat, s > 0
    PROVE  a \div s <= b \div s
<1> DEFINE p == a \div s
           q == b \div s
           c == a % s
           d == b % s
<1>1. p \in Int /\ q \in Int /\ a = s * p + c /\ b = s * q + d /\ c \in 0 .. s - 1 /\ d \in 0 .. s - 1
  BY DivisionIs, ModIs
<1> HIDE DEF p, q, c, d
<1>2. SUFFICES ASSUME p >= q + 1 PROVE FALSE
  BY <1>1 DEF p, q
<1>3. s * (p - q) >= s
  BY <1>1, <1>2
<1>4. s * p - s * q = s * (p - q)
  BY <1>1
<1> QED BY <1>1, <1>3, <1>4

-----------------------------------------------------------------------------
(* Least and greatest numbers, and how many there are                       *)

\* Every set of numbers that is not empty has a least one.
LEMMA Least ==
    ASSUME NEW T \in SUBSET Nat, T # {}
    PROVE  \E x \in T : \A y \in T : x <= y
<1>1. PICK x \in T : \A y \in T : ~(<<y, x>> \in OpToRel(<, Nat))
  <2> DEFINE R == OpToRel(<, Nat)
  <2>1. IsWellFoundedOn(R, Nat)
    BY NatLessThanWellFounded
  <2> HIDE DEF R
  <2> QED BY <2>1, WFMin DEF R
<1>2. \A y \in T : ~(y < x)
  BY <1>1 DEF OpToRel
<1> QED BY <1>2

\* The greatest member of a set of numbers is its Max, and so for two.
LEMMA MaxIs ==
    ASSUME NEW S \in SUBSET Nat, NEW m \in S, \A x \in S : x <= m
    PROVE  Max(S) = m
<1>1. \E x \in S : \A y \in S : x >= y
  OBVIOUS
<1>2. Max(S) \in S /\ \A y \in S : Max(S) >= y
  <2> DEFINE P(x) == x \in S /\ \A y \in S : x >= y
  <2>1. \E x : P(x)
    BY <1>1
  <2>2. P(CHOOSE x : P(x))
    <3> HIDE DEF P
    <3> QED BY <2>1
  <2>3. Max(S) = CHOOSE x : P(x)
    BY DEF Max
  <2> QED BY <2>2, <2>3
<1>3. Max(S) \in Nat /\ m \in Nat /\ Max(S) <= m /\ Max(S) >= m
  BY <1>2
<1> QED BY <1>3

LEMMA MinOfTwo ==
    ASSUME NEW a \in Int, NEW b \in Int
    PROVE  Min({a, b}) = IF a <= b THEN a ELSE b
<1> DEFINE m == IF a <= b THEN a ELSE b
<1>1. m \in {a, b} /\ \A y \in {a, b} : m <= y
  OBVIOUS
<1>2. \A x \in {a, b} : (\A y \in {a, b} : x <= y) => x = m
  OBVIOUS
<1> QED BY <1>1, <1>2 DEF Min

LEMMA MaxOfTwo ==
    ASSUME NEW a \in Int, NEW b \in Int
    PROVE  Max({a, b}) = IF a >= b THEN a ELSE b
<1> DEFINE m == IF a >= b THEN a ELSE b
<1>1. m \in {a, b} /\ \A y \in {a, b} : m >= y
  OBVIOUS
<1>2. \A x \in {a, b} : (\A y \in {a, b} : x >= y) => x = m
  OBVIOUS
<1> QED BY <1>1, <1>2 DEF Max

\* A set of numbers with a bound has a greatest one.
LEMMA Greatest ==
    ASSUME NEW T \in SUBSET Nat, T # {}, NEW n \in Nat, \A x \in T : x <= n
    PROVE  Max(T) \in T /\ \A y \in T : y <= Max(T)
<1> DEFINE D == { d \in Nat : \E x \in T : d = n - x }
<1>1. D \in SUBSET Nat
  OBVIOUS
<1>2. D # {}
  <2>1. PICK x \in T : TRUE
    OBVIOUS
  <2>2. n - x \in D
    BY <2>1
  <2> QED BY <2>2
<1> HIDE DEF D
<1>3. PICK d \in D : \A e \in D : d <= e
  BY <1>1, <1>2, Least
<1>4. PICK x \in T : d = n - x
  BY DEF D
<1>5. \A y \in T : y <= x
  <2> TAKE y \in T
  <2>1. n - y \in D
    BY DEF D
  <2> QED BY <1>3, <1>4, <2>1
<1>6. Max(T) = x
  BY <1>5, MaxIs
<1> QED BY <1>5, <1>6

\* Positions below a bound are finitely many, and one more position is one
\* more of them.
LEMMA CountTo ==
    ASSUME NEW n \in Nat, NEW S \in SUBSET (1 .. n)
    PROVE  IsFiniteSet(S) /\ Cardinality(S) \in Nat
<1>1. IsFiniteSet(1 .. n)
  BY FS_Interval
<1>2. IsFiniteSet(S)
  BY <1>1, FS_Subset
<1> QED BY <1>2, FS_CardinalityType

LEMMA CountPart ==
    ASSUME NEW n \in Nat, NEW S \in SUBSET (1 .. n), NEW T \in SUBSET S
    PROVE  Cardinality(T) \in Nat /\ Cardinality(T) <= Cardinality(S)
<1>1. IsFiniteSet(S)
  BY CountTo
<1>2. Cardinality(T) <= Cardinality(S)
  BY <1>1, FS_Subset
<1>3. T \in SUBSET (1 .. n)
  OBVIOUS
<1> QED BY <1>2, <1>3, CountTo

LEMMA CountOneMore ==
    ASSUME NEW n \in Nat, NEW S \in SUBSET (1 .. n), NEW x \in 1 .. n, x \notin S
    PROVE  Cardinality(S \cup {x}) = Cardinality(S) + 1
<1>1. IsFiniteSet(S)
  BY CountTo
<1> QED BY <1>1, FS_AddElement

-----------------------------------------------------------------------------
(* Sequences                                                               *)

\* The front of a sequence.
LEMMA FrontType ==
    ASSUME NEW S, NEW s \in Seq(S), s # <<>>
    PROVE  /\ Front(s) \in Seq(S) /\ Len(Front(s)) = Len(s) - 1
           /\ \A i \in 1 .. Len(s) - 1 : Front(s)[i] = s[i]
<1> DEFINE k == Len(s)
<1>1. k \in Nat /\ k # 0 /\ \A i \in 1 .. k : s[i] \in S
  BY LenProperties, EmptySeq, ElementOfSeq
<1> HIDE DEF k
<1>2. k - 1 \in Int /\ \A i \in 1 .. k - 1 : s[i] \in S
  BY <1>1
<1>3. /\ SubSeq(s, 1, k - 1) \in Seq(S)
      /\ Len(SubSeq(s, 1, k - 1)) = IF 1 <= k - 1 THEN (k - 1) - 1 + 1 ELSE 0
      /\ \A i \in 1 .. (k - 1) - 1 + 1 : SubSeq(s, 1, k - 1)[i] = s[1 + i - 1]
  BY <1>2, SubSeqProperties
<1>4. (IF 1 <= k - 1 THEN (k - 1) - 1 + 1 ELSE 0) = k - 1
  BY <1>1
<1>5. \A i \in 1 .. k - 1 : SubSeq(s, 1, k - 1)[i] = s[i]
  <2>1. (k - 1) - 1 + 1 = k - 1 /\ \A i \in 1 .. k - 1 : 1 + i - 1 = i
    BY <1>1
  <2> QED BY <1>3, <2>1
<1> QED BY <1>3, <1>4, <1>5 DEF Front, k

\* A sequence cut in two is its two parts, the second one possibly empty.
LEMMA CutInTwo ==
    ASSUME NEW S, NEW s \in Seq(S), NEW w \in 0 .. Len(s)
    PROVE  /\ SubSeq(s, 1, w) \in Seq(S)
           /\ SubSeq(s, w + 1, Len(s)) \in Seq(S)
           /\ Len(SubSeq(s, w + 1, Len(s))) = Len(s) - w
           /\ SubSeq(s, 1, w) \o SubSeq(s, w + 1, Len(s)) = s
<1>1. Len(s) \in Nat /\ w \in Nat
  BY LenProperties
<1>2. \A i \in 1 .. Len(s) : s[i] \in S
  BY ElementOfSeq
<1>3. SubSeq(s, 1, w) \in Seq(S)
  <2>1. \A i \in 1 .. w : s[i] \in S
    BY <1>1, <1>2
  <2> QED BY <1>1, <2>1, SubSeqProperties
<1>4. /\ SubSeq(s, w + 1, Len(s)) \in Seq(S)
      /\ Len(SubSeq(s, w + 1, Len(s))) =
           IF w + 1 <= Len(s) THEN Len(s) - (w + 1) + 1 ELSE 0
  <2>1. \A i \in w + 1 .. Len(s) : s[i] \in S
    BY <1>1, <1>2
  <2>2. w + 1 \in Int /\ Len(s) \in Int
    BY <1>1
  <2> QED BY <2>1, <2>2, SubSeqProperties
<1>5. SubSeq(s, 1, w) \o SubSeq(s, w + 1, Len(s)) = SubSeq(s, 1, Len(s))
  <2>1. /\ 1 \in 1 .. Len(s) + 1
        /\ w \in 1 - 1 .. Len(s)
        /\ Len(s) \in w .. Len(s)
    BY <1>1
  <2> QED BY <2>1, ConcatAdjacentSubSeq
<1>6. SubSeq(s, 1, Len(s)) = s
  BY SubSeqFull
<1>7. Len(SubSeq(s, w + 1, Len(s))) = Len(s) - w
  BY <1>1, <1>4
<1> QED BY <1>3, <1>4, <1>5, <1>6, <1>7

-----------------------------------------------------------------------------
(* Removing an element.  The job table and the environment both remove an  *)
(* entry by shifting the later ones down (features/service/jobs.rs,        *)
(* features/env.rs).                                                       *)

\* Removing entry i keeps the others in order: entries before i stay, those
\* after it move down by one.
LEMMA RemoveShifts ==
    ASSUME NEW S, NEW js \in Seq(S), NEW i \in DOMAIN js
    PROVE  /\ RemoveAt(js, i) \in Seq(S)
           /\ Len(RemoveAt(js, i)) = Len(js) - 1
           /\ DOMAIN RemoveAt(js, i) = 1 .. Len(js) - 1
           /\ \A k \in 1 .. Len(js) - 1 :
                 RemoveAt(js, i)[k] = IF k < i THEN js[k] ELSE js[k + 1]
<1> DEFINE a == SubSeq(js, 1, i - 1)
           b == SubSeq(js, i + 1, Len(js))
<1>1. Len(js) \in Nat /\ DOMAIN js = 1 .. Len(js) /\ i \in 1 .. Len(js)
  BY LenProperties
<1>2. /\ a \in Seq(S)
      /\ Len(a) = i - 1
      /\ \A k \in 1 .. i - 1 : a[k] = js[k]
  <2>1. \A k \in 1 .. i - 1 : js[k] \in S
    BY <1>1, ElementOfSeq
  <2>2. /\ a \in Seq(S)
        /\ Len(a) = IF 1 <= i - 1 THEN (i - 1) - 1 + 1 ELSE 0
        /\ \A k \in 1 .. (i - 1) - 1 + 1 : a[k] = js[1 + k - 1]
    BY <1>1, <2>1, SubSeqProperties
  <2> QED BY <1>1, <2>2
<1>3. /\ b \in Seq(S)
      /\ Len(b) = Len(js) - i
      /\ \A k \in 1 .. Len(js) - i : b[k] = js[i + k]
  <2>1. \A k \in i + 1 .. Len(js) : js[k] \in S
    BY <1>1, ElementOfSeq
  <2>2. /\ b \in Seq(S)
        /\ Len(b) = IF i + 1 <= Len(js) THEN Len(js) - (i + 1) + 1 ELSE 0
        /\ \A k \in 1 .. Len(js) - (i + 1) + 1 : b[k] = js[(i + 1) + k - 1]
    BY <1>1, <2>1, SubSeqProperties
  <2> QED BY <1>1, <2>2
<1>4. RemoveAt(js, i) = a \o b
  BY DEF RemoveAt
<1>5. /\ a \o b \in Seq(S)
      /\ Len(a \o b) = Len(a) + Len(b)
      /\ \A k \in 1 .. Len(a) + Len(b) :
            (a \o b)[k] = IF k <= Len(a) THEN a[k] ELSE b[k - Len(a)]
  BY <1>2, <1>3, ConcatProperties
<1>6. Len(a \o b) = Len(js) - 1
  BY <1>1, <1>2, <1>3, <1>5
<1>7. DOMAIN (a \o b) = 1 .. Len(js) - 1
  BY <1>5, <1>6, LenProperties
<1>8. ASSUME NEW k \in 1 .. Len(js) - 1
      PROVE  (a \o b)[k] = IF k < i THEN js[k] ELSE js[k + 1]
  <2>1. CASE k < i
    BY <2>1, <1>1, <1>2, <1>3, <1>5
  <2>2. CASE ~(k < i)
    <3>1. (a \o b)[k] = b[k - (i - 1)]
      <4> HIDE DEF a, b
      <4>1. k \in 1 .. Len(a) + Len(b) /\ ~(k <= Len(a))
        BY <2>2, <1>1, <1>2, <1>3
      <4> QED BY <4>1, <1>2, <1>5
    <3>2. k - (i - 1) \in 1 .. Len(js) - i
      BY <2>2, <1>1
    <3>3. b[k - (i - 1)] = js[i + (k - (i - 1))]
      BY <3>2, <1>3
    <3>4. i + (k - (i - 1)) = k + 1
      BY <1>1
    <3> QED BY <2>2, <3>1, <3>3, <3>4
  <2> QED BY <2>1, <2>2
<1> QED BY <1>4, <1>5, <1>6, <1>7, <1>8

\* Every entry after a removal was an entry before it, at an index that
\* depends on the new index in a strictly increasing way and is never i.
LEMMA RemoveKeepsEntries ==
    ASSUME NEW S, NEW js \in Seq(S), NEW i \in DOMAIN js,
           NEW k \in DOMAIN RemoveAt(js, i)
    PROVE  LET k2 == IF k < i THEN k ELSE k + 1
           IN  /\ k2 \in DOMAIN js
               /\ k2 # i
               /\ RemoveAt(js, i)[k] = js[k2]
<1>1. Len(js) \in Nat /\ DOMAIN js = 1 .. Len(js)
  BY LenProperties
<1>2. /\ DOMAIN RemoveAt(js, i) = 1 .. Len(js) - 1
      /\ \A n \in 1 .. Len(js) - 1 :
            RemoveAt(js, i)[n] = IF n < i THEN js[n] ELSE js[n + 1]
  BY RemoveShifts
<1>3. CASE k < i
  BY <1>1, <1>2, <1>3
<1>4. CASE ~(k < i)
  BY <1>1, <1>2, <1>4
<1> QED BY <1>3, <1>4

\* Every entry but the removed one is still there.
LEMMA RemoveLosesOne ==
    ASSUME NEW S, NEW js \in Seq(S), NEW i \in DOMAIN js,
           NEW k \in DOMAIN js, k # i
    PROVE  \E k2 \in DOMAIN RemoveAt(js, i) : RemoveAt(js, i)[k2] = js[k]
<1>1. Len(js) \in Nat /\ DOMAIN js = 1 .. Len(js)
  BY LenProperties
<1>2. /\ DOMAIN RemoveAt(js, i) = 1 .. Len(js) - 1
      /\ \A n \in 1 .. Len(js) - 1 :
            RemoveAt(js, i)[n] = IF n < i THEN js[n] ELSE js[n + 1]
  BY RemoveShifts
<1>3. CASE k < i
  <2>1. k \in DOMAIN RemoveAt(js, i) /\ RemoveAt(js, i)[k] = js[k]
    BY <1>1, <1>2, <1>3
  <2> QED BY <2>1
<1>4. CASE k > i
  <2>1. /\ k - 1 \in DOMAIN RemoveAt(js, i)
        /\ RemoveAt(js, i)[k - 1] = js[(k - 1) + 1]
    BY <1>1, <1>2, <1>4
  <2>2. (k - 1) + 1 = k
    BY <1>1
  <2> QED BY <2>1, <2>2
<1> QED BY <1>1, <1>3, <1>4

-----------------------------------------------------------------------------
(* A sequence of sequences as one                                          *)

\* What FlattenSeq computes, up to the sequence at m.
Flattens(ss, m, g) ==
    g = [i \in 1 .. m |-> IF i = 1 THEN ss[i] ELSE g[i - 1] \o ss[i]]

LEMMA FlattensOneMore ==
    ASSUME NEW ss, NEW m \in Nat, NEW g, Flattens(ss, m, g)
    PROVE  \E h : Flattens(ss, m + 1, h)
<1> DEFINE last == IF m = 0 THEN ss[1] ELSE g[m] \o ss[m + 1]
           h == [i \in 1 .. m + 1 |-> IF i = m + 1 THEN last ELSE g[i]]
<1>1. ASSUME NEW i \in 1 .. m + 1
      PROVE  h[i] = IF i = 1 THEN ss[i] ELSE h[i - 1] \o ss[i]
  <2>1. CASE i = m + 1 /\ m = 0
    BY <2>1
  <2>2. CASE i = m + 1 /\ m # 0
    <3>1. i - 1 \in 1 .. m + 1 /\ i - 1 # m + 1 /\ i - 1 = m /\ i # 1
      BY <2>2
    <3>2. h[i - 1] = g[m] /\ h[i] = g[m] \o ss[m + 1]
      BY <2>2, <3>1
    <3> HIDE DEF h
    <3> QED BY <2>2, <3>1, <3>2
  <2>3. CASE i # m + 1
    <3>1. i \in 1 .. m /\ (i # 1 => i - 1 \in 1 .. m /\ i - 1 # m + 1 /\ i - 1 \in 1 .. m + 1)
      BY <2>3
    <3>2. h[i] = g[i] /\ (i # 1 => h[i - 1] = g[i - 1])
      BY <2>3, <3>1
    <3>3. g[i] = IF i = 1 THEN ss[i] ELSE g[i - 1] \o ss[i]
      BY <3>1 DEF Flattens
    <3> HIDE DEF h
    <3> QED BY <3>2, <3>3
  <2> QED BY <2>1, <2>2, <2>3
<1>2. DOMAIN h = 1 .. m + 1 /\ h = [i \in 1 .. m + 1 |-> h[i]]
  OBVIOUS
<1> HIDE DEF h
<1>3. [i \in 1 .. m + 1 |-> h[i]]
        = [i \in 1 .. m + 1 |-> IF i = 1 THEN ss[i] ELSE h[i - 1] \o ss[i]]
  BY <1>1
<1> QED BY <1>2, <1>3 DEF Flattens

\* FlattenSeq appends one sequence after the other.
LEMMA FlattenedByStep ==
    ASSUME NEW ss, NEW n \in Nat, Len(ss) = n, n # 0
    PROVE  \E f : /\ f[1] = ss[1]
                  /\ \A i \in 2 .. n : f[i] = f[i - 1] \o ss[i]
                  /\ FlattenSeq(ss) = f[n]
<1> DEFINE T == { m \in Nat : ~\E g : Flattens(ss, m, g) }
<1>1. T = {}
  <2> SUFFICES ASSUME T # {} PROVE FALSE
    OBVIOUS
  <2>1. PICK m \in T : \A k \in T : m <= k
    <3>1. T \in SUBSET Nat
      OBVIOUS
    <3> HIDE DEF T
    <3> QED BY <3>1, Least
  <2>2. CASE m = 0
    <3> DEFINE e == [i \in 1 .. 0 |-> ss[i]]
    <3>1. Flattens(ss, 0, e)
      BY DEF Flattens
    <3> QED BY <2>1, <2>2, <3>1
  <2>3. CASE m # 0
    <3>1. m - 1 \in Nat /\ m - 1 \notin T /\ m \in Nat /\ (m - 1) + 1 = m
      BY <2>1, <2>3
    <3>2. PICK g : Flattens(ss, m - 1, g)
      BY <3>1
    <3>3. \E h : Flattens(ss, (m - 1) + 1, h)
      BY <3>1, <3>2, FlattensOneMore
    <3> QED BY <3>1, <3>3, <2>1
  <2> QED BY <2>2, <2>3
<1>2. \E g : Flattens(ss, n, g)
  BY <1>1
<1> DEFINE f == CHOOSE g : Flattens(ss, n, g)
<1>3. Flattens(ss, n, f)
  BY <1>2
<1>4. FlattenSeq(ss) = f[n]
  BY DEF FlattenSeq, Flattens
<1> HIDE DEF f
<1>5. \A i \in 1 .. n : f[i] = IF i = 1 THEN ss[i] ELSE f[i - 1] \o ss[i]
  BY <1>3, Zenon DEF Flattens
<1>6. 1 \in 1 .. n /\ \A i \in 2 .. n : i \in 1 .. n /\ i # 1
  OBVIOUS
<1>7. f[1] = ss[1] /\ \A i \in 2 .. n : f[i] = f[i - 1] \o ss[i]
  BY <1>5, <1>6
<1> QED BY <1>4, <1>7

\* Sequences over S flatten to one over S.
LEMMA FlattenedType ==
    ASSUME NEW S, NEW ss \in Seq(Seq(S))
    PROVE  FlattenSeq(ss) \in Seq(S)
<1> DEFINE n == Len(ss)
<1>1. n \in Nat /\ (ss # <<>> => n # 0) /\ \A i \in 1 .. n : ss[i] \in Seq(S)
  BY EmptySeq, LenProperties, ElementOfSeq
<1>2. CASE ss = <<>>
  <2>1. FlattenSeq(<<>>) = <<>>
    BY EmptySeq DEF FlattenSeq
  <2> QED BY <1>2, <2>1, EmptySeq
<1>3. CASE ss # <<>>
  <2>1. PICK f : /\ f[1] = ss[1]
                 /\ \A i \in 2 .. n : f[i] = f[i - 1] \o ss[i]
                 /\ FlattenSeq(ss) = f[n]
    BY <1>1, <1>3, FlattenedByStep
  <2> HIDE DEF n
  <2> DEFINE T == { i \in 1 .. n : f[i] \notin Seq(S) }
  <2>2. T = {}
    <3> SUFFICES ASSUME T # {} PROVE FALSE
      OBVIOUS
    <3>1. PICK i \in T : \A j \in T : i <= j
      <4>1. T \in SUBSET Nat
        OBVIOUS
      <4> HIDE DEF T
      <4> QED BY <4>1, Least
    <3>2. CASE i = 1
      BY <1>1, <2>1, <3>1, <3>2
    <3>3. CASE i # 1
      <4>1. i \in 2 .. n /\ i - 1 \in 1 .. n /\ i - 1 \notin T /\ i \in 1 .. n
        BY <1>1, <3>1, <3>3
      <4>2. f[i - 1] \in Seq(S) /\ ss[i] \in Seq(S) /\ f[i] = f[i - 1] \o ss[i]
        BY <1>1, <2>1, <4>1
      <4>3. f[i] \in Seq(S)
        BY <4>2, ConcatProperties
      <4> QED BY <3>1, <4>3
    <3> QED BY <3>2, <3>3
  <2>3. n \in 1 .. n
    BY <1>1, <1>3
  <2> QED BY <2>1, <2>2, <2>3
<1> QED BY <1>2, <1>3

\* The sequences of one element each flatten to the sequence of the elements.
LEMMA FlattenedSingletons ==
    ASSUME NEW S, NEW l \in Seq(S)
    PROVE  FlattenSeq([i \in DOMAIN l |-> <<l[i]>>]) = l
<1> DEFINE n == Len(l)
           ss == [i \in 1 .. n |-> <<l[i]>>]
<1>1. n \in Nat /\ (l # <<>> => n # 0) /\ DOMAIN l = 1 .. n /\ \A i \in 1 .. n : l[i] \in S
  BY EmptySeq, LenProperties, ElementOfSeq
<1>2. Len(ss) = n /\ \A i \in 1 .. n : ss[i] = <<l[i]>>
  BY <1>1
<1>3. [i \in DOMAIN l |-> <<l[i]>>] = ss
  BY <1>1
<1>4. CASE l = <<>>
  <2>1. Len(ss) = 0 /\ ss = <<>>
    BY <1>2, <1>4, EmptySeq
  <2>2. FlattenSeq(<<>>) = <<>>
    BY EmptySeq DEF FlattenSeq
  <2> HIDE DEF ss
  <2> QED BY <1>3, <1>4, <2>1, <2>2
<1>5. CASE l # <<>>
  <2> HIDE DEF ss
  <2>1. PICK f : /\ f[1] = ss[1]
                 /\ \A i \in 2 .. n : f[i] = f[i - 1] \o ss[i]
                 /\ FlattenSeq(ss) = f[n]
    BY <1>1, <1>2, <1>5, FlattenedByStep
  <2> HIDE DEF n
  <2> DEFINE T == { i \in 1 .. n : f[i] # SubSeq(l, 1, i) }
  <2>2. T = {}
    <3> SUFFICES ASSUME T # {} PROVE FALSE
      OBVIOUS
    <3>1. PICK i \in T : \A j \in T : i <= j
      <4>1. T \in SUBSET Nat
        OBVIOUS
      <4> HIDE DEF T
      <4> QED BY <4>1, Least
    <3>2. CASE i = 1
      <4>1. SubSeq(l, 1, 1) = <<l[1]>>
        <5>1. 1 \in 1 .. Len(l)
          BY <3>1, <3>2 DEF n
        <5>2. SubSeq(l, 1, 1) \in Seq(S) /\ Len(SubSeq(l, 1, 1)) = 1 /\ SubSeq(l, 1, 1)[1] = l[1]
          BY <5>1
        <5>3. <<l[1]>> \in Seq(S) /\ Len(<<l[1]>>) = 1 /\ <<l[1]>>[1] = l[1]
          BY <5>1
        <5> HIDE DEF n
        <5>4. \A k \in 1 .. Len(SubSeq(l, 1, 1)) : SubSeq(l, 1, 1)[k] = <<l[1]>>[k]
          BY <5>2, <5>3
        <5>5. Len(SubSeq(l, 1, 1)) = Len(<<l[1]>>)
          BY <5>2, <5>3
        <5> QED BY <5>2, <5>3, <5>4, <5>5, SeqEqual, Zenon
      <4> QED BY <1>1, <1>2, <2>1, <3>1, <3>2, <4>1
    <3>3. CASE i # 1
      <4>1. /\ i \in 2 .. n /\ i - 1 \in 1 .. n /\ i - 1 \notin T /\ i \in 1 .. n
            /\ i - 1 \in Nat /\ (i - 1) + 1 = i
        BY <1>1, <3>1, <3>3
      <4>2. f[i] = SubSeq(l, 1, i - 1) \o <<l[i]>>
        BY <1>2, <2>1, <4>1
      <4>3. SubSeq(l, 1, i) = SubSeq(l, 1, i - 1) \o <<l[i]>>
        BY <1>1, <4>1 DEF n
      <4> QED BY <3>1, <4>2, <4>3
    <3> QED BY <3>2, <3>3
  <2>3. SubSeq(l, 1, n) = l
    BY <1>1 DEF n
  <2>4. n \in 1 .. n
    BY <1>1, <1>5
  <2> QED BY <1>3, <2>1, <2>2, <2>3, <2>4
<1> QED BY <1>4, <1>5

\* A sequence appended to the others is appended to what they flatten to.
LEMMA FlattenedAppend ==
    ASSUME NEW S, NEW ss \in Seq(Seq(S)), NEW x \in Seq(S)
    PROVE  FlattenSeq(Append(ss, x)) = FlattenSeq(ss) \o x
<1> DEFINE n == Len(ss)
           tt == Append(ss, x)
<1>1. n \in Nat /\ (ss # <<>> => n # 0) /\ (ss = <<>> => n = 0)
  BY EmptySeq, LenProperties
<1>2. Len(tt) = n + 1 /\ tt[n + 1] = x /\ \A i \in 1 .. n : tt[i] = ss[i]
  BY AppendProperties
<1> HIDE DEF n, tt
<1>3. PICK f : /\ f[1] = tt[1]
               /\ \A i \in 2 .. n + 1 : f[i] = f[i - 1] \o tt[i]
               /\ FlattenSeq(tt) = f[n + 1]
  <2>1. n + 1 \in Nat /\ n + 1 # 0
    BY <1>1
  <2> QED BY <1>2, <2>1, FlattenedByStep
<1>4. CASE n = 0
  <2>1. FlattenSeq(tt) = x
    BY <1>2, <1>3, <1>4
  <2>2. FlattenSeq(<<>>) = <<>>
    BY EmptySeq DEF FlattenSeq
  <2>3. <<>> \o x = x
    OBVIOUS
  <2> QED BY <1>1, <1>4, <2>1, <2>2, <2>3 DEF tt
<1>5. CASE n # 0
  <2>1. PICK g : /\ g[1] = ss[1]
                 /\ \A i \in 2 .. n : g[i] = g[i - 1] \o ss[i]
                 /\ FlattenSeq(ss) = g[n]
    BY <1>1, <1>5, FlattenedByStep DEF n
  <2> DEFINE T == { i \in 1 .. n : f[i] # g[i] }
  <2>2. T = {}
    <3> SUFFICES ASSUME T # {} PROVE FALSE
      OBVIOUS
    <3>1. PICK i \in T : \A j \in T : i <= j
      <4>1. T \in SUBSET Nat
        OBVIOUS
      <4> HIDE DEF T
      <4> QED BY <4>1, Least
    <3>2. CASE i = 1
      BY <1>2, <1>3, <2>1, <3>1, <3>2
    <3>3. CASE i # 1
      <4>1. i \in 2 .. n /\ i \in 2 .. n + 1 /\ i \in 1 .. n /\ i - 1 \in 1 .. n /\ i - 1 \notin T
        BY <1>1, <3>1, <3>3
      <4>2. f[i] = f[i - 1] \o tt[i] /\ g[i] = g[i - 1] \o ss[i] /\ tt[i] = ss[i] /\ f[i - 1] = g[i - 1]
        BY <1>2, <1>3, <2>1, <4>1
      <4> QED BY <3>1, <4>2
    <3> QED BY <3>2, <3>3
  <2>3. n \in 1 .. n /\ n + 1 \in 2 .. n + 1 /\ (n + 1) - 1 = n
    BY <1>1, <1>5
  <2>4. f[n + 1] = f[n] \o x
    BY <1>2, <1>3, <2>3
  <2>5. f[n] = g[n]
    BY <2>2, <2>3
  <2> QED BY <1>3, <2>1, <2>4, <2>5 DEF tt
<1> QED BY <1>4, <1>5

\* Two rows of sequences that differ in that the last one has an element
\* more flatten to sequences that do.
LEMMA FlattenedLast ==
    ASSUME NEW S, NEW ss \in Seq(Seq(S)), NEW tt \in Seq(Seq(S)), NEW x \in S,
           ss # <<>>, Len(tt) = Len(ss),
           \A i \in 1 .. Len(ss) - 1 : tt[i] = ss[i],
           tt[Len(ss)] = Append(ss[Len(ss)], x)
    PROVE  FlattenSeq(tt) = Append(FlattenSeq(ss), x)
<1> DEFINE n == Len(ss)
           front == SubSeq(ss, 1, n - 1)
           y == ss[n]
<1>1. n \in Nat /\ n # 0
  BY EmptySeq, LenProperties
<1>2. y \in Seq(S) /\ Append(y, x) \in Seq(S)
  <2>1. n \in 1 .. Len(ss)
    BY <1>1
  <2>2. y \in Seq(S)
    BY <2>1, ElementOfSeq
  <2> HIDE DEF y
  <2> QED BY <2>2, AppendProperties
<1>3. front \in Seq(Seq(S)) /\ Len(front) = n - 1 /\ \A i \in 1 .. n - 1 : front[i] = ss[i]
  <2>1. 1 \in 1 .. Len(ss) + 1 /\ n - 1 \in 0 .. Len(ss)
    BY <1>1
  <2> QED BY <1>1, <2>1, SubSeqProperties
<1> HIDE DEF front
<1>4. ASSUME NEW uu \in Seq(Seq(S)), Len(uu) = n, \A i \in 1 .. n - 1 : uu[i] = ss[i], uu[n] \in Seq(S)
      PROVE  FlattenSeq(uu) = FlattenSeq(front) \o uu[n]
  <2> DEFINE v == uu[n]
             vv == Append(front, v)
  <2>1. vv \in Seq(Seq(S)) /\ Len(vv) = n /\ vv[n] = v /\ \A i \in 1 .. n - 1 : vv[i] = front[i]
    <3>1. Len(front) + 1 = n
      BY <1>1, <1>3
    <3>2. v \in Seq(S)
      BY <1>4
    <3> HIDE DEF v
    <3> QED BY <1>3, <3>1, <3>2, AppendProperties
  <2>2. FlattenSeq(vv) = FlattenSeq(front) \o v
    <3>1. v \in Seq(S)
      BY <1>4
    <3> HIDE DEF v
    <3> QED BY <1>3, <3>1, FlattenedAppend
  <2> HIDE DEF vv
  <2>3. \A i \in 1 .. n : uu[i] = vv[i]
    <3> TAKE i \in 1 .. n
    <3>1. CASE i = n
      BY <2>1, <3>1
    <3>2. CASE i # n
      <4>1. i \in 1 .. n - 1
        BY <1>1, <3>2
      <4> QED BY <1>3, <1>4, <2>1, <4>1
    <3> QED BY <3>1, <3>2
  <2>4. uu = vv
    <3>1. Len(uu) = Len(vv) /\ \A i \in 1 .. Len(uu) : uu[i] = vv[i]
      BY <1>4, <2>1, <2>3
    <3>2. uu \in Seq(Seq(S)) /\ vv \in Seq(Seq(S))
      BY <1>4, <2>1
    <3> QED BY <3>1, <3>2, SeqEqual
  <2> QED BY <2>2, <2>4
<1>5. FlattenSeq(ss) = FlattenSeq(front) \o y
  <2>1. ss[n] \in Seq(S) /\ Len(ss) = n
    BY <1>2
  <2> QED BY <1>4, <2>1
<1>6. FlattenSeq(tt) = FlattenSeq(front) \o Append(y, x)
  <2>1. tt[n] \in Seq(S) /\ Len(tt) = n /\ tt[n] = Append(y, x)
    BY <1>2
  <2> HIDE DEF y
  <2> QED BY <1>4, <2>1
<1> DEFINE g == FlattenSeq(front)
<1>7. g \in Seq(S)
  BY <1>3, FlattenedType
<1> HIDE DEF g, y
<1>8. g \o Append(y, x) = Append(g \o y, x)
  BY <1>2, <1>7
<1> QED BY <1>5, <1>6, <1>8 DEF g

-----------------------------------------------------------------------------
(* Recursion over positions                                                *)

\* A value for each position from 0 to n, each from the one before by step.
Recurs(D, b, step, n, f) ==
    /\ f \in [0 .. n -> D]
    /\ f[0] = b
    /\ \A i \in 1 .. n : f[i] = step[<<i, f[i - 1]>>]

LEMMA RecursOneMore ==
    ASSUME NEW n \in Nat, NEW D, NEW b, NEW step \in [(1 .. n + 1) \X D -> D],
           NEW f, Recurs(D, b, step, n, f)
    PROVE  \E g : Recurs(D, b, step, n + 1, g)
<1> DEFINE g == [i \in 0 .. n + 1 |-> IF i = n + 1 THEN step[<<n + 1, f[n]>>] ELSE f[i]]
<1>1. f[n] \in D
  BY DEF Recurs
<1>2. step[<<n + 1, f[n]>>] \in D
  <2>1. <<n + 1, f[n]>> \in (1 .. n + 1) \X D
    BY <1>1
  <2> QED BY <2>1
<1>3. g \in [0 .. n + 1 -> D]
  BY <1>2 DEF Recurs
<1>4. g[0] = b
  BY DEF Recurs
<1>5. ASSUME NEW i \in 1 .. n + 1 PROVE g[i] = step[<<i, g[i - 1]>>]
  <2>1. CASE i = n + 1
    <3>1. g[i - 1] = f[n] /\ g[i] = step[<<n + 1, f[n]>>]
      BY <2>1
    <3> HIDE DEF g
    <3> QED BY <2>1, <3>1
  <2>2. CASE i # n + 1
    <3>1. g[i - 1] = f[i - 1] /\ g[i] = f[i] /\ i \in 1 .. n
      BY <2>2
    <3> HIDE DEF g
    <3> QED BY <3>1 DEF Recurs
  <2> QED BY <2>1, <2>2
<1> HIDE DEF g
<1>6. Recurs(D, b, step, n + 1, g)
  BY <1>3, <1>4, <1>5 DEF Recurs
<1> QED BY <1>6

LEMMA RecursionExists ==
    ASSUME NEW n \in Nat, NEW D, NEW b \in D, NEW step \in [(1 .. n) \X D -> D]
    PROVE  \E f : Recurs(D, b, step, n, f)
<1> DEFINE Found(m) == \E f : Recurs(D, b, step, m, f)
        T == { m \in Nat : m <= n /\ ~Found(m) }
<1>1. SUFFICES ASSUME T # {} PROVE FALSE
  <2>1. T = {} => Found(n)
    <3> HIDE DEF Found
    <3> QED OBVIOUS
  <2> HIDE DEF T
  <2> QED BY <2>1
<1>2. PICK m \in T : \A k \in T : m <= k
  <2>1. T \in SUBSET Nat
    OBVIOUS
  <2> HIDE DEF T
  <2> QED BY <1>1, <2>1, Least
<1>3. CASE m = 0
  <2> DEFINE f == [i \in 0 .. 0 |-> b]
  <2>1. Recurs(D, b, step, 0, f)
    BY DEF Recurs
  <2> QED BY <1>3, <2>1
<1>4. CASE m # 0
  <2>1. m \in Nat /\ m <= n /\ m - 1 \in Nat /\ (m - 1) + 1 = m /\ ~Found(m)
    BY <1>4
  <2>2. Found(m - 1)
    <3> HIDE DEF Found
    <3>1. m - 1 \in T => m <= m - 1
      <4> HIDE DEF T
      <4> QED BY <1>2
    <3> QED BY <2>1, <3>1
  <2>3. PICK f : Recurs(D, b, step, m - 1, f)
    BY <2>2
  <2> DEFINE part == [x \in (1 .. m) \X D |-> step[x]]
  <2>4. part \in [(1 .. m) \X D -> D]
    <3>1. \A x \in (1 .. m) \X D : x \in (1 .. n) \X D
      BY <2>1
    <3> QED BY <3>1
  <2>5. Recurs(D, b, part, m - 1, f)
    <3>1. f \in [0 .. m - 1 -> D] /\ f[0] = b
      BY <2>3 DEF Recurs
    <3>2. ASSUME NEW i \in 1 .. m - 1 PROVE f[i] = part[<<i, f[i - 1]>>]
      <4>1. i - 1 \in 0 .. m - 1 /\ i \in 1 .. m
        BY <2>1
      <4>2. <<i, f[i - 1]>> \in (1 .. m) \X D
        BY <3>1, <4>1
      <4>3. f[i] = step[<<i, f[i - 1]>>]
        BY <2>3 DEF Recurs
      <4> QED BY <4>2, <4>3
    <3> HIDE DEF part
    <3> QED BY <3>1, <3>2 DEF Recurs
  <2> HIDE DEF part
  <2>6. \E g : Recurs(D, b, part, (m - 1) + 1, g)
    <3>1. part \in [(1 .. (m - 1) + 1) \X D -> D]
      BY <2>1, <2>4
    <3> QED BY <2>1, <2>5, <3>1, RecursOneMore
  <2>7. PICK g : Recurs(D, b, part, m, g)
    BY <2>1, <2>6
  <2>8. Recurs(D, b, step, m, g)
    <3>1. g \in [0 .. m -> D] /\ g[0] = b
      BY <2>7 DEF Recurs
    <3>2. ASSUME NEW i \in 1 .. m PROVE g[i] = step[<<i, g[i - 1]>>]
      <4>1. i - 1 \in 0 .. m
        BY <2>1
      <4>2. <<i, g[i - 1]>> \in (1 .. m) \X D
        BY <3>1, <4>1
      <4>3. g[i] = part[<<i, g[i - 1]>>]
        BY <2>7 DEF Recurs
      <4> QED BY <4>2, <4>3 DEF part
    <3> QED BY <3>1, <3>2 DEF Recurs
  <2> QED BY <2>1, <2>8
<1> QED BY <1>3, <1>4

\* What holds of 0 and passes from each number to the next holds up to n.
LEMMA Counted ==
    ASSUME NEW n \in Nat, NEW T, 0 \in T, \A m \in 0 .. n - 1 : m \in T => m + 1 \in T
    PROVE  \A m \in 0 .. n : m \in T
<1> DEFINE B == { m \in Nat : m <= n /\ m \notin T }
<1>1. SUFFICES ASSUME B # {} PROVE FALSE
  OBVIOUS
<1>2. PICK m \in B : \A k \in B : m <= k
  <2>1. B \in SUBSET Nat
    OBVIOUS
  <2> HIDE DEF B
  <2> QED BY <1>1, <2>1, Least
<1>3. m \in Nat /\ m # 0 /\ m - 1 \notin B /\ m <= n /\ m \notin T
  <2>1. m \in Nat /\ m # 0 /\ m <= n /\ m \notin T
    OBVIOUS
  <2>2. ~(m <= m - 1)
    BY <2>1
  <2> HIDE DEF B
  <2> QED BY <1>2, <2>1, <2>2
<1>4. m - 1 \in 0 .. n - 1 /\ m - 1 \in T /\ (m - 1) + 1 = m
  BY <1>3
<1> QED BY <1>3, <1>4

=============================================================================
