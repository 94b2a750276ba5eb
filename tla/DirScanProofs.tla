--------------------------- MODULE DirScanProofs ---------------------------
(***************************************************************************)
(* Proofs about DirScan: where scans leave the kernel in a directory, what *)
(* ls lists, and what a command is dispatched with, for every size of      *)
(* directories, scans and lines; and about GlobMatch, which says what      *)
(* names a pattern matches there: what the loop reports, for every pattern *)
(* and every name.                                                         *)
(***************************************************************************)
EXTENDS DirScan, GlobMatch, SequenceLemmas

Scanning == pc \in {"ls", "glob", "tab"}

\* The position at which the scan began.
Start == pos[target] - Len(got)

TypeInv ==
    /\ tree \in Trees
    /\ pos \in [DOMAIN tree -> Nat]
    /\ \A d \in DOMAIN tree : pos[d] <= Len(tree[d])
    /\ pc \in {"prompt", "ls", "glob", "tab", "expand", "dispatch"}
    /\ target \in DOMAIN tree \cup {None}

\* Every directory but the one being scanned is a whole number of scans
\* read; of that one, what the scan has returned is what lies between its
\* beginning, again a whole number of scans, and the position.
ScanInv ==
    /\ \A d \in DOMAIN tree : pos[d] % ScanMax = 0 \/ (Scanning /\ d = target)
    /\ Scanning /\ target # None =>
          /\ Len(got) \in Nat
          /\ Start \in Nat /\ Start % ScanMax = 0
          /\ got = SubSeq(tree[target], Start + 1, pos[target])
          /\ pc # "ls" => Len(got) <= ScanMax
    /\ Scanning /\ target = None => got = <<>>

-----------------------------------------------------------------------------
(* Scans                                                                   *)

LEMMA TreeIs ==
    ASSUME TypeInv, NEW d \in DOMAIN tree
    PROVE  /\ tree[d] \in Seq(ToSet(tree[d])) /\ Len(tree[d]) \in Nat
           /\ pos[d] \in Nat /\ pos[d] <= Len(tree[d])
           /\ <<>> \in DOMAIN tree
BY TreesAssumption, LenProperties DEF TypeInv

\* A scan that begins has returned nothing.
LEMMA StartsScan ==
    ASSUME TypeInv, ScanInv, ~Scanning, NEW at \in {"ls", "glob", "tab"},
           NEW dir \in DOMAIN tree \cup {None}, StartScan(at, dir), UNCHANGED kernelVars
    PROVE  TypeInv' /\ ScanInv'
<1>1. TypeInv'
  BY DEF TypeInv, StartScan, kernelVars
<1>2. \A d \in DOMAIN tree : pos[d] % ScanMax = 0
  BY DEF ScanInv
<1>3. ASSUME dir # None
      PROVE  /\ pos[dir] - Len(<<>>) = pos[dir] /\ Len(<<>>) \in Nat
             /\ pos[dir] \in Nat /\ pos[dir] % ScanMax = 0
             /\ <<>> = SubSeq(tree[dir], pos[dir] + 1, pos[dir])
             /\ Len(<<>>) <= ScanMax
  <2>1. dir \in DOMAIN tree
    BY <1>3
  <2>2. Len(<<>>) = 0 /\ ScanMax \in Nat
    BY EmptySeq, LimitsAssumption
  <2>3. pos[dir] \in Nat /\ pos[dir] % ScanMax = 0
    BY <1>2, <2>1, TreeIs
  <2>4. SubSeq(tree[dir], pos[dir] + 1, pos[dir]) = <<>>
    BY <2>1, <2>3, TreeIs
  <2> QED BY <2>2, <2>3, <2>4
<1>4. target' = dir /\ got' = <<>> /\ pc' = at /\ tree' = tree /\ pos' = pos
  BY DEF StartScan, kernelVars
<1> QED BY <1>1, <1>2, <1>3, <1>4 DEF ScanInv, Scanning, Start

\* One entry more.
LEMMA ReadsOne ==
    ASSUME TypeInv, ScanInv, Readdir
    PROVE  TypeInv' /\ ScanInv'
<1> DEFINE p == pos[target]
           all == tree[target]
<1>1. Scanning /\ target \in DOMAIN tree /\ target # None /\ p < Len(all)
      /\ (pc # "ls" => Len(got) < ScanMax)
  <2>1. Scanning /\ target \in DOMAIN tree /\ target # None /\ Left(target) > 0
        /\ (pc # "ls" => Len(got) < ScanMax)
    BY DEF Readdir, Scanning, TypeInv
  <2> QED BY <2>1, TreeIs DEF Left
<1>2. all \in Seq(ToSet(all)) /\ Len(all) \in Nat /\ p \in Nat
  BY <1>1, TreeIs
<1>3. /\ Len(got) \in Nat /\ p - Len(got) \in Nat /\ (p - Len(got)) % ScanMax = 0
      /\ got = SubSeq(all, p - Len(got) + 1, p)
  BY <1>1 DEF ScanInv, Start
<1>4. /\ got' = Append(got, all[p + 1]) /\ pos' = [pos EXCEPT ![target] = p + 1]
      /\ tree' = tree /\ pc' = pc /\ target' = target
  BY DEF Readdir
<1>5. /\ pos'[target] = p + 1 /\ DOMAIN pos' = DOMAIN tree
      /\ \A d \in DOMAIN tree : d # target => pos'[d] = pos[d]
  BY <1>1, <1>4 DEF TypeInv
<1>6. TypeInv'
  <2>1. p + 1 \in Nat /\ p + 1 <= Len(all)
    BY <1>1, <1>2
  <2>2. pos' \in [DOMAIN tree -> Nat]
    BY <1>4, <2>1 DEF TypeInv
  <2>3. \A d \in DOMAIN tree : pos'[d] <= Len(tree[d])
    BY <1>5, <2>1 DEF TypeInv
  <2> QED BY <1>4, <2>2, <2>3 DEF TypeInv
<1> HIDE DEF p, all
<1>7. got \in Seq(ToSet(all)) /\ all[p + 1] \in ToSet(all)
  <2>1. p + 1 \in DOMAIN all
    BY <1>1, <1>2 DEF p, all
  <2>2. SubSeq(all, p - Len(got) + 1, p) \in Seq(ToSet(all))
    BY <1>1, <1>2, <1>3, SMTT(30) DEF p, all
  <2> QED BY <1>3, <2>1, <2>2 DEF ToSet
<1>8. Len(got') = Len(got) + 1 /\ p + 1 - Len(got') = p - Len(got) /\ Len(got') \in Nat
  BY <1>2, <1>3, <1>4, <1>7, AppendProperties
<1>9. got' = SubSeq(all, p - Len(got) + 1, p + 1)
  <2>1. p < Len(all) /\ p - Len(got) + 1 \in 1 .. p + 1
    BY <1>1, <1>2, <1>3 DEF p, all
  <2> DEFINE q == p - Len(got) + 1
             s == SubSeq(all, q, p + 1)
             g == SubSeq(all, q, p)
  <2>2. /\ q \in Nat /\ q >= 1 /\ q <= p + 1 /\ p + 1 <= Len(all)
    BY <1>2, <1>3, <2>1
  <2> HIDE DEF q
  <2>3. /\ s \in Seq(ToSet(all)) /\ Len(s) = p + 1 - q + 1
        /\ \A i \in 1 .. p + 1 - q + 1 : s[i] = all[q + i - 1]
    BY <1>2, <2>2
  <2>4. /\ g \in Seq(ToSet(all)) /\ Len(g) = p - q + 1
        /\ \A i \in 1 .. p - q + 1 : g[i] = all[q + i - 1]
    BY <1>2, <2>2
  <2> HIDE DEF s, g
  <2>5. /\ Append(g, all[p + 1]) \in Seq(ToSet(all)) /\ Len(Append(g, all[p + 1])) = p - q + 2
        /\ \A i \in 1 .. p - q + 1 : Append(g, all[p + 1])[i] = g[i]
        /\ Append(g, all[p + 1])[p - q + 2] = all[p + 1]
    <3>1. Len(g) + 1 = p - q + 2 /\ Len(g) = p - q + 1
      BY <1>2, <2>2, <2>4
    <3>2. /\ Append(g, all[p + 1]) \in Seq(ToSet(all)) /\ Len(Append(g, all[p + 1])) = Len(g) + 1
          /\ \A i \in 1 .. Len(g) : Append(g, all[p + 1])[i] = g[i]
          /\ Append(g, all[p + 1])[Len(g) + 1] = all[p + 1]
      BY <1>7, <2>4, AppendProperties
    <3> QED BY <3>1, <3>2
  <2>6. ASSUME NEW i \in 1 .. p - q + 2 PROVE Append(g, all[p + 1])[i] = s[i]
    <3>1. CASE i = p - q + 2
      <4>1. q + i - 1 = p + 1 /\ i \in 1 .. p + 1 - q + 1
        BY <1>2, <2>2, <3>1
      <4> QED BY <2>3, <2>5, <3>1, <4>1
    <3>2. CASE i # p - q + 2
      <4>1. i \in 1 .. p - q + 1 /\ i \in 1 .. p + 1 - q + 1
        BY <1>2, <2>2, <3>2
      <4> QED BY <2>3, <2>4, <2>5, <4>1
    <3> QED BY <3>1, <3>2
  <2>7. Len(s) = p - q + 2
    BY <1>2, <2>2, <2>3
  <2>8. Append(g, all[p + 1]) = s
    BY <2>3, <2>5, <2>6, <2>7, SeqEqual
  <2> QED BY <1>3, <1>4, <2>8 DEF s, g, q
<1>10. ScanInv'
  <2>1. ScanMax \in Nat
    BY LimitsAssumption
  <2>2. pc # "ls" => Len(got') <= ScanMax
    BY <1>1, <1>3, <1>8, <2>1
  <2>3. /\ Scanning' /\ target' # None /\ Start' = p - Len(got)
    <3>1. Start' = pos'[target] - Len(got')
      BY <1>4 DEF Start
    <3>2. Scanning' /\ target' # None
      BY <1>1, <1>4 DEF Scanning
    <3>3. Start' = p + 1 - Len(got')
      <4>1. pos'[target] = p + 1
        BY <1>5
      <4>2. p \in Nat /\ Len(got') \in Nat
        BY <1>2, <1>8
      <4> QED BY <3>1, <4>1, <4>2
    <3> QED BY <1>8, <3>2, <3>3
  <2>4. got' = SubSeq(tree'[target'], Start' + 1, pos'[target'])
    BY <1>4, <1>5, <1>9, <2>3 DEF all
  <2>5. \A d \in DOMAIN tree' : pos'[d] % ScanMax = 0 \/ (Scanning' /\ d = target')
    BY <1>1, <1>4, <1>5, <2>3 DEF ScanInv
  <2> QED BY <1>3, <1>4, <1>8, <2>2, <2>3, <2>4, <2>5 DEF ScanInv, p
<1> QED BY <1>6, <1>10

\* However a scan ends, every directory is a whole number of scans read.
LEMMA ScanIsOver ==
    ASSUME TypeInv, ScanInv, Scanning, ScanEnds
    PROVE  /\ pos' \in [DOMAIN tree -> Nat]
           /\ \A d \in DOMAIN tree : pos'[d] <= Len(tree[d]) /\ pos'[d] % ScanMax = 0
<1>1. ScanMax \in Nat \ {0} /\ 0 % ScanMax = 0
  <2>1. ScanMax \in Nat /\ ScanMax > 0 /\ 0 \in 0 .. ScanMax - 1 /\ 0 = ScanMax * 0 + 0
    BY LimitsAssumption
  <2> QED BY <2>1, RemainderIs
<1>2. CASE target = None
  BY <1>2, TreesAssumption DEF ScanEnds, TypeInv, ScanInv
<1>3. CASE target # None /\ pos' = [pos EXCEPT ![target] = 0]
  BY <1>1, <1>3, TreeIs DEF TypeInv, ScanInv
<1>4. CASE target # None /\ pc # "ls" /\ Len(got) >= ScanMax /\ UNCHANGED pos
  <2>1. /\ Len(got) \in Nat /\ Start \in Nat /\ Start % ScanMax = 0 /\ Len(got) <= ScanMax
        /\ target \in DOMAIN tree
    BY <1>4 DEF ScanInv, TypeInv
  <2>2. pos[target] = Start + ScanMax
    <3>1. Len(got) = ScanMax /\ pos[target] \in Nat
      BY <1>1, <1>4, <2>1, TreeIs
    <3> QED BY <1>1, <2>1, <3>1 DEF Start
  <2>3. pos[target] % ScanMax = 0
    BY <1>1, <2>1, <2>2, RemainderRepeats
  <2> QED BY <1>4, <2>3 DEF TypeInv, ScanInv
<1> QED BY <1>2, <1>3, <1>4 DEF ScanEnds

\* A state in which nothing is scanned.
LEMMA NotScanning ==
    ASSUME TypeInv, tree' = tree, target' \in DOMAIN tree \cup {None},
           pc' \in {"prompt", "expand", "dispatch"},
           pos' \in [DOMAIN tree -> Nat],
           \A d \in DOMAIN tree : pos'[d] <= Len(tree[d]) /\ pos'[d] % ScanMax = 0
    PROVE  TypeInv' /\ ScanInv'
BY DEF TypeInv, ScanInv, Scanning

LEMMA InitScans == Init => TypeInv /\ ScanInv
<1> SUFFICES ASSUME Init PROVE TypeInv /\ ScanInv
  OBVIOUS
<1>1. 0 % ScanMax = 0
  <2>1. ScanMax \in Nat /\ ScanMax > 0 /\ 0 \in 0 .. ScanMax - 1 /\ 0 = ScanMax * 0 + 0
    BY LimitsAssumption
  <2> QED BY <2>1, RemainderIs
<1>2. \A d \in DOMAIN tree : Len(tree[d]) \in Nat
  BY TreesAssumption, LenProperties DEF Init
<1> QED BY <1>1, <1>2 DEF Init, TypeInv, ScanInv, Scanning

LEMMA NextScans == TypeInv /\ ScanInv /\ [Next]_vars => TypeInv' /\ ScanInv'
<1> SUFFICES ASSUME TypeInv, ScanInv, [Next]_vars PROVE TypeInv' /\ ScanInv'
  OBVIOUS
<1>1. /\ ~Scanning => \A d \in DOMAIN tree : pos[d] <= Len(tree[d]) /\ pos[d] % ScanMax = 0
      /\ pos \in [DOMAIN tree -> Nat] /\ target \in DOMAIN tree \cup {None}
  BY DEF TypeInv, ScanInv
<1>2. \A t : ScanTarget(t) \in DOMAIN tree \cup {None} /\ Directory(t) \in DOMAIN tree \cup {None}
  BY TreesAssumption DEF ScanTarget, Directory, TypeInv
<1>3. CASE Readdir
  BY <1>3, ReadsOne
<1>4. ASSUME NEW l, Enter(l) PROVE TypeInv' /\ ScanInv'
  BY <1>1, <1>4, NotScanning DEF Enter, Scanning, kernelVars
<1>5. ASSUME NEW t, TabKey(t) PROVE TypeInv' /\ ScanInv'
  BY <1>2, <1>5, StartsScan DEF TabKey, Scanning
<1>6. CASE NextToken
  <2>1. CASE IsPattern(Head(line))
    <3>1. StartScan("glob", ScanTarget(Head(line))) /\ UNCHANGED kernelVars /\ ~Scanning
      BY <1>6, <2>1 DEF NextToken, Scanning
    <3> QED BY <1>2, <3>1, StartsScan
  <2>2. CASE ~IsPattern(Head(line))
    BY <1>1, <1>6, <2>2, NotScanning DEF NextToken, Scanning, kernelVars
  <2> QED BY <2>1, <2>2
<1>7. CASE EndGlob
  <2>1. Scanning /\ ScanEnds /\ pc' = "expand" /\ target' = None /\ tree' = tree
    BY <1>7 DEF EndGlob, Scanning
  <2> QED BY <2>1, ScanIsOver, NotScanning
<1>8. CASE EndTab \/ EndLs
  <2>1. Scanning /\ ScanEnds /\ pc' = "prompt" /\ target' = None /\ tree' = tree
    BY <1>8 DEF EndTab, EndLs, Scanning, Prompt
  <2> QED BY <2>1, ScanIsOver, NotScanning
<1>9. CASE AllExpanded
  BY <1>1, <1>9, NotScanning DEF AllExpanded, Scanning, kernelVars
<1>10. CASE Ls
  BY <1>2, <1>10, StartsScan DEF Ls, Scanning
<1>11. CASE Cd \/ Other
  BY <1>1, <1>11, NotScanning DEF Cd, Other, Prompt, Scanning, kernelVars
<1>12. CASE UNCHANGED vars
  BY <1>12 DEF vars, kernelVars, TypeInv, ScanInv, Scanning, Start
<1> QED BY <1>3, <1>4, <1>5, <1>6, <1>7, <1>8, <1>9, <1>10, <1>11, <1>12 DEF Next, User, Shell

LEMMA ScansCorrect == Spec => [](TypeInv /\ ScanInv)
BY InitScans, NextScans, PTL DEF Spec

\* Between commands every directory is a whole number of scans read, for
\* every size of a scan and of the directories, whatever was scanned.
THEOREM ScansLeavePositions == Spec => []PositionsBetweenCommands
<1>1. TypeInv /\ ScanInv => PositionsBetweenCommands
  BY DEF TypeInv, ScanInv, Scanning, PositionsBetweenCommands
<1> QED BY <1>1, ScansCorrect, PTL

\* ls lists what lies behind the position it found, which is everything if
\* the directory is smaller than a scan.
THEOREM ListingsAreWhole == Spec => ListsWhole
<1>1. TypeInv /\ ScanInv /\ [Next]_vars =>
        [EndLs /\ target # None =>
          /\ \E k \in 0 .. Len(tree[target]) :
                got = SubSeq(tree[target], k * ScanMax + 1, Len(tree[target]))
          /\ Len(tree[target]) < ScanMax => got = tree[target]]_vars
  <2> SUFFICES ASSUME TypeInv, ScanInv, EndLs, target # None
               PROVE  /\ \E k \in 0 .. Len(tree[target]) :
                            got = SubSeq(tree[target], k * ScanMax + 1, Len(tree[target]))
                      /\ Len(tree[target]) < ScanMax => got = tree[target]
    OBVIOUS
  <2> DEFINE all == tree[target]
             k == Start \div ScanMax
  <2>1. Scanning /\ target \in DOMAIN tree /\ Left(target) = 0
    BY DEF EndLs, ScanEnds, Scanning, TypeInv
  <2>2. all \in Seq(ToSet(all)) /\ Len(all) \in Nat /\ pos[target] = Len(all)
    BY <2>1, TreeIs DEF Left
  <2>3. /\ Start \in Nat /\ Start % ScanMax = 0 /\ Len(got) \in Nat
        /\ got = SubSeq(all, Start + 1, Len(all)) /\ Start <= Len(all)
    BY <2>1, <2>2 DEF ScanInv, Start
  <2>4. ScanMax \in Nat /\ ScanMax > 0
    BY LimitsAssumption
  <2> HIDE DEF all
  <2>5. k \in Int /\ Start = ScanMax * k
    <3>1. Start \in Int
      BY <2>3
    <3>2. k \in Int /\ Start = ScanMax * k + (Start % ScanMax)
      BY <2>4, <3>1, DivisionIs
    <3> HIDE DEF k
    <3> QED BY <2>3, <2>4, <3>2
  <2> HIDE DEF k
  <2>6. k >= 0
    <3> SUFFICES ASSUME k <= -1 PROVE FALSE
      BY <2>5
    <3>1. ScanMax * k <= -ScanMax
      BY <2>4, <2>5
    <3> QED BY <2>3, <2>4, <2>5, <3>1
  <2>7. k <= ScanMax * k
    BY <2>4, <2>5, <2>6
  <2>8. k \in 0 .. Len(all) /\ k * ScanMax + 1 = Start + 1
    BY <2>2, <2>3, <2>4, <2>5, <2>6, <2>7
  <2>9. ASSUME Len(all) < ScanMax PROVE got = all
    <3>1. k = 0
      <4> SUFFICES ASSUME k >= 1 PROVE FALSE
        BY <2>5, <2>6
      <4>1. ScanMax * k >= ScanMax
        BY <2>4, <2>5
      <4> QED BY <2>2, <2>3, <2>4, <2>5, <2>9, <4>1, SMTT(30)
    <3>2. Start = 0
      BY <2>4, <2>5, <3>1
    <3> QED BY <2>2, <2>3, <3>2
  <2> QED BY <2>3, <2>8, <2>9 DEF all
<1> QED BY <1>1, ScansCorrect, PTL DEF Spec, ListsWhole

-----------------------------------------------------------------------------
(* Sequences that fill an array of MaxArgs                                 *)

Fitted(s) == SubSeq(s, 1, IF Len(s) < MaxArgs THEN Len(s) ELSE MaxArgs)

LEMMA FittedIs ==
    ASSUME NEW S, NEW s \in Seq(S)
    PROVE  /\ Fitted(s) \in Seq(S)
           /\ Len(Fitted(s)) = IF Len(s) < MaxArgs THEN Len(s) ELSE MaxArgs
           /\ Len(s) <= MaxArgs => Fitted(s) = s
<1> DEFINE m == IF Len(s) < MaxArgs THEN Len(s) ELSE MaxArgs
<1>1. MaxArgs \in Nat /\ Len(s) \in Nat
  BY LimitsAssumption, LenProperties
<1>2. m \in Nat /\ m <= Len(s) /\ (Len(s) <= MaxArgs => m = Len(s))
  BY <1>1
<1> HIDE DEF m
<1>3. SubSeq(s, 1, m) \in Seq(S) /\ Len(SubSeq(s, 1, m)) = m
  BY <1>1, <1>2
<1>4. ASSUME m = Len(s) PROVE SubSeq(s, 1, m) = s
  BY <1>4
<1> QED BY <1>1, <1>2, <1>3, <1>4 DEF Fitted, m

\* What comes behind a full array changes nothing.
LEMMA FittedLong ==
    ASSUME NEW S, NEW a \in Seq(S), NEW b \in Seq(S), Len(a) >= MaxArgs
    PROVE  Fitted(a \o b) = Fitted(a)
<1> DEFINE c == a \o b
<1>1. MaxArgs \in Nat /\ Len(a) \in Nat /\ Len(b) \in Nat
  BY LimitsAssumption, LenProperties
<1>2. c \in Seq(S) /\ Len(c) = Len(a) + Len(b) /\ \A i \in 1 .. Len(a) : c[i] = a[i]
  BY <1>1, ConcatProperties
<1> HIDE DEF c
<1>3. Fitted(c) = SubSeq(c, 1, MaxArgs) /\ Fitted(a) = SubSeq(a, 1, MaxArgs)
  BY <1>1, <1>2 DEF Fitted
<1>4. /\ SubSeq(c, 1, MaxArgs) \in Seq(S) /\ Len(SubSeq(c, 1, MaxArgs)) = MaxArgs
      /\ \A i \in 1 .. MaxArgs : SubSeq(c, 1, MaxArgs)[i] = c[i]
  BY <1>1, <1>2
<1>5. /\ SubSeq(a, 1, MaxArgs) \in Seq(S) /\ Len(SubSeq(a, 1, MaxArgs)) = MaxArgs
      /\ \A i \in 1 .. MaxArgs : SubSeq(a, 1, MaxArgs)[i] = a[i]
  BY <1>1
<1>6. \A i \in 1 .. MaxArgs : SubSeq(c, 1, MaxArgs)[i] = SubSeq(a, 1, MaxArgs)[i]
  BY <1>1, <1>2, <1>4, <1>5
<1>7. SubSeq(c, 1, MaxArgs) = SubSeq(a, 1, MaxArgs)
  BY <1>4, <1>5, <1>6, SeqEqual
<1> QED BY <1>3, <1>7 DEF c

LEMMA FittedTwice ==
    ASSUME NEW S, NEW a \in Seq(S), NEW b \in Seq(S)
    PROVE  Fitted(Fitted(a) \o b) = Fitted(a \o b)
<1>1. MaxArgs \in Nat /\ Len(a) \in Nat
  BY LimitsAssumption, LenProperties
<1>2. CASE Len(a) <= MaxArgs
  BY <1>2, FittedIs
<1>3. CASE Len(a) > MaxArgs
  <2>1. Fitted(a) \in Seq(S) /\ Len(Fitted(a)) = MaxArgs
    BY <1>1, <1>3, FittedIs
  <2>2. Fitted(Fitted(a) \o b) = Fitted(Fitted(a))
    BY <1>1, <2>1, FittedLong
  <2>3. Fitted(Fitted(a)) = Fitted(a)
    BY <1>1, <2>1, FittedIs
  <2>4. Fitted(a \o b) = Fitted(a)
    BY <1>1, <1>3, FittedLong
  <2> QED BY <2>2, <2>3, <2>4
<1> QED BY <1>1, <1>2, <1>3

LEMMA WithArgsIs ==
    ASSUME NEW S, args \in Seq(S), NEW e \in Seq(S)
    PROVE  WithArgs(e) = Fitted(args \o e)
<1>1. Len(args \o e) = Len(args) + Len(e)
  BY ConcatProperties
<1> QED BY <1>1 DEF WithArgs, Fitted

-----------------------------------------------------------------------------
(* What tokens stand for                                                   *)

TypedTokens == UNION { ToSet(l) : l \in Lines }
FoundNames == UNION { UNION { ToSet(t[d]) : d \in DOMAIN t } : t \in Trees }
Args == TypedTokens \cup { [t EXCEPT !.last = n] : t \in TypedTokens, n \in FoundNames }

Small == \A d \in DOMAIN tree : Len(tree[d]) < ScanMax

\* What the first i tokens of the line stand for.
Expanded(i) == FlattenSeq([j \in 1 .. i |-> MeaningOf(entered[j])])

LEMMA ExpansionsType ==
    ASSUME NEW t \in TypedTokens, NEW names \in Seq(FoundNames)
    PROVE  Expansions(t, names) \in Seq(Args)
<1> DEFINE ss == [i \in DOMAIN names |->
               IF names[i] \in MatchedBy(t.last) THEN <<[t EXCEPT !.last = names[i]]>> ELSE <<>>]
<1>1. Len(names) \in Nat /\ DOMAIN names = 1 .. Len(names)
      /\ \A i \in 1 .. Len(names) : names[i] \in FoundNames
  BY LenProperties, ElementOfSeq
<1>2. \A n \in FoundNames : [t EXCEPT !.last = n] \in Args
  BY DEF Args
<1>3. \A i \in 1 .. Len(names) : ss[i] \in Seq(Args)
  <2> TAKE i \in 1 .. Len(names)
  <2>1. names[i] \in FoundNames /\ [t EXCEPT !.last = names[i]] \in Args
    BY <1>1, <1>2
  <2> DEFINE x == [t EXCEPT !.last = names[i]]
  <2> HIDE DEF x
  <2>2. x \in Args /\ <<x>> \in Seq(Args) /\ <<>> \in Seq(Args)
    BY <2>1, EmptySeq DEF x
  <2> QED BY <1>1, <2>2 DEF x
<1>4. ss \in Seq(Seq(Args))
  <2>1. DOMAIN ss = 1 .. Len(names) /\ ss = [i \in 1 .. Len(names) |-> ss[i]]
    BY <1>1
  <2> HIDE DEF ss
  <2> QED BY <1>1, <1>3, <2>1
<1>5. FlattenSeq(ss) \in Seq(Args)
  <2> HIDE DEF ss
  <2> QED BY <1>4, FlattenedType
<1>6. t \in Args /\ <<t>> \in Seq(Args)
  BY DEF Args
<1> QED BY <1>5, <1>6 DEF Expansions

LEMMA NamesAreFound ==
    ASSUME TypeInv, NEW d \in DOMAIN tree
    PROVE  tree[d] \in Seq(FoundNames)
<1>1. tree[d] \in Seq(ToSet(tree[d]))
  BY TreeIs
<1>2. ToSet(tree[d]) \subseteq FoundNames
  BY DEF TypeInv, FoundNames
<1>3. \A i \in 1 .. Len(tree[d]) : tree[d][i] \in FoundNames
  BY <1>1, <1>2, ElementOfSeq
<1> QED BY <1>1, <1>3

LEMMA MeaningType ==
    ASSUME TypeInv, NEW t \in TypedTokens
    PROVE  MeaningOf(t) \in Seq(Args)
<1>1. t \in Args /\ <<t>> \in Seq(Args)
  BY DEF Args
<1>2. ScanTarget(t) \in DOMAIN tree \cup {None}
  BY TreesAssumption DEF ScanTarget, TypeInv
<1>3. ScanTarget(t) # None => Expansions(t, tree[ScanTarget(t)]) \in Seq(Args)
  BY <1>2, NamesAreFound, ExpansionsType
<1> QED BY <1>1, <1>3 DEF MeaningOf

LEMMA ExpandedIs ==
    ASSUME TypeInv, entered \in Seq(TypedTokens), NEW i \in 0 .. Len(entered)
    PROVE  /\ Expanded(i) \in Seq(Args)
           /\ i = 0 => Expanded(i) = <<>>
           /\ i < Len(entered) => Expanded(i + 1) = Expanded(i) \o MeaningOf(entered[i + 1])
<1>1. Len(entered) \in Nat /\ \A j \in 1 .. Len(entered) : MeaningOf(entered[j]) \in Seq(Args)
  BY LenProperties, ElementOfSeq, MeaningType
<1> DEFINE ss == [j \in 1 .. i |-> MeaningOf(entered[j])]
<1>2. ss \in Seq(Seq(Args)) /\ Len(ss) = i
  BY <1>1
<1>3. Expanded(i) \in Seq(Args)
  <2> HIDE DEF ss
  <2>1. FlattenSeq(ss) \in Seq(Args)
    BY <1>2, FlattenedType
  <2> QED BY <2>1 DEF Expanded, ss
<1>4. ASSUME i = 0 PROVE Expanded(i) = <<>>
  <2>1. FlattenSeq(<<>>) = <<>>
    BY EmptySeq DEF FlattenSeq
  <2>2. [j \in 1 .. 0 |-> MeaningOf(entered[j])] = <<>>
    OBVIOUS
  <2> QED BY <1>4, <2>1, <2>2 DEF Expanded
<1>5. ASSUME i < Len(entered)
      PROVE  Expanded(i + 1) = Expanded(i) \o MeaningOf(entered[i + 1])
  <2> DEFINE x == MeaningOf(entered[i + 1])
             tt == [j \in 1 .. i + 1 |-> MeaningOf(entered[j])]
  <2>1. i + 1 \in 1 .. Len(entered) /\ x \in Seq(Args)
    BY <1>1, <1>5
  <2>2. tt \in Seq(Seq(Args)) /\ Len(tt) = i + 1 /\ tt[i + 1] = x
        /\ \A j \in 1 .. i : tt[j] = ss[j]
    BY <1>1, <2>1
  <2> HIDE DEF x, tt, ss
  <2>3. /\ Append(ss, x) \in Seq(Seq(Args)) /\ Len(Append(ss, x)) = i + 1
        /\ Append(ss, x)[i + 1] = x /\ \A j \in 1 .. i : Append(ss, x)[j] = ss[j]
    BY <1>2, <2>1, AppendProperties
  <2>4. \A j \in 1 .. i + 1 : tt[j] = Append(ss, x)[j]
    BY <2>2, <2>3
  <2>5. tt = Append(ss, x)
    BY <2>2, <2>3, <2>4, SeqEqual
  <2>6. FlattenSeq(Append(ss, x)) = FlattenSeq(ss) \o x
    BY <1>2, <2>1, FlattenedAppend
  <2> QED BY <2>5, <2>6 DEF Expanded, tt, ss, x
<1> QED BY <1>3, <1>4, <1>5

\* What more tokens stand for comes behind.
LEMMA ExpandedGrows ==
    ASSUME TypeInv, entered \in Seq(TypedTokens), NEW i \in 0 .. Len(entered)
    PROVE  \E r \in Seq(Args) : Expanded(Len(entered)) = Expanded(i) \o r
<1> DEFINE n == Len(entered)
           Grows(k) == \E r \in Seq(Args) : Expanded(k) = Expanded(i) \o r
           T == { k \in i .. n : ~Grows(k) }
<1>1. n \in Nat /\ i \in Nat /\ n \in i .. n
  BY LenProperties
<1> HIDE DEF n
<1>2. T = {}
  <2> SUFFICES ASSUME T # {} PROVE FALSE
    OBVIOUS
  <2>1. PICK k \in T : \A j \in T : k <= j
    <3>1. T \in SUBSET Nat
      BY <1>1
    <3> HIDE DEF T
    <3> QED BY <3>1, Least
  <2>2. CASE k = i
    <3>1. Expanded(i) \in Seq(Args) /\ <<>> \in Seq(Args)
      BY ExpandedIs, EmptySeq
    <3>2. Expanded(i) = Expanded(i) \o <<>>
      BY <3>1
    <3> QED BY <2>1, <2>2, <3>1, <3>2
  <2>3. CASE k # i
    <3>1. /\ k - 1 \in i .. n /\ k - 1 \notin T /\ k \in i .. n
          /\ k - 1 \in 0 .. n /\ k - 1 < n /\ (k - 1) + 1 = k /\ k \in 1 .. n
      <4>1. k \in i .. n
        BY <2>1
      <4> HIDE DEF T
      <4>2. k - 1 \notin T
        BY <1>1, <2>1, <4>1
      <4> QED BY <1>1, <2>3, <4>1, <4>2
    <3>2. PICK r \in Seq(Args) : Expanded(k - 1) = Expanded(i) \o r
      BY <3>1
    <3>3. Expanded(k) = Expanded(k - 1) \o MeaningOf(entered[k])
      <4>1. k - 1 \in 0 .. Len(entered) /\ k - 1 < Len(entered)
        BY <3>1 DEF n
      <4>2. Expanded((k - 1) + 1) = Expanded(k - 1) \o MeaningOf(entered[(k - 1) + 1])
        BY <4>1, ExpandedIs
      <4> QED BY <3>1, <4>2
    <3>4. MeaningOf(entered[k]) \in Seq(Args)
      BY <3>1, ElementOfSeq, MeaningType DEF n
    <3>5. Expanded(i) \in Seq(Args)
      BY ExpandedIs
    <3> DEFINE x == MeaningOf(entered[k])
               a == Expanded(i)
    <3> HIDE DEF x, a
    <3>6. (a \o r) \o x = a \o (r \o x) /\ r \o x \in Seq(Args)
      BY <3>2, <3>4, <3>5, ConcatAssociative, ConcatProperties, SMTT(30) DEF x, a
    <3>7. Grows(k)
      BY <3>2, <3>3, <3>6 DEF x, a
    <3> QED BY <2>1, <3>7
  <2> QED BY <2>2, <2>3
<1> QED BY <1>1, <1>2 DEF n

-----------------------------------------------------------------------------
(* A line is expanded token by token                                       *)

\* The first i tokens of the line have been expanded.
ExpandedUpTo(i) ==
    /\ line = SubSeq(entered, i + 1, Len(entered))
    /\ Small => args = Fitted(Expanded(i))
    /\ pc = "glob" => i < Len(entered) /\ IsPattern(entered[i + 1])
                      /\ target = ScanTarget(entered[i + 1])
    /\ pc = "dispatch" => i = Len(entered) \/ Len(args) = MaxArgs

ExpandInv ==
    pc \in {"expand", "glob", "dispatch"} =>
        /\ entered \in Seq(TypedTokens)
        /\ args \in Seq(Args)
        /\ \E i \in 0 .. Len(entered) : ExpandedUpTo(i)

\* The rest of the line begins with the next token.
LEMMA RestIs ==
    ASSUME entered \in Seq(TypedTokens), NEW i \in 0 .. Len(entered),
           line = SubSeq(entered, i + 1, Len(entered))
    PROVE  /\ line = <<>> <=> i = Len(entered)
           /\ i < Len(entered) =>
                /\ Head(line) = entered[i + 1] /\ Head(line) \in TypedTokens
                /\ Tail(line) = SubSeq(entered, (i + 1) + 1, Len(entered))
                /\ i + 1 \in 1 .. Len(entered)
<1> DEFINE n == Len(entered)
<1>1. n \in Nat /\ i \in Nat /\ i <= n
  BY LenProperties
<1>2. /\ line \in Seq(TypedTokens) /\ Len(line) = n - i
      /\ \A j \in 1 .. n - i : line[j] = entered[i + j]
  <2>1. i + 1 \in 1 .. n + 1
    BY <1>1
  <2>2. \A j \in 1 .. n - i : (i + 1) + j - 1 = i + j
    BY <1>1
  <2> QED BY <1>1, <2>1, <2>2
<1>3. line = <<>> <=> i = n
  <2>1. line = <<>> <=> Len(line) = 0
    BY <1>2, EmptySeq
  <2> QED BY <1>1, <1>2, <2>1
<1>4. ASSUME i < n
      PROVE  /\ Head(line) = entered[i + 1] /\ Head(line) \in TypedTokens
             /\ Tail(line) = SubSeq(entered, (i + 1) + 1, n)
             /\ i + 1 \in 1 .. n
  <2>1. line # <<>> /\ 1 \in 1 .. n - i /\ i + 1 \in 1 .. n
    BY <1>1, <1>3, <1>4
  <2>2. Head(line) = entered[i + 1] /\ Head(line) \in TypedTokens
    BY <1>2, <2>1, ElementOfSeq
  <2>3. /\ Tail(line) \in Seq(TypedTokens) /\ Len(Tail(line)) = n - i - 1
        /\ \A j \in 1 .. n - i - 1 : Tail(line)[j] = line[j + 1]
    BY <1>1, <1>2, <2>1, HeadTailProperties
  <2> DEFINE s == SubSeq(entered, (i + 1) + 1, n)
  <2>4. /\ s \in Seq(TypedTokens) /\ Len(s) = n - i - 1
        /\ \A j \in 1 .. n - i - 1 : s[j] = entered[i + j + 1]
    <3>1. (i + 1) + 1 \in 1 .. n + 1 /\ n - ((i + 1) + 1) + 1 = n - i - 1
      BY <1>1, <1>4
    <3>2. \A j \in 1 .. n - i - 1 : ((i + 1) + 1) + j - 1 = i + j + 1
      BY <1>1
    <3> DEFINE b == (i + 1) + 1
    <3> HIDE DEF b
    <3>3. b \in 1 .. n + 1
      BY <3>1 DEF b
    <3>4. /\ SubSeq(entered, b, n) \in Seq(TypedTokens) /\ Len(SubSeq(entered, b, n)) = n - b + 1
          /\ \A j \in 1 .. n - b + 1 : SubSeq(entered, b, n)[j] = entered[b + j - 1]
      BY <1>1, <3>3
    <3> QED BY <3>1, <3>2, <3>4 DEF b
  <2> HIDE DEF s, n
  <2>5. ASSUME NEW j \in 1 .. n - i - 1 PROVE Tail(line)[j] = s[j]
    <3>1. j + 1 \in 1 .. n - i /\ i + (j + 1) = i + j + 1
      BY <1>1
    <3>2. line[j + 1] = entered[i + (j + 1)]
      BY <1>2, <3>1
    <3> QED BY <2>3, <2>4, <3>1, <3>2
  <2>6. Tail(line) = s
    BY <2>3, <2>4, <2>5, SeqEqual
  <2> QED BY <2>1, <2>2, <2>6 DEF s
<1> QED BY <1>3, <1>4 DEF n

\* A scan that is over has returned the whole directory, if that is smaller
\* than a scan.
LEMMA SmallScan ==
    ASSUME TypeInv, ScanInv, pc = "glob", ScanEnds, Small, target # None
    PROVE  got = tree[target]
<1> DEFINE all == tree[target]
<1>1. /\ target \in DOMAIN tree /\ Len(got) \in Nat /\ Start \in Nat /\ Start % ScanMax = 0
      /\ got = SubSeq(all, Start + 1, pos[target])
  BY DEF TypeInv, ScanInv, Scanning
<1>2. /\ all \in Seq(ToSet(all)) /\ Len(all) \in Nat /\ Len(all) < ScanMax
      /\ pos[target] \in Nat /\ pos[target] <= Len(all) /\ ScanMax \in Nat
  BY <1>1, TreeIs, LimitsAssumption DEF Small
<1> HIDE DEF all
<1>3. Start = 0
  <2>1. Start \in 0 .. ScanMax - 1 /\ Start = ScanMax * 0 + Start /\ ScanMax > 0
    BY <1>1, <1>2 DEF Start
  <2> DEFINE s == Start
  <2> HIDE DEF s
  <2>2. s \in 0 .. ScanMax - 1 /\ s \in Int /\ s = ScanMax * 0 + s
    BY <2>1 DEF s
  <2>3. s % ScanMax = s
    BY <1>2, <2>1, <2>2, RemainderIs
  <2> QED BY <1>1, <2>3 DEF s
<1>4. Len(got) = pos[target]
  BY <1>1, <1>2, <1>3 DEF Start
<1>5. Left(target) = 0
  BY <1>1, <1>2, <1>4 DEF ScanEnds
<1>6. pos[target] = Len(all)
  BY <1>2, <1>5 DEF Left, all
<1> QED BY <1>1, <1>2, <1>3, <1>6 DEF all

\* One token more has been expanded, to e.
LEMMA ExpandsOne ==
    ASSUME TypeInv, entered \in Seq(TypedTokens), args \in Seq(Args),
           NEW i \in 0 .. Len(entered), ExpandedUpTo(i), i < Len(entered),
           NEW e \in Seq(Args), Small => e = MeaningOf(entered[i + 1]),
           args' = WithArgs(e), line' = Tail(line), pc' = "expand",
           UNCHANGED <<tree, entered>>
    PROVE  ExpandInv'
<1>1. /\ Tail(line) = SubSeq(entered, (i + 1) + 1, Len(entered))
      /\ i + 1 \in 0 .. Len(entered)
  <2>1. line = SubSeq(entered, i + 1, Len(entered))
    BY DEF ExpandedUpTo
  <2>2. i + 1 \in 1 .. Len(entered) /\ Tail(line) = SubSeq(entered, (i + 1) + 1, Len(entered))
    BY <2>1, RestIs
  <2> QED BY <2>2
<1>2. WithArgs(e) = Fitted(args \o e)
  BY WithArgsIs
<1>3. args \o e \in Seq(Args)
  BY ConcatProperties
<1>4. args' \in Seq(Args)
  BY <1>2, <1>3, FittedIs
<1>5. ASSUME Small PROVE args' = Fitted(Expanded(i + 1))
  <2>1. args = Fitted(Expanded(i))
    BY <1>5 DEF ExpandedUpTo
  <2>2. Expanded(i + 1) = Expanded(i) \o e /\ Expanded(i) \in Seq(Args)
    BY <1>5, ExpandedIs
  <2>3. Fitted(Fitted(Expanded(i)) \o e) = Fitted(Expanded(i) \o e)
    BY <2>2, FittedTwice
  <2> QED BY <1>2, <2>1, <2>2, <2>3
<1>6. Expanded(i + 1)' = Expanded(i + 1) /\ Small' = Small
  BY DEF Expanded, MeaningOf, ScanTarget, Small
<1>7. ExpandedUpTo(i + 1)'
  BY <1>1, <1>5, <1>6 DEF ExpandedUpTo, Fitted
<1> QED BY <1>1, <1>4, <1>7 DEF ExpandInv

LEMMA NextExpands ==
    TypeInv /\ ScanInv /\ ExpandInv /\ [Next]_vars => ExpandInv'
<1> SUFFICES ASSUME TypeInv, ScanInv, ExpandInv, [Next]_vars PROVE ExpandInv'
  OBVIOUS
<1>1. ASSUME NEW l \in Lines, Enter(l) PROVE ExpandInv'
  <2>1. l \in Seq(TypedTokens)
    <3>1. l \in Seq(ToSet(l)) /\ ToSet(l) \subseteq TypedTokens
      BY LinesAssumption DEF TypedTokens
    <3>2. \A i \in 1 .. Len(l) : l[i] \in TypedTokens
      BY <3>1, ElementOfSeq
    <3> QED BY <3>1, <3>2
  <2>2. entered' \in Seq(TypedTokens)
    <3> DEFINE m == IF Len(l) < MaxTokens THEN Len(l) ELSE MaxTokens
    <3>1. m \in 0 .. Len(l)
      BY <2>1, LimitsAssumption, LenProperties
    <3> HIDE DEF m
    <3>2. SubSeq(l, 1, m) \in Seq(TypedTokens)
      BY <2>1, <3>1, LenProperties
    <3> QED BY <1>1, <3>2 DEF Enter, m
  <2>3. args' = <<>> /\ line' = entered' /\ pc' = "expand"
    BY <1>1 DEF Enter
  <2>4. Len(entered') \in Nat /\ 0 \in 0 .. Len(entered')
    BY <2>2, LenProperties
  <2>5. line' = SubSeq(entered', 0 + 1, Len(entered'))
    BY <2>2, <2>3, <2>4
  <2>6. Fitted(Expanded(0)') = <<>>
    <3>1. Expanded(0)' = <<>>
      <4>1. FlattenSeq(<<>>) = <<>>
        BY EmptySeq DEF FlattenSeq
      <4>2. [j \in 1 .. 0 |-> MeaningOf(entered[j])'] = <<>>
        OBVIOUS
      <4> QED BY <4>1, <4>2 DEF Expanded
    <3>2. Fitted(<<>>) = <<>>
      <4> DEFINE e == <<>>
      <4>1. e \in Seq(Args) /\ Len(e) = 0 /\ MaxArgs \in Nat
        BY EmptySeq, LimitsAssumption
      <4> HIDE DEF e
      <4>2. Len(e) <= MaxArgs => Fitted(e) = e
        BY <4>1, FittedIs, Zenon
      <4>3. Len(e) <= MaxArgs
        BY <4>1
      <4> QED BY <4>2, <4>3 DEF e
    <3> QED BY <3>1, <3>2
  <2>7. ExpandedUpTo(0)'
    BY <2>3, <2>5, <2>6 DEF ExpandedUpTo, Fitted
  <2>8. args' \in Seq(Args)
    BY <2>3, EmptySeq
  <2> QED BY <2>2, <2>4, <2>7, <2>8 DEF ExpandInv
<1>2. CASE pc' \in {"prompt", "ls", "tab"}
  BY <1>2 DEF ExpandInv
<1>3. ASSUME pc \in {"expand", "glob", "dispatch"}
      PROVE  /\ entered \in Seq(TypedTokens) /\ args \in Seq(Args)
             /\ \E i \in 0 .. Len(entered) : ExpandedUpTo(i)
  BY <1>3 DEF ExpandInv
<1>4. ASSUME UNCHANGED <<tree, line, entered, args>>, pc \in {"expand", "glob", "dispatch"},
             NEW i \in 0 .. Len(entered), ExpandedUpTo(i),
             pc' = "glob" => i < Len(entered) /\ IsPattern(entered[i + 1])
                             /\ target' = ScanTarget(entered[i + 1]),
             pc' = "dispatch" => i = Len(entered) \/ Len(args) = MaxArgs
      PROVE  ExpandInv'
  <2>1. Expanded(i)' = Expanded(i) /\ Small' = Small
        /\ (i < Len(entered) => ScanTarget(entered[i + 1])' = ScanTarget(entered[i + 1]))
    BY <1>4 DEF Expanded, MeaningOf, ScanTarget, Small
  <2>2. ExpandedUpTo(i)'
    BY <1>4, <2>1 DEF ExpandedUpTo, Fitted
  <2> QED BY <1>3, <1>4, <2>2 DEF ExpandInv
<1>5. CASE Readdir /\ pc = "glob"
  <2>1. PICK i \in 0 .. Len(entered) : ExpandedUpTo(i)
    BY <1>3, <1>5
  <2>2. UNCHANGED <<tree, line, entered, args, pc, target>>
    BY <1>5 DEF Readdir
  <2> QED BY <1>4, <1>5, <2>1, <2>2 DEF ExpandedUpTo
<1>6. CASE NextToken
  <2>1. PICK i \in 0 .. Len(entered) : ExpandedUpTo(i)
    BY <1>3, <1>6 DEF NextToken
  <2>2. /\ entered \in Seq(TypedTokens) /\ args \in Seq(Args)
        /\ line = SubSeq(entered, i + 1, Len(entered)) /\ line # <<>>
    BY <1>3, <1>6, <2>1 DEF NextToken, ExpandedUpTo
  <2>3. i < Len(entered)
    <3>1. i # Len(entered) /\ Len(entered) \in Nat
      BY <2>2, RestIs, LenProperties
    <3> QED BY <3>1
  <2>4. Head(line) = entered[i + 1] /\ Head(line) \in TypedTokens
    BY <2>2, <2>3, RestIs
  <2>5. CASE IsPattern(Head(line))
    <3>1. /\ UNCHANGED <<tree, line, entered, args>> /\ pc = "expand" /\ pc' = "glob"
          /\ target' = ScanTarget(Head(line))
      BY <1>6, <2>5 DEF NextToken, StartScan, kernelVars
    <3>2. i < Len(entered) /\ IsPattern(entered[i + 1]) /\ target' = ScanTarget(entered[i + 1])
      BY <2>3, <2>4, <2>5, <3>1
    <3> QED BY <1>4, <2>1, <3>1, <3>2
  <2>6. CASE ~IsPattern(Head(line))
    <3>1. /\ UNCHANGED <<tree, entered>> /\ pc' = "expand"
          /\ args' = WithArgs(<<Head(line)>>) /\ line' = Tail(line)
      BY <1>6, <2>6 DEF NextToken, kernelVars
    <3>2. MeaningOf(entered[i + 1]) = <<Head(line)>>
      BY <2>4, <2>6 DEF MeaningOf
    <3>3. <<Head(line)>> \in Seq(Args)
      BY <2>4 DEF Args
    <3> QED BY <2>1, <2>2, <2>3, <3>1, <3>2, <3>3, ExpandsOne
  <2> QED BY <2>5, <2>6
<1>7. CASE EndGlob
  <2>1. PICK i \in 0 .. Len(entered) : ExpandedUpTo(i)
    BY <1>3, <1>7 DEF EndGlob
  <2>2. /\ entered \in Seq(TypedTokens) /\ args \in Seq(Args)
        /\ line = SubSeq(entered, i + 1, Len(entered)) /\ i < Len(entered)
        /\ IsPattern(entered[i + 1]) /\ target = ScanTarget(entered[i + 1])
    BY <1>3, <1>7, <2>1 DEF EndGlob, ExpandedUpTo
  <2>3. Head(line) = entered[i + 1] /\ Head(line) \in TypedTokens
    BY <2>2, RestIs
  <2>4. got \in Seq(FoundNames) /\ (target = None => got = <<>>)
    <3>1. CASE target = None
      <4>1. got = <<>>
        BY <1>7, <3>1 DEF EndGlob, ScanInv, Scanning
      <4> QED BY <4>1, EmptySeq
    <3>2. CASE target # None
      <4>1. /\ target \in DOMAIN tree /\ Len(got) \in Nat /\ Start \in Nat
            /\ got = SubSeq(tree[target], Start + 1, pos[target])
        BY <1>7, <3>2 DEF EndGlob, ScanInv, Scanning, TypeInv
      <4>2. tree[target] \in Seq(FoundNames) /\ pos[target] \in Nat
            /\ pos[target] <= Len(tree[target])
        BY <4>1, NamesAreFound, TreeIs
      <4> DEFINE all == tree[target]
                 s == Start
                 p == pos[target]
      <4> HIDE DEF all, s, p
      <4>3. SubSeq(all, s + 1, p) \in Seq(FoundNames)
        <5>1. all \in Seq(FoundNames) /\ s \in Nat /\ p \in Nat /\ p <= Len(all)
          BY <4>1, <4>2 DEF all, s, p
        <5>2. Len(all) \in Nat
          BY <5>1, LenProperties
        <5>3. CASE s + 1 <= p
          BY <5>1, <5>2, <5>3
        <5>4. CASE ~(s + 1 <= p)
          <6>1. SubSeq(all, s + 1, p) = <<>>
            BY <5>1, <5>4
          <6> QED BY <6>1, EmptySeq
        <5> QED BY <5>3, <5>4
      <4> QED BY <3>2, <4>1, <4>3 DEF all, s, p
    <3> QED BY <3>1, <3>2
  <2> DEFINE t == Head(line)
             e == Expansions(t, got)
  <2>5. e \in Seq(Args)
    BY <2>3, <2>4, ExpansionsType
  <2>6. ASSUME Small PROVE e = MeaningOf(t)
    <3>1. CASE target = None
      <4>1. got = <<>>
        BY <2>4, <3>1
      <4>2. Expansions(t, <<>>) = <<t>>
        <5>1. \A f : [j \in DOMAIN <<>> |-> f[j]] = <<>>
          OBVIOUS
        <5>2. FlattenSeq(<<>>) = <<>>
          BY EmptySeq DEF FlattenSeq
        <5>3. DOMAIN <<>> = {}
          OBVIOUS
        <5>4. [j \in DOMAIN <<>> |->
                 IF <<>>[j] \in MatchedBy(t.last) THEN <<[t EXCEPT !.last = <<>>[j]]>> ELSE <<>>] = <<>>
          BY <5>3
        <5> QED BY <5>2, <5>4 DEF Expansions
      <4> QED BY <2>2, <2>3, <3>1, <4>1, <4>2 DEF MeaningOf
    <3>2. CASE target # None
      <4>1. got = tree[target]
        BY <1>7, <2>6, <3>2, SmallScan DEF EndGlob
      <4> QED BY <2>2, <2>3, <3>2, <4>1 DEF MeaningOf
    <3> QED BY <3>1, <3>2
  <2>7. args' = WithArgs(e) /\ line' = Tail(line) /\ pc' = "expand" /\ UNCHANGED <<tree, entered>>
    BY <1>7 DEF EndGlob
  <2> HIDE DEF e
  <2> QED BY <2>1, <2>2, <2>3, <2>5, <2>6, <2>7, ExpandsOne
<1>8. CASE AllExpanded
  <2>1. PICK i \in 0 .. Len(entered) : ExpandedUpTo(i)
    BY <1>3, <1>8 DEF AllExpanded
  <2>2. /\ UNCHANGED <<tree, line, entered, args>> /\ pc = "expand" /\ pc' = "dispatch"
        /\ line = <<>> \/ Len(args) = MaxArgs
    BY <1>8 DEF AllExpanded, kernelVars
  <2>3. line = <<>> => i = Len(entered)
    BY <1>3, <2>1, <2>2, RestIs DEF ExpandedUpTo
  <2> QED BY <1>4, <2>1, <2>2, <2>3
<1>9. CASE UNCHANGED vars
  <2>1. CASE pc \in {"expand", "glob", "dispatch"}
    <3>1. PICK i \in 0 .. Len(entered) : ExpandedUpTo(i)
      BY <1>3, <2>1
    <3>2. UNCHANGED <<tree, line, entered, args, pc, target>>
      BY <1>9 DEF vars, kernelVars
    <3> QED BY <1>4, <2>1, <3>1, <3>2 DEF ExpandedUpTo
  <2>2. CASE pc \notin {"expand", "glob", "dispatch"}
    BY <1>9, <2>2 DEF vars, ExpandInv
  <2> QED BY <2>1, <2>2
<1>10. CASE Readdir /\ pc # "glob"
  BY <1>2, <1>10 DEF Readdir
<1>11. ASSUME NEW t, TabKey(t) PROVE ExpandInv'
  BY <1>2, <1>11 DEF TabKey, StartScan
<1>12. CASE EndTab \/ EndLs \/ Cd \/ Other
  BY <1>2, <1>12 DEF EndTab, EndLs, Cd, Other, Prompt
<1>13. CASE Ls
  BY <1>2, <1>13 DEF Ls, StartScan
<1> QED BY <1>1, <1>5, <1>6, <1>7, <1>8, <1>9, <1>10, <1>11, <1>12, <1>13 DEF Next, User, Shell

LEMMA ExpansionCorrect == Spec => [](TypeInv /\ ScanInv /\ ExpandInv)
<1>1. Init => ExpandInv
  BY DEF Init, ExpandInv
<1> QED BY <1>1, NextExpands, ScansCorrect, PTL DEF Spec

\* A command is dispatched with what its tokens stand for, in order and up to
\* the limit of the arguments, when directories are smaller than a scan;
\* for every line and whatever was scanned before.
THEOREM CommandsGetExpansions == Spec => []ArgsAreExpansions
<1>1. TypeInv /\ ExpandInv => ArgsAreExpansions
  <2> SUFFICES ASSUME TypeInv, ExpandInv, pc = "dispatch", Small
               PROVE  args = Fitted(FlattenSeq([i \in DOMAIN entered |-> MeaningOf(entered[i])]))
    BY DEF ArgsAreExpansions, Small, Fitted
  <2>1. entered \in Seq(TypedTokens) /\ args \in Seq(Args)
    BY DEF ExpandInv
  <2>2. PICK i \in 0 .. Len(entered) :
           args = Fitted(Expanded(i)) /\ (i = Len(entered) \/ Len(args) = MaxArgs)
    BY DEF ExpandInv, ExpandedUpTo
  <2>3. args = Fitted(Expanded(Len(entered)))
    <3>1. CASE i = Len(entered)
      BY <2>2, <3>1
    <3>2. CASE Len(args) = MaxArgs
      <4>1. PICK r \in Seq(Args) : Expanded(Len(entered)) = Expanded(i) \o r
        BY <2>1, ExpandedGrows
      <4>2. Expanded(i) \in Seq(Args)
        BY <2>1, ExpandedIs
      <4>3. Len(Expanded(i)) >= MaxArgs
        <5>1. Len(Expanded(i)) \in Nat /\ MaxArgs \in Nat
          BY <4>2, LimitsAssumption, LenProperties
        <5>2. Len(args) = IF Len(Expanded(i)) < MaxArgs THEN Len(Expanded(i)) ELSE MaxArgs
          BY <2>2, <4>2, FittedIs
        <5> QED BY <3>2, <5>1, <5>2
      <4>4. Fitted(Expanded(i) \o r) = Fitted(Expanded(i))
        BY <4>2, <4>3, FittedLong
      <4> QED BY <2>2, <4>1, <4>4
    <3> QED BY <2>2, <3>1, <3>2
  <2>4. DOMAIN entered = 1 .. Len(entered)
    BY <2>1, LenProperties
  <2> QED BY <2>3, <2>4 DEF Expanded
<1> QED BY <1>1, ExpansionCorrect, PTL

\* How far a command is from the prompt.
Phase ==
    CASE pc \in {"expand", "glob"} -> 3
      [] pc = "dispatch" -> 2
      [] pc \in {"ls", "tab"} -> 1
      [] OTHER -> 0

\* What a step brings nearer to its end: the command, the expansion of its
\* line, the scan for a token, the course of a scan.  In this order each is
\* a number, of which the first that changes gets smaller.
Closer ==
    \/ Phase' < Phase
    \/ Phase' = 3 /\ Phase = 3 /\ Len(line') < Len(line)
    \/ Phase' = Phase /\ line' = line /\ pc = "expand" /\ pc' = "glob"
    \/ /\ UNCHANGED <<Phase, line, pc, target, tree>>
       /\ target \in DOMAIN tree /\ Left(target)' < Left(target)

\* The numbers: the tokens left, and the entries left of any directory.
StepsAreCounted ==
    /\ Phase \in 0 .. 3
    /\ Phase = 3 => Len(line) \in Nat
    /\ \A d \in DOMAIN tree : Left(d) \in Nat

LEMMA LineLeft ==
    ASSUME ExpandInv, pc \in {"expand", "glob"}
    PROVE  /\ line \in Seq(TypedTokens) /\ Len(line) \in Nat
           /\ pc = "glob" => line # <<>>
<1>1. PICK i \in 0 .. Len(entered) : entered \in Seq(TypedTokens) /\ ExpandedUpTo(i)
  BY DEF ExpandInv
<1>2. line = SubSeq(entered, i + 1, Len(entered)) /\ Len(entered) \in Nat
  BY <1>1, LenProperties DEF ExpandedUpTo
<1>3. line \in Seq(TypedTokens)
  <2> DEFINE n == Len(entered)
  <2>1. n \in Nat /\ i \in 0 .. n
    BY <1>2
  <2>2. \A k \in i + 1 .. n : k \in 1 .. n
    <3> HIDE DEF n
    <3> QED BY <2>1
  <2>3. \A k \in i + 1 .. n : entered[k] \in TypedTokens
    BY <1>1, <2>2, ElementOfSeq
  <2>4. CASE i + 1 <= n
    BY <1>1, <1>2, <2>1, <2>4
  <2>5. CASE ~(i + 1 <= n)
    <3>1. i = Len(entered)
      <4> HIDE DEF n
      <4>1. i = n
        BY <2>1, <2>5
      <4> QED BY <4>1 DEF n
    <3>2. line = <<>>
      BY <1>1, <1>2, <3>1, RestIs
    <3> QED BY <3>2, EmptySeq
  <2> QED BY <2>4, <2>5
<1>4. pc = "glob" => line # <<>>
  <2> SUFFICES ASSUME pc = "glob" PROVE line # <<>>
    OBVIOUS
  <2>1. i < Len(entered)
    BY <1>1 DEF ExpandedUpTo
  <2>2. i # Len(entered)
    BY <1>2, <2>1
  <2> QED BY <1>1, <1>2, <2>2, RestIs
<1> QED BY <1>3, <1>4, LenProperties

LEMMA ShellGetsCloser ==
    ASSUME TypeInv, ScanInv, ExpandInv, Shell
    PROVE  Closer
<1>1. CASE Readdir
  <2>1. /\ UNCHANGED <<pc, line, target, tree>>
        /\ target \in DOMAIN tree /\ pos' = [pos EXCEPT ![target] = @ + 1]
    BY <1>1 DEF Readdir, TypeInv
  <2>2. Len(tree[target]) \in Nat /\ pos[target] \in Nat /\ pos'[target] = pos[target] + 1
    BY <2>1, TreeIs DEF TypeInv
  <2>3. Left(target)' < Left(target)
    BY <2>1, <2>2 DEF Left
  <2>4. Phase' = Phase
    BY <2>1 DEF Phase
  <2> QED BY <2>1, <2>3, <2>4 DEF Closer
<1>2. ASSUME pc \in {"expand", "glob"}, pc' = "expand", line # <<>>, line' = Tail(line)
      PROVE  Closer
  <2>1. Len(line') < Len(line)
    BY <1>2, LineLeft
  <2> QED BY <1>2, <2>1 DEF Closer, Phase
<1>3. CASE NextToken
  <2>1. CASE IsPattern(Head(line))
    BY <1>3, <2>1 DEF NextToken, StartScan, Closer, Phase
  <2>2. CASE ~IsPattern(Head(line))
    BY <1>2, <1>3, <2>2 DEF NextToken
  <2> QED BY <2>1, <2>2
<1>4. CASE EndGlob
  <2>1. line # <<>>
    BY <1>4, LineLeft DEF EndGlob
  <2> QED BY <1>2, <1>4, <2>1 DEF EndGlob
<1>5. CASE EndTab \/ EndLs \/ Cd \/ Other
  BY <1>5 DEF EndTab, EndLs, Cd, Other, Prompt, Closer, Phase
<1>6. CASE AllExpanded \/ Ls
  BY <1>6 DEF AllExpanded, Ls, StartScan, Closer, Phase
<1> QED BY <1>1, <1>3, <1>4, <1>5, <1>6 DEF Shell

\* However long the directories and wherever earlier scans left them, each
\* step of a command brings it nearer to the prompt, and between two prompts
\* only so many are possible (eval_line, cmd_ls, scan_dir_entries).
THEOREM CommandsGetCloser == Spec => []StepsAreCounted /\ [][Shell => Closer]_vars
<1>1. TypeInv /\ ExpandInv => StepsAreCounted
  <2> SUFFICES ASSUME TypeInv, ExpandInv PROVE StepsAreCounted
    OBVIOUS
  <2>1. Phase \in 0 .. 3 /\ (Phase = 3 => pc \in {"expand", "glob"})
    BY DEF Phase
  <2>2. \A d \in DOMAIN tree : Left(d) \in Nat
    BY TreeIs DEF Left
  <2> QED BY <2>1, <2>2, LineLeft DEF StepsAreCounted
<1>2. TypeInv /\ ScanInv /\ ExpandInv => [Shell => Closer]_vars
  BY ShellGetsCloser
<1> QED BY <1>1, <1>2, ExpansionCorrect, PTL

-----------------------------------------------------------------------------
(* What a pattern means: the recursion of Meaning unfolded                 *)

\* One line of Meaning, and that g satisfies those from m on.
MeaningAt(p, n, g, i) ==
    IF i > Len(p) THEN {Len(n) + 1}
    ELSE IF p[i] = Star
    THEN { j \in 1 .. Len(n) + 1 : \E k \in j .. Len(n) + 1 : k \in g[i + 1] }
    ELSE { j \in 1 .. Len(n) : StandsFor(p, i, n[j]) /\ j + 1 \in g[After(p, i)] }

MeansFrom(p, n, m, g) == \A i \in m .. Len(p) + 1 : g[i] = MeaningAt(p, n, g, i)

\* A class ends behind its [.
LEMMA AfterIs ==
    ASSUME NEW p \in Seq(Nat), NEW i \in 1 .. Len(p)
    PROVE  After(p, i) \in i + 1 .. Len(p) + 1
<1> DEFINE ends == { e \in i + 1 .. Len(p) : p[e] = Close }
<1>1. CASE ends = {}
  <2>1. ClassEnd(p, i) = 0
    BY <1>1 DEF ClassEnd
  <2> QED BY <2>1 DEF After, IsClass
<1>2. CASE ends # {}
  <2>1. PICK e \in ends : \A d \in ends : e <= d
    <3>1. ends \in SUBSET Nat
      OBVIOUS
    <3> HIDE DEF ends
    <3> QED BY <1>2, <3>1, Least
  <2>2. ClassEnd(p, i) = CHOOSE k \in ends : \A d \in ends : k <= d
    BY <1>2 DEF ClassEnd
  <2>3. ClassEnd(p, i) \in ends
    <3> HIDE DEF ends
    <3> QED BY <2>1, <2>2
  <2> QED BY <2>3 DEF After
<1> QED BY <1>1, <1>2

LEMMA MeaningAtAgrees ==
    ASSUME NEW p \in Seq(Nat), NEW n \in Seq(Nat), NEW g, NEW h, NEW i \in 1 .. Len(p) + 1,
           \A j \in i + 1 .. Len(p) + 1 : g[j] = h[j]
    PROVE  MeaningAt(p, n, g, i) = MeaningAt(p, n, h, i)
<1>1. CASE i > Len(p)
  BY <1>1 DEF MeaningAt
<1>2. CASE i <= Len(p)
  <2>1. g[i + 1] = h[i + 1] /\ g[After(p, i)] = h[After(p, i)]
    <3>1. i + 1 \in i + 1 .. Len(p) + 1 /\ After(p, i) \in i + 1 .. Len(p) + 1
      BY <1>2, AfterIs
    <3> QED BY <3>1
  <2> QED BY <2>1 DEF MeaningAt
<1> QED BY <1>1, <1>2

LEMMA MeansOneMore ==
    ASSUME NEW p \in Seq(Nat), NEW n \in Seq(Nat), NEW m \in 1 .. Len(p) + 1, NEW g,
           MeansFrom(p, n, m + 1, g)
    PROVE  \E h : MeansFrom(p, n, m, h)
<1> DEFINE h == [i \in m .. Len(p) + 1 |-> IF i = m THEN MeaningAt(p, n, g, m) ELSE g[i]]
<1>1. ASSUME NEW i \in m .. Len(p) + 1 PROVE h[i] = MeaningAt(p, n, h, i)
  <2>1. \A j \in i + 1 .. Len(p) + 1 : g[j] = h[j]
    OBVIOUS
  <2>2. h[i] = MeaningAt(p, n, g, i)
    BY DEF MeansFrom
  <2> HIDE DEF h
  <2>3. i \in 1 .. Len(p) + 1
    OBVIOUS
  <2>4. MeaningAt(p, n, g, i) = MeaningAt(p, n, h, i)
    BY <2>1, <2>3, MeaningAtAgrees
  <2> QED BY <2>2, <2>4
<1> HIDE DEF h
<1>2. MeansFrom(p, n, m, h)
  BY <1>1 DEF MeansFrom
<1> QED BY <1>2

LEMMA MeansExists ==
    ASSUME NEW p \in Seq(Nat), NEW n \in Seq(Nat)
    PROVE  \E g : MeansFrom(p, n, 1, g)
<1> DEFINE T == { m \in Nat : m >= 1 /\ m <= Len(p) + 2 /\ \E g : MeansFrom(p, n, m, g) }
<1>1. PICK m \in T : \A k \in T : m <= k
  <2>1. T \in SUBSET Nat
    OBVIOUS
  <2>2. Len(p) + 2 \in T
    BY DEF MeansFrom
  <2> HIDE DEF T
  <2> QED BY <2>1, <2>2, Least
<1>2. PICK g : MeansFrom(p, n, m, g)
  OBVIOUS
<1>3. CASE m = 1
  BY <1>2, <1>3
<1>4. CASE m # 1
  <2>1. m - 1 \in 1 .. Len(p) + 1 /\ (m - 1) + 1 = m
    BY <1>4
  <2>2. \E h : MeansFrom(p, n, m - 1, h)
    <3>1. MeansFrom(p, n, (m - 1) + 1, g)
      BY <1>2, <2>1
    <3> QED BY <2>1, <3>1, MeansOneMore
  <2>3. m - 1 \in T
    BY <2>1, <2>2
  <2> QED BY <1>1, <2>1, <2>3
<1> QED BY <1>3, <1>4

\* Meaning satisfies its definition.
LEMMA MeaningIs ==
    ASSUME NEW p \in Seq(Nat), NEW n \in Seq(Nat), NEW i \in 1 .. Len(p) + 1
    PROVE  Meaning(p, n)[i] = MeaningAt(p, n, Meaning(p, n), i)
<1>1. PICK g : MeansFrom(p, n, 1, g)
  BY MeansExists
<1> DEFINE h == [j \in 1 .. Len(p) + 1 |-> g[j]]
        Q(f) == f = [j \in 1 .. Len(p) + 1 |-> MeaningAt(p, n, f, j)]
<1>2. Q(h)
  <2>1. ASSUME NEW j \in 1 .. Len(p) + 1 PROVE h[j] = MeaningAt(p, n, h, j)
    <3>1. \A k \in j + 1 .. Len(p) + 1 : g[k] = h[k]
      OBVIOUS
    <3>2. h[j] = MeaningAt(p, n, g, j)
      BY <1>1 DEF MeansFrom
    <3> HIDE DEF h
    <3>3. MeaningAt(p, n, g, j) = MeaningAt(p, n, h, j)
      BY <3>1, MeaningAtAgrees
    <3> QED BY <3>2, <3>3
  <2>2. h = [j \in 1 .. Len(p) + 1 |-> h[j]]
    OBVIOUS
  <2> HIDE DEF h
  <2> QED BY <2>1, <2>2
<1>3. Meaning(p, n) = CHOOSE f : Q(f)
  BY DEF Meaning, MeaningAt
<1>4. Q(CHOOSE f : Q(f))
  <2> HIDE DEF Q, h
  <2> QED BY <1>2
<1> QED BY <1>3, <1>4

LEMMA MeaningOfPart ==
    ASSUME NEW p \in Seq(Nat), NEW n \in Seq(Nat), NEW i \in 1 .. Len(p) + 1,
           NEW j \in 1 .. Len(n) + 1
    PROVE  /\ i > Len(p) => (j \in Meaning(p, n)[i] <=> j = Len(n) + 1)
           /\ i <= Len(p) /\ p[i] = Star =>
                 (j \in Meaning(p, n)[i]
                     <=> \E k \in j .. Len(n) + 1 : k \in Meaning(p, n)[i + 1])
           /\ i <= Len(p) /\ p[i] # Star =>
                 (j \in Meaning(p, n)[i]
                     <=> /\ j <= Len(n) /\ StandsFor(p, i, n[j])
                         /\ j + 1 \in Meaning(p, n)[After(p, i)])
<1> DEFINE f == Meaning(p, n)
<1>1. f[i] = MeaningAt(p, n, f, i)
  BY MeaningIs
<1> HIDE DEF f
<1>2. /\ i > Len(p) => (j \in f[i] <=> j = Len(n) + 1)
      /\ i <= Len(p) /\ p[i] = Star =>
            (j \in f[i] <=> \E k \in j .. Len(n) + 1 : k \in f[i + 1])
      /\ i <= Len(p) /\ p[i] # Star =>
            (j \in f[i] <=> j <= Len(n) /\ StandsFor(p, i, n[j]) /\ j + 1 \in f[After(p, i)])
  BY <1>1 DEF MeaningAt
<1> QED BY <1>2 DEF f

\* At the end of the name only stars match.
LEMMA StarsMatchNothing ==
    ASSUME NEW p \in Seq(Nat), NEW n \in Seq(Nat), NEW i \in 1 .. Len(p) + 1
    PROVE  Len(n) + 1 \in Meaning(p, n)[i] <=> \A k \in i .. Len(p) : p[k] = Star
<1> DEFINE e == Len(n) + 1
        Right(m) == e \in Meaning(p, n)[m] <=> \A k \in m .. Len(p) : p[k] = Star
        T == { m \in Nat : m >= 1 /\ m <= Len(p) + 1 /\ ~Right(m) }
<1>1. SUFFICES ASSUME T # {} PROVE FALSE
  <2>1. T = {} => Right(i)
    <3> HIDE DEF Right
    <3> QED OBVIOUS
  <2> HIDE DEF T
  <2> QED BY <2>1
<1>2. T \in SUBSET Nat /\ Len(p) + 1 \in Nat /\ \A x \in T : x <= Len(p) + 1
  <2> HIDE DEF Right
  <2> QED OBVIOUS
<1> DEFINE m == Max(T)
<1>3. m \in T /\ \A x \in T : x <= m
  <2> HIDE DEF T
  <2> QED BY <1>1, <1>2, Greatest
<1> HIDE DEF m
<1>4. m \in 1 .. Len(p) + 1 /\ e \in 1 .. Len(n) + 1 /\ ~Right(m)
  <2> HIDE DEF Right
  <2> QED BY <1>3
<1>5. CASE m > Len(p)
  <2>1. e \in Meaning(p, n)[m]
    BY <1>4, <1>5, MeaningOfPart
  <2> QED BY <1>4, <1>5, <2>1
<1>6. CASE m <= Len(p) /\ p[m] = Star
  <2>1. e \in Meaning(p, n)[m] <=> \E k \in e .. Len(n) + 1 : k \in Meaning(p, n)[m + 1]
    BY <1>4, <1>6, MeaningOfPart
  <2>2. e .. Len(n) + 1 = {e}
    OBVIOUS
  <2>3. Right(m + 1)
    <3>1. m + 1 \in Nat /\ m + 1 >= 1 /\ m + 1 <= Len(p) + 1 /\ m + 1 > m
      BY <1>4, <1>6
    <3>2. m + 1 \notin T
      <4> HIDE DEF T
      <4> QED BY <1>3, <1>4, <3>1
    <3> HIDE DEF Right
    <3> QED BY <3>1, <3>2
  <2>4. (\A k \in m .. Len(p) : p[k] = Star) <=> \A k \in m + 1 .. Len(p) : p[k] = Star
    <3>1. m .. Len(p) = {m} \cup (m + 1 .. Len(p))
      BY <1>4, <1>6
    <3> QED BY <1>6, <3>1
  <2>5. e \in Meaning(p, n)[m] <=> e \in Meaning(p, n)[m + 1]
    BY <2>1, <2>2
  <2> QED BY <1>4, <2>3, <2>4, <2>5
<1>7. CASE m <= Len(p) /\ p[m] # Star
  <2>1. ~(e <= Len(n))
    OBVIOUS
  <2>3. e \notin Meaning(p, n)[m]
    <3> HIDE DEF e
    <3> QED BY <1>4, <1>7, <2>1, MeaningOfPart
  <2>2. m \in m .. Len(p)
    BY <1>4, <1>7
  <2> QED BY <1>4, <1>7, <2>3, <2>2
<1> QED BY <1>4, <1>5, <1>6, <1>7

-----------------------------------------------------------------------------
(* The loop                                                                *)

GlobTypeInv ==
    /\ pattern \in Patterns /\ name \in FileNames
    /\ GlobTypeOK

LEMMA InputsAreSequences ==
    ASSUME GlobTypeInv
    PROVE  pattern \in Seq(Nat) /\ name \in Seq(Nat)
BY BytesAssumption DEF GlobTypeInv

LEMMA GlobTypes == GlobSpec => []GlobTypeInv
<1>1. GlobInit => GlobTypeInv
  <2> SUFFICES ASSUME GlobInit PROVE GlobTypeInv
    OBVIOUS
  <2>1. pattern \in Seq(Nat) /\ name \in Seq(Nat)
    BY BytesAssumption DEF GlobInit
  <2> QED BY <2>1 DEF GlobInit, GlobTypeInv, GlobTypeOK
<1>2. GlobTypeInv /\ [GlobNext]_globVars => GlobTypeInv'
  <2> SUFFICES ASSUME GlobTypeInv, [GlobNext]_globVars PROVE GlobTypeInv'
    OBVIOUS
  <2>1. pattern \in Seq(Nat) /\ name \in Seq(Nat)
    BY InputsAreSequences
  <2>0. Len(pattern) \in Nat /\ pi \in 1 .. Len(pattern) + 1
    <3>1. pi \in 1 .. Len(pattern) + 1
      BY DEF GlobTypeInv, GlobTypeOK
    <3>2. Len(pattern) \in Nat
      BY <2>1
    <3> QED BY <3>1, <3>2
  <2> USE DEF GlobTypeInv, GlobTypeOK
  <2>2. CASE Consume
    <3>1. pi \in 1 .. Len(pattern)
      <4>1. pi <= Len(pattern)
        BY <2>2 DEF Consume, Single, MorePattern
      <4> HIDE DEF GlobTypeInv
      <4> QED BY <2>0, <4>1
    <3>2. After(pattern, pi) \in pi + 1 .. Len(pattern) + 1
      BY <2>1, <3>1, AfterIs
    <3> QED BY <2>1, <2>2, <3>1, <3>2 DEF Consume, MoreName
  <2>3. CASE MeetStar
    BY <2>1, <2>3 DEF MeetStar, MoreName, AtStar, MorePattern
  <2>4. CASE Backtrack
    BY <2>1, <2>4 DEF Backtrack, MoreName
  <2>5. CASE Fail
    BY <2>5 DEF Fail
  <2>6. CASE Finish
    BY <2>6 DEF Finish
  <2>7. CASE UNCHANGED globVars
    BY <2>7 DEF globVars
  <2> QED BY <2>2, <2>3, <2>4, <2>5, <2>6, <2>7 DEF GlobNext
<1> QED BY <1>1, <1>2, PTL DEF GlobSpec

\* From position i of the pattern on, the rest of the name from j on matches.
Fits(i, j) == j \in Meaning(pattern, name)[i]

\* The whole pattern matches the whole name if what is left does, and if
\* what was left at the last star does.
NothingInvented ==
    /\ result = "running" /\ Fits(pi, ni) => Fits(1, 1)
    /\ starPi # 0 /\ Fits(starPi, starNi) => Fits(1, 1)
    /\ result = "match" => Fits(1, 1)

\* The converse, without a star in the name: a match passes the last star
\* where it was met or later, and whatever the star takes, what was
\* consumed since then is forced.
NothingLost ==
    /\ result = "running" /\ starPi = 0 /\ Fits(1, 1) => Fits(pi, ni)
    /\ result = "running" /\ starPi # 0 =>
          /\ Fits(1, 1) => Fits(starPi, starNi)
          /\ \A k \in starNi .. Len(name) + 1 :
                Fits(starPi + 1, k) => /\ k + (ni - starNi) <= Len(name) + 1
                                       /\ Fits(pi, k + (ni - starNi))
    /\ result = "no match" => ~Fits(1, 1)

GlobInv == NothingInvented /\ (Star \notin ToSet(name) => NothingLost)

\* What Meaning says of the positions the loop is at.
LEMMA FitsIs ==
    ASSUME GlobTypeInv, NEW i \in 1 .. Len(pattern) + 1, NEW j \in 1 .. Len(name) + 1
    PROVE  /\ i > Len(pattern) => (Fits(i, j) <=> j = Len(name) + 1)
           /\ i <= Len(pattern) /\ pattern[i] = Star =>
                 (Fits(i, j) <=> \E k \in j .. Len(name) + 1 : Fits(i + 1, k))
           /\ i <= Len(pattern) /\ pattern[i] # Star =>
                 (Fits(i, j) <=> /\ j <= Len(name) /\ StandsFor(pattern, i, name[j])
                                 /\ Fits(After(pattern, i), j + 1))
BY InputsAreSequences, MeaningOfPart DEF Fits

\* A single character is consumed exactly when it may stand at pi.
LEMMA StandsHere ==
    ASSUME GlobTypeInv, MoreName
    PROVE  /\ Single /\ Accepts /\ pattern[pi] # Star => StandsFor(pattern, pi, name[ni])
           /\ Stuck /\ MorePattern => pattern[pi] # Star /\ ~StandsFor(pattern, pi, name[ni])
BY DEF Single, Accepts, Stuck, AtStar, MorePattern, StandsFor, IsClass, Star, Quest, Open

\* The loop is stuck only where nothing fits.
LEMMA StuckFitsNothing ==
    ASSUME GlobTypeInv, MoreName, Stuck
    PROVE  ~Fits(pi, ni)
<1>1. pi \in 1 .. Len(pattern) + 1 /\ ni \in 1 .. Len(name) + 1 /\ ni <= Len(name)
  BY InputsAreSequences DEF GlobTypeInv, GlobTypeOK, MoreName
<1>2. CASE MorePattern
  BY <1>1, <1>2, FitsIs, StandsHere DEF MorePattern
<1>3. CASE ~MorePattern
  BY <1>1, <1>3, FitsIs, InputsAreSequences DEF MorePattern
<1> QED BY <1>2, <1>3

LEMMA InitMeans == GlobInit => GlobInv
<1> SUFFICES ASSUME GlobInit PROVE GlobInv
  OBVIOUS
<1> QED BY DEF GlobInit, GlobInv, NothingInvented, NothingLost


\* A star that was met, and that may take one more character.
LEMMA StarFits ==
    ASSUME GlobTypeInv, NEW i \in 1 .. Len(pattern), pattern[i] = Star, NEW j \in 1 .. Len(name) + 1
    PROVE  /\ Fits(i + 1, j) => Fits(i, j)
           /\ \A k \in j .. Len(name) + 1 : Fits(i, k) => Fits(i, j)
           /\ Fits(i, j) /\ ~Fits(i + 1, j) =>
                 \E k \in j + 1 .. Len(name) + 1 : Fits(i + 1, k)
<1>1. Len(name) \in Nat /\ Len(pattern) \in Nat
  BY InputsAreSequences
<1>2. \A l \in 1 .. Len(name) + 1 : Fits(i, l) <=> \E k \in l .. Len(name) + 1 : Fits(i + 1, k)
  BY <1>1, FitsIs
<1> QED BY <1>1, <1>2

\* One character of the name against one piece of the pattern.
LEMMA SingleFits ==
    ASSUME GlobTypeInv, MoreName, Single, Accepts
    PROVE  /\ Fits(After(pattern, pi), ni + 1) => Fits(pi, ni)
           /\ Star \notin ToSet(name) =>
                 \A j \in 1 .. Len(name) + 1 :
                    Fits(pi, j) => j <= Len(name) /\ Fits(After(pattern, pi), j + 1)
<1>1. Len(name) \in Nat /\ Len(pattern) \in Nat /\ pi \in 1 .. Len(pattern) + 1 /\ ni \in 1 .. Len(name) + 1
  <2>1. pi \in 1 .. Len(pattern) + 1 /\ ni \in 1 .. Len(name) + 1
    BY DEF GlobTypeInv, GlobTypeOK
  <2>2. Len(name) \in Nat /\ Len(pattern) \in Nat
    BY InputsAreSequences
  <2> QED BY <2>1, <2>2
<1>2. pi <= Len(pattern) /\ ni <= Len(name)
  BY DEF Single, MorePattern, MoreName
<1>3. CASE pattern[pi] = Star
  <2>1. After(pattern, pi) = pi + 1
    BY <1>3 DEF After, IsClass, Star, Open
  <2>2. Fits(pi, ni) <=> \E k \in ni .. Len(name) + 1 : Fits(pi + 1, k)
    BY <1>1, <1>2, <1>3, FitsIs
  <2>3. ni + 1 \in ni .. Len(name) + 1
    BY <1>1, <1>2
  <2>4. name[ni] = Star
    BY <1>3 DEF Single, Star, Quest, Open
  <2>5. Star \in ToSet(name)
    <3>1. ni \in DOMAIN name
      BY <1>1, <1>2, InputsAreSequences
    <3> QED BY <2>4, <3>1 DEF ToSet
  <2> QED BY <2>1, <2>2, <2>3, <2>5
<1>4. CASE pattern[pi] # Star
  <2>1. \A j \in 1 .. Len(name) + 1 :
           Fits(pi, j) <=> /\ j <= Len(name) /\ StandsFor(pattern, pi, name[j])
                           /\ Fits(After(pattern, pi), j + 1)
    BY <1>1, <1>2, <1>4, FitsIs
  <2>2. StandsFor(pattern, pi, name[ni])
    BY <1>4, StandsHere
  <2> QED BY <1>1, <1>2, <2>1, <2>2
<1> QED BY <1>3, <1>4

\* When the name is used up, what is left of the pattern decides.
LEMMA EndFits ==
    ASSUME GlobTypeInv, ni = Len(name) + 1
    PROVE  Fits(pi, ni) <=> \A k \in pi .. Len(pattern) : pattern[k] = Star
<1>1. pi \in 1 .. Len(pattern) + 1
  BY DEF GlobTypeInv, GlobTypeOK
<1>2. Len(name) + 1 \in Meaning(pattern, name)[pi] <=> \A k \in pi .. Len(pattern) : pattern[k] = Star
  BY <1>1, InputsAreSequences, StarsMatchNothing
<1> QED BY <1>2 DEF Fits

LEMMA GlobNumbers ==
    ASSUME GlobTypeInv
    PROVE  /\ Len(name) \in Nat /\ Len(pattern) \in Nat
           /\ pi \in 1 .. Len(pattern) + 1 /\ ni \in 1 .. Len(name) + 1
           /\ starPi \in 0 .. Len(pattern) /\ starNi \in 1 .. ni
           /\ starPi # 0 => pattern[starPi] = Star
<1>1. pi \in 1 .. Len(pattern) + 1 /\ ni \in 1 .. Len(name) + 1
  BY DEF GlobTypeInv, GlobTypeOK
<1>2. Len(name) \in Nat /\ Len(pattern) \in Nat
  BY InputsAreSequences
<1>3. starPi \in 0 .. pi - 1 /\ starNi \in 1 .. ni /\ (starPi # 0 => pattern[starPi] = Star)
  BY DEF GlobTypeInv, GlobTypeOK
<1> QED BY <1>1, <1>2, <1>3

LEMMA NextInventsNothing ==
    ASSUME GlobTypeInv, NothingInvented, [GlobNext]_globVars
    PROVE  NothingInvented'
<1>1. pattern' = pattern /\ name' = name
  BY DEF GlobNext, Consume, MeetStar, Backtrack, Fail, Finish, globVars
<1>2. CASE Consume
  <2>1. Fits(After(pattern, pi), ni + 1) => Fits(pi, ni)
    BY <1>2, SingleFits DEF Consume
  <2> QED BY <1>1, <1>2, <2>1 DEF Consume, MoreName, NothingInvented, Fits
<1>3. CASE MeetStar
  <2>1. Fits(pi + 1, ni) => Fits(pi, ni)
    BY <1>3, GlobNumbers, StarFits DEF MeetStar, AtStar, MorePattern
  <2> QED BY <1>1, <1>3, <2>1 DEF MeetStar, MoreName, NothingInvented, Fits
<1>4. CASE Backtrack
  <2>1. starPi \in 1 .. Len(pattern) /\ starNi \in 1 .. Len(name) + 1 /\ starNi + 1 \in 1 .. Len(name) + 1
        /\ starNi + 1 \in starNi .. Len(name) + 1 /\ pattern[starPi] = Star
    BY <1>4, GlobNumbers DEF Backtrack, MoreName
  <2>2. Fits(starPi + 1, starNi + 1) => Fits(starPi, starNi + 1)
    BY <2>1, StarFits
  <2>3. Fits(starPi, starNi + 1) => Fits(starPi, starNi)
    BY <2>1, StarFits
  <2> QED BY <1>1, <1>4, <2>2, <2>3 DEF Backtrack, MoreName, NothingInvented, Fits
<1>5. CASE Fail
  BY <1>1, <1>5 DEF Fail, MoreName, NothingInvented, Fits
<1>6. CASE Finish
  <2>1. ni = Len(name) + 1
    <3>1. ni > Len(name)
      BY <1>6 DEF Finish
    <3> QED BY <3>1, GlobNumbers
  <2>2. result' = "match" => Fits(pi, ni)
    BY <1>6, <2>1, EndFits DEF Finish
  <2> QED BY <1>1, <1>6, <2>2 DEF Finish, NothingInvented, Fits
<1>7. CASE UNCHANGED globVars
  BY <1>7 DEF globVars, NothingInvented, Fits
<1> QED BY <1>2, <1>3, <1>4, <1>5, <1>6, <1>7 DEF GlobNext

LEMMA NextLosesNothing ==
    ASSUME GlobTypeInv, NothingLost, Star \notin ToSet(name), [GlobNext]_globVars
    PROVE  NothingLost'
<1>1. pattern' = pattern /\ name' = name
  BY DEF GlobNext, Consume, MeetStar, Backtrack, Fail, Finish, globVars
<1> DEFINE N == Len(name)
<1>0. /\ N \in Nat /\ pi \in Nat /\ ni \in 1 .. N + 1 /\ starPi \in 0 .. Len(pattern)
      /\ Len(pattern) \in Nat /\ starNi \in 1 .. ni /\ (starPi # 0 => pattern[starPi] = Star)
  BY GlobNumbers
<1>2. CASE Consume
  <2>1. \A j \in 1 .. N + 1 : Fits(pi, j) => j <= N /\ Fits(After(pattern, pi), j + 1)
    BY <1>2, SingleFits DEF Consume
  <2>2. starPi = 0 /\ Fits(1, 1) => Fits(After(pattern, pi), ni + 1)
    BY <1>0, <1>2, <2>1 DEF Consume, MoreName, NothingLost
  <2>3. ASSUME starPi # 0, NEW k \in starNi .. N + 1, Fits(starPi + 1, k)
        PROVE  k + ((ni + 1) - starNi) <= N + 1 /\ Fits(After(pattern, pi), k + ((ni + 1) - starNi))
    <3> DEFINE j == k + (ni - starNi)
    <3>1. j <= N + 1 /\ Fits(pi, j)
      BY <1>2, <2>3 DEF Consume, MoreName, NothingLost
    <3>2. j \in 1 .. N + 1 /\ j + 1 = k + ((ni + 1) - starNi)
      BY <1>0, <3>1
    <3>3. j <= N /\ Fits(After(pattern, pi), j + 1)
      <4> HIDE DEF j, N
      <4> QED BY <2>1, <3>1, <3>2
    <3> HIDE DEF j
    <3> QED BY <1>0, <3>2, <3>3
  <2>4. starPi # 0 /\ Fits(1, 1) => Fits(starPi, starNi)
    BY <1>2 DEF Consume, MoreName, NothingLost
  <2> QED BY <1>1, <1>2, <2>2, <2>3, <2>4 DEF Consume, MoreName, NothingLost, Fits
<1>3. CASE MeetStar
  <2>1. pi \in 1 .. Len(pattern) /\ pattern[pi] = Star
    BY <1>3, GlobNumbers DEF MeetStar, AtStar, MorePattern
  <2>2. ASSUME Fits(1, 1) PROVE Fits(pi, ni)
    <3>1. CASE starPi = 0
      BY <1>3, <2>2, <3>1 DEF MeetStar, MoreName, NothingLost
    <3>2. CASE starPi # 0
      <4>1. Fits(starPi, starNi)
        BY <1>3, <2>2, <3>2 DEF MeetStar, MoreName, NothingLost
      <4>2. \E k \in starNi .. N + 1 : Fits(starPi + 1, k)
        BY <1>0, <3>2, <4>1, FitsIs
      <4>3. PICK k \in starNi .. N + 1 : Fits(starPi + 1, k)
        BY <4>2
      <4>4. k + (ni - starNi) <= N + 1 /\ Fits(pi, k + (ni - starNi))
        BY <1>3, <3>2, <4>3 DEF MeetStar, MoreName, NothingLost
      <4>5. k + (ni - starNi) \in ni .. N + 1
        BY <1>0, <4>4
      <4> QED BY <1>0, <2>1, <4>4, <4>5, StarFits
    <3> QED BY <3>1, <3>2
  <2>3. \A k \in ni .. N + 1 : k + (ni - ni) = k /\ k <= N + 1
    BY <1>0
  <2>4. starPi' # 0 /\ pi' = starPi' + 1 /\ starPi' = pi /\ starNi' = ni /\ ni' = ni /\ result' = "running"
    BY <1>0, <1>3, <2>1 DEF MeetStar, MoreName
  <2>5. Fits(1, 1)' <=> Fits(1, 1)
    BY <1>1 DEF Fits
  <2>6. Fits(starPi, starNi)' <=> Fits(pi, ni)
    BY <1>1, <2>4 DEF Fits
  <2>7. \A k \in starNi' .. Len(name)' + 1 :
           Fits(starPi + 1, k)' => /\ k + (ni' - starNi') <= Len(name)' + 1
                                   /\ Fits(pi, k + (ni - starNi))'
    BY <1>1, <2>3, <2>4 DEF Fits
  <2> QED BY <2>2, <2>4, <2>5, <2>6, <2>7 DEF NothingLost
<1>4. CASE Backtrack
  <2>0. starPi \in 1 .. Len(pattern) /\ starNi \in 1 .. N + 1 /\ starNi + 1 \in 1 .. N + 1 /\ pattern[starPi] = Star
    BY <1>0, <1>4 DEF Backtrack, MoreName
  <2>1. ~Fits(starPi + 1, starNi)
    <3>1. ~Fits(pi, ni)
      BY <1>4, StuckFitsNothing DEF Backtrack
    <3>2. starNi \in starNi .. N + 1 /\ starNi + (ni - starNi) = ni
      BY <1>0, <2>0
    <3>3. Fits(starPi + 1, starNi) => Fits(pi, starNi + (ni - starNi))
      BY <1>4, <3>2 DEF Backtrack, MoreName, NothingLost
    <3> QED BY <3>1, <3>2, <3>3
  <2>2. ASSUME Fits(1, 1) PROVE Fits(starPi, starNi + 1)
    <3>1. Fits(starPi, starNi)
      BY <1>4, <2>2 DEF Backtrack, MoreName, NothingLost
    <3>2. PICK k \in starNi + 1 .. N + 1 : Fits(starPi + 1, k)
      BY <2>0, <2>1, <3>1, StarFits
    <3>3. k \in 1 .. N + 1
      BY <2>0
    <3>4. Fits(starPi, k)
      BY <2>0, <3>2, <3>3, StarFits
    <3> QED BY <2>0, <3>2, <3>4, StarFits
  <2>3. \A k \in starNi + 1 .. N + 1 : k + ((starNi + 1) - (starNi + 1)) = k /\ k <= N + 1
    BY <1>0
  <2>4. starPi' # 0 /\ pi' = starPi' + 1 /\ starPi' = starPi /\ starNi' = starNi + 1 /\ ni' = starNi' /\ result' = "running"
    BY <1>4 DEF Backtrack, MoreName
  <2>5. Fits(1, 1)' <=> Fits(1, 1)
    BY <1>1 DEF Fits
  <2>6. Fits(starPi, starNi)' <=> Fits(starPi, starNi + 1)
    BY <1>1, <2>4 DEF Fits
  <2>7. \A k \in starNi' .. Len(name)' + 1 :
           Fits(starPi + 1, k)' => /\ k + (ni' - starNi') <= Len(name)' + 1
                                   /\ Fits(pi, k + (ni - starNi))'
    BY <1>1, <2>3, <2>4 DEF Fits
  <2> QED BY <2>2, <2>4, <2>5, <2>6, <2>7 DEF NothingLost
<1>5. CASE Fail
  <2>1. ~Fits(1, 1)
    BY <1>5, StuckFitsNothing DEF Fail, MoreName, NothingLost
  <2> QED BY <1>1, <1>5, <2>1 DEF Fail, NothingLost, Fits
<1>6. CASE Finish
  <2>1. ni = N + 1
    <3>1. ni > N
      BY <1>6 DEF Finish
    <3> QED BY <1>0, <3>1
  <2>2. ASSUME Fits(1, 1) PROVE Fits(pi, ni)
    <3>1. CASE starPi = 0
      BY <1>6, <2>2, <3>1 DEF Finish, NothingLost
    <3>2. CASE starPi # 0
      <4>1. Fits(starPi, starNi)
        BY <1>6, <2>2, <3>2 DEF Finish, NothingLost
      <4>2. \E k \in starNi .. N + 1 : Fits(starPi + 1, k)
        BY <1>0, <3>2, <4>1, FitsIs
      <4>3. PICK k \in starNi .. N + 1 : Fits(starPi + 1, k)
        BY <4>2
      <4>4. k + (ni - starNi) <= N + 1 /\ Fits(pi, k + (ni - starNi))
        BY <1>6, <3>2, <4>3 DEF Finish, NothingLost
      <4>5. k + (ni - starNi) = ni
        BY <1>0, <2>1, <4>4
      <4> QED BY <4>4, <4>5
    <3> QED BY <3>1, <3>2
  <2>3. result' = "no match" => ~Fits(pi, ni)
    BY <1>6, <2>1, EndFits DEF Finish
  <2>4. result' # "running"
    BY <1>6 DEF Finish
  <2>5. result' = "no match" => ~Fits(1, 1)
    BY <2>2, <2>3
  <2> QED BY <1>1, <2>4, <2>5 DEF NothingLost, Fits
<1>7. CASE UNCHANGED globVars
  BY <1>7 DEF globVars, NothingLost, Fits
<1> QED BY <1>2, <1>3, <1>4, <1>5, <1>6, <1>7 DEF GlobNext

\* The indices never leave the pattern and the name, and the remembered star
\* is one (glob_match, in every turn of its loop).
THEOREM GlobIndicesInBounds == GlobSpec => []GlobTypeOK
<1>1. GlobTypeInv => GlobTypeOK
  BY DEF GlobTypeInv
<1> QED BY <1>1, GlobTypes, PTL

\* Whatever glob_match reports is the meaning of the pattern, for every
\* pattern and every name; only in a name that contains * may a match be
\* missed.
THEOREM GlobMeansWhatItSays == GlobSpec => []ResultIsMeaning
<1>1. GlobTypeInv /\ GlobInv /\ [GlobNext]_globVars => GlobInv'
  <2> SUFFICES ASSUME GlobTypeInv, GlobInv, [GlobNext]_globVars PROVE GlobInv'
    OBVIOUS
  <2>1. name' = name
    BY DEF GlobNext, Consume, MeetStar, Backtrack, Fail, Finish, globVars
  <2>2. NothingInvented'
    BY NextInventsNothing DEF GlobInv
  <2>3. Star \notin ToSet(name) => NothingLost'
    BY NextLosesNothing DEF GlobInv
  <2> QED BY <2>1, <2>2, <2>3 DEF GlobInv
<1>2. GlobInv => ResultIsMeaning
  <2> SUFFICES ASSUME GlobInv PROVE ResultIsMeaning
    OBVIOUS
  <2>1. MatchesWhole(pattern, name) <=> Fits(1, 1)
    BY DEF MatchesWhole, Fits
  <2> QED BY <2>1 DEF GlobInv, NothingInvented, NothingLost, ResultIsMeaning
<1>3. GlobSpec => []GlobInv
  BY <1>1, GlobTypes, InitMeans, PTL DEF GlobSpec
<1> QED BY <1>2, <1>3, PTL

\* How many turns the loop can still take at most: the last star can move
\* on in the pattern or take a further character only so often, and between
\* two such turns every turn consumes a character.
StarRoom == (Len(pattern) + 1 - starPi) + (Len(name) + 1 - starNi)
TurnsLeft == StarRoom * (Len(name) + 1) + (Len(name) + 1 - ni)

LEMMA RoomIsLess ==
    ASSUME NEW l \in Nat, NEW r \in Nat, NEW s \in Nat, NEW k \in 0 .. l, NEW j \in 0 .. l,
           s < r \/ (s = r /\ j < k)
    PROVE  s * (l + 1) + j < r * (l + 1) + k
<1>1. CASE s = r /\ j < k
  <2> DEFINE q == r * (l + 1)
  <2>1. q \in Nat
    OBVIOUS
  <2> HIDE DEF q
  <2>2. q + j < q + k
    BY <1>1, <2>1
  <2> QED BY <1>1, <2>2 DEF q
<1>2. CASE s < r
  <2> DEFINE d == r - s - 1
             q == s * (l + 1)
             e == d * (l + 1)
  <2>1. d \in Nat /\ r = s + 1 + d
    BY <1>2
  <2> HIDE DEF d
  <2>2. r * (l + 1) = q + (l + 1) + e /\ q \in Nat /\ e \in Nat
    BY <2>1
  <2> HIDE DEF q, e
  <2>3. q + j < q + (l + 1) + e + k
    BY <2>2
  <2> QED BY <2>2, <2>3 DEF q
<1> QED BY <1>1, <1>2

LEMMA TurnNumbers ==
    ASSUME NEW l \in Nat, NEW m \in Nat, NEW n \in 1 .. l + 1, NEW sn \in 1 .. n,
           NEW p \in 1 .. m + 1, NEW sp \in 0 .. p - 1
    PROVE  /\ l + 1 - n \in 0 .. l
           /\ sn \in 1 .. l + 1 /\ sp \in 0 .. m
           /\ (m + 1 - sp) + (l + 1 - sn) \in Nat
OBVIOUS

LEMMA TurnIsTaken ==
    ASSUME GlobTypeInv, GlobTypeInv', [GlobNext]_globVars, globVars' # globVars,
           result' = "running"
    PROVE  TurnsLeft' < TurnsLeft
<1> DEFINE l == Len(name)
           m == Len(pattern)
           k == l + 1 - ni
<1>1. l \in Nat /\ m \in Nat /\ UNCHANGED <<name, pattern>>
  BY InputsAreSequences, LenProperties DEF GlobNext, Consume, MeetStar, Backtrack, Fail, Finish
<1>2. /\ ni \in 1 .. l + 1 /\ starNi \in 1 .. ni /\ pi \in 1 .. m + 1 /\ starPi \in 0 .. pi - 1
  BY DEF GlobTypeInv, GlobTypeOK
<1>3. /\ ni' \in 1 .. l + 1 /\ starNi' \in 1 .. ni' /\ pi' \in 1 .. m + 1
      /\ starPi' \in 0 .. pi' - 1
  BY <1>1 DEF GlobTypeInv, GlobTypeOK
<1>4. /\ StarRoom = (m + 1 - starPi) + (l + 1 - starNi)
      /\ StarRoom' = (m + 1 - starPi') + (l + 1 - starNi')
      /\ k' = l + 1 - ni'
  BY <1>1 DEF StarRoom
<1>5. TurnsLeft = StarRoom * (l + 1) + k /\ TurnsLeft' = StarRoom' * (l + 1) + k'
  BY <1>1 DEF TurnsLeft
<1>6. k = l + 1 - ni
  OBVIOUS
<1> HIDE DEF l, m, k
<1>7. /\ StarRoom \in Nat /\ k \in 0 .. l /\ starNi \in 1 .. l + 1 /\ starPi \in 0 .. m
  BY <1>1, <1>2, <1>4, <1>6, TurnNumbers
<1>8. /\ StarRoom' \in Nat /\ k' \in 0 .. l /\ starNi' \in 1 .. l + 1 /\ starPi' \in 0 .. m
  BY <1>1, <1>3, <1>4, TurnNumbers
<1>9. StarRoom' < StarRoom \/ (StarRoom' = StarRoom /\ k' < k)
  <2>1. CASE Consume
    <3>1. starPi' = starPi /\ starNi' = starNi /\ ni' = ni + 1
      BY <2>1 DEF Consume
    <3> QED BY <1>1, <1>2, <1>4, <1>6, <1>7, <3>1
  <2>2. CASE MeetStar
    <3>1. starPi' = pi /\ starNi' = ni
      BY <2>2 DEF MeetStar
    <3>2. starPi < starPi' /\ starNi <= starNi'
      BY <1>2, <1>7, <1>8, <3>1
    <3>3. /\ starPi \in Nat /\ starPi' \in Nat /\ starNi \in Nat /\ starNi' \in Nat
      BY <1>1, <1>7, <1>8
    <3>4. ASSUME NEW sp \in Nat, NEW sn \in Nat, NEW tp \in Nat, NEW tn \in Nat, sp < tp, sn <= tn
          PROVE  (m + 1 - tp) + (l + 1 - tn) < (m + 1 - sp) + (l + 1 - sn)
      BY <1>1, <3>4
    <3>5. (m + 1 - starPi') + (l + 1 - starNi') < (m + 1 - starPi) + (l + 1 - starNi)
      BY <3>2, <3>3, <3>4
    <3> QED BY <1>4, <3>5
  <2>3. CASE Backtrack
    <3>1. starPi' = starPi /\ starNi' = starNi + 1
      BY <2>3 DEF Backtrack
    <3> QED BY <1>1, <1>4, <1>7, <3>1
  <2>4. CASE Fail \/ Finish
    BY <2>4 DEF Fail, Finish
  <2> QED BY <2>1, <2>2, <2>3, <2>4 DEF GlobNext
<1> QED BY <1>1, <1>5, <1>7, <1>8, <1>9, RoomIsLess

\* However the pattern sends the loop back, a natural number bounds the
\* turns it can still take, from (|p| + |n| + 1) * (|n| + 1) + |n| on for a
\* pattern p and a name n, and each turn that does not end it makes this
\* number smaller (glob_match).
THEOREM TurnsAreBounded ==
    GlobSpec => /\ [](TurnsLeft \in Nat)
                /\ [][result' = "running" => TurnsLeft' < TurnsLeft]_globVars
<1>1. GlobTypeInv => TurnsLeft \in Nat
  <2> SUFFICES ASSUME GlobTypeInv PROVE TurnsLeft \in Nat
    OBVIOUS
  <2>1. Len(name) \in Nat /\ Len(pattern) \in Nat
    BY InputsAreSequences, LenProperties
  <2>2. /\ ni \in 1 .. Len(name) + 1 /\ starNi \in 1 .. ni
        /\ pi \in 1 .. Len(pattern) + 1 /\ starPi \in 0 .. pi - 1
    BY DEF GlobTypeInv, GlobTypeOK
  <2>3. Len(name) + 1 - ni \in Nat /\ StarRoom \in Nat
    BY <2>1, <2>2, TurnNumbers DEF StarRoom
  <2>4. StarRoom * (Len(name) + 1) \in Nat
    BY <2>1, <2>3
  <2> QED BY <2>2, <2>4 DEF TurnsLeft
<1>2. /\ GlobTypeInv /\ GlobTypeInv' /\ [GlobNext]_globVars
      => [result' = "running" => TurnsLeft' < TurnsLeft]_globVars
  BY TurnIsTaken
<1> QED BY <1>1, <1>2, GlobTypes, PTL DEF GlobSpec
=============================================================================
