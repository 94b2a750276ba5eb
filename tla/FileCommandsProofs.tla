------------------------ MODULE FileCommandsProofs ------------------------
(***************************************************************************)
(* Proofs about FileCommands, for every set of files and contents, every   *)
(* buffer size and any number of operands, and about PathResolve, for      *)
(* every buffer size and every text of a command line.                     *)
(*                                                                         *)
(* The inductive invariant of FileCommands adds to the type,               *)
(* NoDescriptorLeft and CopyInOrder what each system call finds: above all *)
(* that a copy never reads the file it writes.  That of PathResolve says   *)
(* which working directories fit the buffer; what a path means follows     *)
(* from each directory alone, component by component.                      *)
(***************************************************************************)
EXTENDS FileCommands, PathResolve, SequenceLemmas, SequenceTheorems, FiniteSetTheorems, TLAPS

\* What holds at the system call the shell is at.
AtEachCall ==
    /\ pc \in {"rename", "opensrc", "create"} => pos = 0 /\ buf = <<>>
    /\ pc = "create" => open = {"src"} /\ Exists(src)
    /\ pc \in {"read", "write", "close", "unlink"} => dst # src
    /\ pc \in {"read", "write"} => fs[dst] \in Seq(Units)
    /\ pc = "read" => buf = <<>>
    /\ pc = "close" /\ ok => fs[dst] = fs[src]
    /\ pc = "unlink" => fs[dst] = fs[src]

IInv == TypeOK /\ NoDescriptorLeft /\ CopyInOrder /\ AtEachCall

-----------------------------------------------------------------------------
(* The inductive invariant                                                 *)

LEMMA InitInv == Init => IInv
<1> SUFFICES ASSUME Init PROVE IInv
  OBVIOUS
<1>1. TypeOK
  <2>1. fs \in [Files -> Seq(Units) \cup {Absent, Folder}]
    BY ContentsAssumption DEF Init
  <2>2. buf \in Seq(Units) /\ Len(buf) = 0 /\ todo \in Seq(Operand)
    BY EmptySeq DEF Init
  <2> QED BY <2>1, <2>2, BufSizeAssumption DEF Init, TypeOK
<1> QED BY <1>1 DEF Init, IInv, NoDescriptorLeft, CopyInOrder, AtEachCall

LEMMA StartInv ==
    ASSUME IInv, NEW o \in {"cp", "mv"}, NEW s \in Files, NEW d \in Files, Start(o, s, d)
    PROVE  IInv'
<1>1. buf' \in Seq(Units) /\ Len(buf') <= BufSize
  BY EmptySeq, BufSizeAssumption DEF Start
<1>2. pc = "prompt" /\ pc' \in {"rename", "opensrc"} /\ UNCHANGED <<fs, todo, open>>
  BY DEF Start
<1>3. TypeOK'
  BY <1>1, <1>2 DEF IInv, TypeOK, Start
<1>4. NoDescriptorLeft' /\ CopyInOrder' /\ AtEachCall'
  BY <1>2 DEF IInv, NoDescriptorLeft, CopyInOrder, AtEachCall, Start
<1> QED BY <1>3, <1>4 DEF IInv

LEMMA RenameInv ==
    ASSUME IInv, Rename
    PROVE  IInv'
<1>1. fs' \in [Files -> Seq(Units) \cup {Absent, Folder}]
  BY DEF IInv, TypeOK, Rename, Renamed
<1> QED BY <1>1 DEF IInv, TypeOK, NoDescriptorLeft, CopyInOrder, AtEachCall, Rename

LEMMA OpenSrcInv ==
    ASSUME IInv, OpenSrc
    PROVE  IInv'
BY DEF IInv, TypeOK, NoDescriptorLeft, CopyInOrder, AtEachCall, OpenSrc, Exists

\* The source exists, so a destination that create makes is another file.
LEMMA CreateInv ==
    ASSUME IInv, Create
    PROVE  IInv'
<1>1. CASE /\ ~Exists(dst)
           /\ fs' = [fs EXCEPT ![dst] = <<>>]
           /\ open' = open \cup {"dst"}
           /\ pc' = "read"
  <2>1. /\ pc = "create" /\ open = {"src"} /\ Exists(src) /\ pos = 0 /\ buf = <<>>
        /\ fs \in [Files -> Seq(Units) \cup {Absent, Folder}]
        /\ src \in Files /\ dst \in Files
        /\ UNCHANGED <<op, todo, src, dst, pos, buf, ok>>
    BY DEF IInv, TypeOK, AtEachCall, Create
  <2>2. dst # src
    BY <1>1, <2>1 DEF Exists
  <2>3. <<>> \in Seq(Units) /\ <<>> \o <<>> = <<>>
    BY EmptySeq, ConcatEmptySeq
  <2>4. /\ fs' \in [Files -> Seq(Units) \cup {Absent, Folder}]
        /\ fs'[dst] = <<>>
        /\ fs'[src] = fs[src]
    BY <1>1, <2>1, <2>2, <2>3
  <2>5. TypeOK'
    <3>1. IsFile(src)' => pos' <= Len(fs'[src'])
      BY <2>1, <2>4, LenProperties DEF IsFile
    <3> QED BY <1>1, <2>1, <2>4, <3>1 DEF IInv, TypeOK
  <2>6. NoDescriptorLeft'
    BY <1>1, <2>1 DEF NoDescriptorLeft
  <2>7. CopyInOrder'
    <3>1. fs'[dst'] \o buf' = <<>>
      BY <2>1, <2>3, <2>4
    <3>2. SubSeq(fs'[src'], 1, pos') = <<>>
      BY <2>1, SubSeqEmpty
    <3> QED BY <3>1, <3>2 DEF CopyInOrder
  <2>8. AtEachCall'
    BY <1>1, <2>1, <2>2, <2>3, <2>4 DEF AtEachCall
  <2> QED BY <2>5, <2>6, <2>7, <2>8 DEF IInv
<1>2. CASE pc' = "prompt" /\ open' = open \ {"src"} /\ UNCHANGED fs
  BY <1>2 DEF IInv, TypeOK, NoDescriptorLeft, CopyInOrder, AtEachCall, Create
<1> QED BY <1>1, <1>2 DEF Create

\* A read appends what it got to what has been read, and at the end of the
\* source the destination is complete.
LEMMA ReadInv ==
    ASSUME IInv, Read
    PROVE  IInv'
<1>1. /\ pc = "read" /\ buf = <<>> /\ dst # src
      /\ fs[dst] \in Seq(Units) /\ pos \in Nat
      /\ src \in Files /\ dst \in Files
      /\ open = {"src", "dst"}
      /\ UNCHANGED <<fs, op, todo, src, dst, open>>
  BY DEF IInv, TypeOK, NoDescriptorLeft, AtEachCall, Read
<1>2. fs[dst] \o <<>> = fs[dst]
  BY <1>1, ConcatEmptySeq
<1>3. IsFile(src) => fs[src] \in Seq(Units) /\ Len(fs[src]) \in Nat
  BY <1>1, LenProperties DEF IInv, TypeOK, IsFile
<1>4. IsFile(src) => fs[dst] = SubSeq(fs[src], 1, pos)
  BY <1>1, <1>2 DEF IInv, CopyInOrder
<1>5. ASSUME NEW n \in 1 .. BufSize,
             IsFile(src), pos + n <= Len(fs[src]),
             buf' = SubSeq(fs[src], pos + 1, pos + n),
             pos' = pos + n, pc' = "write", ok' = ok
      PROVE  IInv'
  <2>1. n \in Nat /\ n <= BufSize /\ n >= 1
    BY BufSizeAssumption
  <2>2. buf' \in Seq(Units) /\ Len(buf') = n
    <3>1. \A i \in pos + 1 .. pos + n : fs[src][i] \in Units
      BY <1>1, <1>3, <1>5, <2>1, ElementOfSeq
    <3>2. /\ SubSeq(fs[src], pos + 1, pos + n) \in Seq(Units)
          /\ Len(SubSeq(fs[src], pos + 1, pos + n)) =
               IF pos + 1 <= pos + n THEN (pos + n) - (pos + 1) + 1 ELSE 0
      BY <1>1, <2>1, <3>1, SubSeqProperties
    <3> QED BY <1>1, <1>5, <2>1, <3>2
  <2>3. SubSeq(fs[src], 1, pos) \o SubSeq(fs[src], pos + 1, pos + n)
          = SubSeq(fs[src], 1, pos + n)
    <3>1. /\ 1 \in 1 .. Len(fs[src]) + 1
          /\ pos \in 1 - 1 .. Len(fs[src])
          /\ pos + n \in pos .. Len(fs[src])
      BY <1>1, <1>3, <1>5, <2>1
    <3> QED BY <1>3, <1>5, <3>1, ConcatAdjacentSubSeq
  <2>4. TypeOK'
    BY <1>1, <1>5, <2>1, <2>2, BufSizeAssumption DEF IInv, TypeOK, IsFile
  <2>5. CopyInOrder'
    BY <1>1, <1>4, <1>5, <2>3 DEF CopyInOrder, IsFile
  <2>6. NoDescriptorLeft' /\ AtEachCall'
    BY <1>1, <1>5 DEF NoDescriptorLeft, AtEachCall
  <2> QED BY <2>4, <2>5, <2>6 DEF IInv
<1>6. CASE /\ IsFile(src) /\ pos = Len(fs[src])
           /\ ok' = TRUE /\ pc' = "close"
           /\ UNCHANGED <<pos, buf>>
  <2>1. fs[dst] = fs[src]
    BY <1>3, <1>4, <1>6, SubSeqFull
  <2>2. TypeOK' /\ CopyInOrder' /\ NoDescriptorLeft'
    BY <1>1, <1>6 DEF IInv, TypeOK, CopyInOrder, NoDescriptorLeft
  <2>3. AtEachCall'
    BY <1>1, <1>6, <2>1 DEF AtEachCall
  <2> QED BY <2>2, <2>3 DEF IInv
<1>7. CASE ok' = FALSE /\ pc' = "close" /\ UNCHANGED <<pos, buf>>
  BY <1>1, <1>7 DEF IInv, TypeOK, CopyInOrder, NoDescriptorLeft, AtEachCall
<1> QED BY <1>5, <1>6, <1>7 DEF Read

\* A write moves a beginning of the buffer to the end of the destination.
LEMMA WriteInv ==
    ASSUME IInv, Write
    PROVE  IInv'
<1>1. /\ pc = "write" /\ dst # src
      /\ fs \in [Files -> Seq(Units) \cup {Absent, Folder}]
      /\ fs[dst] \in Seq(Units) /\ buf \in Seq(Units) /\ Len(buf) <= BufSize
      /\ src \in Files /\ dst \in Files
      /\ open = {"src", "dst"}
      /\ UNCHANGED <<op, todo, src, dst, pos, open>>
  BY DEF IInv, TypeOK, NoDescriptorLeft, AtEachCall, Write
<1>2. ASSUME NEW w \in 1 .. Len(buf),
             fs' = [fs EXCEPT ![dst] = @ \o SubSeq(buf, 1, w)],
             buf' = SubSeq(buf, w + 1, Len(buf)),
             pc' = IF w = Len(buf) THEN "read" ELSE "write",
             ok' = ok
      PROVE  IInv'
  <2> DEFINE taken == SubSeq(buf, 1, w)
             left == SubSeq(buf, w + 1, Len(buf))
  <2>1. Len(buf) \in Nat /\ w \in 0 .. Len(buf)
    BY <1>1, LenProperties
  <2>2. /\ taken \in Seq(Units) /\ left \in Seq(Units)
        /\ Len(left) = Len(buf) - w
        /\ taken \o left = buf
    BY <1>1, <2>1, CutInTwo
  <2>6. w = Len(buf) => left = <<>>
    BY <2>1, SubSeqEmpty
  <2>7. buf' = left /\ fs' = [fs EXCEPT ![dst] = @ \o taken]
    BY <1>2
  <2> HIDE DEF taken, left
  <2>3. fs[dst] \o taken \in Seq(Units)
    BY <1>1, <2>2, ConcatProperties
  <2>4. (fs[dst] \o taken) \o left = fs[dst] \o buf
    <3>1. \A s, t, u \in Seq(Units) : (s \o t) \o u = s \o (t \o u)
      BY ConcatAssociative, SMTT(30)
    <3>2. fs[dst] \in Seq(Units) /\ taken \in Seq(Units) /\ left \in Seq(Units)
      BY <1>1, <2>2
    <3>3. (fs[dst] \o taken) \o left = fs[dst] \o (taken \o left)
      BY <3>1, <3>2, Zenon
    <3> QED BY <2>2, <3>3
  <2>5. /\ fs' \in [Files -> Seq(Units) \cup {Absent, Folder}]
        /\ fs'[dst] = fs[dst] \o taken
        /\ fs'[src] = fs[src]
    BY <1>1, <2>3, <2>7
  <2>8. TypeOK'
    <3>1. Len(left) <= BufSize
      BY <1>1, <1>2, <2>1, <2>2, BufSizeAssumption
    <3>2. pc' \in {"read", "write"}
      BY <1>2
    <3> QED BY <1>1, <1>2, <2>2, <2>5, <2>7, <3>1, <3>2 DEF IInv, TypeOK, IsFile
  <2>9. CopyInOrder'
    BY <1>1, <2>4, <2>5, <2>7 DEF IInv, CopyInOrder, IsFile
  <2>10. NoDescriptorLeft' /\ AtEachCall'
    BY <1>1, <1>2, <2>3, <2>5, <2>6, <2>7 DEF NoDescriptorLeft, AtEachCall
  <2> QED BY <2>8, <2>9, <2>10 DEF IInv
<1>3. CASE ok' = FALSE /\ pc' = "close" /\ UNCHANGED <<fs, buf>>
  BY <1>1, <1>3 DEF IInv, TypeOK, CopyInOrder, NoDescriptorLeft, AtEachCall
<1> QED BY <1>2, <1>3 DEF Write

LEMMA CloseBothInv ==
    ASSUME IInv, CloseBoth
    PROVE  IInv'
BY DEF IInv, TypeOK, NoDescriptorLeft, CopyInOrder, AtEachCall, CloseBoth

LEMMA UnlinkInv ==
    ASSUME IInv, Unlink
    PROVE  IInv'
<1>1. fs' \in [Files -> Seq(Units) \cup {Absent, Folder}]
  BY DEF IInv, TypeOK, Unlink
<1> QED BY <1>1 DEF IInv, TypeOK, NoDescriptorLeft, CopyInOrder, AtEachCall, Unlink

\* Taking an operand off a loop.
LEMMA NextOperand ==
    ASSUME TypeOK, todo # <<>>
    PROVE  /\ Tail(todo) \in Seq(Operand)
           /\ Head(todo) # TooLong => Head(todo) \in Files
BY HeadTailProperties DEF TypeOK, Operand

LEMMA LoopInv ==
    ASSUME IInv, Loop
    PROVE  IInv'
<1> USE DEF IInv, TypeOK, NoDescriptorLeft, CopyInOrder, AtEachCall
<1>1. CASE SkipTooLong
  BY <1>1, NextOperand DEF SkipTooLong
<1>2. CASE EndLoop
  BY <1>2 DEF EndLoop
<1>3. CASE RemoveFile
  BY <1>3, NextOperand DEF RemoveFile, At
<1>4. CASE MakeDir
  BY <1>4, NextOperand DEF MakeDir, At
<1>5. CASE Touch
  <2>1. /\ todo' \in Seq(Operand) /\ Head(todo) \in Files
        /\ pc = "next" /\ open = {}
        /\ UNCHANGED <<op, src, dst, pos, buf, ok>>
    BY <1>5, NextOperand DEF Touch, At
  <2>2. CASE /\ fs' = [fs EXCEPT ![Head(todo)] = <<>>]
             /\ open' = {"dst"}
             /\ pc' = "touched"
    <3>1. <<>> \in Seq(Units)
      BY EmptySeq
    <3>2. fs' \in [Files -> Seq(Units) \cup {Absent, Folder}]
      BY <2>1, <2>2, <3>1
    <3> QED BY <2>1, <2>2, <3>2
  <2>3. CASE UNCHANGED <<fs, open, pc>>
    BY <2>1, <2>3
  <2> QED BY <1>5, <2>2, <2>3 DEF Touch
<1>6. CASE CatOpen
  BY <1>6, NextOperand DEF CatOpen, At
<1>7. CASE CatRead
  BY <1>7, BufSizeAssumption DEF CatRead
<1>8. CASE CloseOne
  BY <1>8 DEF CloseOne
<1> QED BY <1>1, <1>2, <1>3, <1>4, <1>5, <1>6, <1>7, <1>8 DEF Loop

LEMMA StartLoopInv ==
    ASSUME IInv, NEW o \in Loops, NEW operands \in BoundedSeq(Operand, MaxOperands),
           StartLoop(o, operands)
    PROVE  IInv'
<1>1. operands \in Seq(Operand)
  BY OperandsAssumption DEF BoundedSeq, SeqOf
<1>2. buf' \in Seq(Units) /\ Len(buf') <= BufSize
  BY EmptySeq, BufSizeAssumption DEF StartLoop
<1>3. pc = "prompt" /\ pc' = "next" /\ UNCHANGED <<fs, src, dst, open>>
  BY DEF StartLoop
<1>4. TypeOK'
  BY <1>1, <1>2, <1>3 DEF IInv, TypeOK, StartLoop
<1>5. NoDescriptorLeft' /\ CopyInOrder' /\ AtEachCall'
  BY <1>3 DEF IInv, NoDescriptorLeft, CopyInOrder, AtEachCall
<1> QED BY <1>4, <1>5 DEF IInv

LEMMA NextInv == IInv /\ [Next]_vars => IInv'
<1> SUFFICES ASSUME IInv, [Next]_vars PROVE IInv'
  OBVIOUS
<1>1. CASE User
  BY <1>1, StartInv, StartLoopInv DEF User
<1>2. CASE CopyOrMove
  BY <1>2, RenameInv, OpenSrcInv, CreateInv, ReadInv, WriteInv, CloseBothInv, UnlinkInv
     DEF CopyOrMove
<1>3. CASE Loop
  BY <1>3, LoopInv
<1>4. CASE UNCHANGED vars
  BY <1>4 DEF vars, IInv, TypeOK, NoDescriptorLeft, CopyInOrder, AtEachCall, Exists, IsFile
<1> QED BY <1>1, <1>2, <1>3, <1>4 DEF Next

-----------------------------------------------------------------------------
(* Theorems                                                                *)

\* The type of every variable; the copy never reads past the end of its
\* source and never holds more than its buffer (commands/file/copy.rs).
THEOREM TypeCorrect == Spec => []TypeOK
<1>1. IInv => TypeOK
  BY DEF IInv
<1> QED BY InitInv, NextInv, <1>1, PTL DEF Spec

\* Whatever short reads and short writes occur, destination and buffer are
\* together the part of the source read so far (the copy loop of cmd_cp).
THEOREM CopiesInOrder == Spec => []CopyInOrder
<1>1. IInv => CopyInOrder
  BY DEF IInv
<1> QED BY InitInv, NextInv, <1>1, PTL DEF Spec

\* No path through cp, mv, cat or touch keeps a descriptor open.
THEOREM DescriptorsClosed == Spec => []NoDescriptorLeft
<1>1. IInv => NoDescriptorLeft
  BY DEF IInv
<1> QED BY InitInv, NextInv, <1>1, PTL DEF Spec

\* No command loses a file: what mv removes, its destination holds.
THEOREM FilesAreKept == Spec => NothingLost
<1> DEFINE Kept ==
        \A f \in Files : Exists(f) /\ fs'[f] # fs[f] =>
          \/ pc = "rename" /\ f \in {src, dst}
          \/ pc = "write" /\ f = dst
          \/ pc = "next" /\ op = "rm" /\ f = Head(todo)
          \/ pc = "unlink" /\ f = src /\ dst # src /\ fs[dst] = fs[src]
<1>1. IInv /\ [Next]_vars => [Kept]_vars
  <2> SUFFICES ASSUME IInv, Next PROVE Kept
    OBVIOUS
  <2> USE DEF IInv, TypeOK, Exists
  <2>1. CASE User
    BY <2>1 DEF User, Start, StartLoop
  <2>2. CASE Rename
    BY <2>2 DEF Rename, Renamed
  <2>3. CASE Create
    BY <2>3 DEF Create
  <2>4. CASE Write
    BY <2>4 DEF Write
  <2>5. CASE Unlink
    BY <2>5 DEF Unlink, AtEachCall
  <2>6. CASE OpenSrc \/ Read \/ CloseBoth
    BY <2>6 DEF OpenSrc, Read, CloseBoth
  <2>7. CASE RemoveFile
    BY <2>7 DEF RemoveFile, At
  <2>8. CASE MakeDir
    BY <2>8 DEF MakeDir, At
  <2>9. CASE Touch
    BY <2>9 DEF Touch, At
  <2>10. CASE SkipTooLong \/ EndLoop \/ CatOpen \/ CatRead \/ CloseOne
    BY <2>10 DEF SkipTooLong, EndLoop, CatOpen, CatRead, CloseOne
  <2> QED BY <2>1, <2>2, <2>3, <2>4, <2>5, <2>6, <2>7, <2>8, <2>9, <2>10
          DEF Next, CopyOrMove, Loop
<1> QED BY InitInv, NextInv, <1>1, PTL DEF Spec, NothingLost

-----------------------------------------------------------------------------
(* Lengths                                                                 *)

LEMMA BytesType == \A c \in Component : Bytes(c) \in Nat
BY NameLenAssumption DEF Component, Bytes

LEMMA NameBytes == \A c \in Names : c \in Component /\ Bytes(c) = NameLen[c] /\ NameLen[c] \in Nat \ {0}
BY NameLenAssumption DEF Component, Bytes

\* f sums the lengths of the first m components.
Sums(comps, m, f) ==
    /\ f \in [0 .. m -> Nat]
    /\ f[0] = 0
    /\ \A i \in 1 .. m : f[i] = f[i - 1] + 1 + Bytes(comps[i])

LEMMA RowLenIs ==
    ASSUME NEW comps \in Seq(Component)
    PROVE  \E f : Sums(comps, Len(comps), f) /\ RowLen(comps) = f[Len(comps)]
<1> DEFINE n == Len(comps)
<1>0. n \in Nat /\ \A i \in 1 .. n : comps[i] \in Component /\ Bytes(comps[i]) \in Nat
  BY BytesType
<1> HIDE DEF n
<1> DEFINE step == [x \in (1 .. n) \X Nat |-> x[2] + 1 + Bytes(comps[x[1]])]
<1>1. step \in [(1 .. n) \X Nat -> Nat]
  <2>1. ASSUME NEW x \in (1 .. n) \X Nat PROVE x[2] + 1 + Bytes(comps[x[1]]) \in Nat
    <3>1. x[1] \in 1 .. n /\ x[2] \in Nat
      OBVIOUS
    <3> QED BY <1>0, <3>1
  <2> QED BY <2>1
<1>2. PICK f : Recurs(Nat, 0, step, n, f)
  <2> HIDE DEF step
  <2> QED BY <1>0, <1>1, RecursionExists
<1>3. /\ f \in [0 .. n -> Nat]
      /\ f[0] = 0
      /\ \A i \in 1 .. n : f[i] = f[i - 1] + 1 + Bytes(comps[i])
  <2>1. f \in [0 .. n -> Nat] /\ f[0] = 0
    BY <1>2 DEF Recurs
  <2>2. ASSUME NEW i \in 1 .. n PROVE f[i] = f[i - 1] + 1 + Bytes(comps[i])
    <3>1. f[i] = step[<<i, f[i - 1]>>]
      BY <1>2 DEF Recurs
    <3>2. <<i, f[i - 1]>> \in (1 .. n) \X Nat
      BY <1>0, <2>1
    <3> QED BY <3>1, <3>2
  <2> QED BY <2>1, <2>2
<1> DEFINE Q(g) == g = [i \in 0 .. n |-> IF i = 0 THEN 0 ELSE g[i - 1] + 1 + Bytes(comps[i])]
<1>4. Q(f)
  <2>1. \A i \in 0 .. n : f[i] = IF i = 0 THEN 0 ELSE f[i - 1] + 1 + Bytes(comps[i])
    BY <1>0, <1>3
  <2> QED BY <1>3, <2>1
<1> DEFINE g == CHOOSE g : Q(g)
<1>5. Q(g)
  <2> HIDE DEF Q
  <2> QED BY <1>4
<1>6. RowLen(comps) = g[n]
  BY DEF RowLen, n
<1> HIDE DEF g
<1>7. \A i \in 0 .. n : f[i] = g[i]
  <2> DEFINE T == { i \in 0 .. n : f[i] = g[i] }
  <2>1. 0 \in T
    BY <1>0, <1>3, <1>5
  <2>2. ASSUME NEW m \in 0 .. n - 1, m \in T PROVE m + 1 \in T
    <3>1. m + 1 \in 1 .. n /\ m + 1 \in 0 .. n /\ (m + 1) - 1 = m /\ m + 1 # 0
      BY <1>0
    <3>2. f[m + 1] = f[(m + 1) - 1] + 1 + Bytes(comps[m + 1])
      BY <1>3, <3>1
    <3>3. g[m + 1] = g[(m + 1) - 1] + 1 + Bytes(comps[m + 1])
      BY <1>5, <3>1
    <3> QED BY <2>2, <3>1, <3>2, <3>3
  <2> HIDE DEF T
  <2>3. \A m \in 0 .. n : m \in T
    BY <1>0, <2>1, <2>2, Counted
  <2> QED BY <2>3 DEF T
<1> QED BY <1>0, <1>3, <1>6, <1>7 DEF Sums, n

\* Rows that begin alike have alike sums.
LEMMA SumsAgree ==
    ASSUME NEW s \in Seq(Component), NEW t \in Seq(Component), NEW n \in Nat, NEW f, NEW g,
           Sums(s, n, f), Sums(t, n, g), \A i \in 1 .. n : s[i] = t[i]
    PROVE  f[n] = g[n]
<1> DEFINE T == { i \in 0 .. n : f[i] = g[i] }
<1>1. 0 \in T
  BY DEF Sums
<1>2. ASSUME NEW m \in 0 .. n - 1, m \in T PROVE m + 1 \in T
  <2>1. m + 1 \in 1 .. n /\ m + 1 \in 0 .. n /\ (m + 1) - 1 = m
    OBVIOUS
  <2>2. f[m + 1] = f[(m + 1) - 1] + 1 + Bytes(s[m + 1]) /\ g[m + 1] = g[(m + 1) - 1] + 1 + Bytes(t[m + 1])
    BY <2>1 DEF Sums
  <2> QED BY <1>2, <2>1, <2>2
<1> HIDE DEF T
<1>3. \A m \in 0 .. n : m \in T
  BY <1>1, <1>2, Counted
<1> QED BY <1>3 DEF T

\* The sum of a row that another row continues.
LEMMA SumsOfPart ==
    ASSUME NEW s \in Seq(Component), NEW t \in Seq(Component), NEW n \in Nat, n >= Len(s), NEW f,
           Sums(t, n, f), \A i \in 1 .. Len(s) : s[i] = t[i]
    PROVE  f[Len(s)] = RowLen(s)
<1>1. PICK g : Sums(s, Len(s), g) /\ RowLen(s) = g[Len(s)]
  BY RowLenIs
<1> DEFINE h == [i \in 0 .. Len(s) |-> f[i]]
<1>2. Sums(t, Len(s), h)
  <2>1. h \in [0 .. Len(s) -> Nat] /\ h[0] = 0
    BY DEF Sums
  <2>2. ASSUME NEW i \in 1 .. Len(s) PROVE h[i] = h[i - 1] + 1 + Bytes(t[i])
    <3>1. i \in 1 .. n /\ i \in 0 .. Len(s) /\ i - 1 \in 0 .. Len(s)
      OBVIOUS
    <3>2. f[i] = f[i - 1] + 1 + Bytes(t[i])
      BY <3>1 DEF Sums
    <3> QED BY <3>1, <3>2
  <2> HIDE DEF h
  <2> QED BY <2>1, <2>2 DEF Sums
<1>3. h[Len(s)] = g[Len(s)]
  <2> HIDE DEF h
  <2> QED BY <1>1, <1>2, SumsAgree
<1> QED BY <1>1, <1>3

LEMMA RowLenType ==
    ASSUME NEW s \in Seq(Component)
    PROVE  /\ RowLen(s) \in Nat
           /\ s = <<>> => RowLen(s) = 0
           /\ s # <<>> => RowLen(s) >= 1
<1>1. PICK f : Sums(s, Len(s), f) /\ RowLen(s) = f[Len(s)]
  BY RowLenIs
<1>2. RowLen(s) \in Nat
  BY <1>1 DEF Sums
<1>3. ASSUME s # <<>> PROVE RowLen(s) >= 1
  <2>1. Len(s) \in 1 .. Len(s) /\ Len(s) - 1 \in 0 .. Len(s) /\ s[Len(s)] \in Component
    BY <1>3
  <2>2. f[Len(s)] = f[Len(s) - 1] + 1 + Bytes(s[Len(s)])
    BY <1>1, <2>1 DEF Sums
  <2>3. f[Len(s) - 1] \in Nat /\ Bytes(s[Len(s)]) \in Nat
    BY <1>1, <2>1, BytesType DEF Sums
  <2> QED BY <1>1, <2>2, <2>3
<1> QED BY <1>1, <1>2, <1>3 DEF Sums

LEMMA RowLenAppend ==
    ASSUME NEW s \in Seq(Component), NEW c \in Component
    PROVE  RowLen(Append(s, c)) = RowLen(s) + 1 + Bytes(c)
<1> DEFINE t == Append(s, c)
<1>1. t \in Seq(Component) /\ Len(t) = Len(s) + 1 /\ t[Len(s) + 1] = c /\ \A i \in 1 .. Len(s) : s[i] = t[i]
  OBVIOUS
<1> HIDE DEF t
<1>2. PICK f : Sums(t, Len(t), f) /\ RowLen(t) = f[Len(t)]
  BY <1>1, RowLenIs
<1>3. f[Len(s)] = RowLen(s)
  BY <1>1, <1>2, SumsOfPart
<1>4. f[Len(s) + 1] = f[(Len(s) + 1) - 1] + 1 + Bytes(t[Len(s) + 1])
  BY <1>1, <1>2 DEF Sums
<1>5. (Len(s) + 1) - 1 = Len(s)
  OBVIOUS
<1> QED BY <1>1, <1>2, <1>3, <1>4, <1>5 DEF t

LEMMA RowLenConcat ==
    ASSUME NEW s \in Seq(Component), NEW t \in Seq(Component)
    PROVE  RowLen(s \o t) = RowLen(s) + RowLen(t)
<1> DEFINE u == s \o t
        k == Len(s)
        n == Len(t)
<1>1. u \in Seq(Component) /\ Len(u) = k + n /\ k \in Nat /\ n \in Nat
      /\ (\A i \in 1 .. k : s[i] = u[i]) /\ (\A i \in 1 .. n : u[k + i] = t[i])
  OBVIOUS
<1> HIDE DEF u
<1>2. PICK f : Sums(u, Len(u), f) /\ RowLen(u) = f[Len(u)]
  BY <1>1, RowLenIs
<1>3. PICK g : Sums(t, n, g) /\ RowLen(t) = g[n]
  BY RowLenIs
<1>4. f[k] = RowLen(s)
  BY <1>1, <1>2, SumsOfPart
<1> HIDE DEF k, n
<1> DEFINE T == { i \in 0 .. n : f[k + i] = f[k] + g[i] }
<1>5. 0 \in T
  BY <1>1, <1>2, <1>3 DEF Sums
<1>6. ASSUME NEW m \in 0 .. n - 1, m \in T PROVE m + 1 \in T
  <2>1. /\ m + 1 \in 1 .. n /\ k + (m + 1) \in 1 .. Len(u) /\ (m + 1) - 1 = m
        /\ (k + (m + 1)) - 1 = k + m /\ m + 1 \in 0 .. n /\ m \in 0 .. n /\ k \in 0 .. Len(u)
    BY <1>1
  <2>2. f[k + (m + 1)] = f[(k + (m + 1)) - 1] + 1 + Bytes(u[k + (m + 1)])
    BY <1>2, <2>1 DEF Sums
  <2>3. g[m + 1] = g[(m + 1) - 1] + 1 + Bytes(t[m + 1])
    BY <1>3, <2>1 DEF Sums
  <2>4. u[k + (m + 1)] = t[m + 1] /\ Bytes(t[m + 1]) \in Nat
    <3>1. t[m + 1] \in Component
      BY <2>1 DEF n
    <3> QED BY <1>1, <2>1, <3>1, BytesType
  <2>5. f[k] \in Nat /\ g[m] \in Nat
    BY <1>2, <1>3, <2>1 DEF Sums
  <2>6. f[k + m] = f[k] + g[m]
    BY <1>6
  <2>7. f[k + (m + 1)] = f[k] + g[m + 1]
    <3>1. f[k + (m + 1)] = (f[k] + g[m]) + 1 + Bytes(t[m + 1])
      BY <2>1, <2>2, <2>4, <2>6
    <3>2. g[m + 1] = g[m] + 1 + Bytes(t[m + 1])
      BY <2>1, <2>3
    <3>3. \A a, b, c \in Nat : (a + b) + 1 + c = a + (b + 1 + c)
      OBVIOUS
    <3> QED BY <2>4, <2>5, <3>1, <3>2, <3>3
  <2> QED BY <2>1, <2>7
<1> HIDE DEF T
<1>7. \A m \in 0 .. n : m \in T
  BY <1>1, <1>5, <1>6, Counted
<1>8. n \in T
  BY <1>1, <1>7
<1> QED BY <1>1, <1>2, <1>3, <1>4, <1>8 DEF T, u

-----------------------------------------------------------------------------
(* normalize, one component at a time                                      *)

LEMMA NamesAreComponents == Seq(Names) \subseteq Seq(Component)
<1>1. Names \subseteq Component
  BY DEF Component
<1> QED BY <1>1

LEMMA PathFields ==
    ASSUME NEW p \in Path
    PROVE  /\ p.names \in Seq(Names) /\ p.names \in Seq(Component) /\ p.slash \in BOOLEAN
           /\ RowLen(p.names) \in Nat
           /\ PathLen(p) \in Nat
           /\ PathLen(p) + (IF p.slash THEN 0 ELSE 1) = RowLen(p.names) + 1
<1>1. p.names \in Seq(Names) /\ p.slash \in BOOLEAN
  BY DEF Path
<1>2. p.names \in Seq(Component)
  BY <1>1, NamesAreComponents
<1>3. RowLen(p.names) \in Nat
  BY <1>2, RowLenType
<1> QED BY <1>1, <1>2, <1>3 DEF PathLen

LEMMA FrontOfNames ==
    ASSUME NEW s \in Seq(Names), s # <<>>
    PROVE  /\ Front(s) \in Seq(Names) /\ Len(Front(s)) = Len(s) - 1
           /\ \A i \in 1 .. Len(s) - 1 : Front(s)[i] = s[i]
           /\ s = Append(Front(s), s[Len(s)]) /\ s[Len(s)] \in Names
<1>1. Len(s) \in Nat /\ Len(s) >= 1 /\ s[Len(s)] \in Names
  BY EmptySeq
<1>2. Front(s) \in Seq(Names) /\ Len(Front(s)) = Len(s) - 1 /\ \A i \in 1 .. Len(s) - 1 : Front(s)[i] = s[i]
  <2>1. Front(s) \in Seq(Names) /\ Len(Front(s)) = Len(s) - 1
    BY <1>1, FrontType
  <2>2. \A i \in 1 .. Len(s) - 1 : SubSeq(s, 1, Len(s) - 1)[i] = s[i]
    OBVIOUS
  <2> QED BY <2>1, <2>2 DEF Front
<1>3. s = Append(Front(s), s[Len(s)])
  <2> DEFINE t == Front(s)
  <2>1. t \in Seq(Names) /\ Len(t) = Len(s) - 1 /\ \A i \in 1 .. Len(s) - 1 : t[i] = s[i]
    BY <1>2
  <2> HIDE DEF t
  <2>2. Append(t, s[Len(s)]) \in Seq(Names) /\ Len(Append(t, s[Len(s)])) = Len(s)
    BY <1>1, <2>1
  <2>3. \A i \in 1 .. Len(s) : Append(t, s[Len(s)])[i] = s[i]
    BY <1>1, <2>1
  <2>4. s = Append(t, s[Len(s)])
    BY <2>2, <2>3, SeqEqual
  <2> QED BY <2>4 DEF t
<1> QED BY <1>1, <1>2, <1>3

\* What one component does, a name only if it fits.
LEMMA Component1Is ==
    ASSUME NEW p \in Path, p # NoPath, NEW c \in Component
    PROVE  /\ Component1(p, c) \in Path
           /\ c \in {Empty, Dot} => Component1(p, c) = p
           /\ c = Parent => Component1(p, c) = Pop(p) /\ Pop(p) # NoPath
           /\ c \in Names =>
                 IF RowLen(p.names) + 1 + NameLen[c] >= PathMax
                 THEN Component1(p, c) = NoPath
                 ELSE /\ Component1(p, c) = [names |-> Append(p.names, c), slash |-> FALSE]
                      /\ Component1(p, c) # NoPath
<1>1. NoPath \in Path
  BY EmptySeq DEF NoPath, Path
<1>2. c \in {Empty, Dot} => Component1(p, c) = p
  BY DEF Component1
<1>3. ASSUME c = Parent PROVE Component1(p, c) = Pop(p) /\ Pop(p) # NoPath /\ Pop(p) \in Path
  <2>1. Component1(p, c) = Pop(p)
    BY <1>3 DEF Component1, Parent, Empty, Dot
  <2>2. CASE p.names = <<>>
    BY <2>1, <2>2 DEF Pop
  <2>3. CASE p.names # <<>>
    <3>1. Front(p.names) \in Seq(Names)
      BY <2>3, FrontOfNames, PathFields
    <3>2. Pop(p) = [names |-> Front(p.names), slash |-> TRUE]
      BY <2>3 DEF Pop
    <3> QED BY <2>1, <3>1, <3>2 DEF NoPath, Path
  <2> QED BY <2>2, <2>3
<1>4. ASSUME c \in Names
      PROVE  IF RowLen(p.names) + 1 + NameLen[c] >= PathMax
             THEN Component1(p, c) = NoPath
             ELSE /\ Component1(p, c) = [names |-> Append(p.names, c), slash |-> FALSE]
                  /\ Component1(p, c) # NoPath
                  /\ Component1(p, c) \in Path
  <2>1. Component1(p, c) = AppendName(p, c)
    BY <1>4, NameLenAssumption DEF Component1
  <2>2. AppendName(p, c) = IF RowLen(p.names) + 1 + NameLen[c] >= PathMax THEN NoPath
                           ELSE [names |-> Append(p.names, c), slash |-> FALSE]
    <3>1. PathLen(p) + (IF p.slash THEN 0 ELSE 1) = RowLen(p.names) + 1
      BY PathFields
    <3> QED BY <3>1 DEF AppendName
  <2>3. Append(p.names, c) \in Seq(Names) /\ Append(p.names, c) # <<>>
    <3>1. p.names \in Seq(Names)
      BY PathFields
    <3>2. Append(p.names, c) \in Seq(Names) /\ Len(Append(p.names, c)) = Len(p.names) + 1
      BY <1>4, <3>1
    <3>3. Len(p.names) + 1 # 0
      BY <3>1
    <3> QED BY <3>2, <3>3, EmptySeq
  <2>4. [names |-> Append(p.names, c), slash |-> FALSE] \in Path
        /\ [names |-> Append(p.names, c), slash |-> FALSE] # NoPath
    BY <2>3 DEF Path, NoPath
  <2> QED BY <2>1, <2>2, <2>4
<1>5. c \in Names \/ c \in {Empty, Dot} \/ c = Parent
  BY DEF Component
<1>6. Component1(p, c) \in Path
  BY <1>1, <1>2, <1>3, <1>4, <1>5
<1> QED BY <1>2, <1>3, <1>4, <1>6

LEMMA Component1Type == \A p \in Path, c \in Component : Component1(p, c) \in Path
<1> SUFFICES ASSUME NEW p \in Path, NEW c \in Component PROVE Component1(p, c) \in Path
  OBVIOUS
<1>1. CASE p = NoPath
  BY <1>1 DEF Component1
<1> QED BY <1>1, Component1Is

\* p follows normalize through the components.
Follows(comps, p) ==
    /\ p \in [0 .. Len(comps) -> Path]
    /\ p[0] = Root
    /\ \A i \in 1 .. Len(comps) : p[i] = Component1(p[i - 1], comps[i])

LEMMA NormalizeIs ==
    ASSUME NEW comps \in Seq(Component)
    PROVE  \E p : Follows(comps, p) /\ Normalize(comps) = p[Len(comps)]
<1> DEFINE n == Len(comps)
<1>0. n \in Nat /\ \A i \in 1 .. n : comps[i] \in Component
  OBVIOUS
<1> HIDE DEF n
<1> DEFINE step == [x \in (1 .. n) \X Path |-> Component1(x[2], comps[x[1]])]
<1>1. step \in [(1 .. n) \X Path -> Path]
  <2>1. ASSUME NEW x \in (1 .. n) \X Path PROVE Component1(x[2], comps[x[1]]) \in Path
    <3>1. x[1] \in 1 .. n /\ x[2] \in Path
      OBVIOUS
    <3> QED BY <1>0, <3>1, Component1Type
  <2> QED BY <2>1
<1>2. PICK f : Recurs(Path, Root, step, n, f)
  <2>1. Root \in Path
    BY EmptySeq DEF Root, Path
  <2> HIDE DEF step
  <2> QED BY <1>0, <1>1, <2>1, RecursionExists
<1>3. /\ f \in [0 .. n -> Path]
      /\ f[0] = Root
      /\ \A i \in 1 .. n : f[i] = Component1(f[i - 1], comps[i])
  <2>1. f \in [0 .. n -> Path] /\ f[0] = Root
    BY <1>2 DEF Recurs
  <2>2. ASSUME NEW i \in 1 .. n PROVE f[i] = Component1(f[i - 1], comps[i])
    <3>1. f[i] = step[<<i, f[i - 1]>>]
      BY <1>2 DEF Recurs
    <3>2. <<i, f[i - 1]>> \in (1 .. n) \X Path
      BY <1>0, <2>1
    <3> QED BY <3>1, <3>2
  <2> QED BY <2>1, <2>2
<1> DEFINE Q(g) == g = [i \in 0 .. n |-> IF i = 0 THEN Root ELSE Component1(g[i - 1], comps[i])]
<1>4. Q(f)
  <2>1. \A i \in 0 .. n : f[i] = IF i = 0 THEN Root ELSE Component1(f[i - 1], comps[i])
    BY <1>0, <1>3
  <2> QED BY <1>3, <2>1
<1> DEFINE g == CHOOSE g : Q(g)
<1>5. Q(g)
  <2> HIDE DEF Q
  <2> QED BY <1>4
<1>6. Normalize(comps) = g[n]
  BY DEF Normalize, n
<1> HIDE DEF g
<1>7. \A i \in 0 .. n : f[i] = g[i]
  <2> DEFINE T == { i \in 0 .. n : f[i] = g[i] }
  <2>1. 0 \in T
    BY <1>0, <1>3, <1>5
  <2>2. ASSUME NEW m \in 0 .. n - 1, m \in T PROVE m + 1 \in T
    <3>1. m + 1 \in 1 .. n /\ m + 1 \in 0 .. n /\ (m + 1) - 1 = m /\ m + 1 # 0
      BY <1>0
    <3>2. f[m + 1] = Component1(f[(m + 1) - 1], comps[m + 1])
      BY <1>3, <3>1
    <3>3. g[m + 1] = Component1(g[(m + 1) - 1], comps[m + 1])
      BY <1>5, <3>1
    <3> QED BY <2>2, <3>1, <3>2, <3>3
  <2> HIDE DEF T
  <2>3. \A m \in 0 .. n : m \in T
    BY <1>0, <2>1, <2>2, Counted
  <2> QED BY <2>3 DEF T
<1> QED BY <1>0, <1>3, <1>6, <1>7 DEF Follows, n

\* The path after some components of which w is the length: no longer than
\* they are, and shorter by two if the last of them was a ".." that left a
\* name.
FitsIn(p, w) ==
    /\ p \in Path /\ p # NoPath
    /\ RowLen(p.names) <= w
    /\ p.names = <<>> => p.slash
    /\ p.slash => p.names = <<>> \/ RowLen(p.names) + 2 <= w

LEMMA StepFits ==
    ASSUME NEW p, NEW w \in Nat, FitsIn(p, w), NEW c \in Component, w + 1 + Bytes(c) < PathMax
    PROVE  FitsIn(Component1(p, c), w + 1 + Bytes(c))
<1>0. Bytes(c) \in Nat /\ p \in Path /\ p # NoPath /\ RowLen(p.names) \in Nat /\ p.names \in Seq(Names)
  BY BytesType, PathFields DEF FitsIn
<1>1. CASE c \in {Empty, Dot}
  <2>1. Component1(p, c) = p
    BY <1>0, <1>1, Component1Is
  <2> QED BY <1>0, <2>1 DEF FitsIn
<1>2. CASE c = Parent
  <2>1. Component1(p, c) = Pop(p) /\ Pop(p) \in Path /\ Pop(p) # NoPath
    BY <1>0, <1>2, Component1Is
  <2>2. CASE p.names = <<>>
    <3>1. Pop(p) = p
      BY <2>2 DEF Pop
    <3> QED BY <1>0, <2>1, <2>2, <3>1 DEF FitsIn
  <2>3. CASE p.names # <<>>
    <3> DEFINE s == p.names
    <3>1. /\ Front(s) \in Seq(Names) /\ s = Append(Front(s), s[Len(s)]) /\ s[Len(s)] \in Names
      BY <1>0, <2>3, FrontOfNames
    <3>2. Front(s) \in Seq(Component) /\ s[Len(s)] \in Component /\ Bytes(s[Len(s)]) \in Nat /\ Bytes(s[Len(s)]) >= 1
      BY <3>1, NamesAreComponents, NameBytes
    <3>3. RowLen(s) = RowLen(Front(s)) + 1 + Bytes(s[Len(s)]) /\ RowLen(Front(s)) \in Nat
      BY <3>1, <3>2, RowLenAppend, RowLenType
    <3>4. RowLen(Front(s)) + 2 <= RowLen(s)
      BY <3>2, <3>3
    <3>5. Pop(p).names = Front(s) /\ Pop(p).slash
      BY <2>3 DEF Pop
    <3>6. RowLen(s) <= w
      BY DEF FitsIn
    <3> HIDE DEF s
    <3> QED BY <1>0, <2>1, <3>3, <3>4, <3>5, <3>6 DEF FitsIn, s
  <2> QED BY <2>2, <2>3
<1>3. CASE c \in Names
  <2>1. RowLen(p.names) + 1 + NameLen[c] < PathMax
    BY <1>0, <1>3, NameBytes, PathMaxAssumption DEF FitsIn
  <2>2. /\ Component1(p, c) \in Path /\ Component1(p, c) # NoPath
        /\ Component1(p, c) = [names |-> Append(p.names, c), slash |-> FALSE]
    <3>1. ~(RowLen(p.names) + 1 + NameLen[c] >= PathMax)
      BY <1>0, <1>3, <2>1, NameBytes, PathMaxAssumption
    <3> QED BY <1>0, <1>3, <3>1, Component1Is
  <2>3. RowLen(Append(p.names, c)) = RowLen(p.names) + 1 + Bytes(c)
    BY <1>0, <1>3, NamesAreComponents, RowLenAppend
  <2>4. Append(p.names, c) # <<>>
    <3> DEFINE s == p.names
    <3>1. s \in Seq(Names)
      BY <1>0
    <3> HIDE DEF s
    <3>2. Len(Append(s, c)) = Len(s) + 1 /\ Len(s) \in Nat
      BY <1>3, <3>1
    <3>3. Append(s, c) # <<>>
      <4> DEFINE a == Append(s, c)
      <4>1. Len(a) # 0
        BY <3>2
      <4> HIDE DEF a
      <4>2. a # <<>>
        BY <4>1
      <4> QED BY <4>2 DEF a
    <3> QED BY <3>3 DEF s
  <2>5. RowLen(p.names) <= w
    BY DEF FitsIn
  <2>6. RowLen(Append(p.names, c)) <= w + 1 + Bytes(c)
    BY <1>0, <2>3, <2>5
  <2> QED BY <2>2, <2>4, <2>6 DEF FitsIn
<1> QED BY <1>1, <1>2, <1>3 DEF Component

\* A row that is shorter than the buffer is normalized to a path that fits:
\* neither overflow check of normalize fires.
LEMMA NormalizeFits ==
    ASSUME NEW comps \in Seq(Component), RowLen(comps) < PathMax
    PROVE  FitsIn(Normalize(comps), RowLen(comps))
<1> DEFINE n == Len(comps)
<1>1. PICK p : Follows(comps, p) /\ Normalize(comps) = p[n]
  BY NormalizeIs
<1>2. PICK f : Sums(comps, n, f) /\ RowLen(comps) = f[n]
  BY RowLenIs
<1>0. n \in Nat /\ PathMax \in Nat /\ \A i \in 1 .. n : comps[i] \in Component /\ Bytes(comps[i]) \in Nat
  BY BytesType, PathMaxAssumption
<1>3. \A i \in 1 .. n : f[i] = f[i - 1] + 1 + Bytes(comps[i]) /\ p[i] = Component1(p[i - 1], comps[i])
  BY <1>1, <1>2 DEF Sums, Follows
<1>4. f \in [0 .. n -> Nat] /\ f[0] = 0 /\ p[0] = Root
  BY <1>1, <1>2 DEF Sums, Follows
<1> HIDE DEF n
<1>5. \A i \in 0 .. n : f[i] < PathMax
  <2> DEFINE T == { i \in 0 .. n : f[n - i] < PathMax }
  <2>1. 0 \in T
    BY <1>0, <1>2
  <2>2. ASSUME NEW m \in 0 .. n - 1, m \in T PROVE m + 1 \in T
    <3>1. n - m \in 1 .. n /\ (n - m) - 1 = n - (m + 1) /\ n - (m + 1) \in 0 .. n /\ n - m \in 0 .. n /\ m + 1 \in 0 .. n
      BY <1>0
    <3>2. f[n - m] = f[(n - m) - 1] + 1 + Bytes(comps[n - m]) /\ Bytes(comps[n - m]) \in Nat
      BY <1>0, <1>3, <3>1
    <3>3. f[n - m] \in Nat /\ f[n - (m + 1)] \in Nat /\ f[n - m] < PathMax
      BY <1>4, <2>2, <3>1
    <3>4. f[n - (m + 1)] < PathMax
      BY <1>0, <3>1, <3>2, <3>3
    <3> QED BY <3>1, <3>4
  <2> HIDE DEF T
  <2>3. \A m \in 0 .. n : m \in T
    BY <1>0, <2>1, <2>2, Counted
  <2>4. ASSUME NEW i \in 0 .. n PROVE f[i] < PathMax
    <3>1. n - i \in T /\ n - (n - i) = i
      BY <1>0, <2>3
    <3> QED BY <3>1 DEF T
  <2> QED BY <2>4
<1> DEFINE T == { i \in 0 .. n : FitsIn(p[i], f[i]) }
<1>6. 0 \in T
  <2>1. RowLen(Root.names) = 0 /\ Root \in Path /\ Root # NoPath /\ Root.slash /\ Root.names = <<>>
    BY EmptySeq, RowLenType DEF Root, NoPath, Path
  <2>2. FitsIn(Root, 0)
    BY <2>1 DEF FitsIn
  <2> QED BY <1>0, <1>4, <2>2
<1>7. ASSUME NEW m \in 0 .. n - 1, m \in T PROVE m + 1 \in T
  <2>1. m + 1 \in 1 .. n /\ (m + 1) - 1 = m /\ m \in 0 .. n /\ m + 1 \in 0 .. n
    BY <1>0
  <2>2. f[m + 1] = f[m] + 1 + Bytes(comps[m + 1]) /\ p[m + 1] = Component1(p[m], comps[m + 1])
    BY <1>3, <2>1
  <2>3. f[m] \in Nat /\ comps[m + 1] \in Component /\ FitsIn(p[m], f[m]) /\ f[m + 1] < PathMax
    BY <1>0, <1>4, <1>5, <1>7, <2>1
  <2>4. FitsIn(Component1(p[m], comps[m + 1]), f[m] + 1 + Bytes(comps[m + 1]))
    BY <2>2, <2>3, StepFits
  <2> QED BY <2>1, <2>2, <2>4
<1> HIDE DEF T
<1>8. \A m \in 0 .. n : m \in T
  BY <1>0, <1>6, <1>7, Counted
<1>9. n \in T
  BY <1>0, <1>8
<1> QED BY <1>1, <1>2, <1>9 DEF T

-----------------------------------------------------------------------------
(* The working directory, and which paths are too long                     *)

\* A directory that ends in a slash has room for one more byte: the first
\* check of resolve asks no more than the last.
PathInv ==
    /\ PathTypeOK
    /\ cwd.names = <<>> => cwd.slash
    /\ cwd.slash => PathLen(cwd) <= PathMax - 2

LEMMA StrippedIs ==
    ASSUME NEW t \in Inputs
    PROVE  /\ Stripped(t) \in Seq(Component) /\ Stripped(t) # <<>>
           /\ t.comps \in Seq(Component)
           /\ t.abs => RowLen(t.comps) < PathMax
<1>1. t \in Text /\ t.comps # <<>> /\ TextLen(t) < PathMax
  BY InputsAssumption
<1>2. t.comps \in Seq(Component)
  BY <1>1 DEF Text
<1>3. Stripped(t) \in Seq(Component) /\ Stripped(t) # <<>>
  <2> DEFINE s == t.comps
  <2>1. s \in Seq(Component) /\ s # <<>>
    BY <1>1, <1>2
  <2> HIDE DEF s
  <2>2. Len(s) >= 2 => Tail(s) \in Seq(Component) /\ Len(Tail(s)) = Len(s) - 1
    BY <2>1
  <2>3. Len(s) >= 2 => Tail(s) # <<>>
    <3> DEFINE u == Tail(s)
    <3>1. Len(s) >= 2 => Len(u) # 0
      BY <2>1, <2>2
    <3> HIDE DEF u
    <3>2. Len(s) >= 2 => u # <<>>
      BY <3>1
    <3> QED BY <3>2 DEF u
  <2>4. Stripped(t) = IF Len(s) >= 2 /\ s[1] = Dot THEN Tail(s) ELSE s
    BY DEF Stripped, s
  <2> QED BY <2>1, <2>2, <2>3, <2>4
<1>4. t.abs => RowLen(t.comps) < PathMax
  <2>1. RowLen(t.comps) \in Nat
    BY <1>2, RowLenType
  <2> QED BY <1>1, <2>1 DEF TextLen
<1> QED BY <1>2, <1>3, <1>4

\* What fits a buffer has at most PathMax - 1 bytes.
LEMMA FittingPath ==
    ASSUME NEW p, NEW w \in Nat, FitsIn(p, w), w < PathMax
    PROVE  /\ p \in Path /\ p # NoPath /\ PathLen(p) < PathMax
           /\ p.names = <<>> => p.slash
           /\ p.slash => PathLen(p) <= PathMax - 2
<1>1. p \in Path /\ p # NoPath /\ RowLen(p.names) \in Nat /\ p.slash \in BOOLEAN /\ PathMax \in Nat /\ PathMax >= 3
  BY PathFields, PathMaxAssumption DEF FitsIn
<1>2. p.names = <<>> => RowLen(p.names) = 0
  <2>1. <<>> \in Seq(Component)
    BY EmptySeq
  <2> QED BY <2>1, RowLenType
<1>3. CASE p.slash
  <2>1. PathLen(p) = RowLen(p.names) + 1
    BY <1>3 DEF PathLen
  <2>2. RowLen(p.names) = 0 \/ RowLen(p.names) + 2 <= w
    BY <1>2, <1>3 DEF FitsIn
  <2> QED BY <1>1, <1>3, <2>1, <2>2
<1>4. CASE ~p.slash
  <2>1. PathLen(p) = RowLen(p.names)
    BY <1>1, <1>4 DEF PathLen
  <2> QED BY <1>1, <1>4, <2>1 DEF FitsIn
<1> QED BY <1>1, <1>3, <1>4

\* resolve from a directory that fits: the joined text is as long as the
\* three parts, and only its length decides.
LEMMA ResolveIs ==
    ASSUME NEW t \in Inputs, PathInv
    PROVE  LET full == (IF cwd.slash THEN 0 ELSE 1) + PathLen(cwd)
                          + TextLen([abs |-> FALSE, comps |-> Stripped(t)])
               joined == cwd.names \o Stripped(t)
           IN  /\ t.abs => Resolve(t, cwd) = Normalize(t.comps)
               /\ ~t.abs /\ full >= PathMax => Resolve(t, cwd) = NoPath
               /\ ~t.abs /\ full < PathMax => Resolve(t, cwd) = Normalize(joined)
               /\ joined \in Seq(Component) /\ full = RowLen(joined) /\ full \in Nat
<1> DEFINE s == Stripped(t)
        len == TextLen([abs |-> FALSE, comps |-> s])
        full == (IF cwd.slash THEN 0 ELSE 1) + PathLen(cwd) + len
        joined == cwd.names \o s
<1>1. s \in Seq(Component) /\ s # <<>> /\ RowLen(s) \in Nat /\ RowLen(s) >= 1
  BY StrippedIs, RowLenType
<1>2. cwd \in Path /\ cwd.names \in Seq(Component) /\ PathLen(cwd) + (IF cwd.slash THEN 0 ELSE 1) = RowLen(cwd.names) + 1
      /\ RowLen(cwd.names) \in Nat /\ PathLen(cwd) \in Nat /\ cwd.slash \in BOOLEAN
  <2>1. cwd \in Path
    BY DEF PathInv, PathTypeOK
  <2> QED BY <2>1, PathFields
<1>3. len = RowLen(s) - 1
  BY DEF TextLen
<1>4. RowLen(joined) = RowLen(cwd.names) + RowLen(s) /\ joined \in Seq(Component)
  <2> HIDE DEF s
  <2>1. RowLen(joined) = RowLen(cwd.names) + RowLen(s)
    BY <1>1, <1>2, RowLenConcat
  <2>2. joined \in Seq(Component)
    BY <1>1, <1>2, ConcatProperties
  <2> QED BY <2>1, <2>2
<1>5. JoinFits(cwd, s) <=> full < PathMax
  <2>1. JoinFits(cwd, s) <=> PathLen(cwd) <= PathMax - 2 /\ (PathLen(cwd) + (IF cwd.slash THEN 0 ELSE 1)) + len < PathMax
    BY DEF JoinFits
  <2> HIDE DEF s, len
  <2>2. (PathLen(cwd) + (IF cwd.slash THEN 0 ELSE 1)) + len = full
    BY <1>1, <1>2, <1>3
  <2>3. full < PathMax => PathLen(cwd) <= PathMax - 2
    BY <1>1, <1>2, <1>3, PathMaxAssumption DEF PathInv
  <2> HIDE DEF full
  <2> QED BY <2>1, <2>2, <2>3
<1>6. full = RowLen(joined) /\ full \in Nat
  <2> HIDE DEF s, len, joined
  <2> QED BY <1>1, <1>2, <1>3, <1>4, SMTT(30)
<1>7. /\ t.abs => Resolve(t, cwd) = Normalize(t.comps)
      /\ ~t.abs => Resolve(t, cwd) = IF JoinFits(cwd, s) THEN Normalize(joined) ELSE NoPath
  BY DEF Resolve, Joined
<1>8. full >= PathMax <=> ~(full < PathMax)
  <2> HIDE DEF full
  <2> QED BY <1>6, PathMaxAssumption
<1> HIDE DEF full, joined, s, len
<1>9. /\ t.abs => Resolve(t, cwd) = Normalize(t.comps)
      /\ ~t.abs /\ full >= PathMax => Resolve(t, cwd) = NoPath
      /\ ~t.abs /\ full < PathMax => Resolve(t, cwd) = Normalize(joined)
      /\ joined \in Seq(Component) /\ full = RowLen(joined) /\ full \in Nat
  BY <1>4, <1>5, <1>6, <1>7, <1>8
<1> QED BY <1>9 DEF full, joined, s, len

\* What resolve hands out fits.
LEMMA ResolvedFits ==
    ASSUME NEW t \in Inputs, PathInv, Resolve(t, cwd) # NoPath
    PROVE  \E w \in Nat : w < PathMax /\ FitsIn(Resolve(t, cwd), w)
<1>1. CASE t.abs
  <2>1. Resolve(t, cwd) = Normalize(t.comps)
    BY <1>1, ResolveIs
  <2>2. t.comps \in Seq(Component) /\ RowLen(t.comps) < PathMax /\ RowLen(t.comps) \in Nat
    BY <1>1, StrippedIs, RowLenType
  <2> QED BY <2>1, <2>2, NormalizeFits
<1>2. CASE ~t.abs
  <2> DEFINE joined == cwd.names \o Stripped(t)
             full == (IF cwd.slash THEN 0 ELSE 1) + PathLen(cwd) + TextLen([abs |-> FALSE, comps |-> Stripped(t)])
  <2>1. /\ full >= PathMax => Resolve(t, cwd) = NoPath
        /\ full < PathMax => Resolve(t, cwd) = Normalize(joined)
        /\ joined \in Seq(Component) /\ full = RowLen(joined) /\ full \in Nat
    BY <1>2, ResolveIs
  <2> HIDE DEF joined, full
  <2>2. full < PathMax
    BY <2>1, PathMaxAssumption
  <2> QED BY <2>1, <2>2, NormalizeFits
<1> QED BY <1>1, <1>2

LEMMA RootFits == FitsIn(Root, 0)
<1>1. RowLen(Root.names) = 0 /\ Root \in Path /\ Root # NoPath /\ Root.slash /\ Root.names = <<>>
  BY EmptySeq, RowLenType DEF Root, NoPath, Path
<1> QED BY <1>1 DEF FitsIn

LEMMA PathsFit == PathSpec => []PathInv
<1>0. PathMax \in Nat /\ PathMax >= 3 /\ 0 < PathMax
  BY PathMaxAssumption
<1>1. PathInit => PathInv
  <2> SUFFICES ASSUME PathInit PROVE PathInv
    OBVIOUS
  <2>1. cwd = Root /\ sent = "none"
    BY DEF PathInit
  <2> QED BY <1>0, <2>1, RootFits, FittingPath DEF PathInv, PathTypeOK
<1>2. PathInv /\ [PathNext]_pathVars => PathInv'
  <2> SUFFICES ASSUME PathInv, [PathNext]_pathVars PROVE PathInv'
    OBVIOUS
  <2>1. ASSUME NEW t \in Inputs, Command(t) PROVE PathInv'
    <3>1. PICK r \in {Resolve(t, cwd), ResolveNoCwd(t)} :
             IF r = NoPath THEN UNCHANGED pathVars ELSE sent' = "absolute" /\ cwd' \in {cwd, r}
      BY <2>1 DEF Command
    <3>2. CASE r = NoPath \/ cwd' = cwd
      BY <3>1, <3>2 DEF PathInv, PathTypeOK, pathVars
    <3>3. CASE r # NoPath /\ cwd' = r
      <4>1. \E w \in Nat : w < PathMax /\ FitsIn(r, w)
        <5>1. CASE r = Resolve(t, cwd)
          BY <3>3, <5>1, ResolvedFits
        <5>2. CASE r = ResolveNoCwd(t)
          <6>1. CASE t.abs
            <7>1. r = Normalize(t.comps)
              BY <5>2, <6>1 DEF ResolveNoCwd
            <7> QED BY <6>1, <7>1, StrippedIs, RowLenType, NormalizeFits
          <6>2. CASE ~t.abs
            BY <1>0, <5>2, <6>2, RootFits DEF ResolveNoCwd
          <6> QED BY <6>1, <6>2
        <5> QED BY <3>1, <5>1, <5>2
      <4>2. PICK w \in Nat : w < PathMax /\ FitsIn(r, w)
        BY <4>1
      <4>3. /\ r \in Path /\ r # NoPath /\ PathLen(r) < PathMax
            /\ r.names = <<>> => r.slash
            /\ r.slash => PathLen(r) <= PathMax - 2
        BY <4>2, FittingPath
      <4>4. sent' = "absolute"
        BY <3>1, <3>3
      <4> QED BY <3>3, <4>3, <4>4 DEF PathInv, PathTypeOK
    <3> QED BY <3>1, <3>2, <3>3
  <2>2. ASSUME NEW t \in Inputs, Redirect(t) PROVE PathInv'
    BY <2>2 DEF Redirect, PathInv, PathTypeOK
  <2>3. CASE UNCHANGED pathVars
    BY <2>3 DEF pathVars, PathInv, PathTypeOK
  <2> QED BY <2>1, <2>2, <2>3 DEF PathNext
<1> QED BY <1>1, <1>2, PTL DEF PathSpec

\* The directory always fits the buffer of getcwd, and is one.
THEOREM PathTypeCorrect == PathSpec => []PathTypeOK
<1>1. PathInv => PathTypeOK
  BY DEF PathInv
<1> QED BY <1>1, PathsFit, PTL

\* resolve fails exactly when directory, slash and input do not fit the
\* buffer, for every buffer size and every text of a command line: neither
\* overflow check of normalize can fire.
THEOREM OnlyJoinedIsTooLong == PathSpec => []TooLongOnlyWhenJoinedIs
<1>1. PathInv => TooLongOnlyWhenJoinedIs
  <2> SUFFICES ASSUME PathInv, NEW t \in Inputs
               PROVE  LET r == Resolve(t, cwd)
                          full == (IF cwd.slash THEN 0 ELSE 1) + PathLen(cwd)
                                     + TextLen([abs |-> FALSE, comps |-> Stripped(t)])
                      IN  /\ (r = NoPath) <=> ~t.abs /\ full >= PathMax
                          /\ PathLen(r) < PathMax
    BY DEF TooLongOnlyWhenJoinedIs
  <2> DEFINE full == (IF cwd.slash THEN 0 ELSE 1) + PathLen(cwd) + TextLen([abs |-> FALSE, comps |-> Stripped(t)])
             r == Resolve(t, cwd)
  <2>1. ~t.abs /\ full >= PathMax => r = NoPath
    BY ResolveIs
  <2>2. t.abs => r # NoPath
    <3>1. ASSUME t.abs PROVE r # NoPath
      <4>1. r = Normalize(t.comps)
        BY <3>1, ResolveIs
      <4>2. t.comps \in Seq(Component) /\ RowLen(t.comps) < PathMax
        BY <3>1, StrippedIs
      <4> QED BY <4>1, <4>2, NormalizeFits DEF FitsIn
    <3> QED BY <3>1
  <2>3. ~t.abs /\ ~(full >= PathMax) => r # NoPath
    <3>1. ASSUME ~t.abs, ~(full >= PathMax) PROVE r # NoPath
      <4> DEFINE joined == cwd.names \o Stripped(t)
      <4>1. /\ full < PathMax => r = Normalize(joined)
            /\ joined \in Seq(Component) /\ full = RowLen(joined) /\ full \in Nat
        BY <3>1, ResolveIs
      <4> HIDE DEF joined, full, r
      <4>2. full < PathMax
        BY <3>1, <4>1, PathMaxAssumption
      <4> QED BY <4>1, <4>2, NormalizeFits DEF FitsIn
    <3> QED BY <3>1
  <2>4. PathLen(r) < PathMax
    <3>1. CASE r = NoPath
      <4>1. NoPath.names \in Seq(Component) /\ NoPath.names = <<>> /\ ~NoPath.slash
        BY EmptySeq DEF NoPath
      <4>2. PathLen(NoPath) = 0
        <5>1. RowLen(NoPath.names) = 0
          BY <4>1, RowLenType
        <5> QED BY <4>1, <5>1 DEF PathLen
      <4> QED BY <3>1, <4>2, PathMaxAssumption
    <3>2. CASE r # NoPath
      BY <3>2, ResolvedFits, FittingPath
    <3> QED BY <3>1, <3>2
  <2> HIDE DEF full, r
  <2>5. (r = NoPath <=> ~t.abs /\ full >= PathMax) /\ PathLen(r) < PathMax
    BY <2>1, <2>2, <2>3, <2>4
  <2> QED BY <2>5 DEF full, r
<1> QED BY <1>1, PathsFit, PTL

-----------------------------------------------------------------------------
(* What a row of components means, one component at a time                 *)

\* The survivors of the first m components.
Kept(comps, m) ==
    { i \in 1 .. m : comps[i] \in Names /\ \A j \in i .. m : Surplus(comps, i) <= Surplus(comps, j) }

Rank(S, i) == Cardinality({ k \in S : k <= i })

Above(S, i) == Cardinality({ k \in S : k > i })

LEMMA SurplusStep ==
    ASSUME NEW comps \in Seq(Component), NEW m \in Nat, m < Len(comps)
    PROVE  /\ Surplus(comps, m) \in Int
           /\ comps[m + 1] \in Names => Surplus(comps, m + 1) = Surplus(comps, m) + 1
           /\ comps[m + 1] = Parent => Surplus(comps, m + 1) = Surplus(comps, m) - 1
           /\ comps[m + 1] \in {Empty, Dot} => Surplus(comps, m + 1) = Surplus(comps, m)
<1> DEFINE N(i) == { k \in 1 .. i : comps[k] \in Names }
        P(i) == { k \in 1 .. i : comps[k] = Parent }
<1>1. \A i \in Nat : N(i) \in SUBSET (1 .. i) /\ P(i) \in SUBSET (1 .. i)
  OBVIOUS
<1>2. 1 .. m + 1 = (1 .. m) \cup {m + 1} /\ m + 1 \notin 1 .. m /\ m + 1 \in Nat
  OBVIOUS
<1>3. /\ comps[m + 1] \in Names => N(m + 1) = N(m) \cup {m + 1}
      /\ comps[m + 1] \notin Names => N(m + 1) = N(m)
      /\ comps[m + 1] = Parent => P(m + 1) = P(m) \cup {m + 1}
      /\ comps[m + 1] # Parent => P(m + 1) = P(m)
      /\ m + 1 \notin N(m) /\ m + 1 \notin P(m)
  BY <1>2
<1>4. \A i \in Nat : Surplus(comps, i) = Cardinality(N(i)) - Cardinality(P(i))
  BY DEF Surplus
<1> HIDE DEF N, P
<1>5. /\ IsFiniteSet(N(m)) /\ Cardinality(N(m)) \in Nat
      /\ IsFiniteSet(P(m)) /\ Cardinality(P(m)) \in Nat
  BY <1>1, CountTo
<1>6. /\ Cardinality(N(m) \cup {m + 1}) = Cardinality(N(m)) + 1
      /\ Cardinality(P(m) \cup {m + 1}) = Cardinality(P(m)) + 1
  BY <1>3, <1>5, FS_AddElement
<1>7. /\ comps[m + 1] \in Names => comps[m + 1] # Parent
      /\ comps[m + 1] \in {Empty, Dot} => comps[m + 1] # Parent /\ comps[m + 1] \notin Names
      /\ comps[m + 1] = Parent => comps[m + 1] \notin Names
  BY NameLenAssumption DEF Empty, Dot, Parent
<1>8. Surplus(comps, m) = Cardinality(N(m)) - Cardinality(P(m))
      /\ Surplus(comps, m + 1) = Cardinality(N(m + 1)) - Cardinality(P(m + 1))
  BY <1>2, <1>4
<1>9. CASE comps[m + 1] \in Names
  <2>1. Cardinality(N(m + 1)) = Cardinality(N(m)) + 1 /\ P(m + 1) = P(m)
    BY <1>3, <1>6, <1>7, <1>9
  <2> QED BY <1>5, <1>7, <1>8, <1>9, <2>1
<1>10. CASE comps[m + 1] \notin Names
  <2>1. N(m + 1) = N(m)
    BY <1>3, <1>10
  <2>2. CASE comps[m + 1] = Parent
    <3>1. Cardinality(P(m + 1)) = Cardinality(P(m)) + 1
      BY <1>3, <1>6, <2>2
    <3> QED BY <1>5, <1>7, <1>8, <1>10, <2>1, <2>2, <3>1
  <2>3. CASE comps[m + 1] # Parent
    <3>1. P(m + 1) = P(m)
      BY <1>3, <2>3
    <3> QED BY <1>5, <1>8, <1>10, <2>1, <2>3, <3>1
  <2> QED BY <2>2, <2>3
<1> QED BY <1>9, <1>10

LEMMA SurplusType ==
    ASSUME NEW comps, NEW m \in Nat
    PROVE  Surplus(comps, m) \in Int
<1>1. { k \in 1 .. m : comps[k] \in Names } \in SUBSET (1 .. m) /\ { k \in 1 .. m : comps[k] = Parent } \in SUBSET (1 .. m)
  OBVIOUS
<1>2. Cardinality({ k \in 1 .. m : comps[k] \in Names }) \in Nat /\ Cardinality({ k \in 1 .. m : comps[k] = Parent }) \in Nat
  BY <1>1, CountTo
<1> QED BY <1>2 DEF Surplus

\* A set of positions with one more behind them all, or without its last.
LEMMA RankOfMore ==
    ASSUME NEW m \in Nat, NEW S \in SUBSET (1 .. m), NEW x \in Nat, x > m
    PROVE  /\ Cardinality(S \cup {x}) = Cardinality(S) + 1
           /\ Rank(S \cup {x}, x) = Cardinality(S) + 1 /\ Above(S \cup {x}, x) = 0
           /\ \A i \in S : Rank(S \cup {x}, i) = Rank(S, i) /\ Above(S \cup {x}, i) = Above(S, i) + 1
<1>1. x \notin S /\ \A k \in S : k \in Nat /\ k <= m
  OBVIOUS
<1>2. Cardinality(S \cup {x}) = Cardinality(S) + 1
  BY <1>1, CountTo, FS_AddElement
<1>3. { k \in S \cup {x} : k <= x } = S \cup {x} /\ { k \in S \cup {x} : k > x } = {}
  <2>1. \A k \in S \cup {x} : k <= x /\ ~(k > x)
    BY <1>1
  <2> QED BY <2>1
<1>4. ASSUME NEW i \in S PROVE Rank(S \cup {x}, i) = Rank(S, i) /\ Above(S \cup {x}, i) = Above(S, i) + 1
  <2> DEFINE A == { k \in S : k > i }
  <2>1. { k \in S \cup {x} : k <= i } = { k \in S : k <= i }
    <3>1. ~(x <= i)
      BY <1>1
    <3> QED BY <3>1
  <2>2. { k \in S \cup {x} : k > i } = A \cup {x} /\ A \in SUBSET (1 .. m) /\ x \notin A
    <3>1. x > i
      BY <1>1
    <3> QED BY <1>1, <3>1
  <2>3. Above(S, i) = Cardinality(A)
    BY DEF Above
  <2>4. Above(S \cup {x}, i) = Cardinality(A \cup {x})
    BY <2>2 DEF Above
  <2> HIDE DEF A
  <2>5. Cardinality(A \cup {x}) = Cardinality(A) + 1
    BY <2>2, CountTo, FS_AddElement
  <2>6. Rank(S \cup {x}, i) = Rank(S, i)
    BY <2>1 DEF Rank
  <2> QED BY <2>3, <2>4, <2>5, <2>6
<1>5. Rank(S \cup {x}, x) = Cardinality(S \cup {x}) /\ Above(S \cup {x}, x) = Cardinality({})
  BY <1>3 DEF Rank, Above
<1> QED BY <1>2, <1>4, <1>5, FS_EmptySet

LEMMA RankOfLess ==
    ASSUME NEW m \in Nat, NEW S \in SUBSET (1 .. m), NEW x \in S, \A k \in S : k <= x
    PROVE  /\ Cardinality(S \ {x}) = Cardinality(S) - 1 /\ Cardinality(S) \in Nat
           /\ Rank(S, x) = Cardinality(S)
           /\ Above(S, x) = 0
           /\ \A i \in S \ {x} : /\ Rank(S \ {x}, i) = Rank(S, i)
                                 /\ Above(S \ {x}, i) = Above(S, i) - 1
                                 /\ Above(S, i) >= 1 /\ Above(S, i) \in Nat
                                 /\ Rank(S, i) <= Cardinality(S) - 1
<1>1. \A k \in S : k \in Nat /\ k <= m
  OBVIOUS
<1>2. Cardinality(S \ {x}) = Cardinality(S) - 1 /\ IsFiniteSet(S) /\ Cardinality(S) \in Nat
  BY CountTo, FS_RemoveElement
<1>3. { k \in S : k <= x } = S /\ { k \in S : k > x } = {}
  <2>1. \A k \in S : k <= x /\ ~(k > x)
    BY <1>1
  <2> QED BY <2>1
<1>4. Rank(S, x) = Cardinality(S) /\ Above(S, x) = Cardinality({})
  BY <1>3 DEF Rank, Above
<1>5. ASSUME NEW i \in S \ {x}
      PROVE  /\ Rank(S \ {x}, i) = Rank(S, i)
             /\ Above(S \ {x}, i) = Above(S, i) - 1
             /\ Above(S, i) >= 1 /\ Above(S, i) \in Nat
             /\ Rank(S, i) <= Cardinality(S) - 1
  <2> DEFINE A == { k \in S : k > i }
             R == { k \in S : k <= i }
  <2>1. i < x /\ i \in Nat /\ x \in Nat
    BY <1>1
  <2>2. { k \in S \ {x} : k <= i } = R /\ { k \in S \ {x} : k > i } = A \ {x} /\ x \in A
        /\ A \in SUBSET (1 .. m) /\ R \in SUBSET (S \ {x}) /\ S \ {x} \in SUBSET (1 .. m)
    <3>1. x > i /\ ~(x <= i)
      BY <2>1
    <3> QED BY <3>1
  <2>3. Above(S, i) = Cardinality(A) /\ Rank(S, i) = Cardinality(R)
    BY DEF Above, Rank
  <2>4. Above(S \ {x}, i) = Cardinality(A \ {x}) /\ Rank(S \ {x}, i) = Cardinality(R)
    BY <2>2 DEF Above, Rank
  <2> HIDE DEF A, R
  <2>5. Cardinality(A \ {x}) = Cardinality(A) - 1 /\ Cardinality(A) \in Nat /\ Cardinality(A \ {x}) \in Nat
    <3>1. IsFiniteSet(A) /\ Cardinality(A) \in Nat
      BY <2>2, CountTo
    <3>2. A \ {x} \in SUBSET (1 .. m)
      BY <2>2
    <3>3. Cardinality(A \ {x}) \in Nat
      BY <3>2, CountTo
    <3> QED BY <2>2, <3>1, <3>3, FS_RemoveElement
  <2>6. Cardinality(R) <= Cardinality(S \ {x})
    <3>1. IsFiniteSet(S \ {x})
      BY <2>2, CountTo
    <3> QED BY <2>2, <3>1, FS_Subset
  <2> QED BY <1>2, <2>3, <2>4, <2>5, <2>6
<1> QED BY <1>2, <1>4, <1>5, FS_EmptySet

LEMMA KeptIs ==
    ASSUME NEW comps, NEW m \in Nat
    PROVE  /\ Kept(comps, m) \in SUBSET (1 .. m)
           /\ \A i \in Kept(comps, m) : comps[i] \in Names
BY DEF Kept

\* Where normalize stands after m components: the names are those of the
\* survivors, and each survivor is as far below the surplus as there are
\* survivors behind it, which is why ".." takes the last of them.
MeansSoFar(comps, m, names) ==
    LET kept == Kept(comps, m)
    IN  /\ names \in Seq(Names)
        /\ Len(names) = Cardinality(kept)
        /\ \A i \in kept : /\ names[Rank(kept, i)] = comps[i]
                           /\ Surplus(comps, m) - Surplus(comps, i) = Above(kept, i)

\* One more component keeps the survivors whose surplus it does not undercut.
LEMMA KeptStep ==
    ASSUME NEW comps \in Seq(Component), NEW m \in Nat, m < Len(comps)
    PROVE  Kept(comps, m + 1) =
              { i \in Kept(comps, m) : Surplus(comps, i) <= Surplus(comps, m + 1) }
                 \cup (IF comps[m + 1] \in Names THEN {m + 1} ELSE {})
<1>1. Surplus(comps, m + 1) \in Int /\ 1 .. m + 1 = (1 .. m) \cup {m + 1}
  BY SurplusType
<1>2. ASSUME NEW i \in 1 .. m
      PROVE  i \in Kept(comps, m + 1) <=> i \in Kept(comps, m) /\ Surplus(comps, i) <= Surplus(comps, m + 1)
  <2>1. i .. m + 1 = (i .. m) \cup {m + 1} /\ i \in 1 .. m + 1
    OBVIOUS
  <2> QED BY <2>1 DEF Kept
<1>3. m + 1 \in Kept(comps, m + 1) <=> comps[m + 1] \in Names
  <2>1. m + 1 .. m + 1 = {m + 1} /\ m + 1 \in 1 .. m + 1 /\ Surplus(comps, m + 1) <= Surplus(comps, m + 1)
    BY <1>1
  <2> QED BY <2>1 DEF Kept
<1>4. Kept(comps, m + 1) \subseteq 1 .. m + 1 /\ Kept(comps, m) \subseteq 1 .. m
  BY DEF Kept
<1> QED BY <1>1, <1>2, <1>3, <1>4

LEMMA RankRange ==
    ASSUME NEW m \in Nat, NEW S \in SUBSET (1 .. m), NEW i \in S
    PROVE  Rank(S, i) \in 1 .. Cardinality(S)
<1> DEFINE R == { k \in S : k <= i }
<1>1. R \in SUBSET S /\ i \in R
  OBVIOUS
<1>2. Rank(S, i) = Cardinality(R)
  BY DEF Rank
<1> HIDE DEF R
<1>3. IsFiniteSet(S) /\ Cardinality(S) \in Nat /\ R \in SUBSET (1 .. m)
  BY <1>1, CountTo
<1>4. Cardinality(R) \in Nat /\ IsFiniteSet(R)
  BY <1>3, CountTo
<1>5. Cardinality(R) <= Cardinality(S)
  BY <1>1, <1>3, FS_Subset
<1>6. Cardinality(R) # 0
  BY <1>1, <1>4, FS_EmptySet
<1> QED BY <1>2, <1>3, <1>4, <1>5, <1>6

EndsUpTo(comps, m) ==
    \E i \in 1 .. m : comps[i] = Parent /\ \A k \in i + 1 .. m : comps[k] \in {Empty, Dot}

LEMMA EndsStep ==
    ASSUME NEW comps \in Seq(Component), NEW m \in Nat, m < Len(comps)
    PROVE  /\ comps[m + 1] = Parent => EndsUpTo(comps, m + 1)
           /\ comps[m + 1] \in Names => ~EndsUpTo(comps, m + 1)
           /\ comps[m + 1] \in {Empty, Dot} => (EndsUpTo(comps, m + 1) <=> EndsUpTo(comps, m))
<1>1. 1 .. m + 1 = (1 .. m) \cup {m + 1} /\ (m + 1) + 1 .. m + 1 = {} /\ m + 1 \in 1 .. m + 1
  OBVIOUS
<1>2. \A i \in 1 .. m : i + 1 .. m + 1 = (i + 1 .. m) \cup {m + 1}
  OBVIOUS
<1>3. comps[m + 1] \in Names => comps[m + 1] # Parent /\ comps[m + 1] \notin {Empty, Dot}
  BY NameLenAssumption
<1>4. comps[m + 1] \in {Empty, Dot} => comps[m + 1] # Parent
  BY DEF Empty, Dot, Parent
<1>5. EndsUpTo(comps, m + 1) <=>
         \/ comps[m + 1] = Parent
         \/ \E i \in 1 .. m : /\ comps[i] = Parent
                              /\ \A k \in i + 1 .. m : comps[k] \in {Empty, Dot}
                              /\ comps[m + 1] \in {Empty, Dot}
  <2>1. \A i \in 1 .. m : (\A k \in i + 1 .. m + 1 : comps[k] \in {Empty, Dot})
                             <=> (\A k \in i + 1 .. m : comps[k] \in {Empty, Dot}) /\ comps[m + 1] \in {Empty, Dot}
    BY <1>2
  <2> QED BY <1>1, <2>1 DEF EndsUpTo
<1> QED BY <1>3, <1>4, <1>5 DEF EndsUpTo

SlashSoFar(comps, m, p) == p.slash <=> p.names = <<>> \/ EndsUpTo(comps, m)

\* The survivors below the surplus after the next component.
LEMMA KeptBelow ==
    ASSUME NEW comps, NEW m \in Nat, NEW i \in Kept(comps, m)
    PROVE  /\ i \in 1 .. m /\ Surplus(comps, i) \in Int /\ Surplus(comps, m) \in Int
           /\ Surplus(comps, i) <= Surplus(comps, m)
<1>1. i \in 1 .. m /\ m \in i .. m
  BY DEF Kept
<1>2. Surplus(comps, i) <= Surplus(comps, m)
  BY <1>1 DEF Kept
<1> QED BY <1>1, <1>2, SurplusType

LEMMA NameMeans ==
    ASSUME NEW comps \in Seq(Component), NEW m \in Nat, m < Len(comps), NEW names,
           MeansSoFar(comps, m, names), comps[m + 1] \in Names
    PROVE  MeansSoFar(comps, m + 1, Append(names, comps[m + 1]))
<1> DEFINE K == Kept(comps, m)
        K2 == Kept(comps, m + 1)
        c == comps[m + 1]
        names2 == Append(names, c)
<1>1. /\ names \in Seq(Names)
      /\ Len(names) = Cardinality(K)
      /\ \A i \in K : names[Rank(K, i)] = comps[i] /\ Surplus(comps, m) - Surplus(comps, i) = Above(K, i)
  BY DEF MeansSoFar
<1>2. Surplus(comps, m) \in Int /\ Surplus(comps, m + 1) = Surplus(comps, m) + 1
  BY SurplusStep
<1>3. K2 = K \cup {m + 1}
  <2>1. \A i \in K : Surplus(comps, i) <= Surplus(comps, m + 1)
    BY <1>2, KeptBelow
  <2> QED BY <2>1, KeptStep
<1>4. K \in SUBSET (1 .. m) /\ m + 1 > m /\ m + 1 \in Nat
  BY KeptIs
<1> HIDE DEF K, K2
<1>5. /\ Cardinality(K2) = Cardinality(K) + 1
      /\ Rank(K2, m + 1) = Cardinality(K) + 1 /\ Above(K2, m + 1) = 0
      /\ \A i \in K : Rank(K2, i) = Rank(K, i) /\ Above(K2, i) = Above(K, i) + 1
  BY <1>3, <1>4, RankOfMore
<1>6. /\ names2 \in Seq(Names) /\ Len(names2) = Len(names) + 1 /\ names2[Len(names) + 1] = c
      /\ \A k \in 1 .. Len(names) : names2[k] = names[k]
  BY <1>1
<1> HIDE DEF names2, c
<1>7. ASSUME NEW i \in K PROVE names2[Rank(K2, i)] = comps[i] /\ Surplus(comps, m + 1) - Surplus(comps, i) = Above(K2, i)
  <2>1. Rank(K, i) \in 1 .. Len(names)
    BY <1>1, <1>4, RankRange
  <2>2. Surplus(comps, i) \in Int
    BY KeptBelow DEF K
  <2>3. names2[Rank(K2, i)] = comps[i]
    BY <1>1, <1>5, <1>6, <2>1
  <2>4. Surplus(comps, m) - Surplus(comps, i) = Above(K, i) /\ Above(K2, i) = Above(K, i) + 1
    BY <1>1, <1>5
  <2> QED BY <1>2, <2>2, <2>3, <2>4
<1>8. names2[Rank(K2, m + 1)] = comps[m + 1] /\ Surplus(comps, m + 1) - Surplus(comps, m + 1) = Above(K2, m + 1)
  <2>1. Rank(K2, m + 1) = Len(names) + 1
    BY <1>1, <1>5
  <2>2. names2[Rank(K2, m + 1)] = comps[m + 1]
    BY <1>6, <2>1 DEF c
  <2> QED BY <1>2, <1>5, <2>2
<1>9. Len(names2) = Cardinality(K2)
  BY <1>1, <1>5, <1>6
<1>10. MeansSoFar(comps, m + 1, names2)
  BY <1>3, <1>6, <1>7, <1>8, <1>9 DEF MeansSoFar, K2
<1> QED BY <1>10 DEF names2, c

\* ".." has to take the last survivor.
LEMMA ParentMeans ==
    ASSUME NEW comps \in Seq(Component), NEW m \in Nat, m < Len(comps), NEW names,
           MeansSoFar(comps, m, names), comps[m + 1] = Parent
    PROVE  MeansSoFar(comps, m + 1, IF names = <<>> THEN <<>> ELSE Front(names))
<1> DEFINE K == Kept(comps, m)
        K2 == Kept(comps, m + 1)
<1>1. /\ names \in Seq(Names)
      /\ Len(names) = Cardinality(K)
      /\ \A i \in K : names[Rank(K, i)] = comps[i] /\ Surplus(comps, m) - Surplus(comps, i) = Above(K, i)
  BY DEF MeansSoFar
<1>2. Surplus(comps, m) \in Int /\ Surplus(comps, m + 1) = Surplus(comps, m) - 1
  BY SurplusStep
<1>3. comps[m + 1] \notin Names
  BY NameLenAssumption
<1>4. K2 = { i \in K : Surplus(comps, i) <= Surplus(comps, m + 1) }
  BY <1>3, KeptStep
<1>5. K \in SUBSET (1 .. m) /\ \A i \in K : Surplus(comps, i) \in Int
  BY KeptIs, KeptBelow
<1> HIDE DEF K, K2
<1>6. CASE names = <<>>
  <2>1. IsFiniteSet(K) /\ Cardinality(K) = 0
    BY <1>1, <1>5, <1>6, CountTo
  <2>2. K = {}
    BY <2>1, FS_EmptySet
  <2>3. K2 = {}
    BY <1>4, <2>2
  <2>4. <<>> \in Seq(Names) /\ Len(<<>>) = Cardinality(K2)
    BY <2>3, FS_EmptySet, EmptySeq
  <2>5. MeansSoFar(comps, m + 1, <<>>)
    BY <2>3, <2>4 DEF MeansSoFar, K2
  <2> QED BY <1>6, <2>5
<1>7. CASE names # <<>>
  <2>1. K # {}
    <3>1. Len(names) # 0
      BY <1>1, <1>7, EmptySeq
    <3> QED BY <1>1, <3>1, FS_EmptySet
  <2> DEFINE x == Max(K)
  <2>2. x \in K /\ \A k \in K : k <= x
    <3>1. K \in SUBSET Nat /\ \A k \in K : k <= m
      BY <1>5
    <3> QED BY <2>1, <3>1, Greatest
  <2> HIDE DEF x
  <2>3. /\ Cardinality(K \ {x}) = Cardinality(K) - 1 /\ Cardinality(K) \in Nat
        /\ Above(K, x) = 0
        /\ \A i \in K \ {x} : /\ Rank(K \ {x}, i) = Rank(K, i)
                              /\ Above(K \ {x}, i) = Above(K, i) - 1
                              /\ Above(K, i) >= 1 /\ Above(K, i) \in Nat
                              /\ Rank(K, i) <= Cardinality(K) - 1
    BY <1>5, <2>2, RankOfLess
  <2>4. ASSUME NEW i \in K PROVE Surplus(comps, i) <= Surplus(comps, m + 1) <=> i # x
    <3>1. Surplus(comps, m) - Surplus(comps, i) = Above(K, i) /\ Surplus(comps, i) \in Int
      BY <1>1, <1>5
    <3>2. i # x => Above(K, i) >= 1 /\ Above(K, i) \in Nat
      BY <2>3
    <3>3. i = x => Above(K, i) = 0
      BY <2>3
    <3> QED BY <1>2, <3>1, <3>2, <3>3
  <2>5. K2 = K \ {x}
    BY <1>4, <2>4
  <2> DEFINE f == Front(names)
  <2>6. f \in Seq(Names) /\ Len(f) = Len(names) - 1 /\ \A k \in 1 .. Len(names) - 1 : f[k] = names[k]
    BY <1>1, <1>7, FrontOfNames
  <2> HIDE DEF f
  <2>7. ASSUME NEW i \in K \ {x} PROVE f[Rank(K2, i)] = comps[i] /\ Surplus(comps, m + 1) - Surplus(comps, i) = Above(K2, i)
    <3>1. Rank(K, i) \in 1 .. Cardinality(K) /\ Rank(K, i) <= Cardinality(K) - 1 /\ Cardinality(K) \in Nat
      BY <1>5, <2>3, RankRange
    <3>2. Rank(K, i) \in 1 .. Len(names) - 1
      BY <1>1, <3>1
    <3>3. f[Rank(K, i)] = comps[i] /\ Rank(K2, i) = Rank(K, i)
      BY <1>1, <2>3, <2>5, <2>6, <3>2
    <3>4. Surplus(comps, m) - Surplus(comps, i) = Above(K, i) /\ Surplus(comps, i) \in Int
          /\ Above(K2, i) = Above(K, i) - 1 /\ Above(K, i) \in Nat
      BY <1>1, <1>5, <2>3, <2>5
    <3> QED BY <1>2, <3>3, <3>4
  <2>8. Len(f) = Cardinality(K2)
    BY <1>1, <2>3, <2>5, <2>6
  <2>9. MeansSoFar(comps, m + 1, f)
    BY <2>5, <2>6, <2>7, <2>8 DEF MeansSoFar, K2
  <2> QED BY <1>7, <2>9 DEF f
<1> QED BY <1>6, <1>7

LEMMA SkippedMeans ==
    ASSUME NEW comps \in Seq(Component), NEW m \in Nat, m < Len(comps), NEW names,
           MeansSoFar(comps, m, names), comps[m + 1] \in {Empty, Dot}
    PROVE  MeansSoFar(comps, m + 1, names)
<1>1. Surplus(comps, m + 1) = Surplus(comps, m)
  BY SurplusStep
<1>2. comps[m + 1] \notin Names
  BY NameLenAssumption
<1>3. \A i \in Kept(comps, m) : Surplus(comps, i) <= Surplus(comps, m + 1)
  BY <1>1, KeptBelow
<1>4. Kept(comps, m + 1) = Kept(comps, m)
  BY <1>2, <1>3, KeptStep
<1> QED BY <1>1, <1>4 DEF MeansSoFar

LEMMA MeansStep ==
    ASSUME NEW comps \in Seq(Component), NEW m \in Nat, m < Len(comps), NEW p \in Path, p # NoPath,
           MeansSoFar(comps, m, p.names), SlashSoFar(comps, m, p),
           Component1(p, comps[m + 1]) # NoPath
    PROVE  /\ MeansSoFar(comps, m + 1, Component1(p, comps[m + 1]).names)
           /\ SlashSoFar(comps, m + 1, Component1(p, comps[m + 1]))
<1> DEFINE c == comps[m + 1]
        q == Component1(p, c)
<1>1. c \in Component
  OBVIOUS
<1>2. CASE c \in {Empty, Dot}
  <2>1. q = p
    BY <1>1, <1>2, Component1Is
  <2>2. MeansSoFar(comps, m + 1, p.names)
    BY <1>2, SkippedMeans
  <2>3. EndsUpTo(comps, m + 1) <=> EndsUpTo(comps, m)
    BY <1>2, EndsStep
  <2> QED BY <2>1, <2>2, <2>3 DEF SlashSoFar
<1>3. CASE c = Parent
  <2>1. q = Pop(p)
    BY <1>1, <1>3, Component1Is
  <2>2. MeansSoFar(comps, m + 1, IF p.names = <<>> THEN <<>> ELSE Front(p.names))
    BY <1>3, ParentMeans
  <2>3. EndsUpTo(comps, m + 1)
    BY <1>3, EndsStep
  <2>4. CASE p.names = <<>>
    <3>1. q = p /\ p.slash
      BY <2>1, <2>4 DEF Pop, SlashSoFar
    <3>2. MeansSoFar(comps, m + 1, p.names)
      BY <2>2, <2>4
    <3> QED BY <2>3, <3>1, <3>2 DEF SlashSoFar
  <2>5. CASE p.names # <<>>
    <3>1. q.names = Front(p.names) /\ q.slash
      BY <2>1, <2>5 DEF Pop
    <3>2. MeansSoFar(comps, m + 1, Front(p.names))
      BY <2>2, <2>5
    <3> QED BY <2>3, <3>1, <3>2 DEF SlashSoFar
  <2> QED BY <2>4, <2>5
<1>4. CASE c \in Names
  <2>1. q = [names |-> Append(p.names, c), slash |-> FALSE]
    BY <1>1, <1>4, Component1Is
  <2>2. MeansSoFar(comps, m + 1, Append(p.names, c))
    BY <1>4, NameMeans
  <2>3. ~EndsUpTo(comps, m + 1)
    BY <1>4, EndsStep
  <2>4. q.names = Append(p.names, c) /\ ~q.slash
    BY <2>1
  <2>5. Append(p.names, c) # <<>>
    <3> DEFINE s == p.names
               a == Append(s, c)
    <3>1. s \in Seq(Names)
      BY PathFields
    <3> HIDE DEF s
    <3>2. Len(a) # 0
      BY <1>4, <3>1
    <3> HIDE DEF a
    <3>3. a # <<>>
      BY <3>2
    <3> QED BY <3>3 DEF a, s
  <2> HIDE DEF q, c
  <2> QED BY <2>2, <2>3, <2>4, <2>5 DEF SlashSoFar, q, c
<1> QED BY <1>1, <1>2, <1>3, <1>4 DEF Component

\* What normalize returns is what the row means, unless a name did not fit.
LEMMA NormalizeMeans ==
    ASSUME NEW comps \in Seq(Component), Normalize(comps) # NoPath
    PROVE  LET r == Normalize(comps)
           IN  /\ Means(r.names, comps)
               /\ r.slash <=> r.names = <<>> \/ EndsInParent(comps)
<1> DEFINE n == Len(comps)
<1>1. PICK p : Follows(comps, p) /\ Normalize(comps) = p[n]
  BY NormalizeIs
<1>0. n \in Nat /\ n = Len(comps) /\ DOMAIN comps = 1 .. n /\ \A i \in 1 .. n : comps[i] \in Component
  OBVIOUS
<1>2. p \in [0 .. n -> Path] /\ p[0] = Root /\ \A i \in 1 .. n : p[i] = Component1(p[i - 1], comps[i])
  BY <1>1 DEF Follows
<1> HIDE DEF n
<1>3. \A i \in 0 .. n : p[i] # NoPath
  <2> DEFINE T == { i \in 0 .. n : p[n - i] # NoPath }
  <2>1. 0 \in T
    BY <1>0, <1>1
  <2>2. ASSUME NEW m \in 0 .. n - 1, m \in T PROVE m + 1 \in T
    <3>1. n - m \in 1 .. n /\ (n - m) - 1 = n - (m + 1) /\ m + 1 \in 0 .. n
      BY <1>0
    <3>2. p[n - m] = Component1(p[n - (m + 1)], comps[n - m]) /\ p[n - m] # NoPath
      BY <1>2, <2>2, <3>1
    <3>3. p[n - (m + 1)] # NoPath
      BY <3>2 DEF Component1
    <3> QED BY <3>1, <3>3
  <2> HIDE DEF T
  <2>3. \A m \in 0 .. n : m \in T
    BY <1>0, <2>1, <2>2, Counted
  <2>4. ASSUME NEW i \in 0 .. n PROVE p[i] # NoPath
    <3>1. n - i \in T /\ n - (n - i) = i
      BY <1>0, <2>3
    <3> QED BY <3>1 DEF T
  <2> QED BY <2>4
<1> DEFINE T == { i \in 0 .. n : MeansSoFar(comps, i, p[i].names) /\ SlashSoFar(comps, i, p[i]) }
<1>4. 0 \in T
  <2>1. Kept(comps, 0) = {}
    BY DEF Kept
  <2>2. <<>> \in Seq(Names) /\ Len(<<>>) = Cardinality({})
    BY EmptySeq, FS_EmptySet
  <2>3. MeansSoFar(comps, 0, <<>>)
    BY <2>1, <2>2 DEF MeansSoFar
  <2>4. p[0].names = <<>> /\ p[0].slash
    BY <1>2 DEF Root
  <2> QED BY <1>0, <2>3, <2>4 DEF SlashSoFar
<1>5. ASSUME NEW m \in 0 .. n - 1, m \in T PROVE m + 1 \in T
  <2>1. m + 1 \in 1 .. n /\ (m + 1) - 1 = m /\ m \in 0 .. n /\ m + 1 \in 0 .. n /\ m \in Nat /\ m < Len(comps)
    BY <1>0
  <2>2. p[m] \in Path /\ p[m] # NoPath /\ p[m + 1] # NoPath /\ p[m + 1] = Component1(p[m], comps[m + 1])
    BY <1>2, <1>3, <2>1
  <2>3. MeansSoFar(comps, m, p[m].names) /\ SlashSoFar(comps, m, p[m])
    BY <1>5
  <2> DEFINE q == Component1(p[m], comps[m + 1])
  <2>4. MeansSoFar(comps, m + 1, q.names) /\ SlashSoFar(comps, m + 1, q)
    BY <2>1, <2>2, <2>3, MeansStep
  <2> HIDE DEF q
  <2>5. p[m + 1] = q
    BY <2>2 DEF q
  <2> QED BY <2>1, <2>4, <2>5
<1> HIDE DEF T
<1>6. n \in T
  BY <1>0, <1>4, <1>5, Counted
<1>7. MeansSoFar(comps, n, p[n].names) /\ SlashSoFar(comps, n, p[n])
  BY <1>6 DEF T
<1>8. Kept(comps, n) = Survivors(comps) /\ (EndsUpTo(comps, n) <=> EndsInParent(comps))
  BY <1>0 DEF Kept, Survivors, EndsUpTo, EndsInParent
<1>9. Means(p[n].names, comps)
  BY <1>7, <1>8 DEF MeansSoFar, Means, Rank
<1>10. p[n].slash <=> p[n].names = <<>> \/ EndsInParent(comps)
  BY <1>7, <1>8 DEF SlashSoFar
<1> QED BY <1>1, <1>9, <1>10

\* A "." in a row changes nothing.
LEMMA DotIsSkipped ==
    ASSUME NEW s \in Seq(Component), NEW t \in Seq(Component), t # <<>>, t[1] = Dot
    PROVE  Normalize(s \o t) = Normalize(s \o Tail(t))
<1> DEFINE u == s \o t
        v == s \o Tail(t)
        k == Len(s)
        n == Len(t) - 1
<1>1. Tail(t) \in Seq(Component) /\ Len(Tail(t)) = Len(t) - 1 /\ Len(t) >= 1
      /\ \A i \in 1 .. Len(t) - 1 : Tail(t)[i] = t[i + 1]
  <2>1. Len(t) \in Nat /\ Len(t) # 0
    BY EmptySeq
  <2> QED BY <2>1
<1>2. /\ u \in Seq(Component) /\ Len(u) = k + n + 1 /\ v \in Seq(Component) /\ Len(v) = k + n
      /\ k \in Nat /\ n \in Nat
  BY <1>1
<1>3. /\ \A i \in 1 .. k : u[i] = v[i]
      /\ u[k + 1] = Dot
      /\ \A i \in 1 .. n : u[k + 1 + i] = v[k + i]
  <2>1. \A i \in 1 .. k : u[i] = s[i] /\ v[i] = s[i]
    BY <1>1
  <2>2. u[k + 1] = t[1]
    BY <1>1
  <2>3. ASSUME NEW i \in 1 .. n PROVE u[k + 1 + i] = v[k + i]
    <3>1. u[k + 1 + i] = t[i + 1]
      BY <1>1
    <3>2. v[k + i] = Tail(t)[i]
      BY <1>1
    <3>3. Tail(t)[i] = t[i + 1]
      BY <1>1
    <3> QED BY <3>1, <3>2, <3>3
  <2> QED BY <2>1, <2>2, <2>3
<1> HIDE DEF u, v, k, n
<1>4. PICK p : Follows(u, p) /\ Normalize(u) = p[Len(u)]
  BY <1>2, NormalizeIs
<1>5. PICK q : Follows(v, q) /\ Normalize(v) = q[Len(v)]
  BY <1>2, NormalizeIs
<1>6. /\ p[0] = Root /\ q[0] = Root
      /\ \A i \in 1 .. k + n + 1 : p[i] = Component1(p[i - 1], u[i])
      /\ \A i \in 1 .. k + n : q[i] = Component1(q[i - 1], v[i])
  BY <1>2, <1>4, <1>5 DEF Follows
<1> DEFINE A == { i \in 0 .. k : p[i] = q[i] }
<1>7. \A i \in 0 .. k : i \in A
  <2>1. 0 \in A
    BY <1>2, <1>6
  <2>2. ASSUME NEW m \in 0 .. k - 1, m \in A PROVE m + 1 \in A
    <3>1. m + 1 \in 1 .. k + n + 1 /\ m + 1 \in 1 .. k + n /\ m + 1 \in 1 .. k /\ (m + 1) - 1 = m /\ m + 1 \in 0 .. k
      BY <1>2
    <3>2. p[m + 1] = Component1(p[(m + 1) - 1], u[m + 1]) /\ q[m + 1] = Component1(q[(m + 1) - 1], v[m + 1])
      BY <1>6, <3>1
    <3> QED BY <1>3, <2>2, <3>1, <3>2
  <2> HIDE DEF A
  <2> QED BY <1>2, <2>1, <2>2, Counted
<1> DEFINE B == { i \in 0 .. n : p[k + 1 + i] = q[k + i] }
<1>8. \A i \in 0 .. n : i \in B
  <2>1. 0 \in B
    <3>1. k + 1 \in 1 .. k + n + 1 /\ (k + 1) - 1 = k /\ k + 1 + 0 = k + 1 /\ k + 0 = k /\ k \in 0 .. k /\ 0 \in 0 .. n
      BY <1>2
    <3>2. p[k + 1] = Component1(p[(k + 1) - 1], u[k + 1])
      BY <1>6, <3>1
    <3>3. p[k + 1] = p[k]
      BY <1>3, <3>1, <3>2 DEF Component1
    <3>4. p[k] = q[k]
      BY <1>7, <3>1
    <3> QED BY <3>1, <3>3, <3>4
  <2>2. ASSUME NEW m \in 0 .. n - 1, m \in B PROVE m + 1 \in B
    <3>1. /\ k + 1 + (m + 1) \in 1 .. k + n + 1 /\ (k + 1 + (m + 1)) - 1 = k + 1 + m
          /\ k + (m + 1) \in 1 .. k + n /\ (k + (m + 1)) - 1 = k + m /\ m + 1 \in 1 .. n /\ m + 1 \in 0 .. n
      BY <1>2
    <3>2. p[k + 1 + (m + 1)] = Component1(p[(k + 1 + (m + 1)) - 1], u[k + 1 + (m + 1)])
      BY <1>6, <3>1
    <3>3. q[k + (m + 1)] = Component1(q[(k + (m + 1)) - 1], v[k + (m + 1)])
      BY <1>6, <3>1
    <3>4. p[k + 1 + m] = q[k + m]
      BY <2>2
    <3>5. u[k + 1 + (m + 1)] = v[k + (m + 1)]
      BY <1>3, <3>1
    <3>6. p[k + 1 + (m + 1)] = q[k + (m + 1)]
      BY <3>1, <3>2, <3>3, <3>4, <3>5
    <3> QED BY <3>1, <3>6
  <2> HIDE DEF B
  <2> QED BY <1>2, <2>1, <2>2, Counted
<1>9. p[k + 1 + n] = q[k + n]
  <2>1. n \in B
    <3>1. n \in 0 .. n
      BY <1>2
    <3> HIDE DEF B
    <3> QED BY <1>8, <3>1
  <2> QED BY <2>1
<1>10. k + 1 + n = k + n + 1
  BY <1>2
<1> QED BY <1>2, <1>4, <1>5, <1>9, <1>10 DEF u, v

\* From every directory every path resolves to what its components mean, for
\* every buffer size and every text of a command line.
THEOREM PathsResolveToMeaning == PathSpec => []ResolvesToMeaning
<1>1. PathInv => ResolvesToMeaning
  <2> SUFFICES ASSUME PathInv, NEW t \in Inputs, Resolve(t, cwd) # NoPath
               PROVE  LET r == Resolve(t, cwd)
                      IN  /\ Means(r.names, Full(t))
                          /\ r.slash <=> r.names = <<>> \/ EndsInParent(Full(t))
    BY DEF ResolvesToMeaning
  <2>1. t.comps \in Seq(Component) /\ t.comps # <<>> /\ cwd.names \in Seq(Component)
    <3>1. cwd \in Path
      BY DEF PathInv, PathTypeOK
    <3>2. t.comps # <<>>
      BY InputsAssumption
    <3> QED BY <3>1, <3>2, StrippedIs, PathFields
  <2>2. Resolve(t, cwd) = Normalize(Full(t)) /\ Full(t) \in Seq(Component)
    <3>1. CASE t.abs
      BY <2>1, <3>1 DEF Full, Resolve
    <3>2. CASE ~t.abs
      <4>1. Full(t) = cwd.names \o t.comps
        BY <3>2 DEF Full
      <4>2. Full(t) \in Seq(Component)
        BY <2>1, <4>1, ConcatProperties
      <4>3. Resolve(t, cwd) = Normalize(cwd.names \o Stripped(t))
        BY <3>2 DEF Resolve, Joined
      <4>4. CASE Stripped(t) = t.comps
        BY <4>1, <4>2, <4>3, <4>4
      <4>5. CASE Stripped(t) # t.comps
        <5>1. t.comps[1] = Dot /\ Stripped(t) = Tail(t.comps)
          BY <4>5 DEF Stripped
        <5> DEFINE s == cwd.names
                   c == t.comps
        <5>2. s \in Seq(Component) /\ c \in Seq(Component) /\ c # <<>> /\ c[1] = Dot
          BY <2>1, <5>1
        <5> HIDE DEF s, c
        <5>3. Normalize(s \o c) = Normalize(s \o Tail(c))
          BY <5>2, DotIsSkipped
        <5> QED BY <4>1, <4>2, <4>3, <5>1, <5>3 DEF s, c
      <4> QED BY <4>4, <4>5
    <3> QED BY <3>1, <3>2
  <2> DEFINE comps == Full(t)
             r == Normalize(comps)
  <2>3. comps \in Seq(Component) /\ r # NoPath
    BY <2>2
  <2> HIDE DEF comps
  <2>4. Means(r.names, comps) /\ (r.slash <=> r.names = <<>> \/ EndsInParent(comps))
    BY <2>3, NormalizeMeans
  <2> HIDE DEF r
  <2>5. Resolve(t, cwd) = r
    BY <2>2 DEF r, comps
  <2> QED BY <2>4, <2>5 DEF comps
<1> QED BY <1>1, PathsFit, PTL

=============================================================================
