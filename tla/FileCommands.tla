---------------------------- MODULE FileCommands ----------------------------
(***************************************************************************)
(* The file commands: cp and mv (commands/file/copy.rs), and the loops of  *)
(* cat, rm, mkdir and touch over their operands (commands/file/edit.rs).   *)
(* mv tries rename and falls back to cp and unlink, cp copies through a    *)
(* buffer with reads and writes that may be short or fail.  One action     *)
(* stands for one system call and the code up to the next one.             *)
(*                                                                         *)
(* The kernel is outside the repository.  Any system call may fail; create *)
(* and mkdir refuse a name that exists (touch and mkdir rely on EEXIST),   *)
(* rename replaces what the new name held, read fails on a directory.      *)
(* Operands are already resolved, or too long to be.                       *)
(***************************************************************************)
EXTENDS Naturals, Sequences, SequencesExt

CONSTANTS
    Files,      \* resolved paths
    Contents,   \* what a file can hold when the shell starts
    BufSize,    \* units read at a time (512 bytes in the code)
    Absent,     \* what a name that does not exist holds
    Folder,     \* what a directory holds
    TooLong,    \* an operand for which path::resolve returns 0
    MaxOperands \* bound: operands of cat, rm, mkdir and touch

Units == UNION { ToSet(c) : c \in Contents }

ASSUME ContentsAssumption == Contents \subseteq Seq(Units) /\ {Absent, Folder} \cap Contents = {}
ASSUME BufSizeAssumption == BufSize \in Nat \ {0}
ASSUME OperandsAssumption == TooLong \notin Files /\ MaxOperands \in Nat

Operand == Files \cup {TooLong}
Loops == {"cat", "rm", "mkdir", "touch"}

VARIABLES
    fs,        \* file -> contents, Folder or Absent
    pc,        \* the system call the shell is at
    op,        \* the command
    todo,      \* operands of a loop that are still to come
    src, dst,  \* the operands of cp and mv; src: the file cat has open
    pos,       \* file offset of src_fd
    buf,       \* units read and not yet written
    open,      \* the descriptors the command holds: "src" to read, "dst" to write
    ok         \* copy_ok, the result of cmd_cp

vars == <<fs, pc, op, todo, src, dst, pos, buf, open, ok>>

Init ==
    /\ fs \in [Files -> Contents \cup {Absent, Folder}]
    /\ pc = "prompt"
    /\ op = "cp"
    /\ todo = <<>>
    /\ src \in Files /\ dst = src
    /\ pos = 0 /\ buf = <<>>
    /\ open = {}
    /\ ok = TRUE

Exists(f) == fs[f] # Absent
IsFile(f) == fs[f] \notin {Absent, Folder}

-----------------------------------------------------------------------------
\* Both operands may name the same file.
Start(o, s, d) ==
    /\ pc = "prompt"
    /\ op' = o /\ src' = s /\ dst' = d
    /\ pc' = IF o = "mv" THEN "rename" ELSE "opensrc"
    /\ pos' = 0 /\ buf' = <<>> /\ ok' = FALSE
    /\ UNCHANGED <<fs, todo, open>>

Renamed == [f \in Files |-> IF f = dst THEN fs[src] ELSE IF f = src THEN Absent ELSE fs[f]]

Rename ==
    /\ pc = "rename"
    /\ \/ /\ Exists(src)
          /\ fs' = Renamed
          /\ pc' = "prompt"
       \/ /\ pc' = "opensrc"
          /\ UNCHANGED fs
    /\ UNCHANGED <<op, todo, src, dst, pos, buf, open, ok>>

OpenSrc ==
    /\ pc = "opensrc"
    /\ \/ /\ Exists(src)
          /\ open' = open \cup {"src"}
          /\ pc' = "create"
       \/ /\ pc' = "prompt"
          /\ UNCHANGED open
    /\ UNCHANGED <<fs, op, todo, src, dst, pos, buf, ok>>

\* Mutant: the source is not closed when create fails.
Create_LeavesSource ==
    /\ pc = "create"
    /\ \/ /\ ~Exists(dst)
          /\ fs' = [fs EXCEPT ![dst] = <<>>]
          /\ open' = open \cup {"dst"}
          /\ pc' = "read"
       \/ /\ pc' = "prompt"
          /\ UNCHANGED <<fs, open>>
    /\ UNCHANGED <<op, todo, src, dst, pos, buf, ok>>

Create ==
    /\ pc = "create"
    /\ \/ /\ ~Exists(dst)
          /\ fs' = [fs EXCEPT ![dst] = <<>>]
          /\ open' = open \cup {"dst"}
          /\ pc' = "read"
       \/ /\ pc' = "prompt"
          /\ open' = open \ {"src"}
          /\ UNCHANGED fs
    /\ UNCHANGED <<op, todo, src, dst, pos, buf, ok>>

\* read_fd returns 1 .. BufSize units, 0 at the end, or an error.
Read ==
    /\ pc = "read"
    /\ \/ \E n \in 1 .. BufSize :
            /\ IsFile(src) /\ pos + n <= Len(fs[src])
            /\ buf' = SubSeq(fs[src], pos + 1, pos + n)
            /\ pos' = pos + n
            /\ pc' = "write"
            /\ UNCHANGED ok
       \/ /\ IsFile(src) /\ pos = Len(fs[src])
          /\ ok' = TRUE
          /\ pc' = "close"
          /\ UNCHANGED <<pos, buf>>
       \/ /\ ok' = FALSE
          /\ pc' = "close"
          /\ UNCHANGED <<pos, buf>>
    /\ UNCHANGED <<fs, op, todo, src, dst, open>>

\* Mutant: after a short write the rest of the buffer is forgotten.
Write_ShortIsAll ==
    /\ pc = "write"
    /\ \/ \E w \in 1 .. Len(buf) :
            /\ fs' = [fs EXCEPT ![dst] = @ \o SubSeq(buf, 1, w)]
            /\ buf' = <<>>
            /\ pc' = "read"
            /\ UNCHANGED ok
       \/ /\ ok' = FALSE
          /\ pc' = "close"
          /\ UNCHANGED <<fs, buf>>
    /\ UNCHANGED <<op, todo, src, dst, pos, open>>

\* write_fd takes some of what is left; 0 counts as an error.
Write ==
    /\ pc = "write"
    /\ \/ \E w \in 1 .. Len(buf) :
            /\ fs' = [fs EXCEPT ![dst] = @ \o SubSeq(buf, 1, w)]
            /\ buf' = SubSeq(buf, w + 1, Len(buf))
            /\ pc' = IF w = Len(buf) THEN "read" ELSE "write"
            /\ UNCHANGED ok
       \/ /\ ok' = FALSE
          /\ pc' = "close"
          /\ UNCHANGED <<fs, buf>>
    /\ UNCHANGED <<op, todo, src, dst, pos, open>>

\* Mutant: mv removes its source whatever cp reports.
CloseBoth_IgnoresResult ==
    /\ pc = "close"
    /\ open' = {}
    /\ pc' = IF op = "mv" THEN "unlink" ELSE "prompt"
    /\ UNCHANGED <<fs, op, todo, src, dst, pos, buf, ok>>

\* Both descriptors are closed, whatever the copy came to.
CloseBoth ==
    /\ pc = "close"
    /\ open' = {}
    /\ pc' = IF op = "mv" /\ ok THEN "unlink" ELSE "prompt"
    /\ UNCHANGED <<fs, op, todo, src, dst, pos, buf, ok>>

Unlink ==
    /\ pc = "unlink"
    /\ fs' \in {[fs EXCEPT ![src] = Absent], fs}
    /\ pc' = "prompt"
    /\ UNCHANGED <<op, todo, src, dst, pos, buf, open, ok>>

-----------------------------------------------------------------------------
(* cat, rm, mkdir, touch: one operand after the other, whatever becomes of *)
(* the one before                                                          *)

StartLoop(o, operands) ==
    /\ pc = "prompt"
    /\ operands # <<>>
    /\ op' = o /\ todo' = operands
    /\ pc' = "next"
    /\ pos' = 0 /\ buf' = <<>> /\ ok' = FALSE
    /\ UNCHANGED <<fs, src, dst, open>>

At(o) == pc = "next" /\ op = o /\ todo # <<>> /\ Head(todo) # TooLong

SkipTooLong ==
    /\ pc = "next"
    /\ todo # <<>> /\ Head(todo) = TooLong
    /\ todo' = Tail(todo)
    /\ UNCHANGED <<fs, pc, op, src, dst, pos, buf, open, ok>>

EndLoop ==
    /\ pc = "next"
    /\ todo = <<>>
    /\ pc' = "prompt"
    /\ UNCHANGED <<fs, op, todo, src, dst, pos, buf, open, ok>>

RemoveFile ==
    /\ At("rm")
    /\ fs' \in {[fs EXCEPT ![Head(todo)] = Absent], fs}
    /\ todo' = Tail(todo)
    /\ UNCHANGED <<pc, op, src, dst, pos, buf, open, ok>>

MakeDir ==
    /\ At("mkdir")
    /\ \/ ~Exists(Head(todo)) /\ fs' = [fs EXCEPT ![Head(todo)] = Folder]
       \/ UNCHANGED fs
    /\ todo' = Tail(todo)
    /\ UNCHANGED <<pc, op, src, dst, pos, buf, open, ok>>

\* create, which may fail: that the file exists is no error.
Touch ==
    /\ At("touch")
    /\ \/ /\ ~Exists(Head(todo))
          /\ fs' = [fs EXCEPT ![Head(todo)] = <<>>]
          /\ open' = {"dst"}
          /\ pc' = "touched"
       \/ UNCHANGED <<fs, open, pc>>
    /\ todo' = Tail(todo)
    /\ UNCHANGED <<op, src, dst, pos, buf, ok>>

CatOpen ==
    /\ At("cat")
    /\ \/ /\ Exists(Head(todo))
          /\ src' = Head(todo)
          /\ open' = {"src"}
          /\ pc' = "cat"
       \/ UNCHANGED <<src, open, pc>>
    /\ todo' = Tail(todo)
    /\ pos' = 0
    /\ UNCHANGED <<fs, op, dst, buf, ok>>

\* What is read is printed; the end and an error are alike.
CatRead ==
    /\ pc = "cat"
    /\ \/ /\ IsFile(src)
          /\ \E n \in 1 .. BufSize : pos + n <= Len(fs[src]) /\ pos' = pos + n
          /\ UNCHANGED pc
       \/ pc' = "shown" /\ UNCHANGED pos
    /\ UNCHANGED <<fs, op, todo, src, dst, buf, open, ok>>

\* The close that follows a successful touch or a cat.
CloseOne ==
    /\ pc \in {"touched", "shown"}
    /\ open' = {}
    /\ pc' = "next"
    /\ UNCHANGED <<fs, op, todo, src, dst, pos, buf, ok>>

-----------------------------------------------------------------------------
CopyOrMove == Rename \/ OpenSrc \/ Create \/ Read \/ Write \/ CloseBoth \/ Unlink

Loop == SkipTooLong \/ EndLoop \/ RemoveFile \/ MakeDir \/ Touch \/ CatOpen \/ CatRead \/ CloseOne

User ==
    \/ \E o \in {"cp", "mv"}, s, d \in Files : Start(o, s, d)
    \/ \E o \in Loops, operands \in BoundedSeq(Operand, MaxOperands) : StartLoop(o, operands)

Next == User \/ CopyOrMove \/ Loop

Spec == Init /\ [][Next]_vars

-----------------------------------------------------------------------------
(* Properties                                                              *)

\* The type of every variable; src_fd is never read past the end.
TypeOK ==
    /\ fs \in [Files -> Seq(Units) \cup {Absent, Folder}]
    /\ pc \in {"prompt", "rename", "opensrc", "create", "read", "write",
               "close", "unlink", "next", "touched", "cat", "shown"}
    /\ op \in {"cp", "mv"} \cup Loops
    /\ todo \in Seq(Operand)
    /\ src \in Files /\ dst \in Files
    /\ pos \in Nat /\ (pc \in {"read", "write"} /\ IsFile(src) => pos <= Len(fs[src]))
    /\ buf \in Seq(Units) /\ Len(buf) <= BufSize
    /\ open \subseteq {"src", "dst"}
    /\ ok \in BOOLEAN

\* At every moment of a copy, the destination and the unwritten rest of the
\* buffer are the part of the source read so far: no unit is lost, repeated
\* or written out of order by short reads and short writes.
CopyInOrder ==
    pc \in {"read", "write"} =>
        fs[dst] \o buf = IF IsFile(src) THEN SubSeq(fs[src], 1, pos) ELSE <<>>

\* No file is lost: other than by a rename or as the destination being
\* written, a file changes only when rm names it or mv removes its source,
\* and then the destination of mv is another file with the very same
\* contents.  So touch, mkdir and cat leave alone what exists.  Holds at
\* every step, hence also if the shell is killed between two of them, and
\* however many failed attempts have left partial copies behind.
NothingLost ==
    [][\A f \in Files : Exists(f) /\ fs'[f] # fs[f] =>
          \/ pc = "rename" /\ f \in {src, dst}
          \/ pc = "write" /\ f = dst
          \/ pc = "next" /\ op = "rm" /\ f = Head(todo)
          \/ pc = "unlink" /\ f = src /\ dst # src /\ fs[dst] = fs[src]]_vars

\* At the prompt, and between two operands, no descriptor is open, on any
\* error path.
NoDescriptorLeft ==
    /\ pc \in {"prompt", "unlink", "rename", "opensrc", "next"} => open = {}
    /\ pc \in {"read", "write", "close"} => open = {"src", "dst"}
=============================================================================
