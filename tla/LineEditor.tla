----------------------------- MODULE LineEditor -----------------------------
(***************************************************************************)
(* raw_mode_repl (repl/raw.rs): the line being edited, the bytes of the    *)
(* last read, and the row of the terminal the line is shown on.  One       *)
(* action handles one key of the read buffer; Read fills it.               *)
(*                                                                         *)
(* The terminal is outside the repository: it puts characters at its       *)
(* column, moves left and right by ESC[D and ESC[C, and is wide enough for *)
(* the prompt and a full line.  What an arrow brings from the history, and *)
(* what a directory scan finds, is left open here; History and DirScan     *)
(* say which.  A line handed over is evaluated and edited no further.      *)
(***************************************************************************)
EXTENDS TabComplete, Integers

CONSTANTS
    Prompt,     \* PROMPT, a sequence of characters
    LineMax,    \* LINE_MAX (256)
    Chars,      \* printable characters
    Recallable, \* what nav_up and nav_down may return
    Scans,      \* what scan_dir_entries may return
    KeyRuns     \* bound: the keys that one read may add to what was left

Nul == "nul"  Esc == "esc"  Bracket == "["  Del == "del"  Tab == "tab"
Ret == "ret"  CtrlC == "^C"  CtrlD == "^D"

Arrow(letter) == <<Esc, Bracket, letter>>

ASSUME LineMaxAssumption == LineMax \in Nat /\ LineMax > 1
ASSUME CharsAssumption ==
    /\ {Blank, Slash, Bracket, "A", "B", "C", "D"} \subseteq Chars
    /\ {Nul, Esc, Del, Tab, Ret, CtrlC, CtrlD} \cap Chars = {}
    /\ Blank # Bracket
\* What a key sends: an escape sequence, or a byte.
Keys == { Arrow(a) : a \in {"A", "B", "C", "D"} }
        \cup { <<b>> : b \in Chars \cup {Del, Tab, Ret, CtrlC, CtrlD} }

ASSUME KeysAssumption == \A run \in KeyRuns : run \in Seq(Keys)
\* Lines and names consist of printable characters; no builtin has a slash.
ASSUME LinesAssumption ==
    /\ Prompt \in Seq(ToSet(Prompt)) /\ \A l \in Recallable : l \in Seq(Chars)
    /\ \A names \in Scans : names \in Seq(Seq(Chars))
    /\ Builtins \in Seq(Seq(Chars \ {Slash}))

VARIABLES
    line,       \* line: index -> character, with old ones from lineLen on
    lineLen,    \* line_len
    cursor,     \* cursor
    rx,         \* rx_buf[i .. n - 1]: bytes read and not yet handled
    rest,       \* what a read has cut off the last key
    torn,       \* whether a read has cut a key of this line
    term,       \* the terminal: column, and column -> character
    alive       \* FALSE once the shell has exited

editVars == <<line, lineLen, cursor>>
vars == <<line, lineLen, cursor, rx, rest, torn, term, alive>>

Text == [i \in 1 .. lineLen |-> line[i - 1]]

\* Only the first cells are written: line[..cn].copy_from_slice(text).
Overwritten(text) == [i \in DOMAIN line |-> IF i < Len(text) THEN text[i + 1] ELSE line[i]]

-----------------------------------------------------------------------------
(* The terminal                                                            *)

Width == Len(Prompt) + LineMax

Fresh == [col |-> 0, row |-> [c \in 0 .. Width - 1 |-> Nul]]

\* write(1, ..) of printable characters, and of ESC[D n times.
Put(t, s) ==
    [col |-> t.col + Len(s),
     row |-> [c \in DOMAIN t.row |->
                 IF c \in t.col .. t.col + Len(s) - 1 THEN s[c - t.col + 1] ELSE t.row[c]]]
Back(t, n) == [t EXCEPT !.col = IF n < @ THEN @ - n ELSE 0]
Return(t) == [t EXCEPT !.col = 0]

\* clear_line: as many blanks as the line has bytes, from the left margin.
ClearLine(t) == Return(Put(Return(t), [i \in 1 .. lineLen |-> Blank]))

-----------------------------------------------------------------------------
Init ==
    /\ line = [i \in 0 .. LineMax - 1 |-> Nul] /\ lineLen = 0 /\ cursor = 0
    /\ rx = <<>> /\ rest = <<>> /\ torn = FALSE
    /\ term = Put(Fresh, Prompt)
    /\ alive = TRUE

\* A read returns what has arrived, which may end inside an arrow key; the
\* guard on torn is a bound: one key of a line is cut.
Read == \E run \in KeyRuns :
    LET bytes == rest \o FlattenSeq(run)
        last  == IF run = <<>> THEN Len(rest) ELSE Len(run[Len(run)])
    IN  /\ alive /\ rx = <<>>
        /\ \E n \in Len(bytes) - last + 1 .. Len(bytes) :
              /\ n > 0 /\ (torn => n = Len(bytes))
              /\ rx' = SubSeq(bytes, 1, n)
              /\ rest' = SubSeq(bytes, n + 1, Len(bytes))
              /\ torn' = (torn \/ n < Len(bytes))
        /\ UNCHANGED <<editVars, term, alive>>

ReadError ==
    /\ alive /\ rx = <<>>
    /\ alive' = FALSE
    /\ UNCHANGED <<editVars, rx, rest, torn, term>>

\* Mutant: an arrow needs a byte after it in the same read.
IsArrow_NeedsOneMore(letter) ==
    Len(rx) > 3 /\ SubSeq(rx, 1, 3) = Arrow(letter)

\* An escape sequence is recognised only whole: i + 2 < n.
IsArrow(letter) == Len(rx) > 2 /\ SubSeq(rx, 1, 3) = Arrow(letter)

Eaten(n) ==
    /\ rx' = SubSeq(rx, n + 1, Len(rx))
    /\ UNCHANGED <<rest, torn, alive>>

\* The line becomes text and is printed after drawing t; what was longer
\* than it stays in the buffer.
Replace(text, at, t) ==
    /\ line' = Overwritten(text) /\ lineLen' = Len(text) /\ cursor' = at
    /\ term' = Back(Put(t, text), Len(text) - at)

Up ==
    /\ IsArrow("A")
    /\ \/ \E entry \in Recallable :
            LET text == SubSeq(entry, 1, Min({Len(entry), LineMax - 1}))
            IN  Replace(text, Len(text), ClearLine(term))
       \/ UNCHANGED <<editVars, term>>
    /\ Eaten(3)

\* Past the newest line, the line becomes empty: only its length is set.
Down ==
    /\ IsArrow("B")
    /\ \E entry \in Recallable \cup {<<>>} :
          LET text == SubSeq(entry, 1, Min({Len(entry), LineMax - 1}))
          IN  Replace(text, Len(text), ClearLine(term))
    /\ Eaten(3)

Right ==
    /\ IsArrow("C")
    /\ cursor' = Min({cursor + 1, lineLen})
    /\ term' = [term EXCEPT !.col = @ + (cursor' - cursor)]
    /\ Eaten(3)
    /\ UNCHANGED <<line, lineLen>>

Left ==
    /\ IsArrow("D")
    /\ cursor' = Max({cursor - 1, 0})
    /\ term' = Back(term, cursor - cursor')
    /\ Eaten(3)
    /\ UNCHANGED <<line, lineLen>>

\* Only the escape byte is skipped; what follows it is handled as typed.
SkipEscape ==
    /\ rx # <<>> /\ rx[1] = Esc
    /\ \A a \in {"A", "B", "C", "D"} : ~IsArrow(a)
    /\ Eaten(1)
    /\ UNCHANGED <<editVars, term>>

\* The end of the line loop: a 0 is written behind the line, which is
\* evaluated; the rest of the read is lost, and the next line begins in the
\* same buffer.
HandOver ==
    /\ line' = [line EXCEPT ![lineLen] = Nul] /\ lineLen' = 0 /\ cursor' = 0
    /\ rx' = <<>>
    /\ torn' = (rest # <<>>)
    /\ term' = Put(Fresh, Prompt)
    /\ UNCHANGED <<rest, alive>>

Enter == rx # <<>> /\ rx[1] = Ret /\ HandOver

\* ^C ends the line loop like Enter: what was typed is evaluated.
Interrupt == rx # <<>> /\ rx[1] = CtrlC /\ HandOver

\* Mutant: the character that followed the line on the screen stays.
Backspace_NoBlank ==
    /\ rx # <<>> /\ rx[1] = Del
    /\ IF cursor = 0 THEN UNCHANGED <<editVars, term>>
       ELSE /\ line' = [i \in DOMAIN line |->
                           IF i \in cursor - 1 .. lineLen - 1 THEN line[i + 1] ELSE line[i]]
            /\ lineLen' = lineLen - 1
            /\ cursor' = cursor - 1
            /\ term' = Back(Put(Back(term, 1), SubSeq(Text, cursor + 1, lineLen)),
                            lineLen' - cursor')
    /\ Eaten(1)

\* The cells from the cursor on move down, and with them the cell behind
\* the line, which is why a line never fills the buffer.
Backspace ==
    /\ rx # <<>> /\ rx[1] = Del
    /\ IF cursor = 0 THEN UNCHANGED <<editVars, term>>
       ELSE /\ line' = [i \in DOMAIN line |->
                           IF i \in cursor - 1 .. lineLen - 1 THEN line[i + 1] ELSE line[i]]
            /\ lineLen' = lineLen - 1
            /\ cursor' = cursor - 1
            /\ term' = Back(Put(Back(term, 1), SubSeq(Text, cursor + 1, lineLen) \o <<Blank>>),
                            lineLen' - cursor' + 1)
    /\ Eaten(1)

\* Several matches are printed below, and the prompt again.
Complete ==
    /\ rx # <<>> /\ rx[1] = Tab
    /\ \E entries \in Scans :
          LET result == Completed(Text, cursor, entries)
              text   == SubSeq(result.text, 1, Min({Len(result.text), LineMax - 1}))
          IN  Replace(text, Min({result.cursor, Len(text)}),
                      IF result.printed THEN Put(ClearLine(Fresh), Prompt) ELSE ClearLine(term))
    /\ Eaten(1)

\* ^D
Exit ==
    /\ rx # <<>> /\ rx[1] = CtrlD
    /\ alive' = (lineLen > 0)
    /\ rx' = Tail(rx)
    /\ UNCHANGED <<editVars, rest, torn, term>>

\* Mutant: a line may fill its buffer to the last byte.
Type_FillsBuffer ==
    /\ rx # <<>> /\ rx[1] \in Chars
    /\ IF lineLen >= LineMax THEN UNCHANGED <<editVars, term>>
       ELSE /\ line' = [i \in DOMAIN line |->
                           IF i = cursor THEN rx[1]
                           ELSE IF i \in cursor + 1 .. lineLen THEN line[i - 1] ELSE line[i]]
            /\ lineLen' = lineLen + 1
            /\ cursor' = cursor + 1
            /\ term' = Back(Put(term, <<rx[1]>> \o SubSeq(Text, cursor + 1, lineLen)),
                            lineLen' - cursor')
    /\ Eaten(1)

Type ==
    /\ rx # <<>> /\ rx[1] \in Chars
    /\ IF lineLen >= LineMax - 1 THEN UNCHANGED <<editVars, term>>
       ELSE /\ line' = [i \in DOMAIN line |->
                           IF i = cursor THEN rx[1]
                           ELSE IF i \in cursor + 1 .. lineLen THEN line[i - 1] ELSE line[i]]
            /\ lineLen' = lineLen + 1
            /\ cursor' = cursor + 1
            /\ term' = Back(Put(term, <<rx[1]>> \o SubSeq(Text, cursor + 1, lineLen)),
                            lineLen' - cursor')
    /\ Eaten(1)

Handle ==
    /\ alive
    /\ \/ Up \/ Down \/ Right \/ Left \/ SkipEscape
       \/ Enter \/ Interrupt \/ Backspace \/ Complete \/ Exit \/ Type

Next == Read \/ ReadError \/ Handle

Spec == Init /\ [][Next]_vars

-----------------------------------------------------------------------------
(* Properties                                                              *)

\* The type of every variable.  A line consists of printable characters,
\* whatever is left behind it, and leaves the last byte of its buffer free,
\* for the cell that Backspace reads behind it and for the 0 written before
\* it is evaluated.
TypeOK ==
    /\ line \in [0 .. LineMax - 1 -> Chars \cup {Nul}]
    /\ lineLen \in 0 .. LineMax - 1 /\ cursor \in 0 .. lineLen
    /\ Text \in Seq(Chars)
    /\ rx \in Seq(Chars \cup {Esc, Del, Tab, Ret, CtrlC, CtrlD})
    /\ rest \in {<<>>} \cup { <<Bracket, a>> : a \in {"A", "B", "C", "D"} }
                \cup { <<a>> : a \in {"A", "B", "C", "D"} }
    /\ torn \in BOOLEAN /\ alive \in BOOLEAN
    /\ term.col \in 0 .. Width - 1

\* What the screen shows is the line that will be run.  The line stands
\* after the prompt, or, once an arrow or Tab has erased that, at the left
\* margin; the terminal's cursor is at the editor's; and behind the line
\* there is nothing, or after an erased prompt what clear_line misses, no
\* more cells than the prompt has.
Shown(c) == term.row[c] \notin {Nul, Blank}
Behind(margin) == { c \in margin + lineLen .. Width - 1 : Shown(c) }
ScreenShowsLine ==
    \E margin \in {0, Len(Prompt)} :
        /\ term.col = margin + cursor
        /\ \A i \in 1 .. lineLen : term.row[margin + i - 1] = Text[i]
        /\ Cardinality(Behind(margin)) <= IF margin = 0 THEN Len(Prompt) ELSE 0

\* As long as no read ends inside an arrow key, no byte of one gets into
\* the line, whatever keys arrive in one read and however the rest of a
\* read is dropped at Enter.
ArrowsDoNotType == ~torn => \A i \in 1 .. lineLen : Text[i] # Bracket

\* The array, its shifts and its limits implement a text with a cursor:
\* each step of the editor is one of TextBuffer or leaves the text alone.
Buffer == INSTANCE TextBuffer WITH
    before <- SubSeq(Text, 1, cursor),
    after  <- SubSeq(Text, cursor + 1, lineLen),
    MaxLen <- LineMax - 1,
    Known  <- ToSet(Builtins) \cup UNION { ToSet(s) : s \in Scans }
ImplementsTextBuffer == Buffer!Spec
=============================================================================
