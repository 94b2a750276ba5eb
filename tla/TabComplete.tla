---------------------------- MODULE TabComplete ----------------------------
(***************************************************************************)
(* tab_complete (features/service/mod.rs): what the line and its cursor    *)
(* become, given the names a directory scan returned.  A name is shorter   *)
(* than 64 bytes here, the length it is cut to.                            *)
(***************************************************************************)
EXTENDS Naturals, Sequences, SequencesExt, FiniteSetsExt

CONSTANTS
    Blank, Slash,   \* characters with a meaning
    Builtins        \* BUILTINS, a sequence of names

LastAt(s, c) == Max({0} \cup { i \in DOMAIN s : s[i] = c })

\* tok: from the last blank before the cursor to the cursor.
WordBefore(line, cursor) ==
    LET before == SubSeq(line, 1, cursor) IN SubSeq(before, LastAt(before, Blank) + 1, cursor)

IsFirstWord(line, start) == \A i \in 1 .. start : line[i] = Blank

\* split_dir_and_prefix
FilePrefix(tok) == SubSeq(tok, LastAt(tok, Slash) + 1, Len(tok))

\* Where in names the ones that begin with part are.
Fitting(names, part) == { i \in DOMAIN names : IsPrefix(part, names[i]) }

\* Mutant: every entry of the directory counts as a match.
Matching_All(line, cursor, entries) ==
    LET tok == WordBefore(line, cursor)
        builtins == IF IsFirstWord(line, cursor - Len(tok)) THEN Fitting(Builtins, tok) ELSE {}
    IN  { <<i, Builtins[i]>> : i \in builtins }
        \cup { <<i + Len(Builtins), entries[i]>> : i \in DOMAIN entries }

\* Builtins in the first word, and entries that begin like the word's last
\* name; a match is its place in the list of matches, and a name.
Matching(line, cursor, entries) ==
    LET tok == WordBefore(line, cursor)
        builtins == IF IsFirstWord(line, cursor - Len(tok)) THEN Fitting(Builtins, tok) ELSE {}
    IN  { <<i, Builtins[i]>> : i \in builtins }
        \cup { <<i + Len(Builtins), entries[i]>> : i \in Fitting(entries, FilePrefix(tok)) }

\* The word is replaced by the only match and a blank, or by what all
\* matches have in common if that is longer than the word.
Completed(line, cursor, entries) ==
    LET matches == Matching(line, cursor, entries)
        names == { m[2] : m \in matches }
        tok == WordBefore(line, cursor)
        start == cursor - Len(tok)
        common == LongestCommonPrefix(names)
        With(new, printed) ==
            [text |-> SubSeq(line, 1, start) \o new \o SubSeq(line, cursor + 1, Len(line)),
             cursor |-> start + Len(new),
             printed |-> printed]
    IN  IF matches = {} THEN With(tok, FALSE)
        ELSE IF \E m \in matches : matches = {m}
        THEN With(Append(CHOOSE n \in names : TRUE, Blank), FALSE)
        ELSE With(IF Len(common) > Len(tok) THEN common ELSE tok, TRUE)
=============================================================================
