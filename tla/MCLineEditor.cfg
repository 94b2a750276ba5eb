\* A buffer of four bytes, a prompt of two, any number of lines.
CONSTANTS
    Blank = " "
    Slash = "/"
    Builtins <- SomeBuiltins
    Prompt <- ThePrompt
    LineMax = 4
    Chars <- SomeChars
    Recallable <- Lines
    Scans <- SomeScans
    KeyRuns <- SomeRuns
SPECIFICATION Spec
INVARIANTS
    TypeOK
    ScreenShowsLine
    ArrowsDoNotType
PROPERTIES
    ImplementsTextBuffer
\* ^D on an empty line and a failing read end the shell.
CHECK_DEADLOCK FALSE
