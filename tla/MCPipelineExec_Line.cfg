\* One line of up to three segments of every kind, two builtin lines in a
\* row, and four that use up the descriptors.
CONSTANTS
    MaxSegments = 3
    MaxArgs = 2
    Kids = {1, 2, 3, 4}
    Pipes = {1, 2}
    NumFds = 9
    PipeCap = 1
    MaxOut = 1
    Sessions <- SomeSessions
SPECIFICATION FairSpec
INVARIANTS
    ParsedAsTyped
    ShellKeepsTerminal
    ClosesOwnPipeEnds
    Wired
    StagesHoldBothEnds
    LeftOpenByFirstLine
PROPERTIES
    BuiltinsReturn
\* The session ends, and a piped filter waits for ever.
CHECK_DEADLOCK FALSE
