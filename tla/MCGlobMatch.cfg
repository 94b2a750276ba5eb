\* Patterns of up to four pieces on names of up to three characters.
CONSTANTS
    Patterns <- PiecePatterns
    FileNames <- ShortNames
SPECIFICATION GlobFairSpec
INVARIANTS
    ResultIsMeaning
PROPERTIES
    Terminates
\* The loop ends.
CHECK_DEADLOCK FALSE
