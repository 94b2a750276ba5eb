\* Scans of three entries, lines of three tokens, four arguments, any
\* number of lines.
CONSTANTS
    Trees <- SomeTrees
    Lines <- SomeLines
    Matches <- TheMatches
    Options = {"-l"}
    Empty = "e"
    None = None
    ScanMax = 3
    MaxTokens = 3
    MaxArgs = 4
SPECIFICATION Spec
INVARIANTS
    PositionsBetweenCommands
    ArgsAreExpansions
PROPERTIES
    ListsWhole
    CommandsReturn
