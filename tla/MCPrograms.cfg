\* Four names for three entries of the environment, one too long and one
\* that it is cut to; three levels of scripts; four arguments; any number
\* of commands.
CONSTANTS
    home = home
    path = path
    cut = cut
    long = long
    v = v
    bin = bin
    none = none
    noInterp = noInterp
    noDir = noDir
    Names = {home, path, cut, long}
    LongNames = {long}
    CutName = cut
    Values = {v, bin}
    EnvMax = 3
    NotSet = none
    Home = home
    Path = path
    HomeDir = v
    Bin = bin
    PathDirs <- ThePathDirs
    Cwd = "cwd"
    NoDir = noDir
    Files <- TheFiles
    Osh <- TheOsh
    NoInterp = noInterp
    ScriptDepthMax = 3
    MaxArgs = 4
    Commands <- SomeCommands
SPECIFICATION ProgSpec
INVARIANTS
    KeysUnique
    DepthIsNesting
    StartedAsAsked
PROPERTIES
    ImplementsVariableMap
    ScriptsMeanTheirLines
    ScriptsEnd
\* The shell may exit or be replaced.
CHECK_DEADLOCK FALSE
