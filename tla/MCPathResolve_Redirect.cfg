\* Redirections among the commands.
CONSTANTS
    Names = {"a", "bb"}
    NameLen <- Lengths
    PathMax = 6
    Inputs <- ThreeComponents
SPECIFICATION PathSpec
INVARIANTS
    KernelPathsAbsolute
