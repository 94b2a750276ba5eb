\* A buffer of 16 bytes: directories up to seven names deep, and inputs that
\* fit exactly, by one byte too many, or climb past the root.
CONSTANTS
    Names = {"a", "bb"}
    NameLen <- Lengths
    PathMax = 16
    Inputs <- ThreeComponents
SPECIFICATION PathSpec
INVARIANTS
    ResolvesToMeaning
    TooLongOnlyWhenJoinedIs
