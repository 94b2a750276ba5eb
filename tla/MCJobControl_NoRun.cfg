\* Every command but run: four pids, a table of two, three job ids.
CONSTANTS
    Pids = {p1, p2, p3, p4}
    JobMax = 2
    MaxSegments = 2
    MaxIds = 3
    MayStop = TRUE
    Ops <- NoRunOps
SYMMETRY Symmetry
SPECIFICATION Spec
INVARIANTS
    TypeOK
    IdsAscending
    TracksChildren
    ForegroundOwned
PROPERTIES
    JobLeavesWithItsProcess
    ImplementsBackgroundJobs
CHECK_DEADLOCK FALSE
