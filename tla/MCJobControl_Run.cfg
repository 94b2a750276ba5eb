\* run beside a background job.
CONSTANTS
    Pids = {p1, p2}
    JobMax = 1
    MaxSegments = 1
    MaxIds = 1
    MayStop = FALSE
    Ops <- RunOps
SPECIFICATION FairSpec
PROPERTIES
    RunWaitsForItsChild
