\* Every command, no stopped children: liveness, hence no symmetry.
CONSTANTS
    Pids = {p1, p2, p3}
    JobMax = 2
    MaxSegments = 2
    MaxIds = 2
    MayStop = FALSE
    Ops <- OpKinds
SPECIFICATION FairSpec
PROPERTIES
    RunAloneWaits
    ZombiesCollected
    PromptReturns
