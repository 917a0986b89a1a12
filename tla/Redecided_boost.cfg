SPECIFICATION Spec
CONSTANTS
    Procs = {1, 2, 3}
    NumCores = 1
    CsCost = 2
    MaxSegments = 30
    MaxTime = 120
    InitialCap = 2
    MayRunOutOfMemory = FALSE
    None = None
    Workloads <- BoostWorkloads
    PreemptOnReady = TRUE
    Ewma = FALSE
    AlphaNum = 1
    AlphaDen = 2
    Tau0 = 4
    WorkloadsOf <- MlfqWorkloads
    NumLevels = 3
    Quanta <- MCQuanta
    Allotments <- MCAllotments
    Boost = 7
    Aging = 2
    PriorityLimit = 120
INVARIANTS
    MovesDownAfterAllotment
