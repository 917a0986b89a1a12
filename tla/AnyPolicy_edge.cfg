SPECIFICATION FairSpec
CONSTANTS
    Procs = {1}
    NumCores = 1
    CsCost = 0
    MaxSegments = 5
    MaxTime = 5
    InitialCap = 2
    MayRunOutOfMemory = FALSE
    None = None
    Workloads <- EdgeWorkloads
    PreemptOnReady = FALSE
    Ewma = FALSE
    AlphaNum = 1
    AlphaDen = 2
    Tau0 = 8
    Preemptive = FALSE
    WorkConserving = TRUE
    SliceLengths = {}
    DeadlineGaps = {}
INVARIANT
    AssertionsHold
