SPECIFICATION FairSpec
CONSTANTS
    Procs = {1, 2}
    NumCores = 1
    CsCost = 4
    MaxSegments = 5
    MaxTime = 27
    InitialCap = 2
    MayRunOutOfMemory = TRUE
    None = None
    Workloads <- LimitWorkloads
    PreemptOnReady = TRUE
    Ewma = FALSE
    AlphaNum = 1
    AlphaDen = 2
    Tau0 = 8
    Preemptive = TRUE
    WorkConserving = TRUE
    SliceLengths = {1, 4, 11}
    DeadlineGaps = {1}
INVARIANTS
    SegmentsLimited
    OverflowUnreachable
