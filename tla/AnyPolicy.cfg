SPECIFICATION FairSpec
CONSTANTS
    Procs = {1, 2, 3}
    NumCores = 2
    CsCost = 2
    MaxSegments = 20
    MaxTime = 60
    InitialCap = 2
    MayRunOutOfMemory = FALSE
    None = None
    Workloads <- IoWorkloads
    PreemptOnReady = TRUE
    Ewma = TRUE
    AlphaNum = 1
    AlphaDen = 2
    Tau0 = 8
    Preemptive = TRUE
    WorkConserving = TRUE
    SliceLengths = {1, 2}
    DeadlineGaps = {1}
INVARIANTS
    TypeOK
    OnePlace
    AssertionsHold
    RanWithinSlice
    TimelinesContiguous
    ServedExactly
    NoIdleWhileReady
    SwitchesAccounted
    SummaryMatchesTimelines
    ReportsWellFormed
PROPERTIES
    TimeAdvances
    Returns
