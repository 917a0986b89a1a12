SPECIFICATION Spec
CONSTANTS
    Procs = {1, 2, 3}
    NumCores = 1
    CsCost = 0
    MaxSegments = 30
    MaxTime = 110
    InitialCap = 2
    MayRunOutOfMemory = FALSE
    None = None
    Workloads <- AllExtreme
    PreemptOnReady = FALSE
    Ewma = FALSE
    AlphaNum = 1
    AlphaDen = 2
    Tau0 = 4
    WorkloadsOf <- ExtremeWorkloads
    Aging = 1
    Home <- MCHome
    PriorityLimit = 9
INVARIANTS
    LowestEffectiveRuns
