SPECIFICATION FairSpec
CONSTANTS
    Procs = {1, 2, 3, 4}
    NumCores = 2
    CsCost = 2
    MaxSegments = 30
    MaxTime = 110
    InitialCap = 2
    MayRunOutOfMemory = FALSE
    None = None
    Workloads <- AllOfThem
    PreemptOnReady = FALSE
    Ewma = FALSE
    AlphaNum = 1
    AlphaDen = 2
    Tau0 = 4
    WorkloadsOf <- MCWorkloadsOf
    Aging = 2
    Home <- MCHome
    PriorityLimit = 120
INVARIANTS
    InOrderOfReadiness
    LowestEffectiveRuns
    HighestRatioRuns
    GroupsReachable
PROPERTIES
    Implements
