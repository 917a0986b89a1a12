SPECIFICATION FairSpec
CONSTANTS
    Procs = {1, 2, 3, 4}
    NumCores = 2
    CsCost = 0
    MaxSegments = 30
    MaxTime = 60
    InitialCap = 2
    MayRunOutOfMemory = FALSE
    None = None
    Workloads <- AllOfThem
    PreemptOnReady = TRUE
    Ewma = TRUE
    AlphaNum = 1
    AlphaDen = 2
    Tau0 = 4
    WorkloadsOf <- MCWorkloadsOf
    NumLevels = 3
    Quanta <- MCQuanta
    Allotments <- MCAllotments
    Boost = 7
    Aging = 2
    PriorityLimit = 120
INVARIANTS
    BestAreRunning
    QueuesMatchJobs
    LevelMatchesService
    HigherLevelsRun
PROPERTIES
    KeysConstant
    Implements
