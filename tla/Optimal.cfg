SPECIFICATION FairSpec
CONSTANTS
    Procs = {1, 2, 3, 4}
    NumCores = 1
    CsCost = 0
    MaxSegments = 30
    MaxTime = 30
    InitialCap = 2
    MayRunOutOfMemory = FALSE
    None = None
    Workloads <- AllOfThem
    WorkloadsOf <- MCWorkloadsOf
    PreemptOnReady = FALSE
    Ewma = FALSE
    AlphaNum = 1
    AlphaDen = 2
    Tau0 = 4
    MaxJobs = 20
    MaxNodes = 6
INVARIANTS
    SrtfOptimal
    SjfOptimal
    OptNpOptimal
PROPERTIES
    OptNpImplements
