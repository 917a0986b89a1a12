SPECIFICATION FairSpec
CONSTANTS
    Procs = {1, 2, 3}
    NumCores = 2
    CsCost = 0
    MaxSegments = 30
    MaxTime = 110
    InitialCap = 2
    MayRunOutOfMemory = FALSE
    None = None
    Workloads <- AllOfThem
    WorkloadsOf <- MCWorkloadsOf
    PreemptOnReady = FALSE
    Ewma = FALSE
    AlphaNum = 1
    AlphaDen = 2
    Tau0 = 8
    Quantum = 2
    Word = 32
    Stride1 = 4
    Latency = 3
    MinGran = 1
    NiceToWeight <- MCNiceToWeight
    Unit = 4
    NiceUnit = 2
    MaxCpu = 35
    MaxLatency = 10
INVARIANTS
    BoundedBypass
    FairDraw
    VirtualTimeBounded
    RunnableWeightExact
PROPERTIES
    Implements
