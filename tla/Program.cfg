SPECIFICATION Spec
CONSTANTS
    MaxInt = 30
    MaxTickets = 4
    MinNice <- MCMinNice
    MaxNice = 1
    Defaults <- MCDefaults
    FirstCapacity = 2
    MayRunOutOfMemory = TRUE
    Bad = Bad
    None = None
    Invocations <- MCInvocations
    MaxLevels = 4
    MaxCores = 4
    SimFails = {"input", "usage", "nomem"}
    MayFailIO = TRUE
INVARIANTS
    LoadExact
    OptionsMeanLast
    OutputsMatchStatus
