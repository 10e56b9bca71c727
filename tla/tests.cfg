SPECIFICATION TestSpec
CONSTANTS
    sysBusy = sysBusy
    genBusy = genBusy
    genAccess = genAccess
    Threads = {t1, t2}
    Master = t1
    MultiThreaded = TRUE
    NRows = 2
    NHooks = 3
    HookKind <- UsualHooks
    Values = {v1, v2}
    Errors = {sysBusy, genBusy}
    Unset = Unset
    Category <- CategoryOf
    Number <- NumberOf
    WantedErrors = {sysBusy, genBusy, genAccess}
    Any = Any
    MapsSystem = FALSE
INVARIANTS
    VerdictRight
    FailuresTold
    ThrewFails
    TeardownBalanced
    ResultTellsPhase
    ComparisonHasWorkspace
PROPERTIES
    TeardownInReverse
    KernelInsideHooks
    KeepsContract
