SPECIFICATION Spec
CONSTANTS
    o1 = o1
    o2 = o2
    Objects = {o1, o2}
    UseParentErr <- OneParentErr
    Reader = {}
    Writer = {}
    Endless = {}
    Stoppable = {}
    Signalled = {}
    Pids = {p1, p2}
    NFds = 10
    MaxCalls = 1
    NoPid = NoPid
INVARIANTS
    NoLeakWhenGone
    StdinEnds
    OutputEnds
    ChildWired
    HandlesValid
PROPERTIES
    KeepsContract
    ForeignReapOnlyAfterOwn
CHECK_DEADLOCK FALSE
