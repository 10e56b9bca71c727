SPECIFICATION Spec
CONSTANTS
    o1 = o1
    o2 = o2
    Objects = {o1, o2}
    UseParentErr <- OneParentErr
    Reader = {o1}
    Writer = {}
    Endless = {}
    Stoppable = {o2}
    Signalled = {}
    Pids = {p1, p2}
    NFds = 10
    MaxCalls = 1
    NoPid = NoPid
PROPERTIES
    ClosesOnlyOwn
CHECK_DEADLOCK FALSE
