SPECIFICATION Spec
CONSTANTS
    o1 = o1
    o2 = o2
    Objects = {o1, o2}
    UseParentErr <- OneParentErr
    Reader = {o1}
    Writer = {o1}
    Endless = {o1}
    Stoppable = {o2}
    Signalled = {o2}
    Pids = {p1}
    NFds = 10
    MaxCalls = 1
    NoPid = NoPid
INVARIANTS
    NoChildWhenGone
PROPERTIES
    TimedWaitEnds
    DestructorEnds
CHECK_DEADLOCK FALSE
