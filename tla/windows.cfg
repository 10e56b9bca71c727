SPECIFICATION Spec
CONSTANTS
    o1 = o1
    o2 = o2
    Objects = {o1, o2}
    UseParentErr <- OneParentErr
    Endless = {}
    StreamUsers = {o2}
    NHandles = 12
    MaxCalls = 1
    MaxLate = 1
    Width = 4
INVARIANTS
    NothingLeft
    ChildWired
    OutputEnds
PROPERTIES
    KeepsContract
    ClosesOnlyOwn
CHECK_DEADLOCK FALSE
