SPECIFICATION Spec
CONSTANTS
    o1 = o1
    o2 = o2
    Objects = {o1}
    UseParentErr <- OneParentErr
    Endless = {o1}
    StreamUsers = {o1}
    NHandles = 12
    MaxCalls = 1
    MaxLate = 2
    Width = 8
PROPERTIES
    TimedWaitEnds
CHECK_DEADLOCK FALSE
