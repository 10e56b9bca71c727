SPECIFICATION Spec
CONSTANTS
    PbSize = 2
    BufSize = 3
    MaxChars = 5
INVARIANTS
    PutbackAlwaysRight
CHECK_DEADLOCK FALSE
