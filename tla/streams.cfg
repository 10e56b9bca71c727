SPECIFICATION Spec
CONSTANTS
    PbSize = 2
    BufSize = 3
    MaxChars = 5
INVARIANTS
    NothingSkipped
    PutbackRight
    PutbackRoom
    GoodMeansWritten
CHECK_DEADLOCK FALSE
