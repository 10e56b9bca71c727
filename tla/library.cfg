SPECIFICATION Spec
CONSTANTS
    boosted = boosted
    homed = homed
    missing = missing
    Threads = {t1, t2}
    Products = {boosted, homed, missing}
    InEnv = {homed}
    Length <- Names
    Holds <- Tree
    None = None
    MaxCalls = 2
PROPERTIES
    AnswerIsMine
    CallsReturn
CHECK_DEADLOCK FALSE
