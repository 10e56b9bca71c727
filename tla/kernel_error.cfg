SPECIFICATION Spec
CONSTANTS
    Threads = {t1}
    Master = t1
    MultiThreaded = FALSE
    NRows = 1
    NHooks = 3
    HookKind <- UsualHooks
    Values = {v1}
    Errors = {e1}
    Unset = Unset
PROPERTIES
    ErrorKept
