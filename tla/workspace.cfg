SPECIFICATION Spec
CONSTANTS
    Threads = {t1, t2}
    Master = t1
    Templates = {{"f1", "f2"}}
    Start = Start
    None = None
    Rows = 3
    MaxTries = 1
    MaxCrashes = 1
INVARIANTS
    WorkspaceFresh
    CwdRestored
    CwdExists
    WorkspaceGone
    AloneInWorkspace
PROPERTIES
    RowEnds
CHECK_DEADLOCK FALSE
