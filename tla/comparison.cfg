SPECIFICATION Spec
CONSTANTS
    Paths <- ThreePaths
    Sizes = {1, 2}
INVARIANTS
    PassesWhenSameFiles
    DirectoriesIgnored
    UntouchedPasses
    FailureOnlyOfOddFiles
CHECK_DEADLOCK FALSE
