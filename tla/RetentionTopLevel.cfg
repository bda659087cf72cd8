SPECIFICATION Spec
CONSTANTS
    Newest = 4
    Histories = {1, 2}
INVARIANTS
    TopLevelKept
CHECK_DEADLOCK FALSE
