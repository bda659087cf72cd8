SPECIFICATION Spec
CONSTANTS
    Newest = 4
    Histories = {1, 2}
INVARIANTS
    TypeOK
    RunningKept
    NewKernelKept
PROPERTIES
    RetentionApplied
CHECK_DEADLOCK FALSE
