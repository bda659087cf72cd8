SPECIFICATION Spec
CONSTANTS
    Files = {f1, f2, f3, f4}
    NoFile = NoFile
SYMMETRY FileSymmetry
INVARIANTS
    TypeOK
    PreviousKept
    RolledBack
    Repaired
CHECK_DEADLOCK FALSE
