SPECIFICATION Spec
CONSTANTS
    Checkers = {chk}
    Installers = {ins}
    Forced = {}
    NoProc = NoProc
    MaxSource = 2
    MaxVariant = 1
    NoRelease = NoRelease
    HweSources = {1}
    Policies = {"automatic-install"}
    History = 1
INVARIANTS
    CandidateStable
PROPERTIES
    NoDowngrade
    RecordNeverRegresses
    KeepsPromise
CHECK_DEADLOCK FALSE
