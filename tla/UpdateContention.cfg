SPECIFICATION Spec
CONSTANTS
    Checkers = {chk}
    Installers = {ins, mgrins}
    Forced = {mgrins}
    NoProc = NoProc
    MaxSource = 1
    MaxVariant = 0
    NoRelease = NoRelease
    HweSources = {}
    Policies = {"check-and-notify", "automatic-install"}
    History = 1
INVARIANTS
    RecordBacked
    CommitBacked
PROPERTIES
    SourceKept
CHECK_DEADLOCK FALSE
