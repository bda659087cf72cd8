SPECIFICATION SSpec
CONSTANTS
    Checkers = {chk, mgrchk}
    Installers = {ins}
    Forced = {mgrchk}
    NoProc = NoProc
    MaxSource = 1
    MaxVariant = 1
    NoRelease = NoRelease
    HweSources = {}
    Policies = {"check-and-notify"}
    History = 1
    MaxDisturbances = 2
PROPERTY StaleCandidateReplaced
CHECK_DEADLOCK FALSE
