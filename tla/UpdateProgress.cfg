SPECIFICATION SSpec
CONSTANTS
    Checkers = {chk, mgrchk}
    Installers = {ins, mgrins}
    Forced = {mgrchk, mgrins}
    NoProc = NoProc
    MaxSource = 2
    MaxVariant = 0
    NoRelease = NoRelease
    HweSources = {}
    Policies = {"check-and-notify", "automatic-install"}
    History = 1
    MaxDisturbances = 2
INVARIANTS
    IndInv
PROPERTIES
    KeepsMachinePromise
    NewestInstalled
    NewestOffered
CHECK_DEADLOCK FALSE
