SPECIFICATION Spec
CONSTANTS
    Checkers = {chk}
    Installers = {ins, mgrins}
    Forced = {mgrins}
    NoProc = NoProc
    MaxSource = 1
    MaxVariant = 0
    NoRelease = NoRelease
    HweSources = {}
    Policies = {"automatic-install"}
    History = 1
PROPERTY RecordNeverRegresses
CHECK_DEADLOCK FALSE
