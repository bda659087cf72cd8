SPECIFICATION HSpec
CONSTANTS
    Tokens = {t1, t2}
    NoImage = NoImage
    Passwords = {p1, p2, p3}
    ByHand = ByHand
    Legacy = Legacy
    None = None
SYMMETRY SlotSymmetry
INVARIANTS
    HelperTypeOK
    BootImage
    PreviousImageKept
    Configured
    NoPasswordLeft
    VerifiedUnlocks
PROPERTIES
    EnrollmentJustified
    KnownRequestKept
CHECK_DEADLOCK FALSE
