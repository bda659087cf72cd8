SPECIFICATION Spec
CONSTANTS
    Checks <- TheChecks
    Installs <- TheInstalls
    Policies <- ThePolicies
    Nobody = Nobody
    MaxRelease = 2
    Tolerance = 2
    MaxDisturbances = 3
INVARIANTS
    RequestInv
    FailureExcused
    SuccessIsNewest
PROPERTIES
    RequestEnds
    ProgressEnds
CHECK_DEADLOCK FALSE
