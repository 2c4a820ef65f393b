CONSTANTS
    Sessions = {s1}
    Addresses = {x1}
    NoAddress = NoAddress
    MaxRetries = 2
    MaxGen = 4
    MaxFaults = 2
    MayTimeOut = TRUE
    MayBeLate = TRUE
SPECIFICATION Spec
CHECK_DEADLOCK FALSE
CONSTRAINT FaultsOrReactivation
INVARIANT TypeOK
INVARIANT ActiveIsUp
INVARIANT RevokedIsDown
INVARIANT PhaseIsBacked
PROPERTY ManualRevocationSticks
