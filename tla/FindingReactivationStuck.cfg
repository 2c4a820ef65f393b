CONSTANTS
    Sessions = {s1}
    Addresses = {x1}
    NoAddress = NoAddress
    MaxRetries = 2
    MaxGen = 3
    MaxFaults = 0
    MayTimeOut = FALSE
    MayBeLate = FALSE
SPECIFICATION FairSpec
CHECK_DEADLOCK FALSE
PROPERTY Settles
