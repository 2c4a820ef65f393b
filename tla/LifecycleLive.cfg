CONSTANTS
    Sessions = {s1}
    Addresses = {x1}
    NoAddress = NoAddress
    MaxRetries = 2
    MaxGen = 4
    MaxFaults = 1
    MayTimeOut = TRUE
    MayBeLate = FALSE
SPECIFICATION FairSpec
CHECK_DEADLOCK FALSE
PROPERTY ProvisioningSettles
PROPERTY RevocationCompletes
