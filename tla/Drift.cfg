CONSTANTS
    Sessions = {s1}
    Addresses = {x1}
    NoAddress = NoAddress
    MaxRetries = 2
    MaxGen = 2
    MaxFaults = 1
    MayTimeOut = FALSE
    MayBeLate = FALSE
    Watched = {"Ingress"}
    MaxJobs = 4
SPECIFICATION FairDriftSpec
CHECK_DEADLOCK FALSE
PROPERTY LostIsRepaired RepairIsSafe
CONSTRAINT RevokedByOwner
