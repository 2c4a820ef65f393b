CONSTANTS
    Sessions = {s1, s2}
    Addresses = {x1}
    NoAddress = NoAddress
    MaxRetries = 2
    MaxGen = 2
    MaxFaults = 1
    MayTimeOut = TRUE
    MayBeLate = FALSE
SPECIFICATION Spec
CHECK_DEADLOCK FALSE
INVARIANT AddressRoutedOnce
PROPERTY LeasePromise
CONSTRAINT OwnersOnly
SYMMETRY Symmetry
