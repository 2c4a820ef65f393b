SPECIFICATION Spec
CONSTANTS
    Requests = {r1, r2}
    MaxTx = 2
    MaxPoor = 0
    MaxErrors = 0
    MaxCrashes = 0
    MaxSlow = 0
INVARIANT AtMostOneCharge
CHECK_DEADLOCK FALSE
SYMMETRY Symmetry
