SPECIFICATION PrepaidSpec
CONSTANTS
    Withdrawals = {w1, w2}
    Sweeps = {s1}
    s1 = s1
    w1 = w1
    w2 = w2
    MaxTries = 1
    Unit = 2
    Charges = {3}
    Amounts = {2}
    Minimum = 1
    MaxCredits = 2
    MaxRated = 6
PROPERTY CooldownRestarts
CHECK_DEADLOCK FALSE
