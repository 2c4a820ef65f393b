SPECIFICATION Spec
CONSTANTS
    MaxGen = 2
    MaxTraffic = 2
    MaxDeaths = 1
    MaxReboots = 1
    MaxFaults = 1
    MaxMishaps = 2
    MaxIgnored = 0
    MaxSamples = 3
    MayTear = FALSE
    MayMisread = FALSE
    Quota = 1
    Increase = 1
INVARIANT NeverOvercharged
INVARIANT ChargedWithinRecorded
CHECK_DEADLOCK FALSE
INVARIANT RevokedIsClean
INVARIANT CounterIsHonest
CONSTRAINT OrderOnly
