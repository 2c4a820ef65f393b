SPECIFICATION FairSpec
CONSTANTS
    MaxGen = 2
    MaxTraffic = 1
    MaxDeaths = 1
    MaxReboots = 1
    MaxFaults = 1
    MaxMishaps = 2
    MaxIgnored = 0
    MaxSamples = 2
    MayTear = FALSE
    MayMisread = FALSE
    Quota = 1
    Increase = 1
CHECK_DEADLOCK FALSE
PROPERTY QuotaStopsTraffic
PROPERTY TunnelIsServed
PROPERTY RevocationCompletes
