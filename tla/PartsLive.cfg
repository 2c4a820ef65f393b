SPECIFICATION LiveSpec
CONSTANTS
    Parts = {"transfers", "deposits", "notifications", "gates", "purchase", "recovery", "servers", "queue", "jobs"}
    MaxFaults <- MCLiveFaults
    Withdrawals = {w1}
    Sweeps = {s1}
    w1 = w1
    s1 = s1
    MaxTries = 2
    Unit = 2
    Charges = {3}
    Amounts = {2}
    Minimum = 1
    MaxCredits = 2
    MaxRated = 6
    TokenAccounts = {a1, a2}
    a1 = a1
    a2 = a2
    Cap = 2
    BaseUnits = 2
    Deposits = {0, 3}
    MaxHistory = 2
    MaxBurst = 2
    Events = {e1, e2}
    e1 = e1
    e2 = e2
    MaxMails = 3
    Plans = {p1}
    p1 = p1
    Lag = 1
    MaxTime = 1
    MaxAssignments = 1
    Sessions = {s1}
    NumPools = 2
    PoolSize <- MCPoolSize
    InitOffset <- MCInitOffset
    Gates = {g1}
    g1 = g1
    MaxBeats = 2
    MaxChanges = 2
    Callers = {k1, k2}
    k1 = k1
    k2 = k2
    AskedFor = {q1, q2}
    q1 = q1
    q2 = q2
    MaxActive = 1
    MaxRecent = 1
    RateWindow = 1
    MaxElapsed = 2
    MaxSessions = 3
    MaxLifted = 1
    Requests = {r1, r2}
    r1 = r1
    r2 = r2
    MaxTx = 2
    MaxPoor = 0
    MaxErrors = 1
    MaxCrashes = 1
    MaxSlow = 0
    Devices = {z1}
    z1 = z1
    NoDevice = NoDevice
    Confirmation = 1
    Cooldown = 1
    FreshWhenUp = 1
    FreshWhenDown = 1
    MaxTroubles = 1
    MaxRecoveryFaults = 1
    Transports = {public, doublezero}
    public = public
    doublezero = doublezero
    Public = public
    Interfaces = {i1, i2}
    i1 = i1
    i2 = i2
    Sockets = {1, 2, 3, 4, 5, 6}
    NoInterface = NoInterface
    NoSocket = NoSocket
    NoTransport = NoTransport
    MaxServerFaults = 1
    Core <- MCCore
    Workers = {v1}
    Clock = {1, 2}
    MaxAttempts = 2
    Latest = 1
    MaxCycles = 1
    MaxQueueFaults = 1
    Schedulers = {v1}
    v1 = v1
    MaxProbeRetries = 2
    MaxProbeJobs = 1
    MaxRevisions = 2
    MaxProbeFaults = 1
PROPERTIES
    PayOncePromise
    WhatIsOwedArrives
    TroublePasses
CHECK_DEADLOCK FALSE
