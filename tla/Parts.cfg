SPECIFICATION PartsSpec
CONSTANTS
    Parts = {"account", "deposits", "notifications", "rating", "addresses", "gates", "admission", "purchase", "recovery", "servers", "queue", "jobs"}
    MaxFaults <- MCFaults
    Withdrawals = {w1, w2}
    Sweeps = {s1}
    w1 = w1
    w2 = w2
    s1 = s1
    c1 = c1
    c2 = c2
    c3 = c3
    c4 = c4
    MaxTries = 1
    Unit = 2
    Charges = {3}
    Amounts = {2}
    Minimum = 1
    MaxCredits = 2
    MaxRated = 6
    TokenAccounts = {a1, a2}
    a1 = a1
    a2 = a2
    Cap = 2
    BaseUnits = 2
    Deposits = {0, 3}
    MaxHistory = 2
    MaxBurst = 2
    Events = {e1, e2}
    e1 = e1
    e2 = e2
    MaxMails = 4
    Plans = {p1, p2}
    p1 = p1
    p2 = p2
    Lag = 1
    MaxTime = 4
    MaxAssignments = 3
    Sessions = {c1, c2, c3, c4}
    NumPools = 2
    PoolSize <- MCPoolSize
    InitOffset <- MCInitOffset
    Gates = {g1, g2}
    g1 = g1
    g2 = g2
    MaxBeats = 1
    MaxChanges = 1
    Callers = {k1, k2}
    k1 = k1
    k2 = k2
    AskedFor = {q1, q2}
    q1 = q1
    q2 = q2
    MaxActive = 1
    MaxRecent = 1
    RateWindow = 1
    MaxElapsed = 2
    MaxSessions = 3
    MaxLifted = 1
    Requests = {r1, r2}
    r1 = r1
    r2 = r2
    MaxTx = 2
    MaxPoor = 1
    MaxErrors = 1
    MaxCrashes = 1
    MaxSlow = 1
    Devices = {z1, z2}
    z1 = z1
    z2 = z2
    NoDevice = NoDevice
    Confirmation = 1
    Cooldown = 2
    FreshWhenUp = 2
    FreshWhenDown = 1
    MaxTroubles = 1
    MaxRecoveryFaults = 1
    Transports = {public, doublezero}
    public = public
    doublezero = doublezero
    Public = public
    Interfaces = {i1, i2}
    i1 = i1
    i2 = i2
    Sockets = {1, 2, 3, 4, 5, 6}
    NoInterface = NoInterface
    NoSocket = NoSocket
    NoTransport = NoTransport
    MaxServerFaults = 3
    Core <- MCCore
    Workers = {v1, v2}
    Clock = {1, 2}
    MaxAttempts = 1
    Latest = 1
    MaxCycles = 2
    MaxQueueFaults = 0
    Schedulers = {v1, v2}
    v1 = v1
    v2 = v2
    MaxProbeRetries = 2
    MaxProbeJobs = 1
    MaxRevisions = 2
    MaxProbeFaults = 1
SYMMETRY RowsAreAlike
CONSTRAINT TwoMishaps
INVARIANTS
    PartsTypeOK
    BooksBalance
    DepositsAreExact
    WindowsAreExact
    SchedulableIsAble
    AdmissionIsControlled
    HiddenIsOver
    ChargesAreAccounted
    ConfirmedHasLanded
    ListenersAreTrue
    MeasurementsAreKept
    ProbeResultsAreTrue
PROPERTIES
    ScanIsExact
    LeasePromise
    ReconnectsAreJustified
    CyclesAreApart
CHECK_DEADLOCK FALSE
