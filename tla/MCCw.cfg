SPECIFICATION CwSpec
CONSTANTS
    Keys = {1, 2, 3}
    Self = 2
    Genesis = {2, 3}
    Flips = {{}, {1}, {2}}
    Weight <- MCWeight
    t1 = t1
    t2 = t2
    Txs = {t1, t2}
    Dummy = {t2}
    Payloads <- MCPayloads
    Certs <- MCCerts
    MaxConflicts = 1
    VerifyNamespace = "_LEAN_CW_SIMPLEX"
    Namespace = "lean-terpz"
    BlocksPerPeriod = 2
    RotateCap = 1
    StartAttempts = 2
    DriverHeight = 3
    MaxHeight = 5
    MaxCrashes = 1
    MaxServerRestarts = 1
    Lossy = TRUE
    SlowStop = TRUE
    FlakyDNS = TRUE
INVARIANTS
    LogAgrees
    NeverReproposed
    
    EpochNotAhead
    
PROPERTIES
    LogRefines
CHECK_DEADLOCK FALSE
