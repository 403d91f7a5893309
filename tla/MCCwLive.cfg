SPECIFICATION LiveSpec
CONSTANTS
    Keys = {2, 3, 4}
    Self = 2
    Genesis = {2, 3}
    Flips = {{}, {4}}
    Weight <- MCWeightLast
    t1 = t1
    t2 = t2
    DriverHeight = 0
    Txs = {}
    Dummy = {}
    Payloads <- MCPayloads
    Certs = {}
    MaxConflicts = 0
    VerifyNamespace = "_LEAN_CW_SIMPLEX"
    Namespace = "lean-terpz"
    BlocksPerPeriod = 2
    RotateCap = 2
    StartAttempts = 2
    MaxHeight = 6
    MaxCrashes = 0
    MaxServerRestarts = 0
    Lossy = FALSE
    SlowStop = FALSE
    FlakyDNS = FALSE
PROPERTIES
    
    Rotates
CHECK_DEADLOCK FALSE
