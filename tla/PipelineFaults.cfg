SPECIFICATION Spec
CONSTANTS
    Keys = {k1}
    NoKey = NoKey
    Requests = {r1, r2}
    Durations = {0, 1}
    MaxEnd = 0
    ErrorCode <- Codes
    NoError = "none"
    MaxNow = 0
    Workers = {w1, w2}
    Nobody = Nobody
    NoRequest = NoRequest
    Verdicts = {"ok"}
    SendErrors = {"TG_TIMEOUT"}
    Attempts = 3
    MaxStalled = 1
    Faults = {"workerCrash", "apiCrash", "enqueue", "enqueueLost", "db", "redis", "commitLost", "lockLost", "ttl", "ban"}
    MaxFaults = 2
INVARIANTS
    SuccessMeansConsumed
    LoginsCostLosses
PROPERTIES
    ImplementsLicenseDb
SYMMETRY Symmetric
CHECK_DEADLOCK FALSE
