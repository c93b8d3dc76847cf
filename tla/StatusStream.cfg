SPECIFICATION StreamFairSpec
CONSTANTS
    Keys = {k1}
    NoKey = NoKey
    Requests = {r1}
    Durations = {1}
    MaxEnd = 0
    ErrorCode <- Codes
    NoError = "none"
    MaxNow = 0
    Workers = {w1}
    Nobody = Nobody
    NoRequest = NoRequest
    Verdicts = {"ok", "invalid"}
    SendErrors = {"TG_TIMEOUT"}
    Attempts = 3
    MaxStalled = 1
    Faults = {"redis", "ban", "workerCrash", "statusTtl"}
    MaxFaults = 1
    MaxWebFaults = 2
INVARIANTS
    NothingMissed
    ShownSuccessIsConsumed
PROPERTY
    PageSettles
CHECK_DEADLOCK FALSE
