SPECIFICATION Spec
CONSTANTS
    Keys = {k1}
    NoKey = NoKey
    Requests = {r1, r2}
    Durations = {1}
    MaxEnd = 0
    ErrorCode <- Codes
    NoError = "none"
    MaxNow = 0
    Workers = {w1, w2}
    Nobody = Nobody
    NoRequest = NoRequest
    Verdicts = {"ok", "invalid"}
    SendErrors = {"NO_HEALTHY_SESSION", "TG_TIMEOUT"}
    Attempts = 3
    MaxStalled = 1
    Faults = {"workerCrash", "apiCrash", "enqueue", "age", "statusTtl"}
    MaxFaults = 2
INVARIANTS
    SingleLogin
    OneReceiptPerConsumedKey
    CacheTellsTheRow
    KeyInOneSlot
PROPERTIES
    OutcomeIsFinal
    LoginWhileReserved
SYMMETRY Symmetric
CHECK_DEADLOCK FALSE
