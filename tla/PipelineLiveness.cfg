SPECIFICATION FairSpec
CONSTANTS
    Keys = {k1}
    NoKey = NoKey
    Requests = {r1, r2}
    Durations = {1}
    MaxEnd = 0
    ErrorCode <- Codes
    NoError = "none"
    MaxNow = 0
    Workers = {w1}
    Nobody = Nobody
    NoRequest = NoRequest
    Verdicts = {"ok", "invalid"}
    SendErrors = {"NO_HEALTHY_SESSION", "TG_TIMEOUT"}
    Attempts = 3
    MaxStalled = 1
    Faults = {"workerCrash", "lockLost", "enqueue", "redis", "ttl", "commitLost", "statusTtl"}
    MaxFaults = 1
PROPERTIES
    ReservationEnds
    AnswerComes
    StoredAcceptanceCounts
CHECK_DEADLOCK FALSE
