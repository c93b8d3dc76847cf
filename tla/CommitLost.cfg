SPECIFICATION Spec
CONSTANTS
    Keys = {k1}
    NoKey = NoKey
    Requests = {r1}
    Durations = {1}
    MaxEnd = 0
    ErrorCode <- Codes
    NoError = "none"
    MaxNow = 0
    Workers = {w1}
    Nobody = Nobody
    NoRequest = NoRequest
    Verdicts = {"ok"}
    SendErrors = {}
    Attempts = 3
    MaxStalled = 1
    Faults = {"commitLost"}
    MaxFaults = 1
INVARIANT
    LostResponseIsSuccess
CHECK_DEADLOCK FALSE
