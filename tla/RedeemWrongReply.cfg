SPECIFICATION ClientSpec
CONSTANTS
    Keys = {k1, k2}
    NoKey = NoKey
    Requests = {r1, r2}
    Durations = {1}
    MaxEnd = 1
    ErrorCode = {"ERR_INTERNAL"}
    NoError = "none"
    MaxNow = 0
    Handlers = {}
    Redeems = {r1, r2}
    Extensions = {1}
    MaxResets = 0
    Faults = {"db", "commitLost", "apiCrash"}
    MaxFaults = 1
    LateReplies = TRUE
    NoReply = NoReply
INVARIANTS
    ReplyMatchesJob
CHECK_DEADLOCK FALSE
