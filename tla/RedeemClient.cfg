SPECIFICATION ClientSpec
CONSTANTS
    Keys = {k1, k2}
    NoKey = NoKey
    Requests = {r1, r2, r3}
    Durations = {1}
    MaxEnd = 1
    ErrorCode = {"ERR_INTERNAL"}
    NoError = "none"
    MaxNow = 0
    Handlers = {}
    Redeems = {r1, r2}
    Extensions = {1}
    MaxResets = 0
    Faults = {"db", "commitLost", "apiCrash"}
    MaxFaults = 1
    LateReplies = FALSE
    NoReply = NoReply
INVARIANTS
    ReplyMatchesJob
    RedeemedOnOwnReply
PROPERTIES
    RedemptionsEnd
    ImplementsDesk
CHECK_DEADLOCK FALSE
