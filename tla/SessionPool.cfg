SPECIFICATION FairSpec
CONSTANTS
    Sessions = {s1, s2}
    Calls = {c1, c2}
    NoSession = NoSession
    Codes = {x}
    Uncommitted = {c1}
    MaxFaults = 1
INVARIANTS
    ReplyIsOwn
    ChainsHoldTheOpenCalls
    TurnsAreTaken
PROPERTIES
    CallsEnd
    RecoveredIsHealthy
CHECK_DEADLOCK FALSE
