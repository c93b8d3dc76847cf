SPECIFICATION Spec
CONSTANTS
    Keys = {k1}
    NoKey = NoKey
    Requests = {r1, r2, r3}
    Durations = {1}
    MaxEnd = 2
    ErrorCode = {"ERR_INTERNAL"}
    NoError = "none"
    MaxNow = 1
    Handlers = {h1, h2}
    Redeems = {r1, r2}
    Extensions = {1}
    MaxResets = 1
    Faults = {"db", "commitLost", "apiCrash"}
    MaxFaults = 1
SYMMETRY DeskSymmetry
VIEW DeskView
INVARIANTS
    OnePendingPerKey
    SuccessStandsOnConsumedKey
    SoldOncePerReset
    RedeemedHasReceipt
    SenderHoldsTheKey
PROPERTIES
    ConsumedWithReceipt
    ReceiptTakenFromHolder
    ReceiptStays
    BanHolds
    ImplementsKeyLedger
    ImplementsLicenseDb
CHECK_DEADLOCK FALSE
