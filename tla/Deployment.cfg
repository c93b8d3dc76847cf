SPECIFICATION FairSpec
CONSTANTS
    Tabs = {t1, t2}
    MaxFails = 2
    Strings = {fresh, old, broken}
    Authorised = {fresh}
    Malformed = {broken}
    EnvSessions = {old}
    NoString = NoString
    Placeholder = Placeholder
    MaxFaults = 1
INVARIANTS
    GuessesBounded
    FreshSessionServes
PROPERTIES
    LockEnds
    WorkerComesBack
    DeadWorkerShows
