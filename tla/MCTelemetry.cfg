CONSTANTS
    s1 = s1
    s2 = s2
    i1 = i1
    i2 = i2
    v1 = v1
    v2 = v2
    k1 = k1
    NoRecord = NoRecord
    Events <- MCEvents
    Bytes <- MCBytes
    Moments <- MCMoments
    Installs = {i1}
    Sessions = {s1}
    Terms = {v1}
    Tokens = {k1}
    Names = {"ready", "solo"}
    SessionTtl = 3
    RawTtl = 2
    AggregateTtl = 2
    DayLength = 2
    Skew = 1
    MaxSessions = 1
    MaxRaw = 2
    MaxRawBytes = 2
    MaxBuckets = 2
    MaxNow = 5
    MaxEpoch = 2
    MaxAccepted = 3
    t1 = t1
    t2 = t2
    b1 = b1
    b2 = b2
    n1 = n1
    n2 = n2
    n3 = n3
    Tabs <- MCTabs
    Identifiers <- MCIdentifiers
    Cookies <- MCCookies
    Null = Null
    MaxClock = 2
    MaxEvents = 2
    MaxQueue = 1
    MaxBatch = 1
    MaxDecisions = 2
    MaxDeletions = 1
    MaxReloads = 1
    MaxRenewals = 1
    MaxLosses = 1
    MaxWrites = 2
SPECIFICATION PartsSpec
SYMMETRY Symmetry
INVARIANTS
    CountsAddUp
    DecisionsCommute
    EverythingIsDeletable
    TrustedChoice
    NothingDeletedIsSent
    NothingLost
PROPERTIES
    ImplementsLog
CHECK_DEADLOCK FALSE
