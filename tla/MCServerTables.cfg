CONSTANTS
    k1 = k1
    k2 = k2
    t1 = t1
    t2 = t2
    t3 = t3
    c1 = c1
    c2 = c2
    c3 = c3
    Keys <- MCKeys
    Clients <- MCClients
    Tokens <- MCTokens
    TicketTtl = 5
    EpochTtl = 3
    Burst = 2
    Cost = 5
    Rate = 2
    MaxBuckets = 2
    MaxIdle = 4
    CapacityWait = 3
    MaxNow = 12
SPECIFICATION TablesSpec
SYMMETRY Symmetry
PROPERTIES
    RetryIsEnough
    ImplementsTickets
    ImplementsLimit
CHECK_DEADLOCK FALSE
