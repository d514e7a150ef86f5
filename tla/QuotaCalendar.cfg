SPECIFICATION Spec
CONSTANTS
    c1 = c1
    c2 = c2
    c3 = c3
    r1 = r1
    r2 = r2
    ipA = ipA
    NoIP = NoIP
    Everyone = Everyone
    Runs <- MCRuns
    IPs <- MCIPs
    Calls <- MCTwoCalls
    RunOf <- MCRunOfTwo
    IpOf <- MCSameIp
    Limit <- MCTight
    LastDay = 3
    MonthStart <- MCFourDays
    PoolSize = 2
    KeepDays = 2
    MaxRestarts = 1
INVARIANTS
    SpendWithinLimits
    ChargedExactly
CHECK_DEADLOCK FALSE
