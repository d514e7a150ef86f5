SPECIFICATION FairSpec
CONSTANTS
    c1 = c1
    c2 = c2
    c3 = c3
    r1 = r1
    r2 = r2
    ipA = ipA
    NoIP = NoIP
    Everyone = Everyone
    Runs <- MCRuns
    IPs <- MCIPs
    Calls <- MCThreeCalls
    RunOf <- MCRunOfThree
    IpOf <- MCMixedIps
    Limit <- MCLoose
    LastDay = 0
    MonthStart <- MCOneDay
    PoolSize = 2
    KeepDays = 0
    MaxRestarts = 1
INVARIANTS
    SomeTransactionMoves
PROPERTIES
    ImplementsLedger
    
CHECK_DEADLOCK FALSE
