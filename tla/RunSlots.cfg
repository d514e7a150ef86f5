SPECIFICATION Spec
CONSTANTS
    r1 = r1
    r2 = r2
    c1 = c1
    c2 = c2
    ipA = ipA
    NoRun = norun
    NoIP = noip
    Runs <- MCTwoRuns
    Conns <- MCOneConn
    IPs <- MCOneIP
    MaxConcurrent = 1
    PerIP = 1
    Window = 1
    PruneAt = 1
    TicksPerSecond = 1
    Horizon = 2
    MaxPuts = 1
    MaxStragglers = 0
    OneAtATime = FALSE
    TimerRaces = TRUE
INVARIANTS
    SlotAccounting
PROPERTY
    ImplementsStatus
