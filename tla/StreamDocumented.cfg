SPECIFICATION Spec
CONSTANTS
    r1 = r1
    r2 = r2
    c1 = c1
    c2 = c2
    ipA = ipA
    NoRun = norun
    NoIP = noip
    Runs <- MCOneRun
    Conns <- MCTwoConns
    IPs <- MCNoIPs
    MaxConcurrent = 1
    PerIP = 1
    Window = 1
    PruneAt = 1
    TicksPerSecond = 1
    Horizon = 0
    MaxPuts = 4
    MaxStragglers = 1
    OneAtATime = TRUE
    TimerRaces = FALSE
INVARIANT
    SoleSubscriberSeesAll
