SPECIFICATION LimiterSpec
CONSTANTS
    ipA = ipA
    ipB = ipB
    IPs <- MCIPs
    NoIP = noip
    MaxConcurrent = 2
    PerIP = 2
    Window = 2
    PruneAt = 2
    TicksPerSecond = 2
    Horizon = 6
SYMMETRY MCSymmetry
INVARIANTS
    SlidingWindow
    HonestRetryAfter
PROPERTY
