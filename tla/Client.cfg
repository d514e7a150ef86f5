SPECIFICATION Spec
CONSTANTS
    Requests = {q1, q2}
    Revokers = {v1}
    Keys = {k1}
    KeyOf <- OneKey
    TTL = 3
    Leeway = 1
    MaxTime = 2
    MaxRotations = 1
    Troubles <- MCTroubles
    NoOne = NoOne
    k1 = k1
    CtxIds = {c1, c2, c3}
    Lineages = {l1, l2}
    Authority <- MCAuthority
    Home = home
    Peers = {peer}
    c1 = c1
    c2 = c2
    home = home
    peer = peer
    other = other
    MaxRows = 5
    PageSize = 2
    MaxPages = 2
    CursorErrors = TRUE
    Authorities = {here, there}
    MaxRedirects = 3
INVARIANTS
    SingleFlight
    RetryUsesNewerToken
    ReturnedIsRequested
    EveryMatchOnce
    
    GetsAreBounded
PROPERTIES
    
    KilledNotHandedOut
    ClientCallsEnd
CHECK_DEADLOCK FALSE
