SPECIFICATION Spec
CONSTANTS
    Runs = {r1, r2}
    Hooks = {h1, h2, h3, h4, h5}
    Form <- MCForm
    BodyTenant <- MCBodyTenant
    HeadTenant <- MCHeadTenant
    NoTenant = NoTenant
    Reserved = Reserved
    Admins = {a1, a2}
    Troubles <- MCTroubles
    MaxFaults = 2
    t1 = t1
    h1 = h1
    h2 = h2
    h3 = h3
    h4 = h4
    h5 = h5
    Facets = {"facet-0", "facet-1"}
INVARIANTS
    CompletionNeverOvertakes
    ForwardedIsAttributed
    GraphIsWhatIsStored
    
    CompleteRunReportsAll
PROPERTIES
    OutcomeReachesControlPlane
    RunsAndAgentsEnd
CHECK_DEADLOCK FALSE
