SPECIFICATION Spec
CONSTANTS
    Scenarios = {"s6", "s7", "s9", "s10", "s11", "s13", "s14", "s15", "s17", "s18", "s22", "s24", "s25", "s26", "s27", "s28", "s30", "s32", "s34"}
    MaxFaults = 2
    Suites = {"s12", "s16", "s19", "s20", "s21", "s23", "s24", "s27", "s28", "s29", "s30", "s31", "s32", "s34"}
    MaxLapses = 2
    Mixes <- MCMixes
    Runs = {r1, r2}
INVARIANTS
    
    
    
    
    GrowthIsHarmless
    LookupsReachTheResolver
CHECK_DEADLOCK FALSE
