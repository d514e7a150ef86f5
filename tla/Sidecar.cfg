SPECIFICATION Spec
CONSTANTS
    Tasks = {t1, t2}
    MaxCancels = 1
    MayStop = TRUE
INVARIANTS
    SessionsAreDropped
    EmitsOwnChunks
    LinkIsBacked
PROPERTIES
    EveryExecutionEnds
