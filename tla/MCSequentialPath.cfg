SPECIFICATION FairSpec
CONSTANTS
    Timeout = 3
    MinTimeWaitForResponse = 1
    Milli = 2
    Keys = {k1}
    Distance = 2
    StrayKinds = {"foreign", "malformed"}
    Args <- PathArgs
    MaxCalls = 1
INVARIANTS
    TypeOK
    RowsAreThePath
PROPERTIES
    KeepsPromise
    Termination
CHECK_DEADLOCK FALSE
