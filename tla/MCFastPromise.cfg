SPECIFICATION FairSpec
CONSTANTS
    Timeout = 2
    MinTimeWaitForResponse = 1
    Milli = 1
    Keys = {k1}
    Distance = 1
    StrayKinds = {"foreign", "malformed"}
    Args <- PathAndEdgeArgs
    MaxCalls = 1
    UintModulus = 8
PROPERTIES
    KeepsPromise
    Termination
CHECK_DEADLOCK FALSE
