SPECIFICATION Spec
CONSTANTS
    Timeout = 2
    MinTimeWaitForResponse = 1
    Milli = 2
    Keys = {k1, k2, k3}
    Distance = 1
    StrayKinds = {"foreign"}
    Args <- TwoProbes
    MaxCalls = 2
INVARIANTS
    RepliesCreditTheirProbe
PROPERTIES
    KeepsPromise
CHECK_DEADLOCK FALSE
