SPECIFICATION Spec
CONSTANTS
    Timeout = 2
    MinTimeWaitForResponse = 1
    Milli = 1
    Keys = {k1}
    Distance = 2
    StrayKinds = {}
    Args <- OneProbe
    MaxCalls = 1
    UintModulus = 8
INVARIANTS
    OneProbeOneResult
CHECK_DEADLOCK FALSE
