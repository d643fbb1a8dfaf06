SPECIFICATION Spec
CONSTANTS
    Timeout = 3
    MinTimeWaitForResponse = 1
    Milli = 2
    Keys = {k1, k2}
    Distance = 1
    StrayKinds = {"foreign", "malformed"}
    Args <- OneProbe
    MaxCalls = 2
    UintModulus = 8
INVARIANTS
    Accounting
    Provenance
    RepliesCreditTheirProbe
PROPERTIES
    NothingRunsBetweenCalls
    KeepsPromise
CHECK_DEADLOCK FALSE
