SPECIFICATION Spec
CONSTANTS
    Timeout = 1
    MinTimeWaitForResponse = 1
    Milli = 1
    Keys = {k1, k2}
    Distance = 2
    StrayKinds = {"malformed"}
    Args <- LongAndEdgeArgs
    MaxCalls = 1
    UintModulus = 8
INVARIANTS
    TypeOK
    NoProbeTwice
    NoProbeForgotten
    CountMeansComplete
    HeardIsNotGivenUp
    SettledReportIsWhole
CHECK_DEADLOCK FALSE
