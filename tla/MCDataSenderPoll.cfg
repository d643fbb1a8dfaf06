SPECIFICATION Spec
CONSTANTS
    Keys = {k1}
    Distance = 2
    StrayKinds = {"foreign"}
    Providers <- AllProviders
    Family = "v4"
    Families = {"v4", "v6"}
    Ttls = {0, 1, 2, 256}
    MaxSends = 1
    MaxArrivals = 2
    StdinMayHangUp = TRUE
INVARIANTS
    PollReturnsGivenFd
CHECK_DEADLOCK FALSE
