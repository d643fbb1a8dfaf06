SPECIFICATION FairSpec
CONSTANTS
    Keys = {k1}
    Distance = 2
    StrayKinds = {"foreign"}
    Providers <- AllDescriptors
    Family = "v4"
    Families = {"v4", "v6"}
    Ttls = {0, 1, 2, 256}
    MaxSends = 2
    MaxArrivals = 3
    StdinMayHangUp = TRUE
INVARIANTS
    SentWithItsTtl
    ResponsesNameTheirProtocol
    ReadySocketHasDatagram
PROPERTIES
    EverySocketIsRead
    ImplementsService
CHECK_DEADLOCK FALSE
