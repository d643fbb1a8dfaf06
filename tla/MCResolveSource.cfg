SPECIFICATION Spec
CONSTANTS
    Texts <- UserTexts
    Junk <- Memory
    LocalHost <- Local
    Interfaces <- HostAddresses
    Groups <- GroupAddresses
    Lengths <- AnyLength
    Descriptors = {0, 3, 4}
    MaxCalls = 4
    Ports = {80, 50000}
    Ids = {49592, 49847}
    Urgent = {0, 65535}
INVARIANTS
    ResolvedSourceIsAssigned
CHECK_DEADLOCK FALSE
