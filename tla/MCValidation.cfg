SPECIFICATION Spec
CONSTANTS
    OurKeys = {7, 8}
    OtherKeys = {9}
    PortBytes = {0, 70, 75, 96}
    Kept = {1, 2, 4, 7}
    MaxReceived = 3
    SizeModulus = 65536
INVARIANTS
    OursAccepted
    AcceptedMeansOurs
    ThrowsForAllOrNone
    StaleTailNeverDecides
CHECK_DEADLOCK FALSE
