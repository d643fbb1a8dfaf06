SPECIFICATION Spec
CONSTANTS
    OurKeys = {7, 8}
    OtherKeys = {9}
    PortBytes = {0, 70, 96}
    Kept = {1}
    MaxReceived = 2
    SizeModulus = 65536
INVARIANTS
    TcpAckV6Valid
CHECK_DEADLOCK FALSE
