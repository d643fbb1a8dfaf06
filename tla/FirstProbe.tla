------------------------------- MODULE FirstProbe -------------------------------
(***************************************************************************)
(* From the text that names the target to packets on the wire: the sockets *)
(* and addresses of SocketSetup, the headers the packets build over them,  *)
(* and their checksums, which for IPv4 the packets compute and for IPv6    *)
(* the kernel.                                                             *)
(***************************************************************************)
EXTENDS SocketSetup, Checksum

CONSTANTS
    Ports,    \* source and destination ports
    Ids,      \* what rand() gives as an id or a sequence number
    Urgent    \* what the memory of a TcpHeader may hold where urg_ptr is

ASSUME FirstProbeAssumption ==
    \A n \in Ports \cup Ids \cup Urgent : n \in Nat /\ n < 2 ^ 16

VARIABLES
    littleEndian,   \* the byte order of the host
    made,           \* the header createPacket built last
    onWire          \* the packet as it left: [source, destination, protocol, bytes]

vars == <<setupVars, littleEndian, made, onWire>>

NetworkOrder(n) == <<n \div 256, n % 256>>   \* the bytes htons(n) is stored as

-------------------------------------------------------------------------------
(* The headers, check field zero *)

IcmpHeaders ==
    {<<IF isV4(source) THEN 8 ELSE 128, 0, 0, 0>> \o NetworkOrder(id) \o <<0, 0>> : id \in Ids}

TcpHeaders ==
    {NetworkOrder(port) \o NetworkOrder(dport) \o <<0, 0>> \o NetworkOrder(seq) \o <<0, 0, 0, 0>>
         \o <<IF littleEndian THEN 80 ELSE 5, 2>> \o NetworkOrder(5760) \o <<0, 0>> \o NetworkOrder(urgent) :
        port \in Ports, dport \in Ports, seq \in Ids, urgent \in Urgent}

UdpHeaders ==
    {NetworkOrder(port) \o NetworkOrder(dport) \o NetworkOrder(8) \o <<0, 0>> :
        port \in Ports, dport \in Ports}

Headers(protocol) ==
    CASE protocol = "tcp" -> TcpHeaders
      [] protocol = "udp" -> UdpHeaders
      [] OTHER            -> IcmpHeaders

CheckField(protocol) ==
    CASE protocol = "tcp" -> 16
      [] protocol = "udp" -> 6
      [] OTHER            -> 2

Number(protocol) ==
    CASE protocol = "icmp" -> 1 [] protocol = "tcp" -> 6
      [] protocol = "udp" -> 17 [] protocol = "icmpv6" -> 58

(* createPacket: the checksum is computed if source is an IPv4 address.    *)
Check(protocol, header) ==
    CASE protocol = "icmp" -> computeICMPHeaderChecksum(littleEndian, header)
      [] protocol = "tcp" ->
            computeTCPHeaderChecksum(littleEndian, header, source, destination)
      [] protocol = "udp" ->
            computeUdpHeaderChecksum(littleEndian, header, source, destination)

Packet(protocol, header) ==
    IF isV4(source)
    THEN WithShort(littleEndian, header, CheckField(protocol), Check(protocol, header))
    ELSE header

-------------------------------------------------------------------------------
(* sendto (external): the source is the one bound if that is an address of *)
(* the host, else the device's; for IPv6 the kernel fills in the checksum, *)
(* for ICMPv6 at its field, else where IPV6_CHECKSUM says.                 *)
Departing(socket, bytes) ==
    LET from == IF socket.bound \in {None} \cup FromDevice(socket.family)
                THEN LocalHost[socket.family] ELSE socket.bound
        to   == HostOf(destination)
        at   == IF socket.protocol = "icmpv6" THEN 2 ELSE socket.checksumAt
        sum  == SumOf(FALSE, PseudoHeader(from, to, Number(socket.protocol), Len(bytes))
                                 \o WithShort(FALSE, bytes, at, 0))
    IN  [source      |-> from,
         destination |-> to,
         protocol    |-> socket.protocol,
         bytes       |-> IF socket.family = "v4" THEN bytes
                         ELSE WithShort(FALSE, bytes, at, 65535 - (sum % 65535))]

Sender == CHOOSE s \in Range(sockets) : "Send" \in s.role

(* The constructor of Packet throws if the families differ.                *)
FamiliesAgree == destination.family = source.family

(* createPacket and trySending on the sockets created last, for the target *)
(* they were created for.                                                  *)
SendProbe ==
    /\ pc = "idle"
    /\ Created
    /\ FamiliesAgree
    /\ \E header \in Headers(Sender.protocol) :
          /\ made' = Packet(Sender.protocol, header)
          /\ onWire' = Departing(table[Sender.fd], made')
    /\ UNCHANGED <<setupVars, littleEndian>>

-------------------------------------------------------------------------------
Init ==
    /\ SetupInit
    /\ littleEndian \in BOOLEAN
    /\ made = <<>>
    /\ onWire = None

Next ==
    \/ SendProbe
    \/ Setup /\ made' = <<>> /\ onWire' = None /\ UNCHANGED littleEndian

Spec == Init /\ [][Next]_vars

-------------------------------------------------------------------------------
(* Properties *)

(* computeTCPHeaderChecksum and computeUdpHeaderChecksum cover the source  *)
(* address; bind accepts some that the packet then does not leave from.    *)
SummedOverAnother ==
    /\ onWire.protocol # "icmp" /\ isV4(source)
    /\ HostOf(source) \in FromDevice(source.family)

(* Every probe arrives with a checksum that a router or the target finds   *)
(* right, whoever computed it, on hosts of either byte order - unless the  *)
(* code computed it over a wildcard, multicast or broadcast address, which *)
(* what the stack held can make of the source.                             *)
EveryProbeVerifies ==
    onWire # None /\ ~SummedOverAnother =>
        Verifies((IF onWire.protocol = "icmp" THEN <<>>
                  ELSE PseudoHeader(onWire.source, onWire.destination,
                                    Number(onWire.protocol), Len(onWire.bytes)))
                     \o onWire.bytes)

(* Nothing but the check field differs from the header the packet keeps    *)
(* and the validators compare replies with.                                *)
FieldsArriveAsMade ==
    onWire # None =>
        /\ Len(onWire.bytes) = Len(made)
        /\ \A k \in DOMAIN made :
              k \notin {CheckField(onWire.protocol) + 1, CheckField(onWire.protocol) + 2}
                  => onWire.bytes[k] = made[k]

(* A probe goes out on a socket of the family of its target, from the      *)
(* address its packet names as the source, or, if that is a wildcard,      *)
(* multicast or broadcast address, from the one the route prescribes; in   *)
(* no case from an address foreign to the host.                            *)
LeavesFromItsSource ==
    onWire # None =>
        /\ onWire.source.family = onWire.destination.family
        /\ onWire.source \in Interfaces
        /\ onWire.source = IF HostOf(source) \in FromDevice(source.family)
                           THEN LocalHost[source.family] ELSE HostOf(source)

===============================================================================
