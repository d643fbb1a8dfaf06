-------------------------- MODULE ResponseValidation --------------------------
(***************************************************************************)
(* Packet::isValid word by word: the ResponseValidators and common.cpp     *)
(* over the engines' mBuffer, into which recvfrom writes each datagram     *)
(* over the remains of the ones before it.  It justifies what the engines' *)
(* models assume of isValid: it holds exactly for the replies that carry   *)
(* the key of the packet, and it throws for every packet or for none.      *)
(* Two exceptions, which the properties name, are judged by the remains:   *)
(* an ICMP error that quotes too little (Truncated), and a TCP segment     *)
(* taken for an ip header (Misread).                                       *)
(*                                                                         *)
(* Sizes and offsets are counted in words of four bytes.  A word is its    *)
(* first byte, from which versions, header lengths and types are read, and *)
(* the rest.  The key of a packet is the word in which its header holds    *)
(* the ICMP id or the TCP sequence number.                                 *)
(*                                                                         *)
(* OnlyVersion4, FixedIpHeaderSize, KeyUnchecked and SizeUnchecked are     *)
(* variants with a mistake, each of which breaks a property.               *)
(***************************************************************************)
EXTENDS Integers, SequencesExt

CONSTANTS
    OurKeys,      \* the keys of the packets sent
    OtherKeys,    \* keys in the datagrams of other programs
    PortBytes,    \* first bytes of the TCP port probed (dport)
    Kept,         \* words left, behind the outer ip header, of answers cut short
    MaxReceived,  \* bound: datagrams read
    SizeModulus   \* the values of size_t, in words

BufferSize == 48     \* enough words for every offset the validators reach

ASSUME ValidationAssumption ==
    /\ \A key \in OurKeys \cup OtherKeys : key \in Nat /\ 1 <= key /\ key <= 65000
    /\ OurKeys \cap OtherKeys = {}
    /\ \A byte \in PortBytes : byte \in Nat /\ byte < 256
    /\ \A n \in Kept : n \in Nat /\ n >= 1
    /\ MaxReceived \in Nat
    /\ SizeModulus \in Nat /\ SizeModulus > BufferSize

VARIABLES
    family,     \* of the addresses: 4 or 6
    kind,       \* of the packets one traceroute sends: "icmp", "tcp" or "udp"
    port,       \* first byte of dport
    received,   \* number of datagrams read
    datagram,   \* the last one
    earlierKeys, \* keys of the packets that those before it answered (history)
    mBuffer     \* the buffer of the engine

vars == <<family, kind, port, received, datagram, earlierKeys, mBuffer>>

Word(byte, rest) == [byte |-> byte, rest |-> rest]

Blank == Word(0, 0)

Zeros(n) == [k \in 1 .. n |-> Blank]

Target == "target"
Router == "router"

(* The packets of the traceroute. TCP sequence numbers and acks are below  *)
(* 65002, so their first byte is 0.                                        *)
packets == [kind : {kind}, port : {port}, key : OurKeys]

(* The word that holds a packet's key. Of the ICMP word only the id is     *)
(* compared; the sequence number in its other half is left out.            *)
KeyWord(packet) == Word(0, packet.key)

-------------------------------------------------------------------------------
(* common.cpp.  A response is the buffer from some word on. *)

Version(word) == word.byte \div 16

OnlyVersion4(response) == Version(response[1]) = 4

IsIpHeader(response) == Version(response[1]) \in {4, 6}

FixedIpHeaderSize(response) == IF Version(response[1]) = 4 THEN 5 ELSE 10

getIpHeaderSize(response) ==
    IF Version(response[1]) = 4 THEN response[1].byte % 16 ELSE 10

Skip(response, words) == SubSeq(response, words + 1, Len(response))

(* validateSession and validateSameSequence.                               *)
KeyUnchecked(header, packet) == TRUE

CarriesKey(header, packet) == header[2] = KeyWord(packet)

getIcmpType(response) == response[1].byte

-------------------------------------------------------------------------------
(* The validators *)

EchoReplies   == {0, 129}                             \* ICMP_, ICMP6_ECHO_REPLY
TimeExceeded(version) == IF version = 4 THEN 11 ELSE 3
DestUnreach(version)  == IF version = 4 THEN 3 ELSE 1

Says(condition) == IF condition THEN "valid" ELSE "invalid"

(* Step over the icmp header and the quoted ip header, then compare keys.  *)
Quotes(response, packet) ==
    LET inner == Skip(response, 2)
    IN  IF IsIpHeader(inner)
        THEN Says(CarriesKey(Skip(inner, getIpHeaderSize(inner)), packet))
        ELSE "throws"

IcmpFields(packet, client, response) ==
    CASE getIcmpType(response) \in EchoReplies ->
            Says(client = Target /\ CarriesKey(response, packet))
      [] getIcmpType(response) \in {TimeExceeded(4), TimeExceeded(6)} ->
            Quotes(response, packet)
      [] OTHER -> "invalid"

IcmpToTcpFields(packet, client, response) ==
    IF \/ getIcmpType(response) = DestUnreach(family) /\ client = Target
       \/ getIcmpType(response) = TimeExceeded(family)
    THEN Quotes(response, packet)
    ELSE "invalid"

TcpToTcpFields(packet, client, response) ==
    Says(client = Target /\ response[3] = Word(0, packet.key + 1))

UdpFields(client, response) ==
    Says(getIcmpType(response) =
            IF client = Target THEN DestUnreach(family) ELSE TimeExceeded(family))

SizeUnchecked(packet, protocol) == 0

(* The smallest size validateSize accepts.                                 *)
MinSize(packet, protocol) ==
    CASE packet.kind = "icmp"                      -> 2
      [] packet.kind = "udp"                       -> 4
      [] packet.kind = "tcp" /\ protocol = "icmp"  -> 7
      [] packet.kind = "tcp" /\ protocol = "tcp"   -> 5

validateFields(packet, info, response) ==
    CASE packet.kind = "icmp"                          -> IcmpFields(packet, info.client, response)
      [] packet.kind = "udp"                           -> UdpFields(info.client, response)
      [] packet.kind = "tcp" /\ info.protocol = "icmp" -> IcmpToTcpFields(packet, info.client, response)
      [] packet.kind = "tcp" /\ info.protocol = "tcp"  -> TcpToTcpFields(packet, info.client, response)

validateAll(packet, info, size, response) ==
    IF size >= MinSize(packet, info.protocol)
    THEN validateFields(packet, info, response)
    ELSE "invalid"

(* isValid of a packet: an ip header is looked for, and skipped, by its    *)
(* first byte alone; the size that is left is unsigned.                    *)
isValid(packet, info, response) ==
    IF info.size = 0 THEN "throws"
    ELSE IF IsIpHeader(response)
    THEN validateAll(packet, info,
                     (info.size - getIpHeaderSize(response)) % SizeModulus,
                     Skip(response, getIpHeaderSize(response)))
    ELSE validateAll(packet, info, info.size, response)

Info(d) == [client |-> d.client, protocol |-> d.protocol, size |-> Len(d.words)]

-------------------------------------------------------------------------------
(* What arrives: the answers of routers and targets (RFC 792, 793, 4443),  *)
(* as the raw sockets deliver them, with the ip header for IPv4 only.      *)

IpHeader(ihl) ==
    IF family = 4 THEN <<Word(64 + ihl, 0)>> \o Zeros(ihl - 1)
    ELSE <<Word(96, 0)>> \o Zeros(9)

Delivered(payload) == IF family = 4 THEN IpHeader(5) \o payload ELSE payload

(* The header of a packet, as an error quotes it.                          *)
Header(packet) ==
    CASE packet.kind = "icmp" -> <<Word(IF family = 4 THEN 8 ELSE 128, 0), KeyWord(packet)>>
      [] packet.kind = "tcp"  -> <<Word(195, 0), KeyWord(packet)>> \o Zeros(3)
      [] packet.kind = "udp"  -> <<Word(195, 0), Word(0, 8)>>

Datagram(about, message, client, protocol, words) ==
    [about |-> about, message |-> message, client |-> client,
     protocol |-> protocol, words |-> words]

(* Errors quote the ip header, with or without options, and some words of  *)
(* the packet.                                                             *)
Errors(packet, quoted) ==
    {Datagram(packet, e.message, e.client, "icmp",
              Delivered(<<Word(e.type, 0), Blank>> \o IpHeader(ihl)
                            \o SubSeq(Header(packet), 1, quoted))) :
        e \in {[message |-> "exceeded", type |-> TimeExceeded(family), client |-> Router],
               [message |-> "unreach",  type |-> DestUnreach(family),  client |-> Router],
               [message |-> "unreach",  type |-> DestUnreach(family),  client |-> Target]},
        ihl \in {5, 8}}

EchoReply(packet) ==
    Datagram(packet, "echo", Target, "icmp",
             Delivered(<<Word(IF family = 4 THEN 0 ELSE 129, 0), KeyWord(packet)>>))

Ack(packet) ==
    Datagram(packet, "ack", Target, "tcp",
             Delivered(<<Word(packet.port, 0), Blank, Word(0, packet.key + 1)>> \o Zeros(2)))

Replies(packet) ==
    CASE packet.kind = "icmp" -> {EchoReply(packet)}
      [] packet.kind = "tcp"  -> {Ack(packet)}
      [] packet.kind = "udp"  -> {}

(* An error must quote eight bytes, and may quote all of the header.       *)
Shortest(packet) == Errors(packet, 2) \cup Replies(packet)

Answers(packet) == Shortest(packet) \cup Errors(packet, Len(Header(packet)))

NoPacket == [kind |-> "none", port |-> 0, key |-> 0]

(* Those whose answers arrive: ours and the packets of other programs.     *)
Sources == packets \cup [kind : {kind}, port : PortBytes, key : OtherKeys]

(* The words of a datagram behind the outer ip header.                     *)
Behind(d) == Len(d.words) - Len(Delivered(<<>>))

CutShort(d, n) ==
    [d EXCEPT !.message = "cut", !.words = SubSeq(@, 1, Len(Delivered(<<>>)) + n)]

(* Answers that end too early: within the icmp or tcp header, or, as       *)
(* errors, before the second word of the packet they quote.                *)
Cuts(packet) ==
    UNION {{CutShort(d, n) : n \in {k \in Kept : k < Behind(d)}} : d \in Shortest(packet)}

(* What answers no packet: empty datagrams, and errors that quote          *)
(* something else than an ip packet.                                       *)
Runts ==
    {Datagram(NoPacket, "empty", Target, protocol, <<>>) :
        protocol \in {"icmp"} \cup (IF kind = "tcp" THEN {"tcp"} ELSE {})}
    \cup {Datagram(NoPacket, "garbage", client, "icmp",
                   Delivered(<<Word(TimeExceeded(family), 0)>> \o Zeros(8))) :
            client \in {Target, Router}}

Traffic == (UNION {Answers(p) \cup Cuts(p) : p \in Sources}) \cup Runts

-------------------------------------------------------------------------------
NoDatagram == Datagram(NoPacket, "none", Router, "icmp", <<>>)

Init ==
    /\ family \in {4, 6}
    /\ kind \in {"icmp", "tcp", "udp"}
    /\ port \in PortBytes
    /\ received = 0
    /\ datagram = NoDatagram
    /\ earlierKeys = {}
    /\ mBuffer = Zeros(BufferSize)

(* recvfrom into mBuffer: what lies behind the datagram is left as it was. *)
Receive ==
    /\ received < MaxReceived
    /\ received' = received + 1
    /\ datagram' \in Traffic
    /\ earlierKeys' = earlierKeys \cup {datagram.about.key}
    /\ mBuffer' = datagram'.words \o Skip(mBuffer, Len(datagram'.words))
    /\ UNCHANGED <<family, kind, port>>

Next == Receive

Spec == Init /\ [][Next]_vars

-------------------------------------------------------------------------------
(* Properties *)

Verdict(packet) == isValid(packet, Info(datagram), mBuffer)

(* A TCP segment read from an IPv6 socket starts with its source port; one *)
(* from a port 0x4... or 0x6... is taken for an ip header.                 *)
Misread ==
    /\ family = 6
    /\ datagram.protocol = "tcp"
    /\ datagram.words # <<>>
    /\ IsIpHeader(datagram.words)

(* An error cut short that the validators look at, for it is not shorter   *)
(* than what validateSize asks for: less than the outer icmp header, or    *)
(* that and a TCP header.                                                  *)
Truncated ==
    /\ datagram.message = "cut"
    /\ datagram.protocol = "icmp"
    /\ \/ kind = "icmp" /\ Behind(datagram) >= 2
       \/ kind = "tcp"  /\ Behind(datagram) >= 7

(* Whatever was in the buffer before, every answer a traceroute builds on  *)
(* is accepted for the packet it answers: an error for want of ttl from a  *)
(* router, the target's own answer, with and without ip options, and with  *)
(* no more quoted than eight bytes.  The exception is a segment taken for  *)
(* an ip header (TcpAckV6Valid).                                           *)
OursAccepted ==
    ( /\ datagram.about \in packets
      /\ \/ datagram.message \in {"exceeded", "echo", "ack"}
         \/ datagram.message = "unreach" /\ datagram.client = Target /\ kind # "icmp"
      /\ ~Misread )
    => Verdict(datagram.about) = "valid"

(* A datagram is accepted only for the packet it answers, unless it ends   *)
(* too early or is taken for an ip header: then the remains of an earlier  *)
(* datagram decide, and it is accepted at most for a packet that was       *)
(* answered before, or whose successor in the TCP sequence was.  (UDP      *)
(* packets have no key.)                                                   *)
AcceptedMeansOurs ==
    \A p \in packets :
        received > 0 /\ kind # "udp" /\ Verdict(p) = "valid" =>
            \/ datagram.about = p
            \/ Truncated /\ p.key \in earlierKeys
            \/ Misread /\ p.key + 1 \in earlierKeys

(* When isValid throws it does so whichever packet is asked first, and it  *)
(* throws for no whole answer of a router or target, ours or not.          *)
ThrowsForAllOrNone ==
    \A p, q \in packets :
        received > 0 /\ Verdict(p) = "throws" =>
            /\ Verdict(q) = "throws"
            /\ datagram.about = NoPacket \/ Truncated

(* What an earlier datagram left in the buffer decides about no other      *)
(* datagram than an error that quotes too little and a segment taken for   *)
(* an ip header.                                                           *)
StaleTailNeverDecides ==
    \A p \in packets :
        received > 0 /\ ~Misread /\ ~Truncated =>
            Verdict(p) = isValid(p, Info(datagram),
                                 datagram.words \o Zeros(BufferSize - Len(datagram.words)))

(* TcpAckV6.cpp expects the target's segment that acknowledges the probe   *)
(* to be valid: EXPECT_TRUE(isValid).                                      *)
TcpAckV6Valid ==
    datagram.about \in packets /\ datagram.message = "ack" /\ family = 6
    => Verdict(datagram.about) = "valid"

===============================================================================
