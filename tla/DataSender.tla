------------------------------ MODULE DataSender ------------------------------
(***************************************************************************)
(* DataSender and utils::Poll over the raw sockets a SocketProvider        *)
(* created.  The sender thread of an engine calls trySending while its     *)
(* other thread calls tryReceiving: they share the sockets, and between    *)
(* setsockopt, poll, sendto and recvfrom the kernel goes on.  Routers and  *)
(* the target answer what is on the wire, by the ttl it left with.         *)
(*                                                                         *)
(* IndexedByPosition, FirstSocketOnly, AnyGivenSocket, NeverWaits and      *)
(* TtlOfReceiver are variants with a mistake: each breaks a property.      *)
(***************************************************************************)
EXTENDS Probes, Collections, Integers, SequencesExt

CONSTANTS
    Providers,        \* what createSockets may return: sequences of SocketExt
    Family,           \* of the sockets
    Families,         \* of the packets handed to trySending
    Ttls,             \* the ttls handed to trySending
    StrayKinds,       \* datagrams that are no reply, as in Network
    MaxSends,         \* bound: calls of trySending
    MaxArrivals,      \* bound: datagrams that arrive
    StdinMayHangUp    \* whether the other end of standard input may close

Roles     == {"Receive", "Send"}
Protocols == {"icmp", "tcp", "udp"}

SocketExt == [fd : Nat, role : SUBSET Roles, protocol : Protocols]

(* A provider gives one socket the role Send.  A program started without   *)
(* standard input gets 0, "none" in mSendingSocket, as a descriptor.       *)
ASSUME DataSenderAssumption ==
    /\ \A s \in Providers :
          /\ s \in Seq(SocketExt)
          /\ \E k \in DOMAIN s : \A j \in DOMAIN s : "Send" \in s[j].role <=> j = k
          /\ \A j, k \in DOMAIN s : s[j].fd = s[k].fd => j = k
    /\ Family \in Families
    /\ Ttls \subseteq Nat
    /\ StrayKinds \subseteq {"foreign", "malformed"}
    /\ MaxSends \in Nat
    /\ MaxArrivals \in Nat
    /\ StdinMayHangUp \in BOOLEAN

VARIABLES
    sockets,              \* what the provider returned
    mReceivingSockets,    \* sequence of fds
    mSendingSocket,
    fdToProtocol,
    ttlOf,                \* kernel: the ttl option of each socket
    queue,                \* kernel: datagrams in each socket, [protocol, response]
    stdin,                \* kernel: "open" or "hung up"
    wire,                 \* packets sent: [packet, ttl they left with, family]
    sent, arrived,        \* counters (bounds)
    sPc, sAsked,          \* trySending: where it is, its arguments
    accepted,             \* trySending: what the last call returned
    rPc, rFd,             \* tryReceiving: where it is, the fd poll returned
    respInfo              \* tryReceiving: what the last call returned

objectVars == <<sockets, mReceivingSockets, mSendingSocket, fdToProtocol>>
kernelVars == <<ttlOf, queue, stdin, wire, arrived>>
sendVars   == <<sPc, sAsked, accepted, sent>>
recvVars   == <<rPc, rFd, respInfo>>
vars == <<objectVars, kernelVars, sendVars, recvVars>>

Unprotocoled(response) == [protocol |-> "none", datagram |-> "none", response |-> response]

Nothing == Unprotocoled(nullopt)
Thrown  == Unprotocoled([kind |-> "threw"])

Fds(s) == {s[k].fd : k \in DOMAIN s}

-------------------------------------------------------------------------------
(* The constructor sorts the sockets by role.                              *)
IndexedByPosition(s) == [fd \in Fds(s) |-> s[1].protocol]

ProtocolByFd(s) ==
    [fd \in Fds(s) |-> s[CHOOSE k \in DOMAIN s : s[k].fd = fd].protocol]

Init ==
    /\ sockets \in Providers
    /\ mReceivingSockets =
          LET r == Among(sockets, {x \in Range(sockets) : "Receive" \in x.role})
          IN  [k \in DOMAIN r |-> r[k].fd]
    /\ mSendingSocket = (CHOOSE x \in Range(sockets) : "Send" \in x.role).fd
    /\ fdToProtocol = ProtocolByFd(sockets)
    /\ ttlOf = [fd \in Fds(sockets) |-> 64]
    /\ queue = [fd \in Fds(sockets) |-> <<>>]
    /\ stdin = "open"
    /\ wire = {}
    /\ sent = 0
    /\ arrived = 0
    /\ sPc = "idle"
    /\ sAsked = nullopt
    /\ accepted = FALSE
    /\ rPc = "idle"
    /\ rFd = 0
    /\ respInfo = Nothing

-------------------------------------------------------------------------------
(* trySending *)

(* What setsockopt accepts: IP_TTL no zero, IPV6_UNICAST_HOPS one.         *)
SocketTtls == IF Family = "v4" THEN 1 .. 255 ELSE 0 .. 255

TtlOfReceiver == mReceivingSockets[1]

TtlSocket == mSendingSocket

(* The engine hands over a packet of a probe with the probe's ttl.         *)
Outgoing ==
    [probe : [call : {1}, ttl : Ttls, retry : 0 .. MaxSends - 1], key : Keys]

setTtl ==
    /\ sPc = "idle"
    /\ sent < MaxSends
    /\ sent' = sent + 1
    /\ \E packet \in Outgoing, family \in Families :
          /\ packet.probe.retry = sent
          /\ IF packet.probe.ttl \in SocketTtls
             THEN /\ ttlOf' = [ttlOf EXCEPT ![TtlSocket] = packet.probe.ttl]
                  /\ sAsked' = [packet |-> packet, family |-> family]
                  /\ sPc' = "ttl set"
                  /\ UNCHANGED accepted
             ELSE /\ accepted' = FALSE   \* throws
                  /\ UNCHANGED <<ttlOf, sAsked, sPc>>
    /\ UNCHANGED <<objectVars, queue, stdin, wire, arrived, recvVars>>

SendEnds(verdict) ==
    /\ sPc' = "idle"
    /\ sAsked' = nullopt
    /\ accepted' = verdict

WrongFamily ==
    /\ sPc = "ttl set"
    /\ sAsked.family # Family
    /\ SendEnds(FALSE)
    /\ UNCHANGED <<objectVars, kernelVars, sent, recvVars>>

PollOut ==
    /\ sPc = "ttl set"
    /\ sAsked.family = Family
    /\ sPc' = "writable"
    /\ UNCHANGED <<objectVars, kernelVars, sAsked, accepted, sent, recvVars>>

(* Not writable for five seconds, or poll or sendto fails.                 *)
NotSent ==
    /\ \/ sPc = "ttl set" /\ sAsked.family = Family
       \/ sPc = "writable"
    /\ SendEnds(FALSE)
    /\ UNCHANGED <<objectVars, kernelVars, sent, recvVars>>

sendto ==
    /\ sPc = "writable"
    /\ wire' = wire \cup {[packet |-> sAsked.packet,
                           ttl    |-> ttlOf[mSendingSocket],
                           family |-> sAsked.family]}
    /\ SendEnds(TRUE)
    /\ UNCHANGED <<objectVars, ttlOf, queue, stdin, arrived, sent, recvVars>>

Sending == setTtl \/ WrongFamily \/ PollOut \/ NotSent \/ sendto

-------------------------------------------------------------------------------
(* tryReceiving *)

HasDatagram(fd) == queue[fd] # <<>>

FirstSocketOnly == IF HasDatagram(mReceivingSockets[1]) THEN 1 ELSE 0

AnyGivenSocket == 1

(* find_if over the fds given to Poll: position of the first with revents. *)
FirstReady == SelectInSeq(mReceivingSockets, HasDatagram)

(* Poll's vector holds, before the sockets, as many default entries with   *)
(* fd 0 and no events: poll reports on those when stdin has hung up.       *)
PollReady ==
    /\ rPc = "idle"
    /\ \/ stdin = "hung up" /\ rFd' = 0
       \/ stdin = "open" /\ FirstReady # 0 /\ rFd' = mReceivingSockets[FirstReady]
    /\ rPc' = "ready"
    /\ UNCHANGED <<objectVars, kernelVars, sendVars, respInfo>>

NeverWaits == TRUE

NothingReady == stdin = "open" /\ FirstReady = 0

(* The timeout passes with nothing to report.                              *)
PollTimesOut ==
    /\ rPc = "idle"
    /\ NothingReady
    /\ respInfo' = Nothing
    /\ UNCHANGED <<objectVars, kernelVars, sendVars, rPc, rFd>>

PollThrows ==
    /\ rPc = "idle"
    /\ respInfo' = Thrown
    /\ UNCHANGED <<objectVars, kernelVars, sendVars, rPc, rFd>>

recvfrom ==
    /\ rPc = "ready"
    /\ rFd \in Range(mReceivingSockets)
    /\ HasDatagram(rFd)
    /\ respInfo' = [protocol |-> fdToProtocol[rFd],
                    datagram |-> Head(queue[rFd]).protocol,
                    response |-> Head(queue[rFd]).response]
    /\ queue' = [queue EXCEPT ![rFd] = Tail(@)]
    /\ rPc' = "idle"
    /\ UNCHANGED <<objectVars, ttlOf, stdin, wire, arrived, sendVars, rFd>>

(* fd 0 is no socket; an empty socket, opened SOCK_NONBLOCK, has no data.  *)
recvfromThrows ==
    /\ rPc = "ready"
    /\ rFd \in Range(mReceivingSockets) => ~HasDatagram(rFd)
    /\ respInfo' = Thrown
    /\ rPc' = "idle"
    /\ UNCHANGED <<objectVars, kernelVars, sendVars, rFd>>

Receiving == PollReady \/ PollTimesOut \/ PollThrows \/ recvfrom \/ recvfromThrows

-------------------------------------------------------------------------------
(* The kernel puts a datagram into every raw socket of its protocol.       *)
Arrives(protocol, response) ==
    queue' = [fd \in DOMAIN queue |->
                 IF \E k \in DOMAIN sockets : sockets[k].fd = fd /\ sockets[k].protocol = protocol
                 THEN Append(queue[fd], [protocol |-> protocol, response |-> response])
                 ELSE queue[fd]]

(* A router reports the end of the ttl over icmp; the target answers a TCP *)
(* probe over TCP and the others over icmp.                                *)
Answer(w) ==
    IF w.ttl < Distance
    THEN Arrives("icmp", [Reply(w.packet) EXCEPT !.client = Router])
    ELSE Arrives(IF \E x \in Range(sockets) : "Send" \in x.role /\ x.protocol = "tcp"
                 THEN "tcp" ELSE "icmp",
                 [Reply(w.packet) EXCEPT !.client = Target])

Arrive ==
    /\ arrived < MaxArrivals
    /\ arrived' = arrived + 1
    /\ \/ \E w \in wire : Answer(w)
       \/ \E protocol \in Protocols, kind \in StrayKinds : Arrives(protocol, Stray(kind))
    /\ UNCHANGED <<objectVars, ttlOf, stdin, wire, sendVars, recvVars>>

StdinHangsUp ==
    /\ StdinMayHangUp
    /\ 0 \notin Fds(sockets)
    /\ stdin = "open"
    /\ stdin' = "hung up"
    /\ UNCHANGED <<objectVars, ttlOf, queue, wire, arrived, sendVars, recvVars>>

Next == Sending \/ Receiving \/ Arrive \/ StdinHangsUp

(* The engine's receiving thread keeps calling tryReceiving.               *)
Fairness == WF_vars(PollReady) /\ WF_vars(recvfrom \/ recvfromThrows)

Spec == Init /\ [][Next]_vars

FairSpec == Spec /\ Fairness

-------------------------------------------------------------------------------
(* Properties *)

(* setTtl and sendto are two system calls with a poll of up to five        *)
(* seconds between them, while the other thread works on the same socket:  *)
(* a packet still leaves with the ttl of its probe, and none leaves that   *)
(* is of another family.                                                   *)
SentWithItsTtl ==
    \A w \in wire : w.ttl = w.packet.probe.ttl /\ w.family = Family

(* The protocol of a ResponseInfo, on which the validators dispatch, is    *)
(* that of the datagram in the buffer.                                     *)
ResponsesNameTheirProtocol == respInfo.protocol = respInfo.datagram

(* Between poll and recvfrom nobody takes the datagram away: a socket that *)
(* poll returned has one, and recvfrom on it does not throw.               *)
ReadySocketHasDatagram ==
    rPc = "ready" /\ rFd \in Range(mReceivingSockets) => HasDatagram(rFd)

(* Poll prefers the sockets in the order of the provider; a later one is   *)
(* emptied all the same once the earlier ones are, unless stdin hangs up.  *)
Waiting(fd) == fd \in Range(mReceivingSockets) /\ HasDatagram(fd)

EverySocketIsRead ==
    \A fd \in UNION {Fds(s) : s \in Providers} :
        Waiting(fd) ~> ~Waiting(fd) \/ stdin = "hung up"

(* Poll.hpp: "poll wrapper, returns a fd within given timeout" - of the    *)
(* fds it was given.                                                       *)
PollReturnsGivenFd == rPc = "ready" => rFd \in Range(mReceivingSockets)

-------------------------------------------------------------------------------
(* The service the engines are modelled over: what waits in the sockets    *)
(* that are read is the inbox.                                             *)
Service == INSTANCE DatagramService WITH
    wire     <- {w.packet : w \in wire},
    inbox    <- {d.response : d \in UNION {Range(queue[fd]) : fd \in Range(mReceivingSockets)}},
    received <- respInfo.response

(* Two sockets polled in order, a ttl set on one of them, replies by the   *)
(* ttl a packet really left with: to the engines this is one set of        *)
(* datagrams, replies by the ttl of the probe, nothing returned only when  *)
(* nothing waits, and true exactly for what is on the wire.                *)
ImplementsService == Service!Spec

===============================================================================
