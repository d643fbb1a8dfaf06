--------------------------- MODULE DataSenderProofs ---------------------------
(***************************************************************************)
(* Theorems about DataSender, for every provider, set of ttls and packets, *)
(* and number of sends and arrivals.                                       *)
(***************************************************************************)
EXTENDS DataSender, CollectionLemmas

-------------------------------------------------------------------------------
(* From setsockopt to sendto the ttl option of the sending socket stays    *)
(* that of the packet in hand; only a packet of the family gets past the   *)
(* check.                                                                  *)
TtlIsKept ==
    /\ mSendingSocket \in DOMAIN ttlOf
    /\ sPc # "idle" => sAsked.packet.probe.ttl = ttlOf[mSendingSocket]
    /\ sPc = "writable" => sAsked.family = Family
    /\ SentWithItsTtl

(* The constructor's sending socket is one of the provider's.              *)
LEMMA TtlInit == Init => TtlIsKept
  <1> SUFFICES ASSUME Init
               PROVE  TtlIsKept
    OBVIOUS
  <1>1. sockets \in Seq(SocketExt)
    BY DataSenderAssumption DEF Init
  <1>2. PICK k \in DOMAIN sockets : "Send" \in sockets[k].role
    BY DataSenderAssumption DEF Init
  <1>3. sockets[k] \in Range(sockets)
    BY <1>2 DEF Range
  <1>4. (CHOOSE x \in Range(sockets) : "Send" \in x.role) \in Range(sockets)
    BY <1>2, <1>3
  <1>5. mSendingSocket \in Fds(sockets)
    BY <1>4 DEF Init, Range, Fds
  <1>6. QED
    BY <1>5 DEF Init, TtlIsKept, SentWithItsTtl

(* Sending: the one step that changes a ttl runs when no packet is in      *)
(* hand.                                                                   *)
LEMMA SendingKeepsTtl ==
    ASSUME TtlIsKept, Sending
    PROVE  TtlIsKept'
  <1> USE DEF TtlIsKept, SentWithItsTtl, objectVars
  <1>1. CASE setTtl
    <2>1. PICK packet \in Outgoing, family \in Families :
             IF packet.probe.ttl \in SocketTtls
             THEN /\ ttlOf' = [ttlOf EXCEPT ![mSendingSocket] = packet.probe.ttl]
                  /\ sAsked' = [packet |-> packet, family |-> family]
                  /\ sPc' = "ttl set"
             ELSE UNCHANGED <<ttlOf, sAsked, sPc>>
      BY <1>1 DEF setTtl, TtlSocket
    <2>2. UNCHANGED <<mSendingSocket, wire>>
      BY <1>1 DEF setTtl
    <2>3. CASE packet.probe.ttl \in SocketTtls
      <3>1. ttlOf' = [ttlOf EXCEPT ![mSendingSocket] = packet.probe.ttl] /\ sPc' = "ttl set"
        BY <2>1, <2>3
      <3>2. sAsked'.packet = packet
        <4>1. sAsked' = [packet |-> packet, family |-> family]
          BY <2>1, <2>3, Zenon
        <4>2. QED
          BY ONLY <4>1
      <3>3. ttlOf'[mSendingSocket] = packet.probe.ttl
        BY <3>1
      <3>4. QED
        BY <2>2, <3>1, <3>2, <3>3
    <2>4. CASE packet.probe.ttl \notin SocketTtls
      BY <2>1, <2>2, <2>4
    <2>5. QED
      BY <2>3, <2>4
  <1>2. CASE WrongFamily
    BY <1>2 DEF WrongFamily, SendEnds, kernelVars
  <1>3. CASE PollOut
    BY <1>3 DEF PollOut, kernelVars
  <1>4. CASE NotSent
    BY <1>4 DEF NotSent, SendEnds, kernelVars
  <1>5. CASE sendto
    BY <1>5 DEF sendto, SendEnds
  <1>6. QED
    BY <1>1, <1>2, <1>3, <1>4, <1>5 DEF Sending

(* Everything else leaves the sender, its options and the wire alone.      *)
LEMMA OtherStepsKeepTtl ==
    ASSUME TtlIsKept, Receiving \/ Arrive \/ StdinHangsUp \/ UNCHANGED vars
    PROVE  TtlIsKept'
  <1>1. UNCHANGED <<mSendingSocket, ttlOf, wire, sPc, sAsked>>
    BY DEF Receiving, PollReady, PollTimesOut, PollThrows, recvfrom, recvfromThrows, Arrive,
           StdinHangsUp, vars, objectVars, kernelVars, sendVars, recvVars
  <1>2. QED
    BY <1>1 DEF TtlIsKept, SentWithItsTtl

(* What poll and the other thread do between setTtl and sendto never makes *)
(* a packet leave with the ttl of another (DataSender::trySending).        *)
THEOREM LeavesWithItsTtl == Spec => []SentWithItsTtl
  <1>1. Init => TtlIsKept
    BY TtlInit
  <1>2. TtlIsKept /\ [Next]_vars => TtlIsKept'
    BY SendingKeepsTtl, OtherStepsKeepTtl DEF Next
  <1>3. TtlIsKept => SentWithItsTtl
    BY DEF TtlIsKept
  <1>4. QED
    BY <1>1, <1>2, <1>3, PTL DEF Spec

-------------------------------------------------------------------------------
(* Sockets and queues *)

(* What a socket set up for a protocol may have received.                  *)
Datagrams(protocol) == [protocol : {protocol}, response : Response]

(* What the constructor built stays; every queue holds datagrams of the    *)
(* protocol of its socket; standard input hangs up only if 0 is no socket. *)
Sorted ==
    /\ sockets \in Seq(SocketExt)
    /\ \A j, k \in DOMAIN sockets : sockets[j].fd = sockets[k].fd => j = k
    /\ \A k \in DOMAIN mReceivingSockets : mReceivingSockets[k] \in Fds(sockets)
    /\ DOMAIN mReceivingSockets = 1 .. Len(mReceivingSockets)
    /\ fdToProtocol = ProtocolByFd(sockets)
    /\ DOMAIN queue = Fds(sockets)
    /\ \A fd \in Fds(sockets) : queue[fd] \in Seq(Datagrams(fdToProtocol[fd]))
    /\ \A w \in wire : w.packet \in Packet
    /\ sPc # "idle" => sAsked.packet \in Outgoing
    /\ stdin = "hung up" => 0 \notin Fds(sockets)

(* Each descriptor is of one socket, whose protocol the map gives.         *)
LEMMA ProtocolOfFd ==
    ASSUME NEW s, \A j, k \in DOMAIN s : s[j].fd = s[k].fd => j = k,
           NEW k \in DOMAIN s
    PROVE  ProtocolByFd(s)[s[k].fd] = s[k].protocol
  <1> DEFINE j == CHOOSE i \in DOMAIN s : s[i].fd = s[k].fd
  <1>1. j \in DOMAIN s /\ s[j].fd = s[k].fd
    OBVIOUS
  <1>2. j = k
    BY <1>1
  <1>3. s[k].fd \in Fds(s)
    BY DEF Fds
  <1>4. QED
    BY <1>2, <1>3 DEF ProtocolByFd

(* Replies and strays are datagrams.                                       *)
LEMMA ReplyIsResponse ==
    ASSUME NEW packet \in Packet, NEW client \in Clients
    PROVE  /\ Reply(packet) \in Response
           /\ [Reply(packet) EXCEPT !.client = client] \in Response
  BY DEF Reply, Packet, Response, Clients

(* So are those of other programs.                                         *)
LEMMA StrayIsResponse ==
    ASSUME NEW kind \in StrayKinds
    PROVE  Stray(kind) \in Response
  BY DataSenderAssumption DEF Stray, Response

(* The constructor files every descriptor under its role and protocol, and *)
(* every socket starts empty.                                              *)
LEMMA SortedInit == Init => Sorted
  <1> SUFFICES ASSUME Init
               PROVE  Sorted
    OBVIOUS
  <1> DEFINE r == Among(sockets, {x \in Range(sockets) : "Receive" \in x.role})
  <1>1. /\ sockets \in Seq(SocketExt)
        /\ \A j, k \in DOMAIN sockets : sockets[j].fd = sockets[k].fd => j = k
    BY DataSenderAssumption DEF Init
  <1>2. r \in Seq(SocketExt) /\ DOMAIN r = 1 .. Len(r) /\ Len(r) \in Nat
    BY <1>1, AmongFacts, LenProperties
  <1>3. ASSUME NEW k \in DOMAIN r
        PROVE  r[k].fd \in Fds(sockets)
    <2>1. Range(r) \subseteq Range(sockets)
      BY <1>1, RangeOfAmong
    <2>2. r[k] \in Range(sockets)
      BY <2>1 DEF Range
    <2>3. QED
      BY <2>2 DEF Range, Fds
  <1>4. mReceivingSockets = [k \in DOMAIN r |-> r[k].fd]
    BY DEF Init
  <1> HIDE DEF r
  <1>5. /\ \A k \in DOMAIN mReceivingSockets : mReceivingSockets[k] \in Fds(sockets)
        /\ DOMAIN mReceivingSockets = 1 .. Len(mReceivingSockets)
    <2>1. mReceivingSockets = [k \in 1 .. Len(r) |-> r[k].fd]
      BY <1>2, <1>4
    <2>2. \A k \in 1 .. Len(r) : r[k].fd \in Nat
      <3>1. \A k \in 1 .. Len(r) : r[k] \in SocketExt
        BY <1>2, ElementOfSeq
      <3>2. QED
        BY <3>1 DEF SocketExt
    <2>3. mReceivingSockets \in Seq(Nat)
      BY <1>2, <2>1, <2>2
    <2>4. QED
      BY <1>2, <1>3, <2>1, <2>3, LenProperties
  <1>6. \A fd \in Fds(sockets) : queue[fd] \in Seq(Datagrams(fdToProtocol[fd]))
    BY EmptySeq DEF Init
  <1>7. QED
    BY <1>1, <1>5, <1>6 DEF Init, Sorted

(* A datagram arrives in the queues of its protocol.                       *)
LEMMA ArrivesSorted ==
    ASSUME Sorted, NEW protocol, NEW response \in Response, Arrives(protocol, response)
    PROVE  /\ DOMAIN queue' = Fds(sockets)
           /\ \A fd \in Fds(sockets) :
                 /\ queue'[fd] \in Seq(Datagrams(fdToProtocol[fd]))
                 /\ queue[fd] # <<>> => queue'[fd] # <<>>
  <1>1. DOMAIN queue' = Fds(sockets)
    BY DEF Arrives, Sorted
  <1>2. ASSUME NEW fd \in Fds(sockets)
        PROVE  /\ queue'[fd] \in Seq(Datagrams(fdToProtocol[fd]))
               /\ queue[fd] # <<>> => queue'[fd] # <<>>
    <2> DEFINE S == Datagrams(fdToProtocol[fd])
               d == [protocol |-> protocol, response |-> response]
    <2>1. queue[fd] \in Seq(S) /\ fd \in DOMAIN queue
      BY DEF Sorted
    <2>2. CASE \E k \in DOMAIN sockets : sockets[k].fd = fd /\ sockets[k].protocol = protocol
      <3>1. fdToProtocol[fd] = protocol
        BY <2>2, ProtocolOfFd DEF Sorted
      <3>2. d \in S
        BY <3>1 DEF Datagrams
      <3>3. queue'[fd] = Append(queue[fd], d)
        BY <2>1, <2>2 DEF Arrives
      <3> HIDE DEF S, d
      <3>4. Append(queue[fd], d) \in Seq(S) /\ Append(queue[fd], d) # <<>>
        <4>1. /\ Append(queue[fd], d) \in Seq(S)
              /\ Len(Append(queue[fd], d)) = Len(queue[fd]) + 1
              /\ Len(queue[fd]) \in Nat
          BY <2>1, <3>2, AppendFacts, LenProperties
        <4>2. Len(Append(queue[fd], d)) # 0 /\ Len(<<>>) = 0
          BY <4>1, EmptySeq
        <4>3. QED
          BY <4>1, <4>2
      <3>5. QED
        BY <3>3, <3>4 DEF S
    <2>3. CASE ~\E k \in DOMAIN sockets : sockets[k].fd = fd /\ sockets[k].protocol = protocol
      <3>1. queue'[fd] = queue[fd]
        BY <2>1, <2>3 DEF Arrives
      <3>2. QED
        BY <2>1, <3>1
    <2>4. QED
      BY <2>2, <2>3
  <1>3. QED
    BY <1>1, <1>2

(* What Arrive puts into the queues.                                       *)
LEMMA ArriveIsArrives ==
    ASSUME Sorted, Arrive
    PROVE  \E protocol : \E response \in Response : Arrives(protocol, response)
  <1>1. CASE \E w \in wire : Answer(w)
    <2>1. PICK w \in wire : Answer(w)
      BY <1>1
    <2>2. w.packet \in Packet
      BY DEF Sorted
    <2>3. \A client \in {Router, Target} : [Reply(w.packet) EXCEPT !.client = client] \in Response
      BY <2>2, ReplyIsResponse DEF Clients
    <2>4. \/ Arrives("icmp", [Reply(w.packet) EXCEPT !.client = Router])
          \/ \E protocol : Arrives(protocol, [Reply(w.packet) EXCEPT !.client = Target])
      BY <2>1, Zenon DEF Answer
    <2>5. QED
      BY <2>3, <2>4, Zenon
  <1>2. CASE \E protocol \in Protocols, kind \in StrayKinds : Arrives(protocol, Stray(kind))
    BY <1>2, StrayIsResponse, Zenon
  <1>3. QED
    BY <1>1, <1>2, Zenon DEF Arrive

(* The packets handed to trySending are packets.                           *)
LEMMA OutgoingIsPacket == Outgoing \subseteq Packet
  <1>1. Ttls \subseteq Nat /\ 0 .. MaxSends - 1 \subseteq Nat /\ {1} \subseteq Nat
    BY DataSenderAssumption
  <1>2. [call : {1}, ttl : Ttls, retry : 0 .. MaxSends - 1] \subseteq Probe
    BY <1>1 DEF Probe
  <1>3. QED
    BY <1>2 DEF Outgoing, Packet

(* A datagram enters a queue with the protocol of the socket, and no step  *)
(* touches the tables of the object.                                       *)
LEMMA SortedStep ==
    ASSUME Sorted, [Next]_vars
    PROVE  Sorted'
  <1>1. CASE setTtl
    <2>1. /\ UNCHANGED <<objectVars, queue, stdin, wire>>
          /\ sPc = "idle"
          /\ sPc' # "idle" => sAsked'.packet \in Outgoing
      <3>1. PICK packet \in Outgoing, family \in Families :
               \/ sAsked' = [packet |-> packet, family |-> family]
               \/ UNCHANGED <<sAsked, sPc>>
        BY <1>1, Zenon DEF setTtl
      <3>2. sPc = "idle" /\ UNCHANGED <<objectVars, queue, stdin, wire>>
        BY <1>1 DEF setTtl
      <3>3. QED
        BY <3>1, <3>2
    <2>2. QED
      BY <2>1 DEF Sorted, objectVars
  <1>2. CASE WrongFamily \/ PollOut \/ NotSent
    BY <1>2 DEF Sorted, WrongFamily, PollOut, NotSent, SendEnds, objectVars, kernelVars
  <1>3. CASE sendto
    <2>1. /\ UNCHANGED <<objectVars, queue, stdin>> /\ sPc' = "idle"
          /\ \A w \in wire' : w \in wire \/ w.packet = sAsked.packet
          /\ sPc # "idle"
      BY <1>3 DEF sendto, SendEnds
    <2>2. sAsked.packet \in Packet
      BY <2>1, OutgoingIsPacket DEF Sorted
    <2>3. QED
      BY <2>1, <2>2 DEF Sorted, objectVars
  <1>4. CASE PollReady \/ PollTimesOut \/ PollThrows \/ recvfromThrows \/ UNCHANGED vars
    BY <1>4 DEF Sorted, PollReady, PollTimesOut, PollThrows, recvfromThrows, vars, objectVars,
                kernelVars, sendVars
  <1>5. CASE recvfrom
    <2>1. /\ UNCHANGED <<objectVars, stdin, wire, sPc, sAsked>>
          /\ queue' = [queue EXCEPT ![rFd] = Tail(@)] /\ queue[rFd] # <<>>
      BY <1>5 DEF recvfrom, sendVars, HasDatagram
    <2>2. ASSUME NEW fd \in Fds(sockets)
          PROVE  queue'[fd] \in Seq(Datagrams(fdToProtocol[fd]))
      <3>1. queue[fd] \in Seq(Datagrams(fdToProtocol[fd]))
        BY DEF Sorted
      <3>2. queue'[fd] = IF fd = rFd THEN Tail(queue[fd]) ELSE queue[fd]
        BY <2>1 DEF Sorted
      <3>3. queue[fd] # <<>> => Tail(queue[fd]) \in Seq(Datagrams(fdToProtocol[fd]))
        BY <3>1, HeadTailProperties
      <3>4. QED
        BY <2>1, <3>1, <3>2, <3>3
    <2>3. QED
      BY <2>1, <2>2 DEF Sorted, objectVars
  <1>6. CASE Arrive
    <2>1. /\ DOMAIN queue' = Fds(sockets)
          /\ \A fd \in Fds(sockets) : queue'[fd] \in Seq(Datagrams(fdToProtocol[fd]))
      BY <1>6, ArriveIsArrives, ArrivesSorted
    <2>2. UNCHANGED <<objectVars, stdin, wire, sPc, sAsked>>
      BY <1>6 DEF Arrive, sendVars
    <2>3. QED
      BY <2>1, <2>2 DEF Sorted, objectVars
  <1>7. CASE StdinHangsUp
    BY <1>7 DEF Sorted, StdinHangsUp, objectVars, sendVars
  <1>8. QED
    BY <1>1, <1>2, <1>3, <1>4, <1>5, <1>6, <1>7 DEF Next, Sending, Receiving

(* Queues and tables agree throughout.                                     *)
LEMMA StaysSorted == Spec => []Sorted
  BY SortedInit, SortedStep, PTL DEF Spec

(* The protocol recorded for a descriptor is that of every datagram read   *)
(* from it.                                                                *)
THEOREM ResponsesAreOfTheirSocket == Spec => []ResponsesNameTheirProtocol
  <1>1. Init => ResponsesNameTheirProtocol
    BY DEF Init, ResponsesNameTheirProtocol, Nothing, Unprotocoled
  <1>2. ASSUME Sorted, ResponsesNameTheirProtocol, [Next]_vars
        PROVE  ResponsesNameTheirProtocol'
    <2>1. CASE UNCHANGED respInfo
      BY <1>2, <2>1 DEF ResponsesNameTheirProtocol
    <2>2. CASE PollTimesOut \/ PollThrows \/ recvfromThrows
      BY <2>2 DEF PollTimesOut, PollThrows, recvfromThrows, ResponsesNameTheirProtocol, Nothing,
                  Thrown, Unprotocoled
    <2>3. CASE recvfrom
      <3>1. rFd \in Fds(sockets) /\ queue[rFd] # <<>>
        BY <1>2, <2>3 DEF recvfrom, Sorted, Range, HasDatagram
      <3>2. queue[rFd] \in Seq(Datagrams(fdToProtocol[rFd]))
        BY <1>2, <3>1 DEF Sorted
      <3>3. Head(queue[rFd]) \in Datagrams(fdToProtocol[rFd])
        BY <3>1, <3>2, HeadTailProperties
      <3>4. Head(queue[rFd]).protocol = fdToProtocol[rFd]
        BY <3>3 DEF Datagrams
      <3>5. respInfo'.protocol = fdToProtocol[rFd]
            /\ respInfo'.datagram = Head(queue[rFd]).protocol
        BY <2>3 DEF recvfrom
      <3>6. QED
        BY <3>4, <3>5 DEF ResponsesNameTheirProtocol
    <2>4. QED
      BY <1>2, <2>1, <2>2, <2>3
         DEF Next, Sending, Receiving, setTtl, WrongFamily, PollOut, NotSent, sendto, PollReady,
             Arrive, StdinHangsUp, recvVars, vars
  <1>3. QED
    BY <1>1, <1>2, StaysSorted, PTL DEF Spec

(* poll's answer is still true when recvfrom acts on it: nobody else takes *)
(* datagrams out of the sockets.                                           *)
THEOREM PolledStaysReadable == Spec => []ReadySocketHasDatagram
  <1>1. Init => ReadySocketHasDatagram
    BY DEF Init, ReadySocketHasDatagram
  <1>2. ASSUME Sorted, ReadySocketHasDatagram, [Next]_vars
        PROVE  ReadySocketHasDatagram'
    <2>1. CASE UNCHANGED <<rPc, rFd, mReceivingSockets, queue>>
      BY <1>2, <2>1 DEF ReadySocketHasDatagram, HasDatagram
    <2>2. CASE recvfrom \/ recvfromThrows
      BY <2>2 DEF recvfrom, recvfromThrows, ReadySocketHasDatagram
    <2>3. CASE PollReady
      <3>1. UNCHANGED <<mReceivingSockets, queue>>
        BY <2>3 DEF PollReady, objectVars, kernelVars
      <3>2. CASE stdin = "hung up" /\ rFd' = 0
        <4>1. 0 \notin Range(mReceivingSockets)
          BY <1>2, <3>2 DEF Sorted, Range
        <4>2. QED
          BY <3>1, <3>2, <4>1 DEF ReadySocketHasDatagram
      <3>3. CASE FirstReady # 0 /\ rFd' = mReceivingSockets[FirstReady]
        <4> DEFINE I == {i \in 1 .. Len(mReceivingSockets) : HasDatagram(mReceivingSockets[i])}
        <4>1. FirstReady = IF I # {} THEN Min(I) ELSE 0
          BY DEF FirstReady, SelectInSeq
        <4>2. I \in SUBSET Nat
          OBVIOUS
        <4> HIDE DEF I
        <4>3. FirstReady \in I
          BY <3>3, <4>1, <4>2, MinOfNaturals
        <4>4. HasDatagram(mReceivingSockets[FirstReady])
          BY <4>3 DEF I
        <4>5. QED
          BY <3>1, <3>3, <4>4 DEF ReadySocketHasDatagram, HasDatagram
      <3>4. QED
        BY <2>3, <3>2, <3>3 DEF PollReady
    <2>4. CASE Arrive
      <3>1. UNCHANGED <<rPc, rFd, mReceivingSockets>>
        BY <2>4 DEF Arrive, objectVars, recvVars
      <3>2. \A fd \in Fds(sockets) : queue[fd] # <<>> => queue'[fd] # <<>>
        BY <1>2, <2>4, ArriveIsArrives, ArrivesSorted
      <3>3. Range(mReceivingSockets) \subseteq Fds(sockets)
        BY <1>2 DEF Sorted, Range
      <3>4. QED
        BY <1>2, <3>1, <3>2, <3>3 DEF ReadySocketHasDatagram, HasDatagram
    <2>5. QED
      BY <1>2, <2>1, <2>2, <2>3, <2>4
         DEF Next, Sending, Receiving, setTtl, WrongFamily, PollOut, NotSent, sendto,
             PollTimesOut, PollThrows, StdinHangsUp, objectVars, kernelVars, recvVars, vars
  <1>3. QED
    BY <1>1, <1>2, StaysSorted, PTL DEF Spec

-------------------------------------------------------------------------------
(* The service *)

(* What waits in queues q at the descriptors of r.                         *)
WaitsAt(q, r) == {d.response : d \in UNION {Range(q[fd]) : fd \in r}}

(* Membership, without the union.                                          *)
LEMMA WaitsAtMeans ==
    ASSUME NEW q, NEW r, NEW x
    PROVE  x \in WaitsAt(q, r) <=> \E fd \in r : \E k \in DOMAIN q[fd] : x = q[fd][k].response
  <1>1. ASSUME x \in WaitsAt(q, r)
        PROVE  \E fd \in r : \E k \in DOMAIN q[fd] : x = q[fd][k].response
    <2>1. PICK fd \in r : \E d \in Range(q[fd]) : x = d.response
      BY <1>1 DEF WaitsAt
    <2>2. PICK d \in Range(q[fd]) : x = d.response
      BY <2>1
    <2>3. PICK k \in DOMAIN q[fd] : d = q[fd][k]
      BY DEF Range
    <2>4. QED
      BY <2>2, <2>3
  <1>2. ASSUME NEW fd \in r, NEW k \in DOMAIN q[fd], x = q[fd][k].response
        PROVE  x \in WaitsAt(q, r)
    <2>1. q[fd][k] \in Range(q[fd])
      BY DEF Range
    <2>2. q[fd][k] \in UNION {Range(q[g]) : g \in r}
      BY <2>1
    <2>3. QED
      BY <2>2, <1>2 DEF WaitsAt
  <1>3. QED
    BY <1>1, <1>2

Read == Range(mReceivingSockets)

Shown == WaitsAt(queue, Read)

Sent == {w.packet : w \in wire}

(* A step that the service does not see.                                   *)
LEMMA Unseen ==
    ASSUME UNCHANGED <<wire, queue, mReceivingSockets, accepted, respInfo>>
    PROVE  UNCHANGED Service!vars
  BY DEF Service!vars, Service!networkVars

(* trySending ends without sending, or throws.                             *)
LEMMA NotSending ==
    ASSUME UNCHANGED <<wire, queue, mReceivingSockets, respInfo>>, accepted' = FALSE
    PROVE  Service!FailsToSend
  BY DEF Service!FailsToSend, Service!networkVars

(* Every step of the sending thread is one of the service, or none.        *)
LEMMA SendingServes ==
    ASSUME Sorted, Sending
    PROVE  [Service!Next]_(Service!vars)
  <1>1. CASE setTtl
    <2>1. UNCHANGED <<wire, queue, mReceivingSockets, respInfo>>
      BY <1>1 DEF setTtl, objectVars, recvVars
    <2>2. accepted' = FALSE \/ UNCHANGED accepted
      BY <1>1, Zenon DEF setTtl
    <2>3. QED
      BY <2>1, <2>2, NotSending, Unseen DEF Service!Next
  <1>2. CASE WrongFamily \/ NotSent
    <2>1. UNCHANGED <<wire, queue, mReceivingSockets, respInfo>> /\ accepted' = FALSE
      BY <1>2 DEF WrongFamily, NotSent, SendEnds, objectVars, kernelVars, recvVars
    <2>2. QED
      BY <2>1, NotSending DEF Service!Next
  <1>3. CASE PollOut
    <2>1. UNCHANGED <<wire, queue, mReceivingSockets, accepted, respInfo>>
      BY <1>3 DEF PollOut, objectVars, kernelVars, recvVars
    <2>2. QED
      BY <2>1, Unseen
  <1>4. CASE sendto
    <2>1. /\ UNCHANGED <<queue, mReceivingSockets, respInfo>>
          /\ accepted' = TRUE
      BY <1>4 DEF sendto, SendEnds, objectVars, recvVars
    <2>2. sAsked.packet \in Outgoing
      BY <1>4 DEF sendto, Sorted
    <2>3. Sent' = Sent \cup {sAsked.packet}
      <3>1. PICK w : w.packet = sAsked.packet /\ wire' = wire \cup {w}
        BY <1>4 DEF sendto
      <3>2. QED
        BY <3>1 DEF Sent
    <2>4. Service!Sends
      BY <2>1, <2>2, <2>3 DEF Service!Sends, Service!Transmit, Sent
    <2>5. QED
      BY <2>4 DEF Service!Next
  <1>5. QED
    BY <1>1, <1>2, <1>3, <1>4 DEF Sending

(* Every step of the receiving thread is one of the service, or none.      *)
LEMMA ReceivingServes ==
    ASSUME Sorted, Receiving
    PROVE  [Service!Next]_(Service!vars)
  <1>1. CASE PollReady
    <2>1. UNCHANGED <<wire, queue, mReceivingSockets, accepted, respInfo>>
      BY <1>1 DEF PollReady, objectVars, kernelVars, sendVars
    <2>2. QED
      BY <2>1, Unseen
  <1>2. CASE PollTimesOut
    <2>1. UNCHANGED <<wire, queue, mReceivingSockets, accepted>>
          /\ respInfo'.response = nullopt /\ FirstReady = 0
      BY <1>2 DEF PollTimesOut, objectVars, kernelVars, sendVars, Nothing, Unprotocoled,
                  NothingReady
    <2> DEFINE I == {i \in 1 .. Len(mReceivingSockets) : HasDatagram(mReceivingSockets[i])}
    <2>2. FirstReady = IF I # {} THEN Min(I) ELSE 0
      BY DEF FirstReady, SelectInSeq
    <2>3. I \in SUBSET Nat /\ 0 \notin I
      OBVIOUS
    <2>4. I = {}
      <3> HIDE DEF I
      <3>1. QED
        BY <2>1, <2>2, <2>3, MinOfNaturals
    <2>5. \A fd \in Read : queue[fd] = <<>>
      <3>1. \A i \in 1 .. Len(mReceivingSockets) : queue[mReceivingSockets[i]] = <<>>
        BY <2>4 DEF HasDatagram
      <3>2. DOMAIN mReceivingSockets = 1 .. Len(mReceivingSockets)
        BY DEF Sorted
      <3>3. QED
        BY <3>1, <3>2 DEF Read, Range
    <2>6. Shown = {}
      <3>1. ASSUME NEW x \in Shown
            PROVE  FALSE
        <4>1. PICK fd \in Read : \E k \in DOMAIN queue[fd] : x = queue[fd][k].response
          BY WaitsAtMeans DEF Shown
        <4>2. DOMAIN queue[fd] = {}
          BY <2>5
        <4>3. QED
          BY <4>1, <4>2
      <3>2. QED
        BY <3>1
    <2>7. Service!ReceivesNothing
      BY <2>1, <2>6 DEF Service!ReceivesNothing, Service!networkVars, Service!nullopt, nullopt,
                        Shown, Read, WaitsAt
    <2>8. QED
      BY <2>7 DEF Service!Next
  <1>3. CASE PollThrows \/ recvfromThrows
    <2>1. UNCHANGED <<wire, queue, mReceivingSockets, accepted>>
          /\ respInfo'.response = [kind |-> "threw"]
      BY <1>3 DEF PollThrows, recvfromThrows, objectVars, kernelVars, sendVars, Thrown, Unprotocoled
    <2>2. Service!FailsToReceive
      BY <2>1 DEF Service!FailsToReceive, Service!networkVars, Service!Threw
    <2>3. QED
      BY <2>2 DEF Service!Next
  <1>4. CASE recvfrom
    <2> DEFINE response == Head(queue[rFd]).response
    <2>1. /\ rFd \in Read /\ queue[rFd] # <<>>
          /\ respInfo'.response = response
          /\ queue' = [queue EXCEPT ![rFd] = Tail(@)]
          /\ UNCHANGED <<wire, mReceivingSockets, accepted>>
      BY <1>4 DEF recvfrom, HasDatagram, Read, objectVars, sendVars
    <2> HIDE DEF response
    <2>2. rFd \in DOMAIN queue /\ Read \subseteq DOMAIN queue
      BY <2>1 DEF Read, Range, Sorted
    <2> DEFINE q == queue[rFd]
               S == Datagrams(fdToProtocol[rFd])
    <2>3. q \in Seq(S) /\ q # <<>>
      BY <2>1, <2>2 DEF Sorted
    <2>4. /\ Len(q) \in Nat \ {0} /\ DOMAIN q = 1 .. Len(q)
          /\ DOMAIN Tail(q) = 1 .. Len(q) - 1
          /\ \A k \in 1 .. Len(q) - 1 : Tail(q)[k] = q[k + 1]
          /\ q[1].response = response
      <3>1. Len(q) \in Nat \ {0} /\ DOMAIN q = 1 .. Len(q)
        BY <2>3, EmptySeq, LenProperties
      <3>2. Tail(q) \in Seq(S) /\ Len(Tail(q)) = Len(q) - 1
        BY <2>3, HeadTailProperties
      <3>3. DOMAIN Tail(q) = 1 .. Len(q) - 1
        BY <3>2, LenProperties
      <3>4. \A k \in 1 .. Len(q) - 1 : Tail(q)[k] = q[k + 1]
        BY <2>3
      <3>5. q[1].response = response
        BY <2>3 DEF response
      <3>6. QED
        BY <3>1, <3>3, <3>4, <3>5
    <2>5. queue'[rFd] = Tail(q) /\ \A fd \in Read : fd # rFd => queue'[fd] = queue[fd]
      BY <2>1, <2>2
    <2>6. Read' = Read
      BY <2>1 DEF Read
    <2> HIDE DEF q, S
    <2>7. response \in Shown
      <3>1. 1 \in DOMAIN q
        BY <2>4
      <3>2. QED
        BY <3>1, <2>1, <2>4, WaitsAtMeans DEF Shown, q
    <2>8. ASSUME NEW x \in Shown'
          PROVE  x \in Shown
      <3>0. PICK fd \in Read : \E k \in DOMAIN queue'[fd] : x = queue'[fd][k].response
        BY <2>6, WaitsAtMeans DEF Shown
      <3>1. PICK k \in DOMAIN queue'[fd] : x = queue'[fd][k].response
        BY <3>0
      <3>2. CASE fd = rFd
        <4>1. k \in 1 .. Len(q) - 1 /\ x = q[k + 1].response /\ k + 1 \in DOMAIN q
          BY <3>1, <3>2, <2>4, <2>5
        <4>2. QED
          BY <4>1, <2>1, WaitsAtMeans DEF Shown, q
      <3>3. CASE fd # rFd
        <4>1. queue'[fd] = queue[fd]
          BY <3>3, <2>5
        <4>2. k \in DOMAIN queue[fd] /\ x = queue[fd][k].response
          BY <3>1, <4>1
        <4>3. QED
          BY <4>2, WaitsAtMeans DEF Shown
      <3>4. QED
        BY <3>2, <3>3
    <2>9. ASSUME NEW x \in Shown, x # response
          PROVE  x \in Shown'
      <3>0. PICK fd \in Read : \E k \in DOMAIN queue[fd] : x = queue[fd][k].response
        BY WaitsAtMeans DEF Shown
      <3>1. PICK k \in DOMAIN queue[fd] : x = queue[fd][k].response
        BY <3>0
      <3>2. CASE fd = rFd
        <4>1. k \in 1 .. Len(q) /\ x = q[k].response
          BY <3>1, <3>2, <2>4 DEF q
        <4>2. k # 1
          BY <4>1, <2>4, <2>9
        <4>3. k - 1 \in 1 .. Len(q) - 1 /\ (k - 1) + 1 = k
          BY <4>1, <4>2, <2>4
        <4>4. k - 1 \in DOMAIN queue'[rFd] /\ x = queue'[rFd][k - 1].response
          BY <4>1, <4>3, <2>4, <2>5
        <4>5. QED
          BY <4>4, <2>1, <2>6, WaitsAtMeans DEF Shown
      <3>3. CASE fd # rFd
        <4>1. queue'[fd] = queue[fd]
          BY <3>3, <2>5
        <4>2. k \in DOMAIN queue'[fd] /\ x = queue'[fd][k].response
          BY <3>1, <4>1
        <4>3. QED
          BY <4>2, <2>6, WaitsAtMeans DEF Shown
      <3>4. QED
        BY <3>2, <3>3
    <2>10. Shown' \in {Shown, Shown \ {response}}
      BY <2>7, <2>8, <2>9
    <2>11. Service!Receives
      BY <2>1, <2>7, <2>10 DEF Service!Receives, Service!Take, Shown, Read, WaitsAt
    <2>12. QED
      BY <2>11 DEF Service!Next
  <1>5. QED
    BY <1>1, <1>2, <1>3, <1>4 DEF Receiving

(* A datagram that arrives is in the inbox if a socket that is read has    *)
(* its protocol.                                                           *)
LEMMA ArrivesShown ==
    ASSUME Sorted, NEW protocol, NEW response, Arrives(protocol, response),
           UNCHANGED mReceivingSockets
    PROVE  Shown' \in {Shown, Shown \cup {response}}
  <1>1. Read' = Read /\ Read \subseteq Fds(sockets)
    BY DEF Read, Range, Sorted
  <1> DEFINE d == [protocol |-> protocol, response |-> response]
             Takes(fd) == \E k \in DOMAIN sockets :
                             sockets[k].fd = fd /\ sockets[k].protocol = protocol
  <1>2. \A fd \in Read : queue'[fd] = IF Takes(fd) THEN Append(queue[fd], d) ELSE queue[fd]
    BY <1>1 DEF Arrives, Sorted
  <1>3. d.response = response
    OBVIOUS
  <1>4. ASSUME NEW fd \in Read
        PROVE  /\ Len(queue[fd]) \in Nat /\ DOMAIN queue[fd] = 1 .. Len(queue[fd])
               /\ DOMAIN Append(queue[fd], d) = 1 .. Len(queue[fd]) + 1
               /\ \A k \in 1 .. Len(queue[fd]) : Append(queue[fd], d)[k] = queue[fd][k]
               /\ Append(queue[fd], d)[Len(queue[fd]) + 1] = d
    <2> DEFINE S == Datagrams(fdToProtocol[fd])
    <2>1. queue[fd] \in Seq(S)
      BY <1>1 DEF Sorted
    <2> HIDE DEF S, d
    <2>2. queue[fd] \in Seq(S \cup {d})
      BY <2>1, SeqMonotonic
    <2>3. QED
      BY <2>2, AppendFacts, LenProperties
  <1> HIDE DEF d, Takes
  <1>5. ASSUME NEW x \in Shown
        PROVE  x \in Shown'
    <2>0. PICK fd \in Read : \E k \in DOMAIN queue[fd] : x = queue[fd][k].response
      BY WaitsAtMeans DEF Shown
    <2>1. PICK k \in DOMAIN queue[fd] : x = queue[fd][k].response
      BY <2>0
    <2>2. k \in DOMAIN queue'[fd] /\ x = queue'[fd][k].response
      <3>1. k \in 1 .. Len(queue[fd])
        BY <2>1, <1>4
      <3>2. k \in 1 .. Len(queue[fd]) + 1
        BY <3>1, <1>4
      <3>3. CASE Takes(fd)
        <4>1. queue'[fd] = Append(queue[fd], d)
          BY <3>3, <1>2
        <4>2. QED
          BY <3>1, <3>2, <4>1, <2>1, <1>4
      <3>4. CASE ~Takes(fd)
        BY <3>4, <1>2, <2>1
      <3>5. QED
        BY <3>3, <3>4
    <2>3. QED
      BY <2>2, <1>1, WaitsAtMeans DEF Shown
  <1>6. ASSUME NEW x \in Shown'
        PROVE  x \in Shown \cup {response}
    <2>0. PICK fd \in Read : \E k \in DOMAIN queue'[fd] : x = queue'[fd][k].response
      BY <1>1, WaitsAtMeans DEF Shown
    <2>1. PICK k \in DOMAIN queue'[fd] : x = queue'[fd][k].response
      BY <2>0
    <2>2. CASE x = response
      BY <2>2
    <2>3. CASE x # response
      <3>1. k \in DOMAIN queue[fd] /\ x = queue[fd][k].response
        <4>1. CASE Takes(fd)
          <5>1. queue'[fd] = Append(queue[fd], d)
            BY <4>1, <1>2
          <5>2. k \in 1 .. Len(queue[fd]) + 1 /\ k # Len(queue[fd]) + 1
            BY <5>1, <2>1, <2>3, <1>3, <1>4
          <5>3. k \in 1 .. Len(queue[fd])
            BY <5>2, <1>4
          <5>4. QED
            BY <5>1, <5>3, <2>1, <1>4
        <4>2. CASE ~Takes(fd)
          BY <4>2, <1>2, <2>1
        <4>3. QED
          BY <4>1, <4>2
      <3>2. QED
        BY <3>1, WaitsAtMeans DEF Shown
    <2>4. QED
      BY <2>2, <2>3
  <1>7. QED
    BY <1>5, <1>6

(* A reply by the ttl a packet left with is a reply by the ttl of its      *)
(* probe.                                                                  *)
LEMMA ReplyByTtl ==
    ASSUME NEW packet, NEW ttl, ttl = packet.probe.ttl, ttl \in Nat
    PROVE  /\ ttl < Distance => [Reply(packet) EXCEPT !.client = Router] = Reply(packet)
           /\ ~(ttl < Distance) => [Reply(packet) EXCEPT !.client = Target] = Reply(packet)
  <1>1. Distance \in Nat
    BY ProbesAssumption
  <1>2. CASE ttl < Distance
    BY <1>1, <1>2 DEF Reply
  <1>3. CASE ~(ttl < Distance)
    BY <1>1, <1>3 DEF Reply
  <1>4. QED
    BY <1>2, <1>3

(* Every arrival is one of the service, or none.                           *)
LEMMA ArrivingServes ==
    ASSUME Sorted, SentWithItsTtl, Arrive
    PROVE  [Service!Next]_(Service!vars)
  <1>1. UNCHANGED <<wire, mReceivingSockets, accepted, respInfo>>
    BY DEF Arrive, objectVars, sendVars, recvVars
  <1>2. Sent' = Sent
    BY <1>1 DEF Sent
  <1>3. ASSUME Shown' = Shown
        PROVE  UNCHANGED Service!vars
    BY <1>1, <1>3 DEF Service!vars, Service!networkVars, Shown, Read, WaitsAt
  <1>4. CASE \E w \in wire : Answer(w)
    <2>1. PICK w \in wire : Answer(w)
      BY <1>4
    <2>2. w.ttl = w.packet.probe.ttl /\ w.ttl \in Nat
      BY DEF SentWithItsTtl, Sorted, Packet, Probe
    <2>3. \E protocol : Arrives(protocol, Reply(w.packet))
      BY <2>1, <2>2, ReplyByTtl DEF Answer
    <2>4. Shown' \in {Shown, Shown \cup {Reply(w.packet)}}
      BY <2>3, <1>1, ArrivesShown
    <2>5. w.packet \in Sent
      BY DEF Sent
    <2>6. CASE Shown' = Shown \cup {Reply(w.packet)}
      <3>1. Service!Answer
        BY <1>1, <2>5, <2>6
           DEF Service!Answer, Service!Reply, Reply, Service!Target, Service!Router, Target,
               Router, Shown, Read, WaitsAt, Sent
      <3>2. QED
        BY <3>1, <1>1 DEF Service!Next, Service!World, Service!Environment
    <2>7. QED
      BY <2>4, <2>6, <1>3
  <1>5. CASE \E protocol \in Protocols, kind \in StrayKinds : Arrives(protocol, Stray(kind))
    <2>1. PICK kind \in StrayKinds : \E protocol : Arrives(protocol, Stray(kind))
      BY <1>5
    <2>2. Shown' \in {Shown, Shown \cup {Stray(kind)}}
      BY <2>1, <1>1, ArrivesShown
    <2>3. CASE Shown' = Shown \cup {Stray(kind)}
      <3>1. Service!StrayArrives
        BY <1>1, <2>3 DEF Service!StrayArrives, Service!Stray, Stray, Shown, Read, WaitsAt
      <3>2. QED
        BY <3>1, <1>1 DEF Service!Next, Service!World, Service!Environment
    <2>4. QED
      BY <2>2, <2>3, <1>3
  <1>6. QED
    BY <1>4, <1>5 DEF Arrive

(* Over one or two sockets, polled in order, with the ttl set on one of    *)
(* them, DataSender is the one inbox and one wire the engines use: what is *)
(* proved of an engine over Network holds over DataSender.                 *)
THEOREM DataSenderServes == Spec => ImplementsService
  <1>1. Init => Service!Init
    <2>1. SUFFICES ASSUME Init
                   PROVE  Service!Init
      OBVIOUS
    <2>2. wire = {} /\ accepted = FALSE /\ respInfo.response = nullopt
      BY <2>1 DEF Init, Nothing, Unprotocoled
    <2>3. Sorted /\ \A fd \in Fds(sockets) : queue[fd] = <<>>
      BY <2>1, SortedInit DEF Init
    <2>4. Shown = {}
      <3>1. ASSUME NEW x \in Shown
            PROVE  FALSE
        <4>1. PICK fd \in Read : \E k \in DOMAIN queue[fd] : x = queue[fd][k].response
          BY WaitsAtMeans DEF Shown
        <4>2. fd \in Fds(sockets)
          BY <2>3 DEF Read, Range, Sorted
        <4>3. DOMAIN queue[fd] = {}
          BY <2>3, <4>2
        <4>4. QED
          BY <4>1, <4>3
      <3>2. QED
        BY <3>1
    <2>5. QED
      BY <2>2, <2>4 DEF Service!Init, Service!NetworkInit, Service!nullopt, nullopt, Shown, Read,
                        WaitsAt
  <1>2. ASSUME Sorted, SentWithItsTtl, [Next]_vars
        PROVE  [Service!Next]_(Service!vars)
    <2>1. CASE StdinHangsUp \/ UNCHANGED vars
      <3>1. UNCHANGED <<wire, queue, mReceivingSockets, accepted, respInfo>>
        BY <2>1 DEF StdinHangsUp, vars, objectVars, kernelVars, sendVars, recvVars
      <3>2. QED
        BY <3>1, Unseen
    <2>2. QED
      BY <1>2, <2>1, SendingServes, ReceivingServes, ArrivingServes DEF Next
  <1>3. QED
    BY <1>1, <1>2, StaysSorted, LeavesWithItsTtl, PTL DEF Spec, ImplementsService, Service!Spec

===============================================================================
