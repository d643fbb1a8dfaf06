--------------------------- MODULE SocketSetupProofs ---------------------------
(***************************************************************************)
(* Theorems about SocketSetup and FirstProbe, for every text, memory, host *)
(* and table of descriptors, and any number of calls.                      *)
(***************************************************************************)
EXTENDS FirstProbe, CollectionLemmas

-------------------------------------------------------------------------------
(* The inductive invariant *)

(* Where the call is says which function it is of; it has an outcome only  *)
(* when it has ended; and the addresses it works with are there.           *)
Calls ==
    /\ pc # "idle" => outcome = "none"
    /\ pc \in {"connect", "getsockname"} => op = "resolve"
    /\ pc \in {"socket", "bind", "option", "push"} => op = "create"
    /\ pc = "iface" => op \in {"resolve", "create"} /\ ifaceName
    /\ op = "resolve" => destination # None
    /\ op = "create" => source # None
    /\ op = "create" /\ pc # "idle" => todo # <<>>
    /\ destination # None => destination.family \in Families

(* A call under way or returned has not left descriptors behind.           *)
Accounted == pc # "idle" \/ outcome = "returned"

Creating == op = "create" /\ Accounted

Given == IF op = "create" THEN Fds ELSE {}

(* The descriptor the call holds besides those in sockets.                 *)
Held ==
    IF pc \in {"iface", "connect", "getsockname", "bind", "option", "push"} /\ fd # -1
    THEN {fd} ELSE {}

(* What is open is what was, what the call will return, and what it holds; *)
(* no descriptor is two of these.                                          *)
Books ==
    Accounted =>
        /\ DOMAIN table = before \cup Given \cup Held
        /\ before \cap (Given \cup Held) = {}
        /\ Given \cap Held = {}
        /\ op = "create" =>
              \A j, k \in DOMAIN sockets : sockets[j].fd = sockets[k].fd => j = k
        /\ pc \in {"getsockname", "option", "push"} => fd # -1

(* A socket set up for a protocol of the plan.                             *)
Opened(t, protocol) ==
    /\ t.type = "raw" /\ t.protocol = protocol
    /\ t.family = source.family /\ t.family \in Families
    /\ protocol = "icmp" => t.family = "v4"
    /\ protocol = "icmpv6" => t.family # "v4"

Bound(t) == t.iface = ifaceName /\ t.bound = HostOf(source)

Equipped(t) ==
    /\ t.protocol = "icmpv6" => t.filter = FilterPasses
    /\ t.protocol \in {"tcp", "udp"} /\ t.family = "v6" =>
          t.checksumAt = ChecksumOffset(t.protocol)

(* The sockets created are ready, and the one at hand is as far as the     *)
(* call has come.                                                          *)
Readiness ==
    Creating =>
        /\ \A k \in DOMAIN sockets :
              LET t == table[sockets[k].fd]
              IN  Opened(t, sockets[k].protocol) /\ Bound(t) /\ Equipped(t)
        /\ Held # {} =>
              /\ Opened(table[fd], ProtocolOf(todo[1].protocol))
              /\ pc # "iface" => table[fd].iface = ifaceName
              /\ pc \in {"option", "push"} => table[fd].bound = HostOf(source)
              /\ pc = "push" => Equipped(table[fd])

(* The sockets are the first of the plan of a provider, and todo the rest. *)
Planned ==
    Creating =>
        \E provider \in {"icmp", "tcp", "udp"} :
            /\ Len(sockets) + Len(todo) = Len(Plan(provider))
            /\ \A k \in 1 .. Len(sockets) : sockets[k].role = Plan(provider)[k].role
            /\ \A j \in 1 .. Len(todo) : todo[j] = Plan(provider)[Len(sockets) + j]
            /\ pc = "idle" => todo = <<>>

-------------------------------------------------------------------------------
(* Addresses and sockets *)

Step == [protocol : Protocols \ {"icmpv6"}, role : SUBSET {"Receive", "Send"}]

(* Writing the address of a host into memory yields a storage.             *)
LEMMA StorageOfHost ==
    ASSUME NEW host \in Host, NEW junk \in Storage
    PROVE  /\ StorageOf(host, junk) \in Storage
           /\ StorageOf(host, junk).family = host.family
           /\ host.family \in Families
           /\ host.family = "v4" => StorageOf(host, junk).addr4 = host.addr
           /\ host.family = "v6" => StorageOf(host, junk).addr6 = host.addr
  <1>1. CASE host \in [family : {"v4"}, addr : [1 .. 4 -> Byte]]
    BY <1>1 DEF StorageOf, Stored4, Storage, Families
  <1>2. CASE host \in [family : {"v6"}, addr : [1 .. 16 -> Byte]]
    BY <1>2 DEF StorageOf, Stored6, Storage, Families
  <1>3. QED
    BY <1>1, <1>2 DEF Host

(* The memory that the kernel's addresses are written into.                *)
LEMMA ZeroIsStorage == Zero \in Storage /\ [Zero EXCEPT !.rest = "kernel"] \in Storage
  BY DEF Zero, Storage, Families, Byte

(* No address is none.                                                     *)
LEMMA StorageIsNotNone == None \notin Storage
  BY DEF None, Storage, Families

(* What getsockname leaves is a storage, whatever its length.              *)
LEMMA OverwrittenType ==
    ASSUME NEW junk \in Storage, NEW whole \in Storage, NEW len \in Int
    PROVE  Overwritten(junk, whole, len) \in Storage
  <1>1. /\ DOMAIN whole["addr4"] = 1 .. 4 /\ DOMAIN whole["addr6"] = 1 .. 16
        /\ \A k \in 1 .. 4 : whole["addr4"][k] \in Byte /\ junk["addr4"][k] \in Byte
        /\ \A k \in 1 .. 16 : whole["addr6"][k] \in Byte /\ junk["addr6"][k] \in Byte
    BY DEF Storage
  <1>2. QED
    BY <1>1 DEF Overwritten, Storage

(* The wildcard is an address.                                             *)
LEMMA WildcardIsHost ==
    ASSUME NEW family \in Families
    PROVE  Wildcard(family) \in Host
  <1>1. 0 \in Byte
    BY DEF Byte
  <1>2. CASE family = "v4"
    BY <1>1, <1>2 DEF Wildcard, Host
  <1>3. CASE family = "v6"
    BY <1>1, <1>3 DEF Wildcard, Host
  <1>4. QED
    BY <1>2, <1>3 DEF Families

(* socket() opens a new descriptor and changes no other, or fails.         *)
LEMMA OpenSocketFacts ==
    ASSUME SetupTypeOK, NEW family, NEW type \in {"raw", "dgram"}, NEW protocol \in Protocols,
           OpenSocket(family, type, protocol)
    PROVE  /\ fd' \in Descriptors \cup {-1}
           /\ table' \in [DOMAIN table' -> KernelSocket]
           /\ DOMAIN table' \subseteq Descriptors
           /\ \/ /\ family \in Families
                 /\ fd' \in Descriptors \ DOMAIN table
                 /\ DOMAIN table' = DOMAIN table \cup {fd'}
                 /\ table'[fd'] = NewSocket(family, type, protocol)
                 /\ \A d \in DOMAIN table : table'[d] = table[d]
              \/ fd' = -1 /\ table' = table
  <1>1. table \in [DOMAIN table -> KernelSocket] /\ DOMAIN table \subseteq Descriptors
    BY DEF SetupTypeOK
  <1>2. CASE fd' = -1 /\ UNCHANGED table
    BY <1>1, <1>2
  <1>3. CASE /\ family \in Families /\ Unused # {}
             /\ fd' = Min(Unused)
             /\ table' = [d \in DOMAIN table \cup {fd'} |->
                             IF d = fd' THEN NewSocket(family, type, protocol) ELSE table[d]]
    <2> DEFINE new == NewSocket(family, type, protocol)
    <2>1. Unused \in SUBSET Nat
      BY SetupAssumption DEF Unused
    <2>2. fd' \in Descriptors \ DOMAIN table
      BY <2>1, <1>3, MinOfNaturals DEF Unused
    <2>3. new \in KernelSocket
      BY <1>3 DEF NewSocket, KernelSocket, Icmp6Types
    <2> HIDE DEF new
    <2>4. QED
      BY <2>2, <2>3, <1>1, <1>3 DEF new
  <1>4. QED
    BY <1>2, <1>3 DEF OpenSocket

(* setsockopt and bind change the socket at hand.                          *)
LEMMA SetFacts ==
    ASSUME table \in [DOMAIN table -> KernelSocket], NEW field, NEW value, Set(field, value),
           \A t \in KernelSocket : [t EXCEPT ![field] = value] \in KernelSocket
    PROVE  /\ table' \in [DOMAIN table' -> KernelSocket]
           /\ DOMAIN table' = DOMAIN table
           /\ \A d \in DOMAIN table : d # fd => table'[d] = table[d]
           /\ fd \in DOMAIN table => table'[fd] = [table[fd] EXCEPT ![field] = value]
  <1>1. table' = [d \in DOMAIN table |->
                     IF d = fd THEN [table[d] EXCEPT ![field] = value] ELSE table[d]]
    BY DEF Set
  <1>2. QED
    BY <1>1

(* What they set is what a socket may hold.                                *)
LEMMA OptionTypes ==
    /\ \A t \in KernelSocket : [t EXCEPT !["iface"] = TRUE] \in KernelSocket
    /\ \A host \in Host : \A t \in KernelSocket : [t EXCEPT !["bound"] = host] \in KernelSocket
    /\ \A t \in KernelSocket : [t EXCEPT !["filter"] = FilterPasses] \in KernelSocket
    /\ \A protocol : \A t \in KernelSocket :
          [t EXCEPT !["checksumAt"] = ChecksumOffset(protocol)] \in KernelSocket
  <1>1. \A t \in KernelSocket : [t EXCEPT !["iface"] = TRUE] \in KernelSocket
    BY DEF KernelSocket
  <1>2. \A host \in Host : \A t \in KernelSocket : [t EXCEPT !["bound"] = host] \in KernelSocket
    BY DEF KernelSocket
  <1>3. \A t \in KernelSocket : [t EXCEPT !["filter"] = FilterPasses] \in KernelSocket
    BY DEF KernelSocket, FilterPasses, Icmp6Types
  <1>4. \A protocol : ChecksumOffset(protocol) \in Nat
    BY DEF ChecksumOffset
  <1>5. \A protocol : \A t \in KernelSocket :
          [t EXCEPT !["checksumAt"] = ChecksumOffset(protocol)] \in KernelSocket
    BY <1>4 DEF KernelSocket
  <1>6. QED
    BY <1>1, <1>2, <1>3, <1>5

(* bind() takes an address of a host only, of the socket's family.         *)
LEMMA BindableIsHost ==
    ASSUME SetupTypeOK, Usable, Bindable(source)
    PROVE  HostOf(source) \in Host /\ source.family \in Families
  <1>1. table[fd] \in KernelSocket
    BY DEF SetupTypeOK, Usable
  <1>2. source.family \in Families
    BY <1>1 DEF Bindable, KernelSocket
  <1>3. Interfaces \cup FromDevice(source.family) \subseteq Host
    BY <1>2, SetupAssumption, WildcardIsHost DEF FromDevice
  <1>4. QED
    BY <1>2, <1>3 DEF Bindable

-------------------------------------------------------------------------------
(* Type correctness *)

Typed == SetupTypeOK /\ Calls

(* A program that was just started is type correct.                        *)
LEMMA TypedInit == SetupInit => Typed
  <1> SUFFICES ASSUME SetupInit
               PROVE  Typed
    OBVIOUS
  <1>1. ifaceName \in BOOLEAN /\ calls \in 0 .. MaxCalls
    BY SetupAssumption DEF SetupInit
  <1>2. table \in [DOMAIN table -> KernelSocket] /\ DOMAIN table \cup before \subseteq Descriptors
    BY DEF SetupInit
  <1>3. todo \in Seq(Step) /\ sockets \in Seq(SocketExt)
    BY DEF SetupInit
  <1>4. SetupTypeOK
    BY <1>1, <1>2, <1>3 DEF SetupInit, SetupTypeOK, Step
  <1>5. Calls
    BY DEF SetupInit, Calls
  <1>6. QED
    BY <1>4, <1>5 DEF Typed

(* Reading the target's address keeps the types.                           *)
LEMMA ParseTyped ==
    ASSUME Typed, parseAddress
    PROVE  Typed'
  <1>1. /\ pc = "idle" /\ pc' = "idle" /\ calls < MaxCalls /\ calls' = calls + 1
        /\ op' = "parse" /\ before' = DOMAIN table /\ source' = None
        /\ UNCHANGED <<ifaceName, fd, todo, sockets, table>>
    BY DEF parseAddress, Begin
  <1>2. PICK text \in Texts, junk \in Junk :
           IF Numeric(text) /\ Plain(text)
           THEN destination' = StorageOf(text.host, junk) /\ outcome' = "returned"
           ELSE destination' = None /\ outcome' = "threw"
    BY DEF parseAddress
  <1>3. text.host \in Host /\ junk \in Storage
    BY SetupAssumption
  <1>4. /\ destination' \in Storage \cup {None}
        /\ destination' # None => destination'.family \in Families
        /\ outcome' \in {"returned", "threw"}
    BY <1>2, <1>3, StorageOfHost
  <1>5. calls' \in 0 .. MaxCalls
    BY <1>1, SetupAssumption DEF Typed, SetupTypeOK
  <1>6. SetupTypeOK'
    BY <1>1, <1>4, <1>5 DEF Typed, SetupTypeOK
  <1>7. Calls'
    BY <1>1, <1>4 DEF Calls, None
  <1>8. QED
    BY <1>6, <1>7 DEF Typed

(* So does beginning to resolve the source.                                *)
LEMMA ResolveTyped ==
    ASSUME Typed, resolveSourceAddress
    PROVE  Typed'
  <1>1. /\ destination # None /\ pc = "idle" /\ calls < MaxCalls /\ calls' = calls + 1
        /\ op' = "resolve" /\ before' = DOMAIN table /\ outcome' = "none" /\ source' = None
        /\ pc' = IF ifaceName THEN "iface" ELSE "connect"
        /\ UNCHANGED <<ifaceName, destination, todo, sockets>>
        /\ OpenSocket(destination.family, "dgram", "udp")
    BY DEF resolveSourceAddress, Begin
  <1>2. calls' \in 0 .. MaxCalls
    BY <1>1, SetupAssumption DEF Typed, SetupTypeOK
  <1>3. /\ fd' \in Descriptors \cup {-1}
        /\ table' \in [DOMAIN table' -> KernelSocket]
        /\ DOMAIN table' \subseteq Descriptors
    BY <1>1, OpenSocketFacts DEF Typed, Protocols
  <1>4. SetupTypeOK'
    BY <1>1, <1>2, <1>3 DEF Typed, SetupTypeOK
  <1>5. Calls'
    BY <1>1 DEF Typed, Calls, None
  <1>6. QED
    BY <1>4, <1>5 DEF Typed

(* So does the rest of resolving.                                          *)
LEMMA ResolvingTyped ==
    ASSUME Typed, Connect \/ GetSockName
    PROVE  Typed'
  <1>1. CASE Connect
    <2>1. /\ pc = "connect" /\ op = "resolve" /\ outcome = "none"
          /\ \/ pc' = "getsockname" /\ outcome' = outcome
             \/ pc' = "idle" /\ outcome' = "threw"
          /\ UNCHANGED <<calls, op, ifaceName, destination, source, fd, todo, sockets,
                         table, before>>
      BY <1>1 DEF Connect, Throw, Typed, Calls
    <2>2. SetupTypeOK'
      BY <2>1 DEF Typed, SetupTypeOK
    <2>3. Calls'
      BY <2>1 DEF Typed, Calls, None
    <2>4. QED
      BY <2>2, <2>3 DEF Typed
  <1>2. CASE GetSockName
    <2>1. /\ pc = "getsockname" /\ op = "resolve" /\ destination # None
          /\ destination.family \in Families
          /\ pc' = "idle" /\ outcome' \in {"returned", "threw"}
          /\ UNCHANGED <<calls, op, ifaceName, destination, fd, todo, sockets, before>>
      BY <1>2 DEF GetSockName, Throw, Typed, Calls
    <2>2. LocalHost[destination.family] \in Host
      BY <2>1, SetupAssumption
    <2>3. KernelStorage(LocalHost[destination.family]) \in Storage
      BY <2>2, StorageOfHost, ZeroIsStorage DEF KernelStorage
    <2>4. source' \in Storage \cup {None}
      <3>1. CASE UNCHANGED source
        BY <3>1 DEF Typed, SetupTypeOK
      <3>2. CASE \E junk \in Junk, len \in Lengths :
                    source' = Overwritten(
                        junk, KernelStorage(LocalHost[destination.family]), len)
        <4>1. PICK junk \in Junk, len \in Lengths :
                 source' = Overwritten(junk, KernelStorage(LocalHost[destination.family]), len)
          BY <3>2
        <4>2. junk \in Storage /\ len \in Int
          BY SetupAssumption
        <4>3. QED
          BY <4>1, <4>2, <2>3, OverwrittenType
      <3>3. QED
        BY <1>2, <3>1, <3>2 DEF GetSockName
    <2>5. /\ table' \in [DOMAIN table' -> KernelSocket]
          /\ DOMAIN table' \subseteq Descriptors
      <3>1. table \in [DOMAIN table -> KernelSocket] /\ DOMAIN table \subseteq Descriptors
        BY DEF Typed, SetupTypeOK
      <3>2. table' = table \/ table' = [d \in DOMAIN table \ {fd} |-> table[d]]
        BY <1>2 DEF GetSockName, closeSocket
      <3>3. QED
        BY <3>1, <3>2
    <2>6. SetupTypeOK'
      BY <2>1, <2>4, <2>5 DEF Typed, SetupTypeOK
    <2>7. Calls'
      BY <2>1 DEF Typed, Calls, None
    <2>8. QED
      BY <2>6, <2>7 DEF Typed
  <1>3. QED
    BY <1>1, <1>2

(* Lists of one and of two.                                                *)
LEMMA ShortLists ==
    ASSUME NEW S, NEW a \in S, NEW b \in S
    PROVE  /\ <<a>> \in Seq(S) /\ <<a>> # <<>>
           /\ <<a, b>> \in Seq(S) /\ <<a, b>> # <<>>
  OBVIOUS

(* The plan of a provider is a list of steps.                              *)
LEMMA PlanType ==
    ASSUME NEW provider \in {"icmp", "tcp", "udp"}
    PROVE  Plan(provider) \in Seq(Step) /\ Plan(provider) # <<>>
  <1> DEFINE both  == {"Receive", "Send"}
             icmp  == [protocol |-> "icmp", role |-> both]
             icmpR == [protocol |-> "icmp", role |-> {"Receive"}]
             tcp   == [protocol |-> "tcp", role |-> both]
             udp   == [protocol |-> "udp", role |-> {"Send"}]
  <1>1. icmp \in Step /\ icmpR \in Step /\ tcp \in Step /\ udp \in Step
    BY DEF Step, Protocols
  <1>2. Receive \cup Send = both
    BY DEF Receive, Send
  <1>3. /\ provider = "icmp" => Plan(provider) = <<icmp>>
        /\ provider = "tcp" => Plan(provider) = <<icmpR, tcp>>
        /\ provider = "udp" => Plan(provider) = <<icmpR, udp>>
    BY <1>2 DEF Plan, Receive, Send
  <1> HIDE DEF icmp, icmpR, tcp, udp
  <1>4. CASE provider = "icmp"
    BY <1>1, <1>3, <1>4, ShortLists
  <1>5. CASE provider = "tcp"
    BY <1>1, <1>3, <1>5, ShortLists
  <1>6. CASE provider = "udp"
    BY <1>1, <1>3, <1>6, ShortLists
  <1>7. QED
    BY <1>4, <1>5, <1>6

(* So does beginning to create sockets.                                    *)
LEMMA CreateTyped ==
    ASSUME Typed, NEW provider \in {"icmp", "tcp", "udp"}, createSockets(provider)
    PROVE  Typed'
  <1>1. /\ source # None /\ pc = "idle" /\ calls < MaxCalls /\ calls' = calls + 1
        /\ op' = "create" /\ before' = DOMAIN table /\ outcome' = "none" /\ pc' = "socket"
        /\ sockets' = <<>> /\ todo' = Plan(provider)
        /\ UNCHANGED <<ifaceName, destination, source, fd, table>>
    BY DEF createSockets, Begin
  <1>2. calls' \in 0 .. MaxCalls
    BY <1>1, SetupAssumption DEF Typed, SetupTypeOK
  <1>3. todo' \in Seq(Step) /\ todo' # <<>> /\ sockets' \in Seq(SocketExt)
    BY <1>1, PlanType
  <1>4. SetupTypeOK'
    BY <1>1, <1>2, <1>3 DEF Typed, SetupTypeOK, Step
  <1>5. Calls'
    BY <1>1, <1>3 DEF Typed, Calls, None
  <1>6. QED
    BY <1>4, <1>5 DEF Typed

(* While sockets are created there is a step to do.                        *)
LEMMA StepAtHand ==
    ASSUME Typed, op = "create", pc # "idle"
    PROVE  /\ todo \in Seq(Step) /\ todo[1] \in Step /\ Tail(todo) \in Seq(Step)
           /\ Len(todo) \in Nat \ {0}
           /\ Len(Tail(todo)) = Len(todo) - 1
           /\ \A j \in 1 .. Len(todo) - 1 : Tail(todo)[j] = todo[j + 1]
           /\ ProtocolOf(todo[1].protocol) \in Protocols
  <1>1. todo \in Seq(Step) /\ todo # <<>>
    BY DEF Typed, SetupTypeOK, Calls, Step
  <1>2. Len(todo) \in Nat \ {0}
    BY <1>1, EmptySeq, LenProperties
  <1>3. todo[1] \in Step /\ Tail(todo) \in Seq(Step) /\ Len(Tail(todo)) = Len(todo) - 1
    BY <1>1, <1>2, ElementOfSeq
  <1>4. \A j \in 1 .. Len(todo) - 1 : Tail(todo)[j] = todo[j + 1]
    BY <1>1, <1>2
  <1>5. ProtocolOf(todo[1].protocol) \in Protocols
    BY <1>3 DEF Step, ProtocolOf, Protocols
  <1>6. QED
    BY <1>1, <1>2, <1>3, <1>4, <1>5

(* So does opening a socket.                                               *)
LEMMA OpenTyped ==
    ASSUME Typed, OpenRawSocket
    PROVE  Typed'
  <1>1. /\ pc = "socket" /\ op = "create" /\ outcome = "none"
        /\ pc' = IF ifaceName THEN "iface" ELSE "bind"
        /\ OpenSocket(source.family, "raw", ProtocolOf(todo[1].protocol))
        /\ UNCHANGED <<calls, op, outcome, ifaceName, destination, source, todo, sockets, before>>
    BY DEF OpenRawSocket, Typed, Calls
  <1>2. /\ fd' \in Descriptors \cup {-1}
        /\ table' \in [DOMAIN table' -> KernelSocket]
        /\ DOMAIN table' \subseteq Descriptors
    BY <1>1, StepAtHand, OpenSocketFacts DEF Typed
  <1>3. SetupTypeOK'
    BY <1>1, <1>2 DEF Typed, SetupTypeOK
  <1>4. Calls'
    BY <1>1 DEF Typed, Calls, None
  <1>5. QED
    BY <1>3, <1>4 DEF Typed

(* What the four steps that set up a socket do to it: its row in the table *)
(* changes in one field, or the call ends.                                 *)
LEMMA OptionSteps ==
    ASSUME Typed, bindInterface \/ bindIpAddress \/ SetIcmp6Filter \/ SetChecksumOffset
    PROVE  /\ pc # "idle"
           /\ UNCHANGED <<calls, op, ifaceName, destination, source, fd, todo, sockets, before>>
           /\ table' \in [DOMAIN table' -> KernelSocket]
           /\ DOMAIN table' = DOMAIN table
           /\ \A d \in DOMAIN table : d # fd => table'[d] = table[d]
           /\ \/ pc' = "idle" /\ outcome' = "threw" /\ table' = table
              \/ /\ pc' # "idle" /\ outcome' = outcome
                 /\ \/ /\ pc = "iface" /\ fd \in DOMAIN table
                       /\ pc' = IF op = "resolve" THEN "connect" ELSE "bind"
                       /\ table'[fd] = [table[fd] EXCEPT !["iface"] = TRUE]
                    \/ /\ pc = "bind" /\ fd \in DOMAIN table
                       /\ pc' = IF isV6(source) THEN "option" ELSE "push"
                       /\ HostOf(source) \in Host
                       /\ HostOf(source) \in Interfaces \cup FromDevice(table[fd].family)
                       /\ table'[fd] = [table[fd] EXCEPT !["bound"] = HostOf(source)]
                    \/ /\ pc = "option" /\ pc' = "push" /\ todo[1].protocol = "icmp"
                       /\ fd \in DOMAIN table =>
                             table'[fd] = [table[fd] EXCEPT !["filter"] = FilterPasses]
                    \/ /\ pc = "option" /\ pc' = "push" /\ todo[1].protocol # "icmp"
                       /\ fd \in DOMAIN table =>
                             table'[fd] = [table[fd] EXCEPT
                                !["checksumAt"] = ChecksumOffset(todo[1].protocol)]
  <1>1. table \in [DOMAIN table -> KernelSocket]
    BY DEF Typed, SetupTypeOK
  <1>2. CASE Throw /\ UNCHANGED table
    BY <1>1, <1>2 DEF Throw, bindInterface, bindIpAddress, SetIcmp6Filter, SetChecksumOffset
  <1>3. CASE bindInterface /\ ~(Throw /\ UNCHANGED table)
    <2>1. Set("iface", TRUE)
      BY <1>3 DEF bindInterface
    <2>2. /\ table' \in [DOMAIN table' -> KernelSocket]
          /\ DOMAIN table' = DOMAIN table
          /\ \A d \in DOMAIN table : d # fd => table'[d] = table[d]
          /\ fd \in DOMAIN table => table'[fd] = [table[fd] EXCEPT !["iface"] = TRUE]
      BY <1>1, <2>1, OptionTypes, SetFacts
    <2>3. /\ pc = "iface" /\ fd \in DOMAIN table /\ outcome' = outcome
          /\ pc' = IF op = "resolve" THEN "connect" ELSE "bind"
          /\ UNCHANGED <<calls, op, ifaceName, destination, source, fd, todo, sockets, before>>
      BY <1>3 DEF bindInterface, Usable
    <2>4. QED
      BY <2>2, <2>3
  <1>4. CASE bindIpAddress /\ ~(Throw /\ UNCHANGED table)
    <2>1. /\ Set("bound", HostOf(source)) /\ HostOf(source) \in Host
          /\ HostOf(source) \in Interfaces \cup FromDevice(table[fd].family)
      BY <1>4, BindableIsHost DEF bindIpAddress, Typed, Bindable
    <2>2. /\ table' \in [DOMAIN table' -> KernelSocket]
          /\ DOMAIN table' = DOMAIN table
          /\ \A d \in DOMAIN table : d # fd => table'[d] = table[d]
          /\ fd \in DOMAIN table => table'[fd] = [table[fd] EXCEPT !["bound"] = HostOf(source)]
      BY <1>1, <2>1, OptionTypes, SetFacts
    <2>3. /\ pc = "bind" /\ fd \in DOMAIN table /\ outcome' = outcome
          /\ pc' = IF isV6(source) THEN "option" ELSE "push"
          /\ UNCHANGED <<calls, op, ifaceName, destination, source, fd, todo, sockets, before>>
      BY <1>4 DEF bindIpAddress, Usable
    <2>4. QED
      BY <2>1, <2>2, <2>3
  <1>5. CASE SetIcmp6Filter /\ ~(Throw /\ UNCHANGED table)
    <2>1. Set("filter", FilterPasses)
      BY <1>5 DEF SetIcmp6Filter
    <2>2. /\ table' \in [DOMAIN table' -> KernelSocket]
          /\ DOMAIN table' = DOMAIN table
          /\ \A d \in DOMAIN table : d # fd => table'[d] = table[d]
          /\ fd \in DOMAIN table => table'[fd] = [table[fd] EXCEPT !["filter"] = FilterPasses]
      BY <1>1, <2>1, OptionTypes, SetFacts
    <2>3. /\ pc = "option" /\ todo[1].protocol = "icmp"
          /\ outcome' = outcome /\ pc' = "push"
          /\ UNCHANGED <<calls, op, ifaceName, destination, source, fd, todo, sockets, before>>
      BY <1>5 DEF SetIcmp6Filter
    <2>4. QED
      BY <2>2, <2>3
  <1>6. CASE SetChecksumOffset /\ ~(Throw /\ UNCHANGED table)
    <2>1. Set("checksumAt", ChecksumOffset(todo[1].protocol))
      BY <1>6 DEF SetChecksumOffset
    <2>2. /\ table' \in [DOMAIN table' -> KernelSocket]
          /\ DOMAIN table' = DOMAIN table
          /\ \A d \in DOMAIN table : d # fd => table'[d] = table[d]
          /\ fd \in DOMAIN table => table'[fd] = [table[fd] EXCEPT
                             !["checksumAt"] = ChecksumOffset(todo[1].protocol)]
      BY <1>1, <2>1, OptionTypes, SetFacts
    <2>3. /\ pc = "option" /\ todo[1].protocol # "icmp"
          /\ outcome' = outcome /\ pc' = "push"
          /\ UNCHANGED <<calls, op, ifaceName, destination, source, fd, todo, sockets, before>>
      BY <1>6 DEF SetChecksumOffset
    <2>4. QED
      BY <2>2, <2>3
  <1>7. QED
    BY <1>2, <1>3, <1>4, <1>5, <1>6

(* So they keep the types.                                                 *)
LEMMA OptionTyped ==
    ASSUME Typed, bindInterface \/ bindIpAddress \/ SetIcmp6Filter \/ SetChecksumOffset
    PROVE  Typed'
  <1>1. /\ UNCHANGED <<calls, op, ifaceName, destination, source, fd, todo, sockets, before>>
        /\ table' \in [DOMAIN table' -> KernelSocket]
        /\ DOMAIN table' = DOMAIN table
    BY OptionSteps
  <1>2. /\ pc # "idle"
        /\ \/ pc' = "idle" /\ outcome' = "threw"
           \/ /\ outcome' = outcome
              /\ \/ pc = "iface" /\ pc' = IF op = "resolve" THEN "connect" ELSE "bind"
                 \/ pc = "bind" /\ pc' = IF isV6(source) THEN "option" ELSE "push"
                 \/ pc = "option" /\ pc' = "push"
    BY OptionSteps
  <1>3. SetupTypeOK'
    BY <1>1, <1>2 DEF Typed, SetupTypeOK
  <1>4. Calls'
    BY <1>1, <1>2 DEF Typed, Calls, None
  <1>5. QED
    BY <1>3, <1>4 DEF Typed

(* So does handing a socket over.                                          *)
LEMMA PushTyped ==
    ASSUME Typed, PushSocket
    PROVE  Typed'
  <1> DEFINE made1 == [fd |-> fd, role |-> todo[1].role, protocol |-> ProtocolOf(todo[1].protocol)]
  <1>1. /\ pc = "push" /\ op = "create" /\ outcome = "none"
        /\ sockets' = Append(sockets, made1)
        /\ todo' = Tail(todo)
        /\ IF Tail(todo) = <<>> THEN pc' = "idle" /\ outcome' = "returned"
                                ELSE pc' = "socket" /\ outcome' = outcome
        /\ UNCHANGED <<calls, op, ifaceName, destination, source, fd, table, before>>
    BY DEF PushSocket, Typed, Calls
  <1>2. fd \in Int
    BY SetupAssumption DEF Typed, SetupTypeOK
  <1>3. made1 \in SocketExt
    BY <1>1, <1>2, StepAtHand DEF SocketExt, Step
  <1>4. sockets' \in Seq(SocketExt) /\ todo' \in Seq(Step)
    BY <1>1, <1>3, StepAtHand, AppendFacts DEF Typed, SetupTypeOK
  <1> HIDE DEF made1
  <1>5. SetupTypeOK'
    BY <1>1, <1>4 DEF Typed, SetupTypeOK, Step
  <1>6. Calls'
    BY <1>1 DEF Typed, Calls, None
  <1>7. QED
    BY <1>5, <1>6 DEF Typed

(* The steps of the three functions keep the types.                        *)
LEMMA SetupTyped ==
    ASSUME Typed, [Next]_vars
    PROVE  Typed'
  <1>1. CASE UNCHANGED setupVars
    BY <1>1 DEF setupVars, Typed, SetupTypeOK, Calls
  <1>2. CASE Setup
    BY <1>2, ParseTyped, ResolveTyped, ResolvingTyped, CreateTyped, OpenTyped, OptionTyped,
       PushTyped DEF Setup
  <1>3. QED
    BY <1>1, <1>2 DEF Next, SendProbe, vars

(* Type correctness: whatever the memory held, the addresses are           *)
(* storages and the table holds sockets.                                   *)
THEOREM SetupTyping == Spec => []SetupTypeOK
  <1>1. Init => Typed
    BY TypedInit DEF Init
  <1>2. Typed => SetupTypeOK
    BY DEF Typed
  <1>3. QED
    BY <1>1, <1>2, SetupTyped, PTL DEF Spec

(* The function called, where it is and how it ended agree.                *)
THEOREM CallsAgree == Spec => []Typed
  <1>1. Init => Typed
    BY TypedInit DEF Init
  <1>2. QED
    BY <1>1, SetupTyped, PTL DEF Spec

-------------------------------------------------------------------------------
(* The target is recognised *)

(* What the kernel writes for a host is equal to a parsed address exactly  *)
(* if that names the host, whatever else either of them holds.             *)
LEMMA SameAddressIsSameHost ==
    ASSUME NEW host \in Host, NEW address \in Storage, address.family = host.family
    PROVE  SameAddress(KernelStorage(host), address) <=> host = HostOf(address)
  <1>1. /\ KernelStorage(host).family = host.family
        /\ host.family = "v4" => KernelStorage(host).addr4 = host.addr
        /\ host.family = "v6" => KernelStorage(host).addr6 = host.addr
        /\ host.family \in Families
    BY StorageOfHost, ZeroIsStorage DEF KernelStorage
  <1>2. host = [family |-> host.family, addr |-> host.addr]
    BY DEF Host
  <1>3. CASE host.family = "v4"
    <2>1. SameAddress(KernelStorage(host), address) <=> host.addr = address.addr4
      BY <1>1, <1>3 DEF SameAddress, isV4
    <2>2. HostOf(address) = [family |-> host.family, addr |-> address.addr4]
      BY <1>3 DEF HostOf, isV4
    <2>3. QED
      BY <2>1, <2>2, <1>2
  <1>4. CASE host.family = "v6"
    <2>1. SameAddress(KernelStorage(host), address) <=> host.addr = address.addr6
      BY <1>1, <1>4 DEF SameAddress, isV4
    <2>2. HostOf(address) = [family |-> host.family, addr |-> address.addr6]
      BY <1>4 DEF HostOf, isV4
    <2>3. QED
      BY <2>1, <2>2, <1>2
  <1>5. QED
    BY <1>1, <1>3, <1>4 DEF Families

(* operator== tells the target from every other host of its family, though *)
(* the kernel's address has a port and the parsed one holds junk.          *)
THEOREM TargetRecognised == Spec => []TargetIsRecognised
  <1>1. Typed => TargetIsRecognised
    <2>1. SUFFICES ASSUME Typed, destination # None, NEW text \in Texts,
                          text.host.family = destination.family
                   PROVE  SameAddress(KernelStorage(text.host), destination)
                              <=> text.host = HostOf(destination)
      BY DEF TargetIsRecognised
    <2>2. text.host \in Host /\ destination \in Storage
      BY <2>1, SetupAssumption DEF Typed, SetupTypeOK
    <2>3. QED
      BY <2>1, <2>2, SameAddressIsSameHost
  <1>2. QED
    BY <1>1, CallsAgree, PTL

-------------------------------------------------------------------------------
(* The plan is followed *)

(* Beginning, opening and setting up sockets leave the plan as it is.      *)
LEMMA SamePlan ==
    ASSUME Planned, UNCHANGED <<op, todo, sockets>>,
           (Accounted' => Accounted /\ pc' # "idle") \/ UNCHANGED <<pc, outcome>>
    PROVE  Planned'
  BY DEF Planned, Creating, Accounted

(* Creating sockets follows the plan of the provider.                      *)
LEMMA SetupFollowsPlan ==
    ASSUME Typed, Planned, Setup
    PROVE  Planned'
  <1>1. CASE parseAddress \/ resolveSourceAddress \/ Connect \/ GetSockName
    <2>1. op' # "create"
      BY <1>1 DEF parseAddress, resolveSourceAddress, Begin, Connect, GetSockName, Typed, Calls
    <2>2. QED
      BY <2>1 DEF Planned, Creating
  <1>2. ASSUME NEW provider \in {"icmp", "tcp", "udp"}, createSockets(provider)
        PROVE  Planned'
    <2>1. sockets' = <<>> /\ todo' = Plan(provider) /\ pc' = "socket"
      BY <1>2 DEF createSockets
    <2>2. todo' \in Seq(Step) /\ Len(sockets') = 0
      BY <2>1, PlanType
    <2>3. /\ Len(sockets') + Len(todo') = Len(Plan(provider))
          /\ \A k \in 1 .. Len(sockets') : sockets'[k].role = Plan(provider)[k].role
          /\ \A j \in 1 .. Len(todo') : todo'[j] = Plan(provider)[Len(sockets') + j]
      BY <2>1, <2>2, LenProperties
    <2>4. QED
      BY <2>1, <2>3 DEF Planned
  <1>3. CASE OpenRawSocket
    <2>1. /\ pc # "idle" /\ pc' # "idle" /\ UNCHANGED <<op, todo, sockets, outcome>>
      BY <1>3 DEF OpenRawSocket
    <2>2. QED
      BY <2>1, SamePlan DEF Accounted
  <1>4. CASE bindInterface \/ bindIpAddress \/ SetIcmp6Filter \/ SetChecksumOffset
    <2>1. /\ pc # "idle" /\ UNCHANGED <<op, todo, sockets>>
          /\ pc' # "idle" \/ outcome' = "threw"
      BY <1>4, OptionSteps
    <2>2. QED
      BY <2>1, SamePlan DEF Accounted
  <1>5. CASE PushSocket
    <2> DEFINE n == Len(sockets)
               made1 == [fd |-> fd, role |-> todo[1].role,
                         protocol |-> ProtocolOf(todo[1].protocol)]
    <2>1. /\ pc = "push" /\ op = "create"
          /\ sockets' = Append(sockets, made1) /\ todo' = Tail(todo)
          /\ pc' = "idle" => todo' = <<>>
      BY <1>5 DEF PushSocket, Typed, Calls
    <2>2. made1.role = todo[1].role
      OBVIOUS
    <2> HIDE DEF made1
    <2>3. PICK provider \in {"icmp", "tcp", "udp"} :
             /\ n + Len(todo) = Len(Plan(provider))
             /\ \A k \in 1 .. n : sockets[k].role = Plan(provider)[k].role
             /\ \A j \in 1 .. Len(todo) : todo[j] = Plan(provider)[n + j]
      BY <2>1 DEF Planned, Creating, Accounted
    <2>4. sockets \in Seq(SocketExt) /\ n \in Nat
      BY LenProperties DEF Typed, SetupTypeOK
    <2>5. /\ Len(todo) \in Nat \ {0} /\ Len(todo') = Len(todo) - 1
          /\ \A j \in 1 .. Len(todo) - 1 : todo'[j] = todo[j + 1]
      BY <2>1, StepAtHand
    <2>6. /\ Len(sockets') = n + 1
          /\ \A k \in 1 .. n : sockets'[k] = sockets[k]
          /\ sockets'[n + 1] = made1
      BY <2>1, <2>4
    <2> HIDE DEF n
    <2>7. Len(sockets') + Len(todo') = Len(Plan(provider))
      <3>1. (n + 1) + (Len(todo) - 1) = n + Len(todo)
        BY <2>4, <2>5
      <3>2. QED
        BY <3>1, <2>3, <2>5, <2>6
    <2>8. \A k \in 1 .. Len(sockets') : sockets'[k].role = Plan(provider)[k].role
      <3>1. sockets'[n + 1].role = Plan(provider)[n + 1].role
        BY <2>2, <2>3, <2>4, <2>5, <2>6
      <3>2. QED
        BY <3>1, <2>3, <2>4, <2>6
    <2>9. \A j \in 1 .. Len(todo') : todo'[j] = Plan(provider)[Len(sockets') + j]
      <3>1. ASSUME NEW j \in 1 .. Len(todo')
            PROVE  todo'[j] = Plan(provider)[Len(sockets') + j]
        <4>1. j \in 1 .. Len(todo) - 1
          BY <2>5
        <4>2. j + 1 \in 1 .. Len(todo) /\ n + (j + 1) = (n + 1) + j
              /\ todo'[j] = todo[j + 1]
          BY <4>1, <2>4, <2>5
        <4>3. todo[j + 1] = Plan(provider)[n + (j + 1)]
          BY <4>2, <2>3
        <4>4. QED
          BY <4>2, <4>3, <2>6
      <3>2. QED
        BY <3>1
    <2>10. QED
      BY <2>1, <2>7, <2>8, <2>9 DEF Planned
  <1>6. QED
    BY <1>1, <1>2, <1>3, <1>4, <1>5 DEF Setup

(* What remains to be created is named by an IPv4 protocol.                *)
LEMMA PlannedProtocol ==
    ASSUME Typed, Planned, op = "create", pc # "idle"
    PROVE  todo[1].protocol \in {"icmp", "tcp", "udp"}
  <1>1. PICK provider \in {"icmp", "tcp", "udp"} :
           /\ Len(sockets) + Len(todo) = Len(Plan(provider))
           /\ \A j \in 1 .. Len(todo) : todo[j] = Plan(provider)[Len(sockets) + j]
    BY DEF Planned, Creating, Accounted
  <1>2. Len(todo) \in Nat \ {0} /\ Len(sockets) \in Nat
    BY StepAtHand, LenProperties DEF Typed, SetupTypeOK
  <1>3. todo[1] = Plan(provider)[Len(sockets) + 1]
        /\ Len(sockets) + 1 \in 1 .. Len(Plan(provider))
    BY <1>1, <1>2
  <1>4. \A k \in 1 .. Len(Plan(provider)) : Plan(provider)[k].protocol \in {"icmp", "tcp", "udp"}
    BY DEF Plan
  <1>5. QED
    BY <1>3, <1>4

-------------------------------------------------------------------------------
(* The books of descriptors *)

(* No descriptor in the table is a failed one.                             *)
LEMMA OpenIsDescriptor ==
    ASSUME Typed
    PROVE  -1 \notin DOMAIN table /\ -1 \notin Descriptors
  BY SetupAssumption DEF Typed, SetupTypeOK

(* Beginning a call, and resolving, keep the books.                        *)
LEMMA ResolvingKeepsBooks ==
    ASSUME Typed, Books, parseAddress \/ resolveSourceAddress \/ Connect \/ GetSockName
    PROVE  Books'
  <1>1. CASE parseAddress
    BY <1>1 DEF parseAddress, Begin, Books, Given, Held
  <1>2. CASE resolveSourceAddress
    <2>1. /\ op' = "resolve" /\ before' = DOMAIN table /\ pc' \in {"iface", "connect"}
          /\ OpenSocket(destination.family, "dgram", "udp")
      BY <1>2 DEF resolveSourceAddress, Begin
    <2>2. \/ /\ fd' \in Descriptors \ DOMAIN table
             /\ DOMAIN table' = DOMAIN table \cup {fd'}
          \/ fd' = -1 /\ table' = table
      BY <2>1, OpenSocketFacts DEF Typed, Protocols
    <2>3. Given' = {} /\ Held' = IF fd' # -1 THEN {fd'} ELSE {}
      BY <2>1 DEF Given, Held
    <2>4. QED
      BY <2>1, <2>2, <2>3, OpenIsDescriptor DEF Books
  <1>3. CASE Connect
    <2>1. /\ pc = "connect" /\ op = "resolve" /\ op' = "resolve"
          /\ UNCHANGED <<fd, sockets, table, before>>
          /\ \/ pc' = "getsockname" /\ fd \in DOMAIN table
             \/ pc' = "idle" /\ outcome' = "threw"
      BY <1>3 DEF Connect, Usable, Throw, Typed, Calls
    <2>2. fd \in DOMAIN table => fd # -1
      BY OpenIsDescriptor
    <2>3. QED
      BY <2>1, <2>2 DEF Books, Accounted, Given, Held
  <1>4. CASE GetSockName
    <2>1. /\ pc = "getsockname" /\ op = "resolve" /\ op' = "resolve"
          /\ UNCHANGED <<fd, sockets, before>> /\ pc' = "idle"
          /\ outcome' = "threw" \/ table' = [d \in DOMAIN table \ {fd} |-> table[d]]
      BY <1>4 DEF GetSockName, closeSocket, Throw, Typed, Calls
    <2>2. DOMAIN table = before \cup {fd} /\ fd \notin before
      BY <2>1 DEF Books, Accounted, Given, Held
    <2>3. Given' = {} /\ Held' = {}
      BY <2>1 DEF Given, Held
    <2>4. CASE outcome' = "threw"
      BY <2>1, <2>4 DEF Books, Accounted
    <2>5. CASE table' = [d \in DOMAIN table \ {fd} |-> table[d]]
      <3>1. DOMAIN table' = before
        BY <2>2, <2>5
      <3>2. QED
        BY <3>1, <2>1, <2>3 DEF Books
    <2>6. QED
      BY <2>1, <2>4, <2>5
  <1>5. QED
    BY <1>1, <1>2, <1>3, <1>4

(* So do beginning to create sockets and opening one.                      *)
LEMMA OpeningKeepsBooks ==
    ASSUME Typed, Books,
           OpenRawSocket \/ \E provider \in {"icmp", "tcp", "udp"} : createSockets(provider)
    PROVE  Books'
  <1>1. ASSUME NEW provider \in {"icmp", "tcp", "udp"}, createSockets(provider)
        PROVE  Books'
    <2>1. /\ op' = "create" /\ before' = DOMAIN table /\ pc' = "socket"
          /\ sockets' = <<>> /\ table' = table
      BY <1>1 DEF createSockets, Begin
    <2>2. Given' = {} /\ Held' = {} /\ DOMAIN sockets' = {}
      BY <2>1 DEF Given, Held, Fds
    <2>3. QED
      BY <2>1, <2>2 DEF Books
  <1>2. CASE OpenRawSocket
    <2>1. /\ pc = "socket" /\ op = "create" /\ op' = "create" /\ pc' \in {"iface", "bind"}
          /\ OpenSocket(source.family, "raw", ProtocolOf(todo[1].protocol))
          /\ UNCHANGED <<sockets, before>>
      BY <1>2 DEF OpenRawSocket, Typed, Calls
    <2>2. \/ /\ fd' \in Descriptors \ DOMAIN table
             /\ DOMAIN table' = DOMAIN table \cup {fd'}
          \/ fd' = -1 /\ table' = table
      BY <2>1, StepAtHand, OpenSocketFacts DEF Typed
    <2>3. Given' = Given /\ Held = {} /\ Held' = IF fd' # -1 THEN {fd'} ELSE {}
      BY <2>1 DEF Given, Held, Fds
    <2>4. /\ DOMAIN table = before \cup Given
          /\ before \cap Given = {}
          /\ \A j, k \in DOMAIN sockets : sockets[j].fd = sockets[k].fd => j = k
      BY <2>1, <2>3 DEF Books, Accounted
    <2>5. QED
      BY <2>1, <2>2, <2>3, <2>4, OpenIsDescriptor DEF Books
  <1>3. QED
    BY <1>1, <1>2

(* So does setting up a socket.                                            *)
LEMMA OptionKeepsBooks ==
    ASSUME Typed, Books, bindInterface \/ bindIpAddress \/ SetIcmp6Filter \/ SetChecksumOffset
    PROVE  Books'
  <1>1. /\ pc # "idle" /\ DOMAIN table' = DOMAIN table
        /\ UNCHANGED <<op, fd, sockets, before>>
    BY OptionSteps
  <1>2. \/ pc' = "idle" /\ outcome' = "threw"
        \/ /\ pc \in {"iface", "bind"} /\ fd \in DOMAIN table
           /\ pc' \in {"connect", "bind", "option", "push"}
        \/ pc = "option" /\ pc' = "push"
    BY OptionSteps
  <1>3. fd \in DOMAIN table => fd # -1
    BY OpenIsDescriptor
  <1>4. CASE pc' = "idle" /\ outcome' = "threw"
    BY <1>4 DEF Books, Accounted
  <1>5. CASE ~(pc' = "idle" /\ outcome' = "threw")
    <2>1. /\ pc \in {"iface", "bind", "option"} /\ pc' \in {"connect", "bind", "option", "push"}
          /\ fd # -1
      BY <1>1, <1>2, <1>3, <1>5 DEF Books, Accounted
    <2>2. Held' = Held /\ Given' = Given
      BY <1>1, <2>1 DEF Held, Given, Fds
    <2>3. QED
      BY <1>1, <2>1, <2>2 DEF Books, Accounted
  <1>6. QED
    BY <1>4, <1>5

(* What a socket handed over adds to the sockets.                          *)
LEMMA PushFacts ==
    ASSUME Typed, PushSocket
    PROVE  /\ pc = "push" /\ op = "create" /\ op' = "create" /\ pc' \in {"idle", "socket"}
           /\ UNCHANGED <<ifaceName, source, fd, table, before>>
           /\ Len(sockets) \in Nat
           /\ DOMAIN sockets = 1 .. Len(sockets)
           /\ DOMAIN sockets' = 1 .. Len(sockets) + 1
           /\ \A k \in 1 .. Len(sockets) : sockets'[k] = sockets[k]
           /\ sockets'[Len(sockets) + 1] =
                 [fd |-> fd, role |-> todo[1].role, protocol |-> ProtocolOf(todo[1].protocol)]
  <1> DEFINE made1 == [fd |-> fd, role |-> todo[1].role,
                       protocol |-> ProtocolOf(todo[1].protocol)]
  <1>1. sockets' = Append(sockets, made1) /\ sockets \in Seq(SocketExt)
    BY DEF PushSocket, Typed, SetupTypeOK
  <1> HIDE DEF made1
  <1>2. /\ Len(sockets) \in Nat
        /\ DOMAIN sockets = 1 .. Len(sockets)
        /\ DOMAIN sockets' = 1 .. Len(sockets) + 1
        /\ \A k \in 1 .. Len(sockets) : sockets'[k] = sockets[k]
        /\ sockets'[Len(sockets) + 1] = made1
    BY <1>1, LenProperties
  <1>3. QED
    BY <1>2 DEF PushSocket, Typed, Calls, made1

(* So does handing over.                                                   *)
LEMMA PushKeepsBooks ==
    ASSUME Typed, Books, PushSocket
    PROVE  Books'
  <1> DEFINE n == Len(sockets)
  <1>1. /\ pc = "push" /\ op = "create" /\ op' = "create" /\ pc' \in {"idle", "socket"}
        /\ UNCHANGED <<fd, table, before>>
        /\ n \in Nat /\ DOMAIN sockets = 1 .. n /\ DOMAIN sockets' = 1 .. n + 1
        /\ \A k \in 1 .. n : sockets'[k] = sockets[k]
        /\ sockets'[n + 1].fd = fd
    BY PushFacts
  <1> HIDE DEF n
  <1>2. /\ Held = {fd} /\ Held' = {}
        /\ DOMAIN table = before \cup Fds \cup {fd}
        /\ before \cap (Fds \cup {fd}) = {} /\ fd \notin Fds
        /\ \A j, k \in DOMAIN sockets : sockets[j].fd = sockets[k].fd => j = k
    BY <1>1 DEF Books, Accounted, Given, Held
  <1>3. Fds' = Fds \cup {fd}
    <2>1. \A x \in Fds' : x \in Fds \cup {fd}
      BY <1>1 DEF Fds
    <2>2. \A x \in Fds : x \in Fds'
      BY <1>1 DEF Fds
    <2>3. fd \in Fds'
      <3>1. n + 1 \in DOMAIN sockets'
        BY <1>1
      <3>2. QED
        BY <3>1, <1>1 DEF Fds
    <2>4. QED
      BY <2>1, <2>2, <2>3
  <1>4. \A j, k \in DOMAIN sockets' : sockets'[j].fd = sockets'[k].fd => j = k
    <2>1. \A k \in 1 .. n : sockets[k].fd # fd
      BY <1>1, <1>2 DEF Fds
    <2>2. QED
      BY <2>1, <1>1, <1>2
  <1>5. QED
    BY <1>1, <1>2, <1>3, <1>4 DEF Books, Given

(* Every step keeps the books.                                             *)
LEMMA BooksAreKept == Spec => []Books
  <1>1. Init => Books
    BY DEF Init, SetupInit, Books, Accounted
  <1>2. ASSUME Typed, Books, [Next]_vars
        PROVE  Books'
    <2>1. CASE UNCHANGED setupVars
      BY <1>2, <2>1 DEF setupVars, Books, Accounted, Given, Held, Fds
    <2>2. CASE Setup
      BY <1>2, <2>2, ResolvingKeepsBooks, OpeningKeepsBooks, OptionKeepsBooks, PushKeepsBooks
         DEF Setup
    <2>3. QED
      BY <1>2, <2>1, <2>2 DEF Next, SendProbe, vars
  <1>3. QED
    BY <1>1, <1>2, CallsAgree, PTL DEF Spec

(* A call that returns leaves open what was open and what it returns, also *)
(* after calls that threw and left their descriptors behind.               *)
THEOREM OpensWhatItReturns == Spec => []ReturnsWhatItOpened
  <1>1. Typed /\ Books => ReturnsWhatItOpened
    BY DEF Typed, Calls, Books, Accounted, Given, Held, ReturnsWhatItOpened
  <1>2. QED
    BY <1>1, CallsAgree, BooksAreKept, PTL

-------------------------------------------------------------------------------
(* The sockets are ready *)

Ready(k) ==
    LET t == table[sockets[k].fd]
    IN  Opened(t, sockets[k].protocol) /\ Bound(t) /\ Equipped(t)

(* The sockets already created stay open, and are not the one at hand.     *)
LEMMA CreatedAreOpen ==
    ASSUME Books, Creating, NEW k \in DOMAIN sockets
    PROVE  /\ sockets[k].fd \in DOMAIN table
           /\ sockets[k].fd \notin Held
  BY DEF Books, Creating, Given, Fds

(* Opening a socket touches no other.                                      *)
LEMMA OpeningKeepsReadiness ==
    ASSUME Typed, Books, Readiness, OpenRawSocket
    PROVE  Readiness'
  <1> DEFINE protocol == ProtocolOf(todo[1].protocol)
  <1>1. /\ pc = "socket" /\ op = "create" /\ pc' = IF ifaceName THEN "iface" ELSE "bind"
        /\ OpenSocket(source.family, "raw", protocol)
        /\ UNCHANGED <<op, sockets, todo, source>>
    BY DEF OpenRawSocket, Typed, Calls
  <1>2. ifaceName' = ifaceName
    BY DEF OpenRawSocket
  <1>3. Creating /\ \A k \in DOMAIN sockets : Ready(k)
    BY <1>1 DEF Readiness, Creating, Accounted, Ready
  <1>4. \A k \in DOMAIN sockets : sockets[k].fd \in DOMAIN table
    BY <1>3, CreatedAreOpen
  <1>5. protocol \in Protocols
    BY <1>1, StepAtHand
  <1>6. \/ /\ source.family \in Families
           /\ fd' \in Descriptors \ DOMAIN table
           /\ table'[fd'] = NewSocket(source.family, "raw", protocol)
           /\ \A d \in DOMAIN table : table'[d] = table[d]
        \/ fd' = -1 /\ table' = table
    BY <1>1, <1>5, OpenSocketFacts DEF Typed
  <1>7. \A k \in DOMAIN sockets : Ready(k)'
    <2>1. ASSUME NEW k \in DOMAIN sockets
          PROVE  table'[sockets[k].fd] = table[sockets[k].fd]
      BY <1>4, <1>6
    <2>2. QED
      BY <2>1, <1>1, <1>2, <1>3 DEF Ready, Opened, Bound, Equipped, HostOf, isV4
  <1>8. ProtocolOf(todo[1].protocol)' = protocol
    BY <1>1 DEF ProtocolOf, isV6, isV4
  <1>9. Held' # {} => /\ fd' # -1 /\ table'[fd'] = NewSocket(source.family, "raw", protocol)
                      /\ source.family \in Families
    BY <1>6 DEF Held
  <1>10. Held' # {} => /\ Opened(table[fd], ProtocolOf(todo[1].protocol))'
                       /\ pc' # "iface" => table'[fd'].iface = ifaceName'
    <2>1. SUFFICES ASSUME Held' # {}
                   PROVE  /\ Opened(table[fd], ProtocolOf(todo[1].protocol))'
                          /\ pc' # "iface" => table'[fd'].iface = ifaceName'
      OBVIOUS
    <2>2. Opened(table[fd], ProtocolOf(todo[1].protocol))'
      <3>1. /\ protocol = "icmp" => source.family = "v4"
            /\ protocol = "icmpv6" => source.family # "v4"
        <4>1. todo[1].protocol # "icmpv6"
          BY <1>1, StepAtHand DEF Step
        <4>2. QED
          BY <4>1 DEF ProtocolOf, isV6, isV4
      <3>2. QED
        BY <2>1, <1>1, <1>8, <1>9, <3>1 DEF Opened, NewSocket
    <2>3. table'[fd'].iface = FALSE
      BY <2>1, <1>9 DEF NewSocket
    <2>4. pc' # "iface" => ~ifaceName'
      BY <1>1, <1>2
    <2>5. ifaceName' \in BOOLEAN
      BY <1>2 DEF Typed, SetupTypeOK
    <2>6. QED
      BY <2>2, <2>3, <2>4, <2>5
  <1>11. pc' \in {"iface", "bind"}
    BY <1>1
  <1>12. QED
    BY <1>7, <1>10, <1>11, <1>1 DEF Readiness, Ready

(* Setting up the socket at hand touches no other.                         *)
LEMMA OptionKeepsOthers ==
    ASSUME Typed, Books, Readiness, op = "create",
           bindInterface \/ bindIpAddress \/ SetIcmp6Filter \/ SetChecksumOffset
    PROVE  \A k \in DOMAIN sockets' : Ready(k)'
  <1>1. /\ pc # "idle" /\ UNCHANGED <<ifaceName, source, sockets, fd>>
        /\ \A d \in DOMAIN table : d # fd => table'[d] = table[d]
        /\ (pc' = "idle" /\ table' = table) \/ fd \in DOMAIN table \/ pc = "option"
    BY OptionSteps
  <1>2. Creating /\ \A k \in DOMAIN sockets : Ready(k)
    BY <1>1 DEF Readiness, Creating, Accounted, Ready
  <1>3. \A k \in DOMAIN sockets : table'[sockets[k].fd] = table[sockets[k].fd]
    <2>1. pc \in {"iface", "bind", "option"}
      BY DEF bindInterface, bindIpAddress, SetIcmp6Filter, SetChecksumOffset
    <2>2. \A k \in DOMAIN sockets : sockets[k].fd \in DOMAIN table /\ sockets[k].fd \notin Held
      BY <1>2, CreatedAreOpen
    <2>3. fd = -1 \/ Held = {fd}
      BY <2>1 DEF Held
    <2>4. \A k \in DOMAIN sockets : sockets[k].fd # fd
      BY <2>2, <2>3, OpenIsDescriptor
    <2>5. QED
      BY <2>2, <2>4, <1>1
  <1>4. QED
    BY <1>1, <1>2, <1>3 DEF Ready, Opened, Bound, Equipped, HostOf, isV4

(* It brings it one step further.                                          *)
LEMMA OptionKeepsReadiness ==
    ASSUME Typed, Books, Readiness, Planned,
           bindInterface \/ bindIpAddress \/ SetIcmp6Filter \/ SetChecksumOffset
    PROVE  Readiness'
  <1>1. /\ pc # "idle"
        /\ UNCHANGED <<op, ifaceName, source, fd, todo, sockets>>
    BY OptionSteps
  <1>2. CASE op # "create" \/ (pc' = "idle" /\ outcome' = "threw")
    BY <1>1, <1>2 DEF Readiness, Creating, Accounted
  <1>3. CASE op = "create" /\ ~(pc' = "idle" /\ outcome' = "threw")
    <2> DEFINE protocol == todo[1].protocol
               t == table[fd]
               u == table'[fd]
    <2>1. /\ pc \in {"iface", "bind", "option"} /\ pc' \in {"bind", "option", "push"}
      BY <1>3, OptionSteps
    <2>2. fd # -1 /\ fd \in DOMAIN table
      <3>1. CASE pc = "option"
        BY <1>3, <3>1 DEF Books, Accounted, Held
      <3>2. CASE pc # "option"
        <4>1. fd \in DOMAIN table
          BY <1>3, <3>2, OptionSteps
        <4>2. QED
          BY <4>1, OpenIsDescriptor
      <3>3. QED
        BY <3>1, <3>2
    <2>3. Held = {fd}
      BY <2>1, <2>2 DEF Held
    <2>4. /\ Opened(t, ProtocolOf(protocol))
          /\ pc # "iface" => t.iface = ifaceName
          /\ pc \in {"option", "push"} => t.bound = HostOf(source)
      BY <1>1, <1>3, <2>3 DEF Readiness, Creating, Accounted
    <2>5. t \in KernelSocket /\ protocol \in {"icmp", "tcp", "udp"}
      BY <1>1, <1>3, <2>2, PlannedProtocol DEF Typed, SetupTypeOK
    <2>6. \/ /\ pc = "iface" /\ pc' = "bind" /\ u = [t EXCEPT !["iface"] = TRUE]
          \/ /\ pc = "bind" /\ pc' = IF isV6(source) THEN "option" ELSE "push"
             /\ u = [t EXCEPT !["bound"] = HostOf(source)]
          \/ /\ pc = "option" /\ pc' = "push" /\ protocol = "icmp"
             /\ u = [t EXCEPT !["filter"] = FilterPasses]
          \/ /\ pc = "option" /\ pc' = "push" /\ protocol # "icmp"
             /\ u = [t EXCEPT !["checksumAt"] = ChecksumOffset(protocol)]
      BY <1>3, <2>2, OptionSteps
    <2> HIDE DEF t, u, protocol
    <2>7. /\ Opened(u, ProtocolOf(protocol)) /\ u.iface = ifaceName
          /\ pc' \in {"option", "push"} => u.bound = HostOf(source)
          /\ pc' = "push" => Equipped(u)
      <3>1. CASE pc = "iface" /\ pc' = "bind" /\ u = [t EXCEPT !["iface"] = TRUE]
        <4>1. ifaceName = TRUE
          BY <3>1 DEF Typed, Calls, SetupTypeOK
        <4>2. /\ Opened(u, ProtocolOf(protocol))
              /\ u.iface = TRUE
          BY <2>4, <2>5, <3>1 DEF Opened, KernelSocket
        <4>3. QED
          BY <3>1, <4>1, <4>2
      <3>2. CASE /\ pc = "bind" /\ pc' = IF isV6(source) THEN "option" ELSE "push"
                 /\ u = [t EXCEPT !["bound"] = HostOf(source)]
        <4>1. /\ Opened(u, ProtocolOf(protocol))
              /\ u.iface = ifaceName /\ u.bound = HostOf(source)
          BY <2>4, <2>5, <3>2 DEF Opened, KernelSocket
        <4>2. CASE isV6(source)
          BY <4>1, <4>2, <3>2
        <4>3. CASE ~isV6(source)
          <5>1. ProtocolOf(protocol) = protocol /\ u.family = "v4"
            BY <4>1, <4>3 DEF ProtocolOf, Opened, isV6, isV4
          <5>2. Equipped(u)
            BY <5>1, <4>1, <2>5 DEF Equipped, Opened
          <5>3. QED
            BY <4>1, <5>2
        <4>4. QED
          BY <4>2, <4>3
      <3>3. CASE /\ pc = "option" /\ pc' = "push" /\ protocol = "icmp"
                 /\ u = [t EXCEPT !["filter"] = FilterPasses]
        <4>1. /\ Opened(u, ProtocolOf(protocol))
              /\ u.iface = ifaceName /\ u.bound = HostOf(source) /\ u.filter = FilterPasses
          BY <2>4, <2>5, <3>3 DEF Opened, KernelSocket
        <4>2. u.protocol \in {"icmp", "icmpv6"}
          BY <4>1, <3>3 DEF Opened, ProtocolOf
        <4>3. Equipped(u)
          BY <4>1, <4>2 DEF Equipped
        <4>4. QED
          BY <4>1, <4>3
      <3>4. CASE /\ pc = "option" /\ pc' = "push" /\ protocol # "icmp"
                  /\ u = [t EXCEPT !["checksumAt"] = ChecksumOffset(protocol)]
        <4>1. /\ Opened(u, ProtocolOf(protocol))
              /\ u.iface = ifaceName /\ u.bound = HostOf(source)
              /\ u.checksumAt = ChecksumOffset(protocol)
          BY <2>4, <2>5, <3>4 DEF Opened, KernelSocket
        <4>2. u.protocol = protocol /\ protocol \in {"tcp", "udp"}
          BY <4>1, <2>5, <3>4 DEF Opened, ProtocolOf
        <4>3. Equipped(u)
          BY <4>1, <4>2 DEF Equipped
        <4>4. QED
          BY <4>1, <4>3
      <3>5. QED
        BY <2>6, <3>1, <3>2, <3>3, <3>4
    <2>8. QED
      <3>1. u = table'[fd'] /\ protocol = todo'[1].protocol
        BY <1>1 DEF u, protocol
      <3>2. /\ Opened(table[fd], ProtocolOf(todo[1].protocol))'
            /\ table'[fd'].iface = ifaceName'
            /\ pc' \in {"option", "push"} => (table[fd].bound = HostOf(source))'
            /\ pc' = "push" => Equipped(table[fd])'
        BY <2>7, <3>1, <1>1 DEF Opened, Equipped, HostOf, isV4, isV6, ProtocolOf
      <3>3. \A k \in DOMAIN sockets' : Ready(k)'
        BY <1>3, OptionKeepsOthers
      <3>4. QED
        BY <3>2, <3>3 DEF Readiness, Ready
  <1>4. QED
    BY <1>2, <1>3

(* A socket handed over is ready.                                          *)
LEMMA PushKeepsReadiness ==
    ASSUME Typed, Books, Readiness, PushSocket
    PROVE  Readiness'
  <1> DEFINE n == Len(sockets)
             protocol == ProtocolOf(todo[1].protocol)
  <1>1. /\ pc = "push" /\ op = "create" /\ pc' \in {"idle", "socket"}
        /\ UNCHANGED <<ifaceName, source, fd, table>>
        /\ n \in Nat /\ DOMAIN sockets = 1 .. n /\ DOMAIN sockets' = 1 .. n + 1
        /\ \A k \in 1 .. n : sockets'[k] = sockets[k]
        /\ sockets'[n + 1].fd = fd /\ sockets'[n + 1].protocol = protocol
    BY PushFacts
  <1>2. Held = {fd} /\ Held' = {}
    BY <1>1 DEF Books, Accounted, Held
  <1>3. /\ \A k \in 1 .. n : Ready(k)
        /\ Opened(table[fd], protocol) /\ Bound(table[fd]) /\ Equipped(table[fd])
    BY <1>1, <1>2 DEF Readiness, Creating, Accounted, Ready, Bound
  <1> HIDE DEF n, protocol
  <1>4. ASSUME NEW k \in DOMAIN sockets'
        PROVE  Ready(k)'
    <2>1. CASE k \in 1 .. n
      BY <2>1, <1>1, <1>3 DEF Ready, Opened, Bound, Equipped, HostOf, isV4
    <2>2. CASE k = n + 1
      <3>1. sockets'[k].fd = fd /\ sockets'[k].protocol = protocol
        BY <2>2, <1>1
      <3>2. table'[sockets'[k].fd] = table[fd]
        BY <3>1, <1>1
      <3>3. /\ Opened(table[sockets[k].fd], sockets[k].protocol)'
            /\ Bound(table[sockets[k].fd])' /\ Equipped(table[sockets[k].fd])'
        BY <3>1, <3>2, <1>1, <1>3 DEF Opened, Bound, Equipped, HostOf, isV4
      <3>4. QED
        BY <3>3 DEF Ready
    <2>3. QED
      BY <2>1, <2>2, <1>1
  <1>5. QED
    BY <1>1, <1>2, <1>4 DEF Readiness, Ready

(* The invariants about the sockets hold in every state.                   *)
LEMMA PlanIsFollowed == Spec => []Planned
  <1>1. Init => Planned
    BY DEF Init, SetupInit, Planned, Creating
  <1>2. ASSUME Typed, Planned, [Next]_vars
        PROVE  Planned'
    <2>1. CASE UNCHANGED setupVars
      BY <1>2, <2>1 DEF setupVars, Planned, Creating, Accounted
    <2>2. CASE Setup
      BY <1>2, <2>2, SetupFollowsPlan
    <2>3. QED
      BY <1>2, <2>1, <2>2 DEF Next, SendProbe, vars
  <1>3. QED
    BY <1>1, <1>2, CallsAgree, PTL DEF Spec

(* Every socket that createSockets has gone past is open, bound and        *)
(* equipped.                                                               *)
LEMMA ReadinessIsKept == Spec => []Readiness
  <1>1. Init => Readiness
    BY DEF Init, SetupInit, Readiness, Creating
  <1>2. ASSUME Typed, Books, Planned, Readiness, [Next]_vars
        PROVE  Readiness'
    <2>1. CASE UNCHANGED setupVars
      BY <1>2, <2>1 DEF setupVars, Readiness, Creating, Accounted, Held, Opened, Bound, Equipped,
                        ProtocolOf, HostOf, isV4, isV6
    <2>2. CASE parseAddress \/ resolveSourceAddress \/ Connect \/ GetSockName
      <3>1. op' # "create"
        BY <1>2, <2>2
           DEF parseAddress, resolveSourceAddress, Begin, Connect, GetSockName, Typed, Calls
      <3>2. QED
        BY <3>1 DEF Readiness, Creating
    <2>3. CASE \E provider \in {"icmp", "tcp", "udp"} : createSockets(provider)
      <3>1. sockets' = <<>> /\ pc' = "socket"
        BY <2>3 DEF createSockets
      <3>2. QED
        BY <3>1 DEF Readiness, Held
    <2>4. QED
      BY <1>2, <2>1, <2>2, <2>3, OpeningKeepsReadiness, OptionKeepsReadiness, PushKeepsReadiness
         DEF Next, Setup, SendProbe, vars
  <1>3. QED
    BY <1>1, <1>2, CallsAgree, BooksAreKept, PlanIsFollowed, PTL DEF Spec

(* A provider's plan has one step that sends.                              *)
LEMMA OneSender ==
    ASSUME NEW provider \in {"icmp", "tcp", "udp"}
    PROVE  \E k \in 1 .. Len(Plan(provider)) : \A j \in 1 .. Len(Plan(provider)) :
              "Send" \in Plan(provider)[j].role <=> j = k
  <1>1. CASE provider = "icmp"
    <2>1. Len(Plan(provider)) = 1 /\ "Send" \in Plan(provider)[1].role
      BY <1>1 DEF Plan, Receive, Send
    <2>2. QED
      BY <2>1
  <1>2. CASE provider \in {"tcp", "udp"}
    <2>1. /\ Len(Plan(provider)) = 2
          /\ "Send" \notin Plan(provider)[1].role /\ "Send" \in Plan(provider)[2].role
      BY <1>2 DEF Plan, Receive, Send
    <2>2. QED
      BY <2>1
  <1>3. QED
    BY <1>1, <1>2

(* Whatever call failed before, and although socket() is never checked,    *)
(* the sockets a call returns are open, distinct, new, bound to the source *)
(* and the interface, and equipped for IPv6; one of them sends.            *)
THEOREM SocketsAreReady == Spec => []ReturnedSocketsAreReady
  <1>1. ASSUME Typed, Books, Planned, Readiness, Created
        PROVE  ReturnedSocketsAreReady
    <2>1. Creating /\ pc = "idle" /\ op = "create"
      BY <1>1 DEF Created, Creating, Accounted, Typed, Calls
    <2>2. \A k \in DOMAIN sockets : Ready(k)
      BY <1>1, <2>1 DEF Readiness, Ready
    <2>3. ASSUME NEW k \in DOMAIN sockets
          PROVE  /\ sockets[k].fd \in DOMAIN table \ before
                 /\ \A j \in DOMAIN sockets : sockets[j].fd = sockets[k].fd => j = k
      BY <1>1, <2>1 DEF Books, Creating, Given, Fds
    <2>4. ASSUME NEW k \in DOMAIN sockets
          PROVE  LET t == table[sockets[k].fd]
                 IN  /\ t.type = "raw" /\ t.protocol = sockets[k].protocol
                     /\ t.family \in Families
                     /\ t.bound = HostOf(source)
                     /\ t.iface = ifaceName
                     /\ sockets[k].protocol = "icmpv6" => t.filter = Icmp6Types \ {"neighbour"}
                     /\ (sockets[k].protocol \in {"tcp", "udp"} /\ t.family = "v6")
                           => t.checksumAt # -1
      <3>1. FilterPasses = Icmp6Types \ {"neighbour"}
        BY DEF FilterPasses, Icmp6Types
      <3>2. \A protocol : ChecksumOffset(protocol) # -1
        BY DEF ChecksumOffset
      <3>3. QED
        BY <2>2, <3>1, <3>2 DEF Ready, Opened, Bound, Equipped
    <2>5. \E k \in DOMAIN sockets : \A j \in DOMAIN sockets :
              "Send" \in sockets[j].role <=> j = k
      <3>1. PICK provider \in {"icmp", "tcp", "udp"} :
               /\ Len(sockets) + Len(todo) = Len(Plan(provider))
               /\ \A k \in 1 .. Len(sockets) : sockets[k].role = Plan(provider)[k].role
               /\ todo = <<>>
        BY <1>1, <2>1 DEF Planned
      <3>2. DOMAIN sockets = 1 .. Len(sockets) /\ Len(sockets) \in Nat
        BY <1>1, LenProperties DEF Typed, SetupTypeOK
      <3>3. Len(sockets) = Len(Plan(provider))
        BY <3>1, <3>2
      <3>4. PICK k \in 1 .. Len(Plan(provider)) : \A j \in 1 .. Len(Plan(provider)) :
               "Send" \in Plan(provider)[j].role <=> j = k
        BY OneSender
      <3>5. DOMAIN sockets = 1 .. Len(Plan(provider))
        BY <3>2, <3>3
      <3>6. ASSUME NEW j \in DOMAIN sockets
            PROVE  "Send" \in sockets[j].role <=> j = k
        <4>1. j \in 1 .. Len(sockets) /\ j \in 1 .. Len(Plan(provider))
          BY <3>2, <3>5
        <4>2. sockets[j].role = Plan(provider)[j].role
          BY <4>1, <3>1
        <4>3. QED
          BY <4>1, <4>2, <3>4
      <3>7. QED
        BY <3>5, <3>6
    <2>6. QED
      BY <2>3, <2>4, <2>5 DEF ReturnedSocketsAreReady
  <1>2. ~Created => ReturnedSocketsAreReady
    BY DEF ReturnedSocketsAreReady
  <1>3. QED
    BY <1>1, <1>2, CallsAgree, BooksAreKept, PlanIsFollowed, ReadinessIsKept, PTL

-------------------------------------------------------------------------------
(* Checksums: sums of shorts, on hosts of either byte order *)

(* Modulo 65535 the first is 256 times the second, and one of them is zero *)
(* only if the other is: so a sum of shorts compares with the sum of the   *)
(* same shorts with their bytes swapped.                                   *)
Swapped(a, b) ==
    /\ a \in Nat /\ b \in Nat
    /\ a = 0 <=> b = 0
    /\ a % 65535 = (256 * b) % 65535

(* Nothing is the swapped sum of nothing.                                  *)
LEMMA SwappedZero == Swapped(0, 0)
  <1> DEFINE zero == 0
  <1>1. zero \in Nat /\ 256 * zero = zero
    OBVIOUS
  <1> HIDE DEF zero
  <1>2. Swapped(zero, zero)
    BY <1>1 DEF Swapped
  <1>3. QED
    BY <1>2 DEF zero

(* A short read in the order of a little endian host is its value in       *)
(* network order, swapped.                                                 *)
LEMMA ShortsSwapped ==
    ASSUME NEW b \in Nat, NEW c \in Nat
    PROVE  Swapped(Short(TRUE, b, c), Short(FALSE, b, c))
  <1>1. (b + 256 * c) % 65535 = (256 * (256 * b + c)) % 65535
    BY SMTT(60)
  <1>2. b + 256 * c \in Nat /\ 256 * b + c \in Nat /\ (b + 256 * c = 0 <=> 256 * b + c = 0)
    BY SMTT(60)
  <1>3. Short(TRUE, b, c) = b + 256 * c /\ Short(FALSE, b, c) = 256 * b + c
    BY DEF Short
  <1> DEFINE x == b + 256 * c
             y == 256 * b + c
  <1>4. x \in Nat /\ y \in Nat /\ (x = 0 <=> y = 0) /\ x % 65535 = (256 * y) % 65535
    BY <1>1, <1>2
  <1> HIDE DEF x, y
  <1>5. Swapped(x, y)
    BY <1>4 DEF Swapped
  <1>6. QED
    BY <1>3, <1>5 DEF x, y

(* Swapped sums add up.                                                    *)
LEMMA SwappedAdds ==
    ASSUME NEW a, NEW b, NEW c, NEW d, Swapped(a, b), Swapped(c, d)
    PROVE  Swapped(a + c, b + d)
  <1>1. /\ a \in Nat /\ b \in Nat /\ c \in Nat /\ d \in Nat
        /\ a = 0 <=> b = 0
        /\ c = 0 <=> d = 0
        /\ a % 65535 = (256 * b) % 65535
        /\ c % 65535 = (256 * d) % 65535
    BY DEF Swapped
  <1>2. (a + c) % 65535 = (256 * (b + d)) % 65535
    BY <1>1, SMTT(60)
  <1>3. a + c \in Nat /\ b + d \in Nat /\ (a + c = 0 <=> b + d = 0)
    BY <1>1
  <1>4. QED
    BY <1>2, <1>3 DEF Swapped

(* The sums of two sequences whose elements are swapped.                   *)
LEMMA TotalsSwapped ==
    ASSUME NEW s \in Seq(Nat), NEW t \in Seq(Nat), Len(s) = Len(t),
           \A k \in 1 .. Len(s) : Swapped(s[k], t[k])
    PROVE  Swapped(Total(s), Total(t))
  <1> DEFINE n == Len(s)
  <1>1. s \in Seq(Int) /\ t \in Seq(Int) /\ n \in Nat
    BY LenProperties
  <1>2. PICK f : /\ Total(s) = f[n] /\ f[0] = 0
                 /\ \A k \in 1 .. n : f[k] = f[k - 1] + s[k]
    BY <1>1, TotalRecursion
  <1>3. PICK g : /\ Total(t) = g[n] /\ g[0] = 0
                 /\ \A k \in 1 .. n : g[k] = g[k - 1] + t[k]
    <2>1. PICK g : /\ Total(t) = g[Len(t)] /\ g[0] = 0
                   /\ \A k \in 1 .. Len(t) : g[k] = g[k - 1] + t[k]
      BY <1>1, TotalRecursion
    <2>2. QED
      BY <2>1
  <1>4. \A k \in 1 .. n : Swapped(s[k], t[k])
    OBVIOUS
  <1> HIDE DEF n
  <1> DEFINE Q == {k \in Nat : Swapped(f[k], g[k])}
  <1>5. 0 \in Q
    BY <1>2, <1>3, SwappedZero
  <1>6. ASSUME NEW k \in 0 .. n - 1, k \in Q
        PROVE  k + 1 \in Q
    <2>1. k + 1 \in 1 .. n /\ (k + 1) - 1 = k /\ k + 1 \in Nat
      BY <1>1
    <2>2. g[k + 1] = g[k] + t[k + 1] /\ f[k + 1] = f[k] + s[k + 1]
      BY <2>1, <1>2, <1>3
    <2>3. Swapped(f[k], g[k]) /\ Swapped(s[k + 1], t[k + 1])
      BY <2>1, <1>4, <1>6
    <2>4. Swapped(f[k + 1], g[k + 1])
      BY <2>2, <2>3, SwappedAdds
    <2>5. QED
      BY <2>1, <2>4
  <1>7. n \in Q
    <2> HIDE DEF Q
    <2>1. n \in Nat /\ \A k \in 0 .. n - 1 : k \in Q => k + 1 \in Q
      BY <1>1, <1>6
    <2>2. \A k \in 0 .. n : k \in Q
      BY <2>1, <1>5, InductionUpTo
    <2>3. QED
      BY <2>1, <2>2
  <1>8. QED
    BY <1>2, <1>3, <1>7

(* A sequence of an even number of bytes, read as shorts.                  *)
LEMMA ShortsFacts ==
    ASSUME NEW le, NEW m \in Nat, NEW bytes \in Seq(Nat), Len(bytes) = 2 * m
    PROVE  /\ Shorts(le, bytes) \in Seq(Nat)
           /\ Len(Shorts(le, bytes)) = m
           /\ \A k \in 1 .. m :
                 /\ bytes[2 * k - 1] \in Nat /\ bytes[2 * k] \in Nat
                 /\ Shorts(le, bytes)[k] = Short(le, bytes[2 * k - 1], bytes[2 * k])
  <1>1. Len(bytes) \div 2 = m
    OBVIOUS
  <1>2. ASSUME NEW k \in 1 .. m
        PROVE  bytes[2 * k - 1] \in Nat /\ bytes[2 * k] \in Nat
    <2>1. 2 * k - 1 \in 1 .. Len(bytes) /\ 2 * k \in 1 .. Len(bytes)
      OBVIOUS
    <2>2. QED
      BY <2>1, ElementOfSeq
  <1>3. \A b, c \in Nat : Short(le, b, c) \in Nat
    BY DEF Short
  <1>4. Shorts(le, bytes) = [k \in 1 .. m |-> Short(le, bytes[2 * k - 1], bytes[2 * k])]
    BY <1>1 DEF Shorts
  <1>5. Shorts(le, bytes) \in [1 .. m -> Nat]
    BY <1>2, <1>3, <1>4
  <1>6. Shorts(le, bytes) \in Seq(Nat) /\ Len(Shorts(le, bytes)) = m
    BY <1>5, FunctionIsSeq
  <1>7. QED
    BY <1>2, <1>4, <1>6

(* What it is, ...                                                         *)
LEMMA ShortsType ==
    ASSUME NEW le, NEW m \in Nat, NEW bytes \in Seq(Nat), Len(bytes) = 2 * m
    PROVE  Shorts(le, bytes) \in Seq(Nat) /\ Len(Shorts(le, bytes)) = m
  BY ShortsFacts

(* ... and at a place.                                                     *)
LEMMA ShortsAt ==
    ASSUME NEW le, NEW m \in Nat, NEW bytes \in Seq(Nat), Len(bytes) = 2 * m,
           NEW k \in 1 .. m
    PROVE  Shorts(le, bytes)[k] = Short(le, bytes[2 * k - 1], bytes[2 * k])
  BY ShortsFacts

(* The sum of two such sequences, one behind the other.                    *)
LEMMA SumOfConcat ==
    ASSUME NEW le, NEW m \in Nat, NEW n \in Nat,
           NEW a \in Seq(Nat), NEW b \in Seq(Nat), Len(a) = 2 * m, Len(b) = 2 * n
    PROVE  SumOf(le, a \o b) = SumOf(le, a) + SumOf(le, b)
  <1> DEFINE s == Shorts(le, a)
             t == Shorts(le, b)
             u == Shorts(le, a \o b)
  <1>1. /\ a \o b \in Seq(Nat) /\ Len(a \o b) = 2 * (m + n)
        /\ \A k \in 1 .. 2 * m : (a \o b)[k] = a[k]
        /\ \A k \in 1 .. 2 * n : (a \o b)[2 * m + k] = b[k]
    <2>1. /\ a \o b \in Seq(Nat) /\ Len(a \o b) = 2 * m + 2 * n
          /\ \A k \in 1 .. 2 * m + 2 * n :
                (a \o b)[k] = IF k <= 2 * m THEN a[k] ELSE b[k - 2 * m]
      <3>1. /\ a \o b \in Seq(Nat) /\ Len(a \o b) = Len(a) + Len(b)
            /\ \A k \in 1 .. Len(a) + Len(b) :
                  (a \o b)[k] = IF k <= Len(a) THEN a[k] ELSE b[k - Len(a)]
        BY ConcatProperties
      <3>2. QED
        BY <3>1
    <2>2. \A k \in 1 .. 2 * n : /\ 2 * m + k \in 1 .. 2 * m + 2 * n
                                /\ ~(2 * m + k <= 2 * m) /\ (2 * m + k) - 2 * m = k
      OBVIOUS
    <2>3. \A k \in 1 .. 2 * m : k \in 1 .. 2 * m + 2 * n /\ k <= 2 * m
      OBVIOUS
    <2>4. 2 * m + 2 * n = 2 * (m + n)
      OBVIOUS
    <2>5. QED
      BY <2>1, <2>2, <2>3, <2>4
  <1>2. /\ s \in Seq(Nat) /\ Len(s) = m
        /\ \A k \in 1 .. m : s[k] = Short(le, a[2 * k - 1], a[2 * k])
    <2>1. s \in Seq(Nat) /\ Len(s) = m
      BY ShortsFacts
    <2>2. ASSUME NEW k \in 1 .. m
          PROVE  s[k] = Short(le, a[2 * k - 1], a[2 * k])
      BY ShortsAt
    <2>3. QED
      BY <2>1, <2>2
  <1>3. /\ t \in Seq(Nat) /\ Len(t) = n
        /\ \A k \in 1 .. n : t[k] = Short(le, b[2 * k - 1], b[2 * k])
    <2>1. t \in Seq(Nat) /\ Len(t) = n
      BY ShortsFacts
    <2>2. ASSUME NEW k \in 1 .. n
          PROVE  t[k] = Short(le, b[2 * k - 1], b[2 * k])
      BY ShortsAt
    <2>3. QED
      BY <2>1, <2>2
  <1>4. /\ u \in Seq(Nat) /\ Len(u) = m + n
        /\ \A k \in 1 .. m + n : u[k] = Short(le, (a \o b)[2 * k - 1], (a \o b)[2 * k])
    <2> HIDE DEF u
    <2> DEFINE c == a \o b
    <2>1. c \in Seq(Nat) /\ Len(c) = 2 * (m + n) /\ m + n \in Nat
      BY <1>1
    <2> HIDE DEF c
    <2>2. /\ Shorts(le, c) \in Seq(Nat) /\ Len(Shorts(le, c)) = m + n
          /\ \A k \in 1 .. m + n : Shorts(le, c)[k] = Short(le, c[2 * k - 1], c[2 * k])
      <3> DEFINE e == m + n
      <3>1. c \in Seq(Nat) /\ Len(c) = 2 * e /\ e \in Nat
        BY <2>1
      <3> HIDE DEF e
      <3>2. Shorts(le, c) \in Seq(Nat) /\ Len(Shorts(le, c)) = e
        BY <3>1, ShortsType
      <3>3. ASSUME NEW k \in 1 .. e
            PROVE  Shorts(le, c)[k] = Short(le, c[2 * k - 1], c[2 * k])
        BY <3>1, ShortsAt
      <3>4. QED
        BY <3>2, <3>3 DEF e
    <2>3. QED
      BY <2>2 DEF c, u
  <1> HIDE DEF s, t, u
  <1>5. /\ s \o t \in Seq(Nat) /\ Len(s \o t) = m + n
        /\ \A k \in 1 .. m + n : (s \o t)[k] = IF k <= m THEN s[k] ELSE t[k - m]
    BY <1>2, <1>3, ConcatProperties
  <1>6. ASSUME NEW k \in 1 .. m + n
        PROVE  u[k] = (s \o t)[k]
    <2>1. CASE k <= m
      <3>1. k \in 1 .. m /\ 2 * k - 1 \in 1 .. 2 * m /\ 2 * k \in 1 .. 2 * m
        BY <2>1
      <3>2. (a \o b)[2 * k - 1] = a[2 * k - 1] /\ (a \o b)[2 * k] = a[2 * k]
        BY <3>1, <1>1
      <3>3. QED
        BY <2>1, <3>1, <3>2, <1>2, <1>4, <1>5
    <2>2. CASE ~(k <= m)
      <3> DEFINE j == k - m
      <3>1. /\ j \in 1 .. n /\ 2 * j - 1 \in 1 .. 2 * n /\ 2 * j \in 1 .. 2 * n
            /\ 2 * k - 1 = 2 * m + (2 * j - 1) /\ 2 * k = 2 * m + 2 * j
        BY <2>2
      <3>2. (a \o b)[2 * k - 1] = b[2 * j - 1] /\ (a \o b)[2 * k] = b[2 * j]
        <4> HIDE DEF j
        <4>1. QED
          BY <3>1, <1>1
      <3>3. (s \o t)[k] = t[j]
        BY <2>2, <1>5
      <3> HIDE DEF j
      <3>4. QED
        BY <3>1, <3>2, <3>3, <1>3, <1>4
    <2>3. QED
      BY <2>1, <2>2
  <1>7. u = s \o t
    BY <1>4, <1>5, <1>6, SeqEqual
  <1>8. s \in Seq(Int) /\ t \in Seq(Int)
    BY <1>2, <1>3
  <1>9. QED
    BY <1>7, <1>8, TotalOfConcat DEF SumOf, s, t, u

(* The sums of the same bytes on hosts of the two byte orders.             *)
LEMMA SumsSwapped ==
    ASSUME NEW m \in Nat, NEW bytes \in Seq(Nat), Len(bytes) = 2 * m
    PROVE  Swapped(SumOf(TRUE, bytes), SumOf(FALSE, bytes))
  <1> DEFINE s == Shorts(TRUE, bytes)
             t == Shorts(FALSE, bytes)
  <1>1. /\ s \in Seq(Nat) /\ Len(s) = m
        /\ \A k \in 1 .. m : /\ bytes[2 * k - 1] \in Nat /\ bytes[2 * k] \in Nat
                             /\ s[k] = Short(TRUE, bytes[2 * k - 1], bytes[2 * k])
    BY ShortsFacts
  <1>2. /\ t \in Seq(Nat) /\ Len(t) = m
        /\ \A k \in 1 .. m : t[k] = Short(FALSE, bytes[2 * k - 1], bytes[2 * k])
    BY ShortsFacts
  <1> HIDE DEF s, t
  <1>3. \A k \in 1 .. m : Swapped(s[k], t[k])
    BY <1>1, <1>2, ShortsSwapped
  <1>4. QED
    BY <1>1, <1>2, <1>3, TotalsSwapped DEF SumOf, s, t

(* Storing a short changes the two bytes it is stored in and no other.     *)
LEMMA StoringShort ==
    ASSUME NEW le, NEW n \in Nat, NEW bytes \in Seq(Nat), NEW at \in Nat,
           at + 2 <= Len(bytes)
    PROVE  /\ WithShort(le, bytes, at, n) \in Seq(Nat)
           /\ Len(WithShort(le, bytes, at, n)) = Len(bytes)
           /\ WithShort(le, bytes, at, n)[at + 1] = Stored(le, n)[1]
           /\ WithShort(le, bytes, at, n)[at + 2] = Stored(le, n)[2]
  <1> DEFINE a == Stored(le, n)[1]
             b == Stored(le, n)[2]
             w == [bytes EXCEPT ![at + 1] = a, ![at + 2] = b]
  <1>1. /\ Len(bytes) \in Nat /\ DOMAIN bytes = 1 .. Len(bytes)
        /\ \A k \in 1 .. Len(bytes) : bytes[k] \in Nat
    BY ElementOfSeq, LenProperties
  <1>2. a \in Nat /\ b \in Nat
    <2>1. n \div 256 \in Nat /\ n % 256 \in Nat
      OBVIOUS
    <2>2. QED
      BY <2>1 DEF Stored
  <1> HIDE DEF a, b
  <1>3. bytes = [k \in 1 .. Len(bytes) |-> bytes[k]]
    BY <1>1
  <1>4. /\ w \in [1 .. Len(bytes) -> Nat]
        /\ w[at + 1] = a /\ w[at + 2] = b
    <2> DEFINE m == Len(bytes)
               g == [bytes EXCEPT ![at + 1] = a]
    <2>1. m \in Nat /\ at + 1 \in 1 .. m /\ at + 2 \in 1 .. m /\ at + 1 # at + 2
      BY <1>1
    <2>2. /\ bytes \in [1 .. m -> Nat]
          /\ \A k \in 1 .. m : g[k] = IF k = at + 1 THEN a ELSE bytes[k]
          /\ DOMAIN g = 1 .. m
      BY <1>1, <1>3
    <2>3. /\ w = [g EXCEPT ![at + 2] = b]
          /\ DOMAIN w = 1 .. m
          /\ \A k \in 1 .. m : w[k] = IF k = at + 2 THEN b ELSE g[k]
      BY <2>2
    <2> HIDE DEF g, w
    <2>4. w[at + 1] = a /\ w[at + 2] = b
      BY <2>1, <2>2, <2>3
    <2>5. \A k \in 1 .. m : w[k] \in Nat
      BY <2>2, <2>3, <1>1, <1>2
    <2>6. w = [k \in 1 .. m |-> w[k]]
      BY <2>3 DEF w
    <2>7. QED
      BY <2>4, <2>5, <2>6
  <1> HIDE DEF w
  <1>5. w \in Seq(Nat) /\ Len(w) = Len(bytes)
    BY <1>1, <1>4, FunctionIsSeq
  <1>6. QED
    BY <1>4, <1>5 DEF WithShort, w, a, b

(* What it leaves is bytes, ...                                            *)
LEMMA StoringType ==
    ASSUME NEW le, NEW n \in Nat, NEW bytes \in Seq(Nat), NEW at \in Nat,
           at + 2 <= Len(bytes)
    PROVE  /\ WithShort(le, bytes, at, n) \in Seq(Nat)
           /\ Len(WithShort(le, bytes, at, n)) = Len(bytes)
  BY StoringShort, Zenon

(* ... in the field the short ...                                          *)
LEMMA StoringThere ==
    ASSUME NEW le, NEW n \in Nat, NEW bytes \in Seq(Nat), NEW at \in Nat,
           at + 2 <= Len(bytes)
    PROVE  /\ WithShort(le, bytes, at, n)[at + 1] = Stored(le, n)[1]
           /\ WithShort(le, bytes, at, n)[at + 2] = Stored(le, n)[2]
  BY StoringShort

(* ... and elsewhere what was there.                                       *)
LEMMA StoringElsewhere ==
    ASSUME NEW le, NEW n \in Nat, NEW bytes \in Seq(Nat), NEW at \in Nat,
           at + 2 <= Len(bytes), NEW k \in 1 .. Len(bytes), k \notin {at + 1, at + 2}
    PROVE  WithShort(le, bytes, at, n)[k] = bytes[k]
  <1> DEFINE a == Stored(le, n)[1]
             b == Stored(le, n)[2]
  <1>1. k \in DOMAIN bytes
    BY LenProperties
  <1>2. WithShort(le, bytes, at, n) = [bytes EXCEPT ![at + 1] = a, ![at + 2] = b]
    BY DEF WithShort
  <1> HIDE DEF a, b
  <1>3. QED
    BY <1>1, <1>2

(* The sum a receiver takes grows by what is stored in a field of zeros.   *)
LEMMA SumWithShort ==
    ASSUME NEW le, NEW m \in Nat, NEW bytes \in Seq(Nat), Len(bytes) = 2 * m,
           NEW i \in 1 .. m, NEW n \in Nat
    PROVE  SumOf(FALSE, WithShort(le, bytes, 2 * i - 2, n)) =
              SumOf(FALSE, WithShort(le, bytes, 2 * i - 2, 0))
                  + Short(FALSE, Stored(le, n)[1], Stored(le, n)[2])
  <1> DEFINE at == 2 * i - 2
             v == WithShort(le, bytes, at, 0)
             w == WithShort(le, bytes, at, n)
             s == Shorts(FALSE, v)
             t == Shorts(FALSE, w)
  <1>1. /\ at \in Nat /\ at + 2 <= Len(bytes) /\ 0 \in Nat
        /\ at + 1 = 2 * i - 1 /\ at + 2 = 2 * i
    OBVIOUS
  <1>2. /\ Stored(le, 0)[1] = 0 /\ Stored(le, 0)[2] = 0
        /\ Stored(le, n)[1] \in Nat /\ Stored(le, n)[2] \in Nat
    <2>1. 0 \div 256 = 0 /\ 0 % 256 = 0 /\ n \div 256 \in Nat /\ n % 256 \in Nat
      OBVIOUS
    <2>2. QED
      BY <2>1 DEF Stored
  <1>3. /\ v \in Seq(Nat) /\ Len(v) = 2 * m
        /\ v[2 * i - 1] = 0 /\ v[2 * i] = 0
        /\ \A k \in 1 .. 2 * m : k \notin {2 * i - 1, 2 * i} => v[k] = bytes[k]
    <2> HIDE DEF at
    <2>1. /\ v \in Seq(Nat) /\ Len(v) = Len(bytes)
          /\ v[at + 1] = Stored(le, 0)[1] /\ v[at + 2] = Stored(le, 0)[2]
          /\ \A k \in 1 .. Len(bytes) : k \notin {at + 1, at + 2} => v[k] = bytes[k]
      <3>1. v \in Seq(Nat) /\ Len(v) = Len(bytes)
        BY <1>1, StoringType
      <3>2. v[at + 1] = Stored(le, 0)[1] /\ v[at + 2] = Stored(le, 0)[2]
        BY <1>1, StoringThere
      <3>3. ASSUME NEW k \in 1 .. Len(bytes), k \notin {at + 1, at + 2}
            PROVE  v[k] = bytes[k]
        BY <1>1, <3>3, StoringElsewhere
      <3>4. QED
        BY <3>1, <3>2, <3>3
    <2> HIDE DEF v
    <2>2. QED
      BY <2>1, <1>1, <1>2
  <1>4. /\ w \in Seq(Nat) /\ Len(w) = 2 * m
        /\ w[2 * i - 1] = Stored(le, n)[1] /\ w[2 * i] = Stored(le, n)[2]
        /\ \A k \in 1 .. 2 * m : k \notin {2 * i - 1, 2 * i} => w[k] = bytes[k]
    <2> HIDE DEF at
    <2>1. /\ w \in Seq(Nat) /\ Len(w) = Len(bytes)
          /\ w[at + 1] = Stored(le, n)[1] /\ w[at + 2] = Stored(le, n)[2]
          /\ \A k \in 1 .. Len(bytes) : k \notin {at + 1, at + 2} => w[k] = bytes[k]
      <3>1. w \in Seq(Nat) /\ Len(w) = Len(bytes)
        BY <1>1, StoringType
      <3>2. w[at + 1] = Stored(le, n)[1] /\ w[at + 2] = Stored(le, n)[2]
        BY <1>1, StoringThere
      <3>3. ASSUME NEW k \in 1 .. Len(bytes), k \notin {at + 1, at + 2}
            PROVE  w[k] = bytes[k]
        BY <1>1, <3>3, StoringElsewhere
      <3>4. QED
        BY <3>1, <3>2, <3>3
    <2> HIDE DEF w
    <2>2. QED
      BY <2>1, <1>1, <1>2
  <1> HIDE DEF v, w, at
  <1>5. /\ s \in Seq(Nat) /\ Len(s) = m
        /\ \A k \in 1 .. m : s[k] = Short(FALSE, v[2 * k - 1], v[2 * k])
    BY <1>3, ShortsFacts
  <1>6. /\ t \in Seq(Nat) /\ Len(t) = m
        /\ \A k \in 1 .. m : t[k] = Short(FALSE, w[2 * k - 1], w[2 * k])
    BY <1>4, ShortsFacts
  <1> HIDE DEF s, t
  <1>7. ASSUME NEW k \in 1 .. m, k # i
        PROVE  t[k] = s[k]
    <2>1. /\ 2 * k - 1 \in 1 .. 2 * m /\ 2 * k \in 1 .. 2 * m
          /\ 2 * k - 1 \notin {2 * i - 1, 2 * i} /\ 2 * k \notin {2 * i - 1, 2 * i}
      BY <1>7
    <2>2. v[2 * k - 1] = w[2 * k - 1] /\ v[2 * k] = w[2 * k]
      BY <2>1, <1>3, <1>4
    <2>3. QED
      BY <2>2, <1>5, <1>6
  <1>8. s[i] = 0 /\ t[i] = Short(FALSE, Stored(le, n)[1], Stored(le, n)[2])
    <2>1. s[i] = Short(FALSE, 0, 0) /\ Short(FALSE, 0, 0) = 0
      BY <1>3, <1>5 DEF Short
    <2>2. QED
      BY <2>1, <1>4, <1>6
  <1>9. Total(t) = Total(s) + t[i] - s[i]
    <2>1. s \in Seq(Int) /\ t \in Seq(Int)
      BY <1>5, <1>6
    <2>2. /\ Len(s) = Len(t) /\ i \in 1 .. Len(s)
          /\ \A k \in 1 .. Len(s) : k # i => t[k] = s[k]
      BY <1>2, <1>5, <1>6, <1>7
    <2>3. QED
      BY <2>1, <2>2, TotalOfChange
  <1>10. Total(s) \in Int /\ t[i] \in Int
    <2>1. s \in Seq(Int)
      BY <1>5
    <2>2. t[i] \in Nat
      BY <1>6, ElementOfSeq
    <2>3. QED
      BY <2>1, <2>2, TotalType
  <1>11. Total(t) = Total(s) + t[i]
    <2> DEFINE x == Total(s)
               y == Total(t)
               z == t[i]
    <2>1. y = x + z - s[i] /\ s[i] = 0 /\ x \in Int /\ z \in Int
      BY <1>8, <1>9, <1>10
    <2> HIDE DEF x, y, z
    <2>2. y = x + z
      BY <2>1
    <2>3. QED
      BY <2>2 DEF x, y, z
  <1>12. QED
    BY <1>8, <1>11 DEF SumOf, s, t, v, w, at

(* The function that Folded applies: a carry is added to the low bits      *)
(* until none is left.                                                     *)
FoldsFully(fold) ==
    fold = [n \in Nat |-> IF n < 65536 THEN n ELSE fold[(n % 65536) + (n \div 65536)]]

(* One addition keeps the value modulo 65535, makes the sum smaller and    *)
(* does not make it zero.                                                  *)
LEMMA FoldingOnce ==
    ASSUME NEW n \in Nat, n >= 65536
    PROVE  LET m == (n % 65536) + (n \div 65536)
           IN  m \in Nat /\ m < n /\ m > 0 /\ m % 65535 = n % 65535
  <1>1. ((n % 65536) + (n \div 65536)) % 65535 = n % 65535
    BY SMTT(60)
  <1>2. (n % 65536) + (n \div 65536) < n /\ (n % 65536) + (n \div 65536) > 0
    BY SMTT(60)
  <1>3. (n % 65536) + (n \div 65536) \in Int
    OBVIOUS
  <1>4. QED
    BY <1>1, <1>2, <1>3

(* There is such a function.                                               *)
LEMMA FoldExists == \E fold : FoldsFully(fold)
  <1> DEFINE fold == [n \in Nat |-> IF n < 65536 THEN n ELSE ((n - 1) % 65535) + 1]
  <1>1. ASSUME NEW n \in Nat, n >= 65536
        PROVE  fold[n] = fold[(n % 65536) + (n \div 65536)]
    <2> DEFINE m == (n % 65536) + (n \div 65536)
    <2>1. m \in Nat /\ m > 0 /\ m % 65535 = n % 65535
      BY <1>1, FoldingOnce
    <2> HIDE DEF m
    <2>2. (m - 1) % 65535 = (n - 1) % 65535
      BY <2>1, SMTT(60)
    <2>3. m < 65536 => ((m - 1) % 65535) + 1 = m
      BY <2>1, SMTT(60)
    <2>4. fold[n] = ((n - 1) % 65535) + 1
      BY <1>1
    <2>5. fold[m] = IF m < 65536 THEN m ELSE ((m - 1) % 65535) + 1
      BY <2>1
    <2>6. QED
      BY <2>2, <2>3, <2>4, <2>5 DEF m
  <1>2. ASSUME NEW n \in Nat
        PROVE  fold[n] = IF n < 65536 THEN n ELSE fold[(n % 65536) + (n \div 65536)]
    <2>1. CASE n < 65536
      BY <2>1
    <2>2. CASE ~(n < 65536)
      <3>1. n >= 65536
        BY <2>2
      <3> HIDE DEF fold
      <3>2. QED
        BY <2>2, <3>1, <1>1
    <2>3. QED
      BY <2>1, <2>2
  <1>3. \A f : f = [n \in Nat |-> fold[n]] => f = fold
    OBVIOUS
  <1>4. FoldsFully(fold)
    <2>1. fold = [n \in Nat |-> fold[n]]
      OBVIOUS
    <2> HIDE DEF fold
    <2>2. QED
      BY <2>1, <1>2 DEF FoldsFully
  <1>5. QED
    BY <1>4

(* What is left of a sum has 16 bits and the value modulo 65535, and that  *)
(* of zero is zero.                                                        *)
LEMMA FoldedFacts ==
    ASSUME NEW sum \in Nat
    PROVE  /\ Folded(sum) \in Nat /\ Folded(sum) < 65536
           /\ Folded(sum) % 65535 = sum % 65535
           /\ sum = 0 => Folded(sum) = 0
  <1> DEFINE fold == CHOOSE f : FoldsFully(f)
  <1>1. FoldsFully(fold)
    BY FoldExists
  <1>2. Folded(sum) = fold[sum]
    BY DEF Folded, FoldsFully
  <1> HIDE DEF fold
  <1> DEFINE Right == {n \in Nat : /\ fold[n] \in Nat /\ fold[n] < 65536
                                   /\ fold[n] % 65535 = n % 65535
                                   /\ n = 0 => fold[n] = 0}
  <1>3. ASSUME NEW n \in Nat, \A m \in Nat : m < n => m \in Right
        PROVE  n \in Right
    <2>1. fold[n] = IF n < 65536 THEN n ELSE fold[(n % 65536) + (n \div 65536)]
      BY <1>1 DEF FoldsFully
    <2>2. CASE n < 65536
      <3>1. fold[n] = n /\ n < 65536
        BY <2>1, <2>2
      <3>2. QED
        BY <3>1
    <2>3. CASE ~(n < 65536)
      <3> DEFINE m == (n % 65536) + (n \div 65536)
      <3>1. m \in Nat /\ m < n /\ m > 0 /\ m % 65535 = n % 65535
        <4>1. n >= 65536
          BY <2>3
        <4>2. QED
          BY <4>1, FoldingOnce
      <3>2. fold[n] = fold[m]
        BY <2>1, <2>3
      <3>3. m \in Right
        <4> HIDE DEF m, Right
        <4>1. QED
          BY <3>1, <1>3
      <3> HIDE DEF m
      <3>4. fold[n] \in Nat /\ fold[n] < 65536 /\ fold[n] % 65535 = n % 65535 /\ n # 0
        BY <3>1, <3>2, <3>3
      <3>5. QED
        BY <3>4
    <2>4. QED
      BY <2>2, <2>3
  <1>4. sum \in Right
    <2> HIDE DEF Right
    <2>1. QED
      BY <1>3, StrongInduction
  <1>5. QED
    BY <1>2, <1>4

Complete(x) == x # 0 /\ x % 65535 = 0

Complement(sum) == 65535 - Folded(sum)

Remainder(sum) == 65535 - (sum % 65535)

(* A short n, its high byte and its low one.                               *)
LEMMA BytesOfShort ==
    ASSUME NEW n \in Nat
    PROVE  n \div 256 \in Nat /\ n % 256 \in Nat /\ n = 256 * (n \div 256) + (n % 256)
  BY SMTT(60)

(* What the complement of a sum adds to a receiver's: in its order, or ... *)
LEMMA ComplementCompletes ==
    ASSUME NEW S \in Nat
    PROVE  Complement(S) \in Nat /\ Complete(S + Complement(S))
  <1> DEFINE F == Folded(S)
  <1>1. F \in Nat /\ F < 65536 /\ F % 65535 = S % 65535 /\ (S = 0 => F = 0)
    BY FoldedFacts, SMT
  <1> HIDE DEF F
  <1>2. 65535 - F \in Nat
    BY <1>1, SMTT(60)
  <1>3. S + (65535 - F) # 0 
    BY <1>1, SMTT(60)
  <1>4. (S + (65535 - F)) % 65535 = 0
    BY <1>1, SMTT(60)
  <1>5. QED
    BY <1>2, <1>3, <1>4, SMT DEF F, Complement, Complete

(* ... in the other.                                                       *)
LEMMA SwappedCompletes ==
    ASSUME NEW S \in Nat, NEW T \in Nat, Swapped(S, T), NEW c \in Nat, c = Complement(S)
    PROVE  Complete(T + (256 * (c % 256) + (c \div 256)))
  <1> DEFINE F == Folded(S)
             hi == c \div 256
             lo == c % 256
  <1>0. hi \in Nat /\ lo \in Nat /\ c = 256 * hi + lo
    BY BytesOfShort
  <1> HIDE DEF hi, lo
  <1>1. F \in Nat /\ F < 65536 /\ F % 65535 = S % 65535 /\ (S = 0 => F = 0)
    BY FoldedFacts, SMT
  <1>2. 65535 - F = 256 * hi + lo
    BY <1>0, SMT DEF Complement
  <1>3. (S = 0 <=> T = 0) /\ S % 65535 = (256 * T) % 65535
    BY SMT DEF Swapped
  <1> HIDE DEF F
  <1>4. F % 65535 = (256 * T) % 65535
    BY <1>1, <1>3, SMT
  <1>5. (T + (256 * lo + hi)) % 65535 = 0
    BY <1>0, <1>1, <1>2, <1>4, SMTT(60)
  <1>6. T = 0 => F # 65535
    BY <1>1, <1>3, SMTT(60)
  <1>7. T + (256 * lo + hi) # 0
    BY <1>0, <1>1, <1>2, <1>6, SMTT(60)
  <1>8. QED
    BY <1>5, <1>7, SMT DEF Complete, hi, lo

(* The kernel's checksum.                                                  *)
LEMMA RemainderCompletes ==
    ASSUME NEW T \in Nat
    PROVE  Remainder(T) \in Nat /\ Complete(T + Remainder(T))
  <1>1. 65535 - (T % 65535) \in Nat /\ 65535 - (T % 65535) > 0
    BY SMTT(60)
  <1>2. (T + (65535 - (T % 65535))) % 65535 = 0
    BY SMTT(60)
  <1>3. T + (65535 - (T % 65535)) # 0
    BY <1>1, SMTT(60)
  <1>4. QED
    BY <1>1, <1>2, <1>3, SMT DEF Remainder, Complete

(* Swapped sums are numbers.                                               *)
LEMMA SwappedType ==
    ASSUME NEW a, NEW b, Swapped(a, b)
    PROVE  a \in Nat /\ b \in Nat
  BY DEF Swapped

(* What a receiver looks at.                                               *)
LEMMA VerifiesIfComplete ==
    ASSUME NEW bytes
    PROVE  Complete(SumOf(FALSE, bytes)) <=> Verifies(bytes)
  BY DEF Verifies, Complete

(* Bytes that are all part of a short.                                     *)
Even(bytes) == bytes \in Seq(Nat) /\ \E m \in Nat : Len(bytes) = 2 * m

(* Their sums are numbers, ...                                             *)
LEMMA SumOfType ==
    ASSUME NEW le, NEW bytes, Even(bytes)
    PROVE  /\ SumOf(le, bytes) \in Nat
           /\ bytes = <<>> => SumOf(le, bytes) = 0
           /\ le => Swapped(SumOf(le, bytes), SumOf(FALSE, bytes))
           /\ ~le => SumOf(le, bytes) = SumOf(FALSE, bytes)
  <1>0. PICK m \in Nat : bytes \in Seq(Nat) /\ Len(bytes) = 2 * m
    BY DEF Even
  <1>1. Swapped(SumOf(TRUE, bytes), SumOf(FALSE, bytes))
    BY <1>0, SumsSwapped
  <1>2. /\ le => Shorts(le, bytes) = Shorts(TRUE, bytes)
        /\ ~le => Shorts(le, bytes) = Shorts(FALSE, bytes)
    <2>1. /\ \A b, c : le => Short(le, b, c) = Short(TRUE, b, c)
          /\ \A b, c : ~le => Short(le, b, c) = Short(FALSE, b, c)
      BY DEF Short
    <2>2. QED
      BY <2>1 DEF Shorts
  <1>3. /\ le => SumOf(le, bytes) = SumOf(TRUE, bytes)
        /\ ~le => SumOf(le, bytes) = SumOf(FALSE, bytes)
    BY <1>2 DEF SumOf
  <1>4. SumOf(TRUE, bytes) \in Nat /\ SumOf(FALSE, bytes) \in Nat
    BY <1>1, SwappedType
  <1>5. bytes = <<>> => SumOf(le, bytes) = 0
    <2> SUFFICES ASSUME bytes = <<>>
                 PROVE  SumOf(le, bytes) = 0
      OBVIOUS
    <2> DEFINE s == Shorts(le, bytes)
    <2>0. m = 0
      BY <1>0
    <2>1. s \in Seq(Nat) /\ Len(s) = m
      BY <1>0, ShortsType
    <2> HIDE DEF s
    <2>2. s \in Seq(Int)
      BY <2>1
    <2>3. Total(s) = 0
      BY <2>0, <2>1, <2>2, TotalRecursion
    <2>4. QED
      BY <2>3 DEF SumOf, s
  <1>6. QED
    BY <1>1, <1>3, <1>4, <1>5

(* ... and add up.                                                         *)
LEMMA EvenConcat ==
    ASSUME NEW a, Even(a), NEW b, Even(b)
    PROVE  Even(a \o b) /\ \A le : SumOf(le, a \o b) = SumOf(le, a) + SumOf(le, b)
  <1>1. PICK m \in Nat : a \in Seq(Nat) /\ Len(a) = 2 * m
    BY DEF Even
  <1>2. PICK n \in Nat : b \in Seq(Nat) /\ Len(b) = 2 * n
    BY DEF Even
  <1>3. a \o b \in Seq(Nat) /\ Len(a \o b) = 2 * (m + n) /\ m + n \in Nat
    <2>1. a \o b \in Seq(Nat) /\ Len(a \o b) = Len(a) + Len(b)
      BY <1>1, <1>2, ConcatProperties
    <2>2. QED
      BY <2>1, <1>1, <1>2
  <1>4. Even(a \o b)
    BY <1>3 DEF Even
  <1>5. \A le : SumOf(le, a \o b) = SumOf(le, a) + SumOf(le, b)
    BY <1>1, <1>2, SumOfConcat
  <1>6. QED
    BY <1>4, <1>5

(* An even offset at which there is a short.                               *)
Field(header, at) == \E i \in Nat : at = 2 * i /\ at + 2 <= Len(header)

(* A header with a short in one of its fields: the sum grows by it, read   *)
(* in the order of the network.                                            *)
LEMMA EvenField ==
    ASSUME NEW le, NEW header, Even(header), NEW at, Field(header, at), NEW c \in Nat
    PROVE  /\ Even(WithShort(le, header, at, c))
           /\ Len(WithShort(le, header, at, c)) = Len(header)
           /\ SumOf(FALSE, WithShort(le, header, at, c)) =
                 SumOf(FALSE, WithShort(le, header, at, 0))
                    + Short(FALSE, Stored(le, c)[1], Stored(le, c)[2])
  <1>1. PICK m \in Nat : header \in Seq(Nat) /\ Len(header) = 2 * m
    BY DEF Even
  <1>2. PICK j \in Nat : at = 2 * j /\ at + 2 <= Len(header)
    BY DEF Field
  <1> DEFINE i == j + 1
  <1>3. i \in 1 .. m /\ at = 2 * i - 2 /\ at \in Nat
    BY <1>1, <1>2
  <1> HIDE DEF i
  <1>4. WithShort(le, header, at, c) \in Seq(Nat) /\ Len(WithShort(le, header, at, c)) = 2 * m
    <2>1. header \in Seq(Nat) /\ at \in Nat /\ at + 2 <= Len(header)
      BY <1>1, <1>2, <1>3
    <2> DEFINE w == WithShort(le, header, at, c)
    <2>2. w \in Seq(Nat) /\ Len(w) = Len(header)
      BY <2>1, StoringType
    <2> HIDE DEF w
    <2>3. QED
      BY <2>2, <1>1 DEF w
  <1>5. Even(WithShort(le, header, at, c))
    BY <1>4 DEF Even
  <1>6. SumOf(FALSE, WithShort(le, header, 2 * i - 2, c)) =
           SumOf(FALSE, WithShort(le, header, 2 * i - 2, 0))
              + Short(FALSE, Stored(le, c)[1], Stored(le, c)[2])
    BY <1>1, <1>3, SumWithShort
  <1>7. QED
    BY <1>1, <1>3, <1>4, <1>5, <1>6

(* So does that of something before it and the header.                     *)
LEMMA SumWithField ==
    ASSUME NEW le, NEW pseudo, Even(pseudo),
           NEW header, Even(header), NEW at, Field(header, at), NEW c \in Nat
    PROVE  SumOf(FALSE, pseudo \o WithShort(le, header, at, c)) =
              SumOf(FALSE, pseudo \o WithShort(le, header, at, 0))
                  + Short(FALSE, Stored(le, c)[1], Stored(le, c)[2])
  <1> DEFINE zeroed == WithShort(le, header, at, 0)
             filled == WithShort(le, header, at, c)
             more == Short(FALSE, Stored(le, c)[1], Stored(le, c)[2])
             p == SumOf(FALSE, pseudo)
             z == SumOf(FALSE, zeroed)
             f == SumOf(FALSE, filled)
  <1>1. Even(zeroed)
    BY EvenField, 0 \in Nat
  <1>2. Even(filled) /\ f = z + more
    BY EvenField
  <1>3. more \in Nat
    BY BytesOfShort DEF Stored, Short
  <1> HIDE DEF zeroed, filled, more
  <1>4. SumOf(FALSE, pseudo \o zeroed) = p + z
    BY <1>1, EvenConcat
  <1>5. SumOf(FALSE, pseudo \o filled) = p + f
    BY <1>2, EvenConcat
  <1>6. p \in Nat /\ z \in Nat
    BY <1>1, SumOfType
  <1> HIDE DEF p, z, f
  <1>7. p + f = p + z + more
    BY <1>2, <1>3, <1>6
  <1>8. QED
    BY <1>4, <1>5, <1>7 DEF zeroed, filled, more

(* A header behind a pseudo header, its check field filled in by the code, *)
(* or ...                                                                  *)
LEMMA CodeFieldVerifies ==
    ASSUME NEW le, NEW pseudo, Even(pseudo), NEW header, Even(header),
           NEW at, Field(header, at),
           NEW c, c = Complement(SumOf(le, pseudo) + SumOf(le, WithShort(le, header, at, 0)))
    PROVE  Verifies(pseudo \o WithShort(le, header, at, c))
  <1> DEFINE zeroed == WithShort(le, header, at, 0)
             whole == pseudo \o zeroed
             S == SumOf(le, whole)
             T == SumOf(FALSE, whole)
             filled == WithShort(le, header, at, c)
             more == Short(FALSE, Stored(le, c)[1], Stored(le, c)[2])
             hi == c \div 256
             lo == c % 256
  <1>1. Even(zeroed)
    BY EvenField, 0 \in Nat
  <1>2. Even(whole) /\ S = SumOf(le, pseudo) + SumOf(le, zeroed)
    <2> HIDE DEF zeroed
    <2>1. QED
      BY <1>1, EvenConcat
  <1>3. c = Complement(S)
    BY <1>2
  <1>4. S \in Nat /\ T \in Nat /\ (le => Swapped(S, T)) /\ (~le => S = T)
    <2> HIDE DEF whole
    <2>1. S \in Nat /\ T \in Nat
      BY <1>2, SumOfType
    <2>2. (le => Swapped(S, T)) /\ (~le => S = T)
      BY <1>2, SumOfType
    <2>3. QED
      BY <2>1, <2>2
  <1> HIDE DEF S, T
  <1>5. c \in Nat
    BY <1>3, <1>4, ComplementCompletes
  <1>6. SumOf(FALSE, pseudo \o filled) = T + more
    BY <1>5, SumWithField DEF T
  <1>7. hi \in Nat /\ lo \in Nat /\ c = 256 * hi + lo
    BY <1>5, BytesOfShort
  <1>8. CASE ~le
    <2>1. more = 256 * hi + lo
      BY <1>8 DEF Stored, Short
    <2>2. more = c /\ S = T
      BY <2>1, <1>4, <1>7, <1>8
    <2> HIDE DEF more, filled
    <2>3. Complete(T + more)
      BY <2>2, <1>3, <1>4, ComplementCompletes
    <2>4. QED
      BY <2>3, <1>6, VerifiesIfComplete DEF filled
  <1>9. CASE le
    <2>1. more = 256 * lo + hi
      BY <1>9 DEF Stored, Short
    <2>2. Swapped(S, T)
      BY <1>4, <1>9
    <2>3. Complete(T + (256 * lo + hi))
      BY <2>2, <1>3, <1>4, <1>5, SwappedCompletes
    <2> HIDE DEF more, filled
    <2>4. QED
      BY <2>1, <2>3, <1>6, VerifiesIfComplete DEF filled
  <1>10. QED
    BY <1>8, <1>9, Zenon

(* ... by the kernel, verifies.                                            *)
LEMMA KernelFieldVerifies ==
    ASSUME NEW pseudo, Even(pseudo), NEW header, Even(header), NEW at, Field(header, at),
           NEW c, c = Remainder(SumOf(FALSE, pseudo \o WithShort(FALSE, header, at, 0)))
    PROVE  Verifies(pseudo \o WithShort(FALSE, header, at, c))
  <1> DEFINE zeroed == WithShort(FALSE, header, at, 0)
             whole == pseudo \o zeroed
             T == SumOf(FALSE, whole)
             filled == WithShort(FALSE, header, at, c)
             more == Short(FALSE, Stored(FALSE, c)[1], Stored(FALSE, c)[2])
  <1>1. Even(zeroed)
    BY EvenField, 0 \in Nat
  <1>2. Even(whole)
    <2> HIDE DEF zeroed
    <2>1. QED
      BY <1>1, EvenConcat
  <1>3. T \in Nat
    <2> HIDE DEF whole
    <2>1. QED
      BY <1>2, SumOfType
  <1>4. c = Remainder(T)
    OBVIOUS
  <1> HIDE DEF T
  <1>5. c \in Nat /\ Complete(T + c)
    BY <1>3, <1>4, RemainderCompletes
  <1>6. SumOf(FALSE, pseudo \o filled) = T + more
    BY <1>5, SumWithField DEF T
  <1>7. more = c
    <2>1. c = 256 * (c \div 256) + (c % 256)
      BY <1>5, BytesOfShort
    <2>2. QED
      BY <2>1 DEF Stored, Short
  <1> HIDE DEF more, filled
  <1>8. Complete(SumOf(FALSE, pseudo \o filled))
    BY <1>5, <1>6, <1>7
  <1>9. QED
    BY <1>8, VerifiesIfComplete DEF filled

-------------------------------------------------------------------------------
(* Headers and pseudo headers *)

Bytes(n) == {bytes \in Seq(Nat) : Len(bytes) = n}

(* Bytes behind bytes.                                                     *)
LEMMA BytesConcat ==
    ASSUME NEW m \in Nat, NEW n \in Nat, NEW s \in Bytes(m), NEW t \in Bytes(n)
    PROVE  s \o t \in Bytes(m + n)
  <1>1. s \in Seq(Nat) /\ t \in Seq(Nat) /\ Len(s) = m /\ Len(t) = n
    BY DEF Bytes
  <1>2. s \o t \in Seq(Nat) /\ Len(s \o t) = Len(s) + Len(t)
    BY <1>1, ConcatProperties
  <1>3. QED
    BY <1>1, <1>2 DEF Bytes

(* Short lists of them.                                                    *)
LEMMA BytesListed ==
    /\ <<>> \in Bytes(0)
    /\ \A a, b \in Nat : <<a, b>> \in Bytes(2)
    /\ \A a, b, c, d \in Nat : <<a, b, c, d>> \in Bytes(4)
  BY DEF Bytes

(* htons(n) takes two.                                                     *)
LEMMA NetworkOrderBytes ==
    ASSUME NEW n \in Nat
    PROVE  NetworkOrder(n) \in Bytes(2)
  <1>1. n \div 256 \in Nat /\ n % 256 \in Nat
    OBVIOUS
  <1>2. QED
    BY <1>1, BytesListed, Zenon DEF NetworkOrder

(* An even number of bytes is all shorts.                                  *)
LEMMA BytesAreEven ==
    ASSUME NEW n \in Nat, n % 2 = 0, NEW bytes \in Bytes(n)
    PROVE  Even(bytes) /\ bytes \in Seq(Nat) /\ Len(bytes) = n
  <1>1. n \div 2 \in Nat /\ n = 2 * (n \div 2)
    OBVIOUS
  <1>2. QED
    BY <1>1 DEF Even, Bytes

(* An even offset before the end is one of a short.                        *)
LEMMA OffsetIsField ==
    ASSUME NEW at \in Nat, at % 2 = 0, NEW header, at + 2 <= Len(header)
    PROVE  Field(header, at)
  <1>1. at \div 2 \in Nat /\ at = 2 * (at \div 2)
    OBVIOUS
  <1>2. QED
    BY <1>1 DEF Field

(* A header of ICMP and of UDP has eight bytes, one of TCP twenty.         *)
LEMMA HeaderBytes ==
    ASSUME NEW protocol \in Protocols, NEW header \in Headers(protocol)
    PROVE  header \in Bytes(IF protocol = "tcp" THEN 20 ELSE 8)
  <1>1. \A n \in Ports \cup Ids \cup Urgent : NetworkOrder(n) \in Bytes(2)
    BY NetworkOrderBytes, FirstProbeAssumption
  <1>2. NetworkOrder(8) \in Bytes(2) /\ NetworkOrder(5760) \in Bytes(2)
    BY NetworkOrderBytes
  <1>3. /\ <<0, 0>> \in Bytes(2) /\ <<IF littleEndian THEN 80 ELSE 5, 2>> \in Bytes(2)
        /\ <<0, 0, 0, 0>> \in Bytes(4)
        /\ <<IF isV4(source) THEN 8 ELSE 128, 0, 0, 0>> \in Bytes(4)
    BY BytesListed
  <1>4. /\ \A s, t \in Bytes(2) : s \o t \in Bytes(4)
        /\ \A s \in Bytes(4), t \in Bytes(2) : s \o t \in Bytes(6)
        /\ \A s \in Bytes(6), t \in Bytes(2) : s \o t \in Bytes(8)
        /\ \A s \in Bytes(8), t \in Bytes(4) : s \o t \in Bytes(12)
        /\ \A s \in Bytes(12), t \in Bytes(2) : s \o t \in Bytes(14)
        /\ \A s \in Bytes(14), t \in Bytes(2) : s \o t \in Bytes(16)
        /\ \A s \in Bytes(16), t \in Bytes(2) : s \o t \in Bytes(18)
        /\ \A s \in Bytes(18), t \in Bytes(2) : s \o t \in Bytes(20)
    <2>1. /\ 2 + 2 = 4 /\ 4 + 2 = 6 /\ 6 + 2 = 8 /\ 8 + 4 = 12 /\ 12 + 2 = 14
          /\ 14 + 2 = 16 /\ 16 + 2 = 18 /\ 18 + 2 = 20
      OBVIOUS
    <2>2. \A m, n \in Nat : \A s \in Bytes(m), t \in Bytes(n) : s \o t \in Bytes(m + n)
      BY BytesConcat
    <2>3. QED
      BY <2>1, <2>2
  <1>5. IcmpHeaders \subseteq Bytes(8)
    <2>1. ASSUME NEW id \in Ids
          PROVE  <<IF isV4(source) THEN 8 ELSE 128, 0, 0, 0>> \o NetworkOrder(id) \o <<0, 0>>
                    \in Bytes(8)
      <3> DEFINE a == <<IF isV4(source) THEN 8 ELSE 128, 0, 0, 0>>
                 b == NetworkOrder(id)
                 c == <<0, 0>>
      <3>1. a \in Bytes(4) /\ b \in Bytes(2) /\ c \in Bytes(2)
        BY <1>1, <1>3
      <3> HIDE DEF a, b, c
      <3>2. a \o b \o c \in Bytes(8)
        BY <3>1, <1>4
      <3>3. QED
        BY <3>2 DEF a, b, c
    <2>2. QED
      BY <2>1 DEF IcmpHeaders
  <1>6. UdpHeaders \subseteq Bytes(8)
    <2> DEFINE H(port, dport) ==
                  NetworkOrder(port) \o NetworkOrder(dport) \o NetworkOrder(8) \o <<0, 0>>
    <2>1. ASSUME NEW port \in Ports, NEW dport \in Ports
          PROVE  H(port, dport) \in Bytes(8)
      <3>1. NetworkOrder(port) \in Bytes(2) /\ NetworkOrder(dport) \in Bytes(2)
        BY <1>1
      <3> DEFINE a == NetworkOrder(port)
                 b == NetworkOrder(dport)
                 c == NetworkOrder(8)
                 d == <<0, 0>>
      <3>2. a \in Bytes(2) /\ b \in Bytes(2) /\ c \in Bytes(2) /\ d \in Bytes(2)
        BY <3>1, <1>2, <1>3
      <3> HIDE DEF a, b, c, d
      <3>3. a \o b \o c \o d \in Bytes(8)
        BY <3>2, <1>4
      <3>4. QED
        BY <3>3 DEF a, b, c, d
    <2>2. UdpHeaders = {H(port, dport) : port \in Ports, dport \in Ports}
      BY DEF UdpHeaders
    <2> HIDE DEF H
    <2>3. QED
      BY <2>1, <2>2
  <1>7. TcpHeaders \subseteq Bytes(20)
    <2> DEFINE H(port, dport, seq, urgent) ==
                  NetworkOrder(port) \o NetworkOrder(dport) \o <<0, 0>> \o NetworkOrder(seq)
                      \o <<0, 0, 0, 0>> \o <<IF littleEndian THEN 80 ELSE 5, 2>> \o NetworkOrder(5760) \o <<0, 0>>
                      \o NetworkOrder(urgent)
    <2>1. ASSUME NEW port \in Ports, NEW dport \in Ports, NEW seq \in Ids,
                 NEW urgent \in Urgent
          PROVE  H(port, dport, seq, urgent) \in Bytes(20)
      <3>1. /\ NetworkOrder(port) \in Bytes(2) /\ NetworkOrder(dport) \in Bytes(2)
            /\ NetworkOrder(seq) \in Bytes(2) /\ NetworkOrder(urgent) \in Bytes(2)
        BY <1>1
      <3> DEFINE a == NetworkOrder(port)
                 b == NetworkOrder(dport)
                 c == <<0, 0>>
                 d == NetworkOrder(seq)
                 e == <<0, 0, 0, 0>>
                 f == <<IF littleEndian THEN 80 ELSE 5, 2>>
                 g == NetworkOrder(5760)
                 h == NetworkOrder(urgent)
      <3>2. /\ a \in Bytes(2) /\ b \in Bytes(2) /\ c \in Bytes(2) /\ d \in Bytes(2)
            /\ e \in Bytes(4) /\ f \in Bytes(2) /\ g \in Bytes(2) /\ h \in Bytes(2)
        BY <3>1, <1>2, <1>3
      <3> HIDE DEF a, b, c, d, e, f, g, h
      <3>3. a \o b \o c \o d \in Bytes(8)
        BY <3>2, <1>4
      <3>4. a \o b \o c \o d \o e \o f \o g \in Bytes(16)
        BY <3>2, <3>3, <1>4
      <3>5. a \o b \o c \o d \o e \o f \o g \o c \o h \in Bytes(20)
        BY <3>2, <3>4, <1>4
      <3>6. QED
        BY <3>5 DEF a, b, c, d, e, f, g, h
    <2>2. TcpHeaders = {H(port, dport, seq, urgent) :
                           port \in Ports, dport \in Ports, seq \in Ids, urgent \in Urgent}
      BY DEF TcpHeaders
    <2> HIDE DEF H
    <2>3. QED
      BY <2>1, <2>2
  <1>8. QED
    BY <1>5, <1>6, <1>7 DEF Headers

(* They are all shorts, and the checksum is one of them.                   *)
LEMMA HeaderFacts ==
    ASSUME NEW protocol \in Protocols, NEW header \in Headers(protocol)
    PROVE  /\ header \in Seq(Nat) /\ Even(header) /\ Field(header, CheckField(protocol))
           /\ Len(header) \in {8, 20}
  <1>1. CASE protocol = "tcp"
    <2>1. header \in Bytes(20) /\ 20 % 2 = 0
      BY <1>1, HeaderBytes
    <2>2. Even(header) /\ header \in Seq(Nat) /\ Len(header) = 20
      BY <2>1, BytesAreEven
    <2>3. CheckField(protocol) = 16 /\ 16 % 2 = 0 /\ 16 + 2 <= Len(header)
      BY <2>2, <1>1 DEF CheckField
    <2>4. QED
      BY <2>2, <2>3, OffsetIsField
  <1>2. CASE protocol # "tcp"
    <2>1. header \in Bytes(8) /\ 8 % 2 = 0
      BY <1>2, HeaderBytes
    <2>2. Even(header) /\ header \in Seq(Nat) /\ Len(header) = 8
      BY <2>1, BytesAreEven
    <2>3. CheckField(protocol) \in {2, 6}
      BY <1>2 DEF CheckField, Protocols
    <2>4. /\ CheckField(protocol) \in Nat /\ CheckField(protocol) % 2 = 0
          /\ CheckField(protocol) + 2 <= Len(header)
      BY <2>2, <2>3
    <2>5. QED
      BY <2>2, <2>4, OffsetIsField
  <1>3. QED
    BY <1>1, <1>2

(* The address of a host is four bytes or sixteen.                         *)
LEMMA AddressBytes ==
    ASSUME NEW host \in Host
    PROVE  /\ host.family = "v4" => host.addr \in Bytes(4)
           /\ host.family # "v4" => host.addr \in Bytes(16)
  <1>1. \A n \in Nat : \A f \in [1 .. n -> Byte] : f \in Bytes(n)
    <2>1. ASSUME NEW n \in Nat, NEW f \in [1 .. n -> Byte]
          PROVE  f \in Bytes(n)
      <3>1. f \in [1 .. n -> Nat]
        <4>1. \A b \in Byte : b \in Nat
          BY DEF Byte
        <4>2. QED
          BY <4>1
      <3>2. QED
        BY <3>1, FunctionIsSeq DEF Bytes
    <2>2. QED
      BY <2>1
  <1>2. /\ \A f \in [1 .. 4 -> Byte] : f \in Bytes(4)
        /\ \A f \in [1 .. 16 -> Byte] : f \in Bytes(16)
    BY <1>1
  <1>3. QED
    BY <1>2 DEF Host

(* A pseudo header is all shorts.                                          *)
LEMMA PseudoHeaderEven ==
    ASSUME NEW from \in Host, NEW to \in Host, from.family = to.family,
           NEW protocol \in Nat, NEW length \in Nat
    PROVE  Even(PseudoHeader(from, to, protocol, length))
  <1>1. \A m, n \in Nat : \A s \in Bytes(m), t \in Bytes(n) : s \o t \in Bytes(m + n)
    BY BytesConcat
  <1>2. CASE from.family = "v4"
    <2> DEFINE tail == <<0, protocol, 0, length>>
    <2>1. from.addr \in Bytes(4) /\ to.addr \in Bytes(4) /\ tail \in Bytes(4)
      BY <1>2, AddressBytes, BytesListed
    <2> HIDE DEF tail
    <2>2. from.addr \o to.addr \in Bytes(4 + 4)
      BY <2>1, <1>1
    <2>3. from.addr \o to.addr \o tail \in Bytes(8 + 4)
      BY <2>1, <2>2, <1>1
    <2>4. from.addr \o to.addr \o tail \in Bytes(12) /\ 12 % 2 = 0
      BY <2>3
    <2>5. Even(from.addr \o to.addr \o tail)
      BY <2>4, BytesAreEven
    <2>6. QED
      BY <2>5, <1>2 DEF PseudoHeader, tail
  <1>3. CASE from.family # "v4"
    <2> DEFINE tail == <<0, 0, 0, length, 0, 0, 0, protocol>>
    <2>1. from.addr \in Bytes(16) /\ to.addr \in Bytes(16)
      BY <1>3, AddressBytes
    <2>2. tail \in Bytes(8)
      BY DEF Bytes
    <2> HIDE DEF tail
    <2>3. from.addr \o to.addr \in Bytes(16 + 16)
      BY <2>1, <1>1
    <2>4. from.addr \o to.addr \o tail \in Bytes(32 + 8)
      BY <2>2, <2>3, <1>1
    <2>5. from.addr \o to.addr \o tail \in Bytes(40) /\ 40 % 2 = 0
      BY <2>4
    <2>6. Even(from.addr \o to.addr \o tail)
      BY <2>5, BytesAreEven
    <2>7. QED
      BY <2>6, <1>3 DEF PseudoHeader, tail
  <1>4. QED
    BY <1>2, <1>3

(* The empty pseudo header of ICMP.                                        *)
LEMMA NothingIsEven == Even(<<>>)
  <1>1. <<>> \in Bytes(0) /\ 0 % 2 = 0 /\ 0 \in Nat
    BY BytesListed
  <1>2. QED
    BY <1>1, BytesAreEven

(* The sum of four bytes.                                                  *)
LEMMA SumOfTwoShorts ==
    ASSUME NEW le, NEW a \in Nat, NEW b \in Nat, NEW c \in Nat, NEW d \in Nat
    PROVE  SumOf(le, <<a, b, c, d>>) = Short(le, a, b) + Short(le, c, d)
  <1> DEFINE bytes == <<a, b, c, d>>
             s == Shorts(le, bytes)
  <1>1. bytes \in Seq(Nat) /\ Len(bytes) = 2 * 2
    OBVIOUS
  <1>2. bytes[1] = a /\ bytes[2] = b /\ bytes[3] = c /\ bytes[4] = d
    OBVIOUS
  <1> HIDE DEF bytes
  <1>3. s \in Seq(Nat) /\ Len(s) = 2
    BY <1>1, ShortsType
  <1>4. ASSUME NEW k \in 1 .. 2
        PROVE  s[k] = Short(le, bytes[2 * k - 1], bytes[2 * k])
    <2> DEFINE m == 2
    <2>1. m \in Nat /\ Len(bytes) = 2 * m /\ k \in 1 .. m
      BY <1>1
    <2> HIDE DEF m
    <2>2. QED
      BY <2>1, <1>1, ShortsAt
  <1>5. s[1] = Short(le, a, b) /\ s[2] = Short(le, c, d)
    <2>1. /\ 1 \in 1 .. 2 /\ 2 * 1 - 1 = 1 /\ 2 * 1 = 2
          /\ 2 \in 1 .. 2 /\ 2 * 2 - 1 = 3 /\ 2 * 2 = 4
      OBVIOUS
    <2> HIDE DEF s
    <2>2. s[1] = Short(le, bytes[1], bytes[2]) /\ s[2] = Short(le, bytes[3], bytes[4])
      BY <2>1, <1>4
    <2>3. QED
      BY <2>2, <1>2
  <1> HIDE DEF s
  <1>6. Total(s) = s[1] + s[2]
    <2>1. s \in Seq(Int)
      BY <1>3
    <2>2. PICK sum : /\ Total(s) = sum[2] /\ sum[0] = 0
                     /\ \A k \in 1 .. 2 : sum[k] = sum[k - 1] + s[k]
      BY <2>1, <1>3, TotalRecursion
    <2>3. sum[1] = sum[0] + s[1] /\ sum[2] = sum[1] + s[2]
      <3>1. 1 \in 1 .. 2 /\ 1 - 1 = 0 /\ 2 \in 1 .. 2 /\ 2 - 1 = 1
        OBVIOUS
      <3>2. QED
        BY <2>2, <3>1
    <2>4. s[1] \in Nat /\ s[2] \in Nat
      BY <1>3, 1 \in 1 .. Len(s), 2 \in 1 .. Len(s), ElementOfSeq
    <2>5. QED
      BY <2>2, <2>3, <2>4
  <1>7. QED
    BY <1>5, <1>6 DEF SumOf, s, bytes

(* What the code sums besides the header is the pseudo header of the two   *)
(* addresses.                                                              *)
LEMMA PseudoHeaderIsSummed ==
    ASSUME NEW le, NEW a, NEW b, isV4(a), isV4(b), a.family = "v4", b.family = "v4",
           HostOf(a) \in Host, HostOf(b) \in Host,
           NEW protocol \in Nat, protocol < 256, NEW length \in Nat, length < 256
    PROVE  computePseudoheaderChecksum(le, protocol, length, a, b) =
              SumOf(le, PseudoHeader(HostOf(a), HostOf(b), protocol, length))
  <1> DEFINE x == a.addr4
             y == b.addr4
             tail == <<0, protocol, 0, length>>
  <1>1. HostOf(a).addr = x /\ HostOf(b).addr = y /\ HostOf(a).family = "v4"
           /\ HostOf(b).family = "v4"
    BY DEF HostOf
  <1>2. x \in Bytes(4) /\ y \in Bytes(4) /\ tail \in Bytes(4)
    BY <1>1, AddressBytes, BytesListed
  <1>3. Even(x) /\ Even(y) /\ Even(tail)
    BY <1>2, 4 % 2 = 0, BytesAreEven
  <1>4. PseudoHeader(HostOf(a), HostOf(b), protocol, length) = x \o y \o tail
    BY <1>1 DEF PseudoHeader
  <1>5. SumOf(le, tail) = Short(le, 0, protocol) + Short(le, 0, length)
    BY SumOfTwoShorts
  <1>6. /\ htons(le, protocol) = Short(le, 0, protocol)
        /\ htons(le, length) = Short(le, 0, length)
    <2>1. /\ protocol \div 256 = 0 /\ protocol % 256 = protocol
          /\ length \div 256 = 0 /\ length % 256 = length
      OBVIOUS
    <2>2. QED
      BY <2>1 DEF htons
  <1>7. computePseudoheaderChecksum(le, protocol, length, a, b) =
           SumOf(le, x) + SumOf(le, y) + Short(le, 0, protocol) + Short(le, 0, length)
    BY <1>6 DEF computePseudoheaderChecksum
  <1>8. Short(le, 0, protocol) \in Nat /\ Short(le, 0, length) \in Nat
    BY DEF Short
  <1> HIDE DEF x, y, tail
  <1>9. SumOf(le, x) \in Nat /\ SumOf(le, y) \in Nat
    BY <1>3, SumOfType
  <1>10. Even(x \o y) /\ SumOf(le, x \o y) = SumOf(le, x) + SumOf(le, y)
    BY <1>3, EvenConcat
  <1> DEFINE z == x \o y
  <1>11. SumOf(le, z \o tail) = SumOf(le, z) + SumOf(le, tail)
    <2>1. Even(z)
      BY <1>10
    <2> HIDE DEF z
    <2>2. QED
      BY <2>1, <1>3, EvenConcat
  <1>12. SumOf(le, x \o y \o tail) =
            SumOf(le, x) + SumOf(le, y) + (Short(le, 0, protocol) + Short(le, 0, length))
    BY <1>5, <1>10, <1>11
  <1>13. QED
    BY <1>4, <1>7, <1>8, <1>9, <1>12

(* Of an even number of bytes none is left over.                           *)
LEMMA ComputedIsComplement ==
    ASSUME NEW le, NEW bytes, Even(bytes), NEW prevSum \in Nat
    PROVE  computeChecksum(le, bytes, prevSum) = Complement(prevSum + SumOf(le, bytes))
  <1>1. OddByte(le, bytes) = 0
    <2>1. PICK m \in Nat : Len(bytes) = 2 * m
      BY DEF Even
    <2>2. Len(bytes) % 2 # 1
      BY <2>1
    <2>3. QED
      BY <2>2 DEF OddByte
  <1> DEFINE s == SumOf(le, bytes)
  <1>2. s \in Nat
    BY SumOfType
  <1> HIDE DEF s
  <1>3. prevSum + s + 0 = prevSum + s
    BY <1>2
  <1>4. computeChecksum(le, bytes, prevSum) = 65535 - Folded(prevSum + s + OddByte(le, bytes))
    BY DEF computeChecksum, s
  <1>5. QED
    BY <1>1, <1>3, <1>4, SMT DEF Complement, s

(* A header with an empty check field.                                     *)
LEMMA EvenZeroed ==
    ASSUME NEW le, NEW header, Even(header), NEW at, Field(header, at)
    PROVE  Even(WithShort(le, header, at, 0)) /\ Len(WithShort(le, header, at, 0)) = Len(header)
  BY EvenField, 0 \in Nat

(* What a receiver puts before a packet.                                   *)
Before(protocol, from, to, length) ==
    IF protocol = "icmp" THEN <<>> ELSE PseudoHeader(from, to, Number(protocol), length)

(* A probe of IPv4 carries the checksum of its header and its pseudo       *)
(* header, or for ICMP of its header.                                      *)
LEMMA CodeProbeVerifies ==
    ASSUME NEW protocol \in {"icmp", "tcp", "udp"}, NEW header \in Headers(protocol),
           source.family = "v4", destination.family = "v4",
           HostOf(source) \in Host, HostOf(destination) \in Host
    PROVE  Verifies(Before(protocol, HostOf(source), HostOf(destination), Len(header))
                       \o Packet(protocol, header))
  <1> DEFINE le == littleEndian
             at == CheckField(protocol)
             pseudo == Before(protocol, HostOf(source), HostOf(destination), Len(header))
             zeroed == WithShort(le, header, at, 0)
             c == Check(protocol, header)
             summed == Complement(SumOf(le, pseudo) + SumOf(le, zeroed))
  <1>1. isV4(source) /\ isV4(destination)
    BY DEF isV4
  <1>2. /\ Even(header) /\ Field(header, at)
        /\ Len(header) \in Nat /\ Len(header) < 256
    <2>1. protocol \in Protocols
      BY DEF Protocols
    <2>2. Even(header) /\ Field(header, at)
      BY <2>1, HeaderFacts
    <2>3. Len(header) \in {8, 20}
      BY <2>1, HeaderFacts
    <2> DEFINE n == Len(header)
    <2>4. n \in {8, 20}
      BY <2>3
    <2> HIDE DEF n, le, at, pseudo, zeroed, c, summed
    <2>5. n \in Nat /\ n < 256
      BY <2>4
    <2>6. QED
      BY <2>2, <2>5 DEF n
  <1>3. Even(zeroed) /\ Len(zeroed) = Len(header)
    BY <1>2, EvenZeroed
  <1>4. ASSUME protocol = "icmp"
        PROVE  Even(pseudo) /\ c = summed
    <2>1. pseudo = <<>> /\ at = 2
      BY <1>4 DEF Before, CheckField
    <2>2. Even(pseudo) /\ SumOf(le, pseudo) = 0
      BY <2>1, NothingIsEven, SumOfType
    <2>3. c = computeChecksum(le, zeroed, 0)
      BY <1>4, <2>1 DEF Check, computeICMPHeaderChecksum
    <2> HIDE DEF zeroed, c, pseudo
    <2>4. c = Complement(SumOf(le, pseudo) + SumOf(le, zeroed))
      BY <2>2, <2>3, <1>3, 0 \in Nat, ComputedIsComplement
    <2>5. QED
      BY <2>2, <2>4
  <1>5. ASSUME protocol # "icmp"
        PROVE  Even(pseudo) /\ c = summed
    <2> DEFINE n == Number(protocol)
               prev == computePseudoheaderChecksum(le, n, Len(header), source, destination)
    <2>1. n \in Nat /\ n < 256
      BY <1>5 DEF Number
    <2>2. pseudo = PseudoHeader(HostOf(source), HostOf(destination), n, Len(header))
      BY <1>5 DEF Before
    <2>3. HostOf(source).family = HostOf(destination).family
      BY DEF HostOf
    <2>4. prev = SumOf(le, pseudo)
      <3> HIDE DEF n
      <3>1. QED
        BY <2>1, <2>2, <1>1, <1>2, PseudoHeaderIsSummed
    <2>5. Even(pseudo)
      <3> HIDE DEF n
      <3>1. QED
        BY <2>1, <2>2, <2>3, <1>2, PseudoHeaderEven
    <2>6. c = computeChecksum(le, zeroed, prev)
      BY <1>5, <1>3 DEF Check, computeTCPHeaderChecksum, computeUdpHeaderChecksum, CheckField, Number
    <2> HIDE DEF zeroed, pseudo, prev, c
    <2>7. prev \in Nat
      BY <2>4, <2>5, SumOfType
    <2>8. c = Complement(prev + SumOf(le, zeroed))
      BY <2>6, <2>7, <1>3, ComputedIsComplement
    <2>9. QED
      BY <2>4, <2>5, <2>8
  <1>6. Even(pseudo) /\ c = Complement(SumOf(le, pseudo) + SumOf(le, WithShort(le, header, at, 0)))
    BY <1>4, <1>5
  <1> HIDE DEF pseudo, c, at
  <1>7. Verifies(pseudo \o WithShort(le, header, at, c))
    BY <1>2, <1>6, CodeFieldVerifies
  <1>8. QED
    BY <1>1, <1>7 DEF Packet, pseudo, c, at

-------------------------------------------------------------------------------
(* The first probe *)

(* Storing a short changes the two bytes it is stored in and no other.     *)
LEMMA WithShortFacts ==
    ASSUME NEW S, NEW bytes \in Seq(S), NEW le, NEW at, NEW n
    PROVE  /\ Len(WithShort(le, bytes, at, n)) = Len(bytes)
           /\ \A k \in DOMAIN bytes :
                 k \notin {at + 1, at + 2} => WithShort(le, bytes, at, n)[k] = bytes[k]
  <1> DEFINE a == Stored(le, n)[1]
             b == Stored(le, n)[2]
             T == S \cup {a, b}
             w == [bytes EXCEPT ![at + 1] = a, ![at + 2] = b]
  <1>1. Len(bytes) \in Nat /\ DOMAIN bytes = 1 .. Len(bytes)
        /\ \A k \in 1 .. Len(bytes) : bytes[k] \in S
    BY ElementOfSeq, LenProperties
  <1> HIDE DEF a, b
  <1>2. bytes = [k \in 1 .. Len(bytes) |-> bytes[k]]
    BY <1>1
  <1>3. /\ w \in [1 .. Len(bytes) -> T]
        /\ \A k \in DOMAIN bytes : k \notin {at + 1, at + 2} => w[k] = bytes[k]
    BY <1>1, <1>2
  <1>4. w \in Seq(T) /\ DOMAIN w = 1 .. Len(bytes)
    <2> HIDE DEF w, T
    <2>1. \A m \in Nat : \A f \in [1 .. m -> T] : f \in Seq(T) /\ DOMAIN f = 1 .. m
      OBVIOUS
    <2>2. QED
      BY <2>1, <1>1, <1>3
  <1>5. Len(w) = Len(bytes)
    BY <1>1, <1>4, LenProperties
  <1>6. QED
    BY <1>3, <1>5 DEF WithShort, a, b

(* What the kernel takes from the socket: where a packet of IPv6 gets its  *)
(* checksum.                                                               *)
LEMMA DepartingFields ==
    ASSUME NEW socket, NEW bytes, socket.family # "v4"
    PROVE  \E n : Departing(socket, bytes).bytes =
              WithShort(FALSE, bytes,
                        IF socket.protocol = "icmpv6" THEN 2 ELSE socket.checksumAt, n)
  <1> DEFINE at == IF socket.protocol = "icmpv6" THEN 2 ELSE socket.checksumAt
             from == IF socket.bound \in {None} \cup FromDevice(socket.family)
                     THEN LocalHost[socket.family] ELSE socket.bound
             n == 65535 - (SumOf(FALSE, PseudoHeader(from, HostOf(destination),
                                                     Number(socket.protocol), Len(bytes))
                                           \o WithShort(FALSE, bytes, at, 0)) % 65535)
  <1>1. Departing(socket, bytes).bytes =
           IF socket.family = "v4" THEN bytes ELSE WithShort(FALSE, bytes, at, n)
    BY DEF Departing
  <1> HIDE DEF n
  <1>2. QED
    BY <1>1, Zenon

(* No socket is bound to an address of another host.                       *)
OwnOrNone(t) == t.bound \in {None} \cup Interfaces \cup FromDevice(t.family)

BindsAtHome == \A d \in DOMAIN table : OwnOrNone(table[d])

(* It is opened unbound, closed, or bound by bindIpAddress alone.          *)
LEMMA BindsAreKept == Spec => []BindsAtHome
  <1>1. Init => BindsAtHome
    BY DEF Init, SetupInit, BindsAtHome
  <1>2. ASSUME Typed, BindsAtHome, [Next]_vars
        PROVE  BindsAtHome'
    <2>1. CASE UNCHANGED table
      BY <1>2, <2>1 DEF BindsAtHome, OwnOrNone
    <2>2. CASE GetSockName /\ closeSocket
      <3>1. table' = [d \in DOMAIN table \ {fd} |-> table[d]]
        BY <2>2 DEF closeSocket
      <3>2. QED
        BY <1>2, <3>1 DEF BindsAtHome, OwnOrNone
    <2>3. ASSUME NEW family, NEW type \in {"raw", "dgram"}, NEW protocol \in Protocols,
                 OpenSocket(family, type, protocol)
          PROVE  BindsAtHome'
      <3>1. NewSocket(family, type, protocol).bound = None
        BY DEF NewSocket
      <3>2. \/ table' = table
            \/ /\ DOMAIN table' = DOMAIN table \cup {fd'}
               /\ table'[fd'] = NewSocket(family, type, protocol)
               /\ \A d \in DOMAIN table : table'[d] = table[d]
        BY <1>2, <2>3, OpenSocketFacts DEF Typed
      <3>3. QED
        BY <1>2, <3>1, <3>2 DEF BindsAtHome, OwnOrNone
    <2>4. CASE resolveSourceAddress \/ OpenRawSocket
      <3>1. CASE resolveSourceAddress
        BY <2>3, <3>1 DEF resolveSourceAddress, Protocols
      <3>2. CASE OpenRawSocket
        <4>1. ProtocolOf(todo[1].protocol) \in Protocols
          BY <1>2, <3>2, StepAtHand DEF OpenRawSocket, Typed, Calls
        <4>2. QED
          BY <2>3, <3>2, <4>1 DEF OpenRawSocket
      <3>3. QED
        BY <2>4, <3>1, <3>2
    <2>5. CASE bindInterface \/ bindIpAddress \/ SetIcmp6Filter \/ SetChecksumOffset
      <3>1. ASSUME NEW d \in DOMAIN table, d = fd, table'[d] # table[d]
            PROVE  OwnOrNone(table'[d])
        <4>1. table[d] \in KernelSocket /\ OwnOrNone(table[d])
          BY <1>2 DEF Typed, SetupTypeOK, BindsAtHome
        <4>2. /\ \A t \in KernelSocket : \A value :
                     /\ [t EXCEPT !["bound"] = value].bound = value
                     /\ [t EXCEPT !["bound"] = value].family = t.family
              /\ \A t \in KernelSocket, field \in {"iface", "filter", "checksumAt"} : \A value :
                     /\ [t EXCEPT ![field] = value].bound = t.bound
                     /\ [t EXCEPT ![field] = value].family = t.family
          BY DEF KernelSocket
        <4>3. \/ /\ HostOf(source) \in Interfaces \cup FromDevice(table[fd].family)
                 /\ table'[fd] = [table[fd] EXCEPT !["bound"] = HostOf(source)]
              \/ \E field \in {"iface", "filter", "checksumAt"} : \E value :
                     table'[fd] = [table[fd] EXCEPT ![field] = value]
          <5> DEFINE at == ChecksumOffset(todo[1].protocol)
                     host == HostOf(source)
          <5>1. \/ table' = table
                \/ table'[fd] = [table[fd] EXCEPT !["iface"] = TRUE]
                \/ /\ host \in Interfaces \cup FromDevice(table[fd].family)
                   /\ table'[fd] = [table[fd] EXCEPT !["bound"] = host]
                \/ table'[fd] = [table[fd] EXCEPT !["filter"] = FilterPasses]
                \/ table'[fd] = [table[fd] EXCEPT !["checksumAt"] = at]
            BY <1>2, <2>5, <3>1, OptionSteps
          <5> HIDE DEF at, host
          <5>2. QED
            BY <3>1, <5>1 DEF host
        <4> DEFINE host == HostOf(source)
        <4> HIDE DEF host
        <4>4. CASE /\ host \in Interfaces \cup FromDevice(table[fd].family)
                   /\ table'[fd] = [table[fd] EXCEPT !["bound"] = host]
          <5>1. table'[d].bound = host /\ table'[d].family = table[d].family
            BY <3>1, <4>1, <4>2, <4>4
          <5>2. QED
            BY <3>1, <4>4, <5>1 DEF OwnOrNone
        <4>5. CASE \E field \in {"iface", "filter", "checksumAt"} : \E value :
                      table'[fd] = [table[fd] EXCEPT ![field] = value]
          <5>1. table'[d].bound = table[d].bound /\ table'[d].family = table[d].family
            BY <3>1, <4>1, <4>2, <4>5
          <5>2. QED
            BY <4>1, <5>1 DEF OwnOrNone
        <4>6. QED
          BY <4>3, <4>4, <4>5 DEF host
      <3>2. /\ DOMAIN table' = DOMAIN table
            /\ \A d \in DOMAIN table : d # fd => table'[d] = table[d]
        BY <1>2, <2>5, OptionSteps
      <3>3. QED
        BY <1>2, <3>1, <3>2 DEF BindsAtHome, OwnOrNone
    <2>6. CASE Setup
      BY <2>1, <2>2, <2>4, <2>5, <2>6
         DEF Setup, parseAddress, Connect, GetSockName, createSockets, PushSocket
    <2>7. QED
      BY <1>2, <2>1, <2>6 DEF Next, SendProbe, vars, setupVars
  <1>3. QED
    BY <1>1, <1>2, CallsAgree, PTL DEF Spec

(* The socket that sends is one of those created, and ready.               *)
LEMMA SenderIsReady ==
    ASSUME Typed, Readiness, ReturnedSocketsAreReady, Created, pc = "idle"
    PROVE  /\ Sender.protocol \in Protocols
           /\ Sender.fd \in DOMAIN table
           /\ Opened(table[Sender.fd], Sender.protocol)
           /\ Bound(table[Sender.fd]) /\ Equipped(table[Sender.fd])
  <1>1. PICK k \in DOMAIN sockets : "Send" \in sockets[k].role
    BY DEF ReturnedSocketsAreReady
  <1>2. \E s \in Range(sockets) : "Send" \in s.role
    BY <1>1 DEF Range
  <1>3. Sender \in Range(sockets)
    BY <1>2 DEF Sender
  <1>4. PICK j \in DOMAIN sockets : Sender = sockets[j]
    BY <1>3 DEF Range
  <1>5. sockets[j] \in SocketExt
    BY ElementOfSeq, LenProperties DEF Typed, SetupTypeOK
  <1>6. Opened(table[sockets[j].fd], sockets[j].protocol)
        /\ Bound(table[sockets[j].fd]) /\ Equipped(table[sockets[j].fd])
    BY DEF Readiness, Creating, Accounted, Created
  <1>7. sockets[j].fd \in DOMAIN table
    BY DEF ReturnedSocketsAreReady
  <1>8. QED
    BY <1>4, <1>5, <1>6, <1>7 DEF SocketExt

(* A probe leaves on a socket of its target's family, from an address of   *)
(* the host: the one its packet names as the source, or the route's if     *)
(* that is a wildcard, multicast or broadcast address.                     *)
THEOREM ProbesLeaveFromTheirSource == Spec => []LeavesFromItsSource
  <1>1. Init => LeavesFromItsSource
    BY DEF Init, LeavesFromItsSource
  <1>2. ASSUME Typed, Readiness, ReturnedSocketsAreReady, BindsAtHome, LeavesFromItsSource,
               [Next]_vars
        PROVE  LeavesFromItsSource'
    <2>1. CASE UNCHANGED vars
      BY <1>2, <2>1 DEF vars, setupVars, LeavesFromItsSource, HostOf, isV4
    <2>2. CASE Setup /\ onWire' = None
      BY <2>2 DEF LeavesFromItsSource
    <2>3. CASE SendProbe
      <3> DEFINE t == table[Sender.fd]
                 host == HostOf(source)
      <3>1. PICK bytes : onWire' = Departing(t, bytes)
        BY <2>3 DEF SendProbe
      <3>2. /\ t.family = source.family /\ t.family \in Families /\ t.bound = host
            /\ OwnOrNone(t)
        BY <1>2, <2>3, SenderIsReady DEF SendProbe, Opened, Bound, BindsAtHome
      <3>3. destination.family = source.family /\ source' = source
        BY <2>3 DEF SendProbe, FamiliesAgree, setupVars
      <3>4. host.family = source.family /\ HostOf(destination).family = source.family
        BY <3>3 DEF HostOf
      <3>5. /\ onWire'.source = IF t.bound \in {None} \cup FromDevice(t.family)
                                THEN LocalHost[t.family] ELSE t.bound
            /\ onWire'.destination = HostOf(destination)
        BY <3>1 DEF Departing
      <3>6. /\ LocalHost[source.family].family = source.family
            /\ LocalHost[source.family] \in Interfaces
        BY <3>2, SetupAssumption
      <3>7. host # None
        BY <3>2, <3>4 DEF None, Families
      <3> HIDE DEF host, t
      <3>8. onWire'.source.family = onWire'.destination.family
        BY <3>2, <3>4, <3>5, <3>6
      <3>9. /\ onWire'.source = IF host \in FromDevice(source.family)
                                THEN LocalHost[source.family] ELSE host
            /\ onWire'.source \in Interfaces
        BY <3>2, <3>5, <3>6, <3>7 DEF OwnOrNone
      <3>10. QED
        BY <3>3, <3>8, <3>9 DEF LeavesFromItsSource, HostOf, isV4, host
    <2>4. QED
      BY <1>2, <2>1, <2>2, <2>3 DEF Next
  <1>3. QED
    BY <1>1, <1>2, CallsAgree, ReadinessIsKept, SocketsAreReady, BindsAreKept, PTL DEF Spec

(* Between createPacket and the wire nothing but the check field changes,  *)
(* whichever of the packet and the kernel fills it in.                     *)
THEOREM FieldsAreKept == Spec => []FieldsArriveAsMade
  <1>1. Init => FieldsArriveAsMade
    BY DEF Init, FieldsArriveAsMade
  <1>2. ASSUME Typed, Readiness, ReturnedSocketsAreReady, FieldsArriveAsMade, [Next]_vars
        PROVE  FieldsArriveAsMade'
    <2>1. CASE UNCHANGED vars
      BY <1>2, <2>1 DEF vars, FieldsArriveAsMade
    <2>2. CASE Setup /\ onWire' = None
      BY <2>2 DEF FieldsArriveAsMade
    <2>3. CASE SendProbe
      <3> DEFINE t == table[Sender.fd]
                 at == IF t.protocol = "icmpv6" THEN 2 ELSE t.checksumAt
      <3>1. PICK header \in Headers(Sender.protocol) :
               made' = Packet(Sender.protocol, header) /\ onWire' = Departing(t, made')
        BY <2>3 DEF SendProbe
      <3>2. /\ Sender.protocol \in Protocols
            /\ Opened(t, Sender.protocol) /\ Equipped(t)
        BY <1>2, <2>3, SenderIsReady DEF SendProbe
      <3>3. onWire'.protocol = t.protocol
        BY <3>1 DEF Departing
      <3>4. CASE t.family = "v4"
        <4>1. onWire'.bytes = made'
          BY <3>1, <3>4 DEF Departing
        <4>2. QED
          BY <4>1 DEF FieldsArriveAsMade
      <3>5. CASE t.family # "v4"
        <4>1. made' \in Seq(Nat)
          BY <3>1, <3>2, <3>5, HeaderFacts DEF Packet, Opened, isV4
        <4>2. PICK n : onWire'.bytes = WithShort(FALSE, made', at, n)
          BY <3>1, <3>5, DepartingFields
        <4>3. at = CheckField(t.protocol)
          BY <3>2, <3>5 DEF Opened, Equipped, Protocols, Families, ChecksumOffset, CheckField
        <4> HIDE DEF at, t
        <4>4. /\ Len(onWire'.bytes) = Len(made')
              /\ \A k \in DOMAIN made' :
                    k \notin {at + 1, at + 2} => onWire'.bytes[k] = made'[k]
          <5>1. /\ Len(WithShort(FALSE, made', at, n)) = Len(made')
                /\ \A k \in DOMAIN made' : k \notin {at + 1, at + 2} =>
                      WithShort(FALSE, made', at, n)[k] = made'[k]
            <6>1. \A m \in Seq(Nat) : \A p, q :
                    /\ Len(WithShort(FALSE, m, p, q)) = Len(m)
                    /\ \A k \in DOMAIN m : k \notin {p + 1, p + 2} =>
                          WithShort(FALSE, m, p, q)[k] = m[k]
              BY WithShortFacts
            <6>2. QED
              BY <4>1, <6>1, Zenon
          <5>2. QED
            BY <4>2, <5>1, Zenon
        <4>5. QED
          BY <4>3, <4>4, <3>3 DEF FieldsArriveAsMade, CheckField
      <3>6. QED
        BY <3>4, <3>5
    <2>4. QED
      BY <1>2, <2>1, <2>2, <2>3 DEF Next
  <1>3. QED
    BY <1>1, <1>2, CallsAgree, ReadinessIsKept, SocketsAreReady, PTL DEF Spec

(* An address of a family names a host of it.                              *)
LEMMA StorageNamesHost ==
    ASSUME NEW a \in Storage, a.family \in Families
    PROVE  HostOf(a) \in Host /\ HostOf(a).family = a.family
  <1>1. /\ a.addr4 \in [1 .. 4 -> Byte] /\ a.addr6 \in [1 .. 16 -> Byte]
    BY DEF Storage
  <1>2. HostOf(a).family = a.family
    BY DEF HostOf
  <1>3. CASE a.family = "v4"
    <2>1. HostOf(a) = [family |-> "v4", addr |-> a.addr4]
      BY <1>3 DEF HostOf, isV4
    <2>2. QED
      BY <1>1, <1>2, <2>1 DEF Host
  <1>4. CASE a.family = "v6"
    <2>1. HostOf(a) = [family |-> "v6", addr |-> a.addr6]
      BY <1>4 DEF HostOf, isV4
    <2>2. QED
      BY <1>1, <1>2, <2>1 DEF Host
  <1>5. QED
    BY <1>3, <1>4 DEF Families

(* The addresses a probe is made with.                                     *)
LEMMA ProbeAddresses ==
    ASSUME Typed, Created, FamiliesAgree
    PROVE  /\ source.family \in Families
           /\ HostOf(source) \in Host /\ HostOf(source).family = source.family
           /\ HostOf(destination) \in Host /\ HostOf(destination).family = source.family
  <1>1. source \in Storage
    BY DEF Typed, SetupTypeOK, Calls, Created
  <1>2. destination.family = source.family
    BY DEF FamiliesAgree
  <1>3. destination # None
    <2>1. source.family # "unset"
      BY <1>1 DEF Storage, Families
    <2>2. QED
      BY <2>1, <1>2 DEF None
  <1>4. destination \in Storage /\ destination.family \in Families
    BY <1>3 DEF Typed, SetupTypeOK, Calls
  <1>5. QED
    BY <1>1, <1>2, <1>4, StorageNamesHost

(* A probe of IPv4 verifies: the packet has computed the checksum.         *)
LEMMA SentByV4Verifies ==
    ASSUME Typed, Created, FamiliesAgree,
           NEW t, NEW protocol \in Protocols, Opened(t, protocol), Bound(t), t.family = "v4",
           NEW header \in Headers(protocol),
           protocol = "icmp" \/ HostOf(source) \notin FromDevice(source.family)
    PROVE  LET sent == Departing(t, Packet(protocol, header))
           IN  Verifies(Before(sent.protocol, sent.source, sent.destination, Len(sent.bytes))
                            \o sent.bytes)
  <1> DEFINE made1 == Packet(protocol, header)
             sent == Departing(t, made1)
             from == HostOf(source)
             to == HostOf(destination)
  <1>1. t.protocol = protocol /\ t.family = source.family /\ t.bound = from
    BY DEF Opened, Bound
  <1>2. protocol \in {"icmp", "tcp", "udp"}
    BY DEF Opened, Protocols
  <1>3. from \in Host /\ to \in Host /\ from.family = source.family
    BY ProbeAddresses
  <1>4. source.family = "v4" /\ destination.family = "v4"
    BY <1>1 DEF FamiliesAgree
  <1>5. from # None
    BY <1>3, <1>4 DEF None
  <1>6. header \in Seq(Nat)
    BY HeaderFacts
  <1>7. Len(made1) = Len(header)
    BY <1>4, <1>6, WithShortFacts DEF Packet, isV4
  <1>8. Verifies(Before(protocol, from, to, Len(header)) \o made1)
    BY <1>2, <1>3, <1>4, CodeProbeVerifies
  <1> HIDE DEF made1, from, to
  <1>9. /\ sent.protocol = protocol /\ sent.destination = to /\ sent.bytes = made1
    BY <1>1, <1>4 DEF Departing, to
  <1>10. sent.source = from \/ protocol = "icmp"
    BY <1>1, <1>4, <1>5 DEF Departing, from
  <1>11. Before(protocol, sent.source, to, Len(header)) = Before(protocol, from, to, Len(header))
    BY <1>10 DEF Before
  <1> HIDE DEF sent
  <1>12. QED
    BY <1>7, <1>8, <1>9, <1>11 DEF sent, made1

(* One of IPv6 does: the kernel has.                                       *)
LEMMA SentByV6Verifies ==
    ASSUME Typed, Created, FamiliesAgree,
           NEW t, NEW protocol \in Protocols, Opened(t, protocol), Bound(t), Equipped(t),
           t.family # "v4", NEW header \in Headers(protocol)
    PROVE  LET sent == Departing(t, Packet(protocol, header))
           IN  Verifies(Before(sent.protocol, sent.source, sent.destination, Len(sent.bytes))
                            \o sent.bytes)
  <1> DEFINE at == IF t.protocol = "icmpv6" THEN 2 ELSE t.checksumAt
             from == IF t.bound \in {None} \cup FromDevice(t.family)
                     THEN LocalHost[t.family] ELSE t.bound
             to == HostOf(destination)
             pseudo == PseudoHeader(from, to, Number(protocol), Len(header))
             c == Remainder(SumOf(FALSE, pseudo \o WithShort(FALSE, header, at, 0)))
             sent == Departing(t, header)
  <1>1. t.protocol = protocol /\ t.family = source.family /\ t.family \in Families
        /\ t.bound = HostOf(source)
    BY DEF Opened, Bound
  <1>2. protocol \in {"icmpv6", "tcp", "udp"} /\ t.family = "v6"
    BY <1>1 DEF Opened, Protocols, Families
  <1>3. from \in Host /\ to \in Host /\ from.family = to.family
    BY <1>1, ProbeAddresses, SetupAssumption
  <1>4. Number(protocol) \in Nat
    BY <1>2 DEF Number
  <1>5. at = CheckField(protocol)
    BY <1>1, <1>2 DEF Equipped, ChecksumOffset, CheckField
  <1>6. header \in Seq(Nat) /\ Even(header) /\ Field(header, at)
    BY <1>5, HeaderFacts
  <1>7. Len(header) \in Nat
    BY <1>6, LenProperties
  <1>8. Even(pseudo)
    <2> HIDE DEF from, to
    <2>1. QED
      BY <1>3, <1>4, <1>7, PseudoHeaderEven
  <1>9. Verifies(pseudo \o WithShort(FALSE, header, at, c))
    <2> HIDE DEF at, pseudo
    <2>1. QED
      BY <1>6, <1>8, KernelFieldVerifies
  <1>10. Packet(protocol, header) = header
    BY <1>1, <1>2 DEF Packet, isV4
  <1>11. Len(WithShort(FALSE, header, at, c)) = Len(header)
    <2>1. \A m \in Seq(Nat) : \A p, q :
            /\ Len(WithShort(FALSE, m, p, q)) = Len(m)
            /\ \A k \in DOMAIN m : k \notin {p + 1, p + 2} =>
                  WithShort(FALSE, m, p, q)[k] = m[k]
      BY WithShortFacts
    <2> HIDE DEF at, c
    <2>2. QED
      BY <1>6, <2>1, Zenon
  <1>12. /\ sent.protocol = protocol /\ sent.source = from /\ sent.destination = to
         /\ sent.bytes = WithShort(FALSE, header, at, c)
    <2> DEFINE f == 65535 - (SumOf(FALSE, PseudoHeader(from, to, Number(t.protocol),
                                                       Len(header))
                                              \o WithShort(FALSE, header, at, 0)) % 65535)
    <2>1. c = f
      BY <1>1 DEF Remainder
    <2>2. sent = [source |-> from, destination |-> to, protocol |-> t.protocol,
                  bytes |-> IF t.family = "v4" THEN header
                            ELSE WithShort(FALSE, header, at, f)]
      BY DEF Departing
    <2> HIDE DEF c, f, sent, from, to
    <2>3. sent = [source |-> from, destination |-> to, protocol |-> protocol,
                  bytes |-> WithShort(FALSE, header, at, c)]
      BY <1>1, <1>2, <2>1, <2>2
    <2>4. QED
      BY <2>3
  <1>13. Before(protocol, from, to, Len(header)) = pseudo
    BY <1>2 DEF Before
  <1> HIDE DEF at, from, to, pseudo, c, sent
  <1>14. QED
    BY <1>9, <1>10, <1>11, <1>12, <1>13 DEF sent

(* Every probe arrives with a checksum that its receivers find right: the  *)
(* code's sums, folds and swaps on hosts of either byte order, and the     *)
(* kernel's from the offset createSockets told it; unless the code's sum   *)
(* covers a wildcard, multicast or broadcast source.                       *)
THEOREM ProbesVerify == Spec => []EveryProbeVerifies
  <1>1. Init => EveryProbeVerifies
    BY DEF Init, EveryProbeVerifies
  <1>2. ASSUME Typed, Readiness, ReturnedSocketsAreReady, EveryProbeVerifies, [Next]_vars
        PROVE  EveryProbeVerifies'
    <2>1. CASE UNCHANGED vars
      <3>1. onWire' = onWire /\ source' = source
        BY <2>1 DEF vars, setupVars
      <3>2. SummedOverAnother' = SummedOverAnother
        BY <3>1 DEF SummedOverAnother, HostOf, isV4
      <3>3. QED
        BY <1>2, <3>1, <3>2, Zenon DEF EveryProbeVerifies
    <2>2. CASE Setup /\ onWire' = None
      BY <2>2 DEF EveryProbeVerifies
    <2>3. CASE SendProbe
      <3> DEFINE t == table[Sender.fd]
      <3>1. Created /\ FamiliesAgree /\ pc = "idle" /\ source' = source
        BY <2>3 DEF SendProbe, setupVars
      <3>2. PICK header \in Headers(Sender.protocol) :
               made' = Packet(Sender.protocol, header) /\ onWire' = Departing(t, made')
        BY <2>3 DEF SendProbe
      <3>3. /\ Sender.protocol \in Protocols
            /\ Opened(t, Sender.protocol) /\ Bound(t) /\ Equipped(t)
        BY <1>2, <3>1, SenderIsReady
      <3>4. onWire' = Departing(t, Packet(Sender.protocol, header))
        BY <3>2
      <3> HIDE DEF t
      <3>5. SUFFICES ASSUME ~SummedOverAnother'
                     PROVE  Verifies(Before(onWire'.protocol, onWire'.source,
                                            onWire'.destination, Len(onWire'.bytes))
                                         \o onWire'.bytes)
        BY Zenon DEF EveryProbeVerifies, Before
      <3>6. CASE t.family = "v4"
        <4>1. onWire'.protocol = Sender.protocol /\ isV4(source)
          BY <3>3, <3>4, <3>6 DEF Departing, Opened, isV4
        <4>2. Sender.protocol = "icmp" \/ HostOf(source) \notin FromDevice(source.family)
          BY <3>1, <3>5, <4>1 DEF SummedOverAnother, HostOf, isV4
        <4>3. QED
          BY <1>2, <3>1, <3>3, <3>4, <3>6, <4>2, SentByV4Verifies
      <3>7. CASE t.family # "v4"
        BY <1>2, <3>1, <3>3, <3>4, <3>5, <3>7, SentByV6Verifies
      <3>8. QED
        BY <3>6, <3>7
    <2>4. QED
      BY <1>2, <2>1, <2>2, <2>3 DEF Next
  <1>3. QED
    BY <1>1, <1>2, CallsAgree, ReadinessIsKept, SocketsAreReady, PTL DEF Spec

===============================================================================
