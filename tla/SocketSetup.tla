------------------------------ MODULE SocketSetup ------------------------------
(***************************************************************************)
(* What a program does before it can probe: SocketAddress(string),         *)
(* resolveSourceAddress and a provider's createSockets, one system call    *)
(* after the other, each of which may fail.  The kernel hands out          *)
(* descriptors from a finite table; nothing in the library closes those of *)
(* sockets it returned.                                                    *)
(*                                                                         *)
(* BindsNothing, ClosesNothing, PassesEverything and ChecksumAtSix are     *)
(* variants with a mistake.                                                *)
(***************************************************************************)
EXTENDS SocketAddress, Integers, SequencesExt, FiniteSetsExt

CONSTANTS
    Texts,         \* what the user may name the target by: [form, host]
    Junk,          \* what the stack may hold: a set of storages
    Lengths,       \* what getsockname's len, never set, may hold
    LocalHost,     \* kernel: the source of outgoing packets, by family
    Interfaces,    \* kernel: all addresses of the host
    Groups,        \* kernel: the multicast and broadcast addresses it knows
    Descriptors,   \* kernel: the descriptors the program may get
    MaxCalls       \* bound: calls of the three functions

ASSUME SetupAssumption ==
    /\ \A text \in Texts : text.form \in Forms /\ text.host \in Host
    /\ Junk \subseteq Storage
    /\ Lengths \subseteq Int
    /\ LocalHost \in [Families -> Host]
    /\ \A family \in Families : LocalHost[family].family = family
    /\ Interfaces \subseteq Host /\ Groups \subseteq Host
    /\ \A family \in Families : LocalHost[family] \in Interfaces
    /\ Descriptors \subseteq Nat
    /\ MaxCalls \in Nat

VARIABLES
    calls,         \* calls begun (bound)
    op,            \* the function being called last
    pc,            \* where it is
    outcome,       \* how it ended: "none" until it does
    ifaceName,     \* whether an interface is named
    destination,   \* the target's address, once parsed
    source,        \* the address resolved for it
    fd,            \* the descriptor at hand
    todo,          \* createSockets: what remains to be created
    sockets,       \* createSockets: what was created
    table,         \* kernel: descriptor -> open socket
    before         \* descriptors open before the call (history)

setupVars == <<calls, op, pc, outcome, ifaceName, destination, source, fd, todo,
               sockets, table, before>>

None == [family |-> "unset"]   \* no address yet

Protocols == {"icmp", "icmpv6", "tcp", "udp"}

-------------------------------------------------------------------------------
(* The kernel (external) *)

Icmp6Types == {"echo reply", "time exceeded", "unreachable", "neighbour"}

(* An open socket: what it was created with and what was set on it.        *)
KernelSocket ==
    [family : Families, type : {"raw", "dgram"}, protocol : Protocols,
     iface : BOOLEAN, bound : Host \cup {None},
     filter : SUBSET Icmp6Types, checksumAt : Nat \cup {-1}]

NewSocket(family, type, protocol) ==
    [family |-> family, type |-> type, protocol |-> protocol, iface |-> FALSE,
     bound |-> None, filter |-> Icmp6Types, checksumAt |-> -1]

Unused == Descriptors \ DOMAIN table

(* socket(): the lowest unused descriptor, or -1.  The code does not look. *)
OpenSocket(family, type, protocol) ==
    \/ /\ family \in Families /\ Unused # {}
       /\ fd' = Min(Unused)
       /\ table' = [d \in DOMAIN table \cup {fd'} |->
                        IF d = fd' THEN NewSocket(family, type, protocol) ELSE table[d]]
    \/ fd' = -1 /\ UNCHANGED table

Usable == fd \in DOMAIN table

Set(field, value) == table' = [table EXCEPT ![fd] = [@ EXCEPT ![field] = value]]

Wildcard(family) ==
    [family |-> family, addr |-> [k \in 1 .. (IF family = "v4" THEN 4 ELSE 16) |-> 0]]

(* What a raw socket may be bound to although it names no interface: the   *)
(* socket then sends from the address of the device.                       *)
FromDevice(family) == {Wildcard(family)} \cup Groups

(* bind() on a raw socket takes those and the addresses of the host, of    *)
(* the socket's family.                                                    *)
Bindable(address) ==
    /\ address.family = table[fd].family
    /\ HostOf(address) \in Interfaces \cup FromDevice(address.family)

Zero == [family |-> "none", addr4 |-> [k \in 1 .. 4 |-> 0],
         addr6 |-> [k \in 1 .. 16 |-> 0], rest |-> "zero"]

(* What the kernel writes as the address of a host.                        *)
KernelStorage(host) == StorageOf(host, [Zero EXCEPT !.rest = "kernel"])

-------------------------------------------------------------------------------
SetupInit ==
    /\ calls = 0
    /\ op = "none"
    /\ pc = "idle"
    /\ outcome = "none"
    /\ ifaceName \in BOOLEAN
    /\ destination = None
    /\ source = None
    /\ fd = -1
    /\ todo = <<>>
    /\ sockets = <<>>
    /\ table = <<>>
    /\ before = {}

Begin(function) ==
    /\ pc = "idle"
    /\ calls < MaxCalls
    /\ calls' = calls + 1
    /\ op' = function
    /\ before' = DOMAIN table

Throw == pc' = "idle" /\ outcome' = "threw"

(* SocketAddress(string) *)
parseAddress ==
    /\ Begin("parse")
    /\ UNCHANGED pc
    /\ \E text \in Texts, junk \in Junk :
          IF Numeric(text) /\ Plain(text)
          THEN destination' = StorageOf(text.host, junk) /\ outcome' = "returned"
          ELSE destination' = None /\ outcome' = "threw"
    /\ source' = None
    /\ UNCHANGED <<ifaceName, fd, todo, sockets, table>>

-------------------------------------------------------------------------------
(* resolveSourceAddress *)

resolveSourceAddress ==
    /\ destination # None
    /\ Begin("resolve")
    /\ outcome' = "none"
    /\ OpenSocket(destination.family, "dgram", "udp")
    /\ pc' = IF ifaceName THEN "iface" ELSE "connect"
    /\ source' = None
    /\ UNCHANGED <<ifaceName, destination, todo, sockets>>

Connect ==
    /\ pc = "connect"
    /\ \/ Usable /\ pc' = "getsockname" /\ UNCHANGED outcome
       \/ Throw
    /\ UNCHANGED <<calls, op, ifaceName, destination, source, fd, todo, sockets,
                   table, before>>

(* What getsockname leaves in sockaddrStorage: it overwrites len bytes of  *)
(* what the memory held.  The family is in the first two, the port in the  *)
(* next, sin_addr or sin6_flowinfo from 4, sin6_addr from 8.               *)
Overwritten(junk, whole, len) ==
    LET Bytes(field, at) ==
            [k \in DOMAIN whole[field] |->
                IF at + k <= len THEN whole[field][k] ELSE junk[field][k]]
    IN  [family |-> IF len >= 2 THEN whole.family ELSE junk.family,
         addr4  |-> Bytes("addr4", 4),
         addr6  |-> Bytes("addr6", 8),
         rest   |-> IF len >= 28 THEN whole.rest ELSE junk.rest]

ClosesNothing == UNCHANGED table

closeSocket == table' = [d \in DOMAIN table \ {fd} |-> table[d]]

(* getsockname and close; a negative len is an error.                      *)
GetSockName ==
    /\ pc = "getsockname"
    /\ \/ /\ \E junk \in Junk, len \in Lengths :
                /\ len >= 0
                /\ source' = Overwritten(
                       junk, KernelStorage(LocalHost[destination.family]), len)
          /\ closeSocket
          /\ pc' = "idle"
          /\ outcome' = "returned"
       \/ Throw /\ UNCHANGED <<source, table>>
    /\ UNCHANGED <<calls, op, ifaceName, destination, fd, todo, sockets, before>>

-------------------------------------------------------------------------------
(* createSockets of the three providers: protocols and roles, in order.    *)
Receive == {"Receive"}
Send    == {"Send"}

Plan(provider) ==
    CASE provider = "icmp" -> <<[protocol |-> "icmp", role |-> Receive \cup Send]>>
      [] provider = "tcp"  -> <<[protocol |-> "icmp", role |-> Receive],
                                [protocol |-> "tcp", role |-> Receive \cup Send]>>
      [] provider = "udp"  -> <<[protocol |-> "icmp", role |-> Receive],
                                [protocol |-> "udp", role |-> Send]>>

createSockets(provider) ==
    /\ source # None
    /\ Begin("create")
    /\ outcome' = "none"
    /\ todo' = Plan(provider)
    /\ sockets' = <<>>
    /\ pc' = "socket"
    /\ UNCHANGED <<ifaceName, destination, source, fd, table>>

(* Anything that is not IPv4 is set up as IPv6.                            *)
ProtocolOf(protocol) ==
    IF protocol = "icmp" /\ isV6(source) THEN "icmpv6" ELSE protocol

OpenRawSocket ==
    /\ pc = "socket"
    /\ OpenSocket(source.family, "raw", ProtocolOf(todo[1].protocol))
    /\ pc' = IF ifaceName THEN "iface" ELSE "bind"
    /\ UNCHANGED <<calls, op, outcome, ifaceName, destination, source, todo, sockets, before>>

bindInterface ==
    /\ pc = "iface"
    /\ \/ /\ Usable
          /\ Set("iface", TRUE)
          /\ pc' = IF op = "resolve" THEN "connect" ELSE "bind"
          /\ UNCHANGED outcome
       \/ Throw /\ UNCHANGED table
    /\ UNCHANGED <<calls, op, ifaceName, destination, source, fd, todo, sockets, before>>

BindsNothing ==
    /\ pc = "bind"
    /\ pc' = IF Usable THEN (IF isV6(source) THEN "option" ELSE "push") ELSE "idle"
    /\ outcome' = IF Usable THEN outcome ELSE "threw"
    /\ UNCHANGED <<calls, op, ifaceName, destination, source, fd, todo, sockets, table,
                   before>>

bindIpAddress ==
    /\ pc = "bind"
    /\ \/ /\ Usable /\ Bindable(source)
          /\ Set("bound", HostOf(source))
          /\ pc' = IF isV6(source) THEN "option" ELSE "push"
          /\ UNCHANGED outcome
       \/ Throw /\ UNCHANGED table
    /\ UNCHANGED <<calls, op, ifaceName, destination, source, fd, todo, sockets, before>>

PassesEverything == Icmp6Types

FilterPasses == {"echo reply", "time exceeded", "unreachable"}

ChecksumAtSix(protocol) == 6

ChecksumOffset(protocol) == IF protocol = "tcp" THEN 16 ELSE 6

(* Sockets for IPv6: the filter, and where the kernel puts the checksum.   *)
SetIcmp6Filter ==
    /\ pc = "option"
    /\ todo[1].protocol = "icmp"
    /\ \/ /\ table[fd].family = "v6"
          /\ Set("filter", FilterPasses)
          /\ pc' = "push"
          /\ UNCHANGED outcome
       \/ Throw /\ UNCHANGED table
    /\ UNCHANGED <<calls, op, ifaceName, destination, source, fd, todo, sockets, before>>

SetChecksumOffset ==
    /\ pc = "option"
    /\ todo[1].protocol # "icmp"
    /\ \/ /\ table[fd].family = "v6"
          /\ Set("checksumAt", ChecksumOffset(todo[1].protocol))
          /\ pc' = "push"
          /\ UNCHANGED outcome
       \/ Throw /\ UNCHANGED table
    /\ UNCHANGED <<calls, op, ifaceName, destination, source, fd, todo, sockets, before>>

PushSocket ==
    /\ pc = "push"
    /\ sockets' = Append(sockets, [fd |-> fd, role |-> todo[1].role,
                                   protocol |-> ProtocolOf(todo[1].protocol)])
    /\ todo' = Tail(todo)
    /\ IF Tail(todo) = <<>>
       THEN pc' = "idle" /\ outcome' = "returned"
       ELSE pc' = "socket" /\ UNCHANGED outcome
    /\ UNCHANGED <<calls, op, ifaceName, destination, source, fd, table, before>>

Setup ==
    \/ parseAddress
    \/ resolveSourceAddress \/ Connect \/ GetSockName
    \/ \E provider \in {"icmp", "tcp", "udp"} : createSockets(provider)
    \/ OpenRawSocket \/ bindInterface \/ bindIpAddress
    \/ SetIcmp6Filter \/ SetChecksumOffset \/ PushSocket

-------------------------------------------------------------------------------
(* Properties *)

SocketExt == [fd : Int, role : SUBSET {"Receive", "Send"}, protocol : Protocols]

(* The ranges of the locals of the three functions and of the kernel's     *)
(* table.                                                                  *)
SetupTypeOK ==
    /\ calls \in 0 .. MaxCalls
    /\ op \in {"none", "parse", "resolve", "create"}
    /\ pc \in {"idle", "iface", "connect", "getsockname", "socket", "bind", "option", "push"}
    /\ outcome \in {"none", "returned", "threw"}
    /\ ifaceName \in BOOLEAN
    /\ destination \in Storage \cup {None}
    /\ source \in Storage \cup {None}
    /\ fd \in Descriptors \cup {-1}
    /\ todo \in Seq([protocol : Protocols \ {"icmpv6"}, role : SUBSET {"Receive", "Send"}])
    /\ sockets \in Seq(SocketExt)
    /\ table \in [DOMAIN table -> KernelSocket]
    /\ DOMAIN table \cup before \subseteq Descriptors

Created == op = "create" /\ outcome = "returned"

(* socket() is never checked, and the source may be no address at all: all *)
(* the same, what createSockets returns are open sockets, each on its own  *)
(* descriptor, bound to the source and to the interface, and for IPv6 with *)
(* the filter and the checksum the packets and validators count on; one of *)
(* them sends.                                                             *)
ReturnedSocketsAreReady ==
    Created =>
        /\ \A k \in DOMAIN sockets :
              LET s == sockets[k]
                  t == table[s.fd]
              IN  /\ s.fd \in DOMAIN table \ before
                  /\ \A j \in DOMAIN sockets : sockets[j].fd = s.fd => j = k
                  /\ t.type = "raw" /\ t.protocol = s.protocol
                  /\ t.family \in Families
                  /\ t.bound = HostOf(source)
                  /\ t.iface = ifaceName
                  /\ s.protocol = "icmpv6" => t.filter = Icmp6Types \ {"neighbour"}
                  /\ (s.protocol \in {"tcp", "udp"} /\ t.family = "v6") => t.checksumAt # -1
        /\ \E k \in DOMAIN sockets : \A j \in DOMAIN sockets :
              "Send" \in sockets[j].role <=> j = k

Fds == {sockets[k].fd : k \in DOMAIN sockets}

(* A call that returns leaves open what was open and what it returns, also *)
(* after other calls threw and left theirs behind.                         *)
ReturnsWhatItOpened ==
    outcome = "returned" =>
        DOMAIN table = before \cup (IF op = "create" THEN Fds ELSE {})

(* Only operator== decides whether a reply came from the target.  It does  *)
(* so although the kernel's address has a port and the parsed one holds    *)
(* what the memory held besides the address.                               *)
TargetIsRecognised ==
    destination # None =>
        \A host \in {text.host : text \in Texts} :
            host.family = destination.family =>
                (SameAddress(KernelStorage(host), destination) <=> host = HostOf(destination))

(* ResolveSourceAddress.hpp: "Resolves source address which is going to be *)
(* assigned to an outgoing packet".                                        *)
ResolvedSourceIsAssigned ==
    op = "resolve" /\ outcome = "returned" =>
        /\ source.family = destination.family
        /\ HostOf(source) = LocalHost[destination.family]

===============================================================================
