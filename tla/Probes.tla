-------------------------------- MODULE Probes --------------------------------
(***************************************************************************)
(* The identity of a probe, the packet that carries it, the datagrams that *)
(* come back, and what Packet::isValid tells an engine about the two.      *)
(*                                                                         *)
(* isValidByKind is a variant of isValid with a mistake.                   *)
(***************************************************************************)
EXTENDS Naturals

CONSTANTS
    Keys,       \* the values validators tell packets apart by: the ICMP
                \* ids, the TCP sequence numbers, one value for UDP
    Distance    \* a packet whose ttl is at least Distance reaches the target

ASSUME ProbesAssumption ==
    /\ Keys # {}
    /\ Distance \in Nat

-------------------------------------------------------------------------------
(* Probes and responses *)

(* A probe is named by the call that sends it, its ttl and its retry; retry *)
(* is kept by FastTraceroute::PacketToValidate, call is a history value.    *)
Probe == [call : Nat, ttl : Nat, retry : Nat]

Target  == "target"
Router  == "router"
Clients == {Target, Router}
Nobody  == "nobody"   \* the responseSender of a failed probe

Packet == [probe : Probe, key : Keys]

(* What recvfrom hands back: a reply to a packet, a datagram that is valid *)
(* for no packet ("foreign"), or one for which isValid throws because it   *)
(* holds no readable ip header ("malformed").                              *)
Reply(packet) ==
    [kind   |-> "reply",
     probe  |-> packet.probe,
     key    |-> packet.key,
     client |-> IF packet.probe.ttl >= Distance THEN Target ELSE Router]

Stray(kind) == [kind |-> kind]

Response ==
    [kind : {"reply"}, probe : Probe, key : Keys, client : Clients]
        \cup [kind : {"foreign", "malformed"}]

nullopt == [kind |-> "nullopt"]   \* an empty optional

(* Packet::isValid, reduced to what it tells apart: the response carries   *)
(* the key of this packet.  ResponseValidation shows it of all but two     *)
(* kinds of datagrams, Truncated and Misread, which are no Response here.  *)
isValidByKind(packet, response) == response.kind = "reply"

isValid(packet, response) ==
    /\ response.kind = "reply"
    /\ response.key = packet.key

===============================================================================
