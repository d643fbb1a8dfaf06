-------------------------------- MODULE Network --------------------------------
(***************************************************************************)
(* The world behind IDataSender, as the engines use it: packets that       *)
(* trySending put on the wire, and the queue of datagrams tryReceiving     *)
(* reads.  Routers, the target and the kernel are not part of the          *)
(* repository.                                                             *)
(*                                                                         *)
(* A packet may be answered never, once or several times, at any moment    *)
(* after it was sent and in any order with the others; datagrams that      *)
(* belong to other programs arrive at any moment.  The queue is a set: the *)
(* moment a datagram arrives is as free as the order it is read in.        *)
(***************************************************************************)
EXTENDS Probes

CONSTANT StrayKinds   \* which stray datagrams arrive, a subset of Stray's kinds

ASSUME NetworkAssumption == StrayKinds \subseteq {"foreign", "malformed"}

VARIABLES
    wire,    \* every packet sent so far
    inbox    \* datagrams waiting in the receiving sockets

networkVars == <<wire, inbox>>

NetworkTypeOK ==
    /\ wire \subseteq Packet
    /\ inbox \subseteq Response

NetworkInit ==
    /\ wire = {}
    /\ inbox = {}

Transmit(packet) == wire' = wire \cup {packet}

(* recvfrom takes a datagram; a second copy of it may be waiting.          *)
Take(response) ==
    /\ response \in inbox
    /\ inbox' \in {inbox, inbox \ {response}}

Answer ==
    /\ \E packet \in wire : inbox' = inbox \cup {Reply(packet)}
    /\ UNCHANGED wire

StrayArrives ==
    /\ \E kind \in StrayKinds : inbox' = inbox \cup {Stray(kind)}
    /\ UNCHANGED wire

Environment == Answer \/ StrayArrives

(* No two packets drew the same random id or sequence number. *)
DistinctKeys == \A m, n \in wire : m.key = n.key => m = n

===============================================================================
