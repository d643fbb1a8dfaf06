---------------------------- MODULE DatagramService ----------------------------
(***************************************************************************)
(* What IDataSender promises an engine, over the network the engines are   *)
(* modelled with: trySending returns true exactly if the packet is on the  *)
(* wire; tryReceiving returns a datagram that was waiting, or nothing when *)
(* none was; either may throw.  DataSender implements it, so what is shown *)
(* of an engine over Network holds for it over DataSender.                 *)
(***************************************************************************)
EXTENDS Network

CONSTANT Outgoing   \* the packets an engine may hand to trySending

VARIABLES
    accepted,    \* what the last trySending returned; FALSE also if it threw
    received     \* what the last tryReceiving returned

vars == <<networkVars, accepted, received>>

Threw == [kind |-> "threw"]

Init ==
    /\ NetworkInit
    /\ accepted = FALSE
    /\ received = nullopt

Sends ==
    /\ \E packet \in Outgoing : Transmit(packet)
    /\ accepted' = TRUE
    /\ UNCHANGED <<inbox, received>>

FailsToSend ==
    /\ accepted' = FALSE
    /\ UNCHANGED <<networkVars, received>>

Receives ==
    /\ \E response \in inbox : Take(response) /\ received' = response
    /\ UNCHANGED <<wire, accepted>>

ReceivesNothing ==
    /\ inbox = {}
    /\ received' = nullopt
    /\ UNCHANGED <<networkVars, accepted>>

FailsToReceive ==
    /\ received' = Threw
    /\ UNCHANGED <<networkVars, accepted>>

World == Environment /\ UNCHANGED <<accepted, received>>

Next == Sends \/ FailsToSend \/ Receives \/ ReceivesNothing \/ FailsToReceive \/ World

Spec == Init /\ [][Next]_vars

===============================================================================
