--------------------------- MODULE TracerouteLemmas ---------------------------
(***************************************************************************)
(* Lemmas about the clock, the network and the results that the proofs     *)
(* about both engines rest on.                                             *)
(***************************************************************************)
EXTENDS Network, Traceroute, CollectionLemmas

-------------------------------------------------------------------------------
(* The clock and the network *)

(* The clock does not take a duration beyond its cap.                      *)
LEMMA LaterInRange ==
    ASSUME NEW cap \in Nat, NEW age \in 0 .. cap
    PROVE  Later(age, cap) \in 0 .. cap
  BY DEF Later

(* An age stays an age.                                                    *)
LEMMA LaterType ==
    ASSUME NEW cap \in Nat, NEW age \in Nat
    PROVE  Later(age, cap) \in Nat
  BY DEF Later

(* Products of natural numbers, as in the budget, are natural numbers.     *)
LEMMA ProductOfNaturals ==
    ASSUME NEW m \in Nat, NEW n \in Nat
    PROVE  m * n \in Nat
  OBVIOUS

(* The network answers packets with responses.                             *)
LEMMA ReplyType ==
    ASSUME NEW packet \in Packet
    PROVE  Reply(packet) \in Response
  BY DEF Packet, Probe, Reply, Response, Clients

(* The network keeps its types.                                            *)
LEMMA EnvironmentType ==
    ASSUME NetworkTypeOK, Environment
    PROVE  NetworkTypeOK'
  <1>1. CASE Answer
    BY <1>1, ReplyType DEF Answer, NetworkTypeOK
  <1>2. CASE StrayArrives
    BY <1>2, NetworkAssumption DEF StrayArrives, Stray, Response, NetworkTypeOK
  <1>3. QED
    BY <1>1, <1>2 DEF Environment

(* Keys distinct among more packets are distinct among fewer.              *)
LEMMA DistinctBefore ==
    ASSUME wire \subseteq wire', DistinctKeys'
    PROVE  DistinctKeys
  BY DEF DistinctKeys

-------------------------------------------------------------------------------
(* Results *)

(* A response that is valid for a packet is a reply, and credits it.       *)
LEMMA SuccessIsResult ==
    ASSUME NEW packet, packet.probe \in Probe,
           NEW response \in Response \cup {nullopt}, isValid(packet, response)
    PROVE  successProbe(packet.probe, response) \in ProbeResult
  <1>1. response \in [kind : {"reply"}, probe : Probe, key : Keys, client : Clients]
    BY DEF isValid, Response, nullopt
  <1>2. QED
    BY <1>1 DEF successProbe, ProbeResult

(* failedProbe yields a result.                                            *)
LEMMA FailureIsResult ==
    ASSUME NEW probe \in Probe
    PROVE  failedProbe(probe) \in ProbeResult
  BY DEF failedProbe, ProbeResult, NoProbe, Probe

===============================================================================
