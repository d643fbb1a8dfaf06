---------------------- MODULE SequentialTracerouteProofs ----------------------
(***************************************************************************)
(* Theorems about SequentialTraceroute, for every timeout, range of ttls,  *)
(* number of retries, set of keys and number of calls.                     *)
(***************************************************************************)
EXTENDS SequentialTraceroute, TracerouteLemmas

-------------------------------------------------------------------------------
(* Type correctness *)

Row == [ttl : Nat, probeResults : Seq(ProbeResult)]

(* What is left of a timeout, cut to whole milliseconds, is no more than   *)
(* the timeout.                                                            *)
LEMMA PollWithinTimeout ==
    ASSUME age \in Age
    PROVE  Milliseconds(getTimeLeft(age, Timeout)) \in 0 .. Timeout
  <1> DEFINE left == getTimeLeft(age, Timeout)
  <1>1. left \in 0 .. Timeout
    BY TracerouteAssumption DEF Age, AgeCap, getTimeLeft
  <1> HIDE DEF left
  <1> DEFINE q == left \div Milli
  <1>2. left \in Int /\ Milli \in Int /\ Milli > 0 /\ left \in Nat
    BY <1>1, TracerouteAssumption
  <1>3. q \in Nat /\ left = Milli * q + (left % Milli) /\ left % Milli >= 0
    BY <1>2
  <1>4. q * Milli \in Nat /\ q * Milli = Milli * q
    BY <1>2, <1>3
  <1>5. q * Milli <= left
    BY <1>2, <1>3, <1>4
  <1>6. QED
    BY <1>1, <1>4, <1>5, TracerouteAssumption DEF Milliseconds, left

(* A packet is not an empty optional.                                      *)
LEMMA PacketIsNotNullopt == nullopt \notin Packet
  BY DEF nullopt, Packet

(* An object that was just constructed is type correct.                    *)
LEMMA TypeInit == Init => TypeOK
  <1> SUFFICES ASSUME Init
               PROVE  TypeOK
    OBVIOUS
  <1>1. args \in [ttlBegin : Nat, ttlEnd : Nat, retries : Nat]
    BY DEF Init
  <1>2. age \in Age /\ pollLeft \in 0 .. Timeout
    BY TracerouteAssumption DEF Init, Age, AgeCap
  <1>3. call \in 0 .. MaxCalls
    BY SequentialAssumption DEF Init
  <1>4. destinationReached \in BOOLEAN
    BY Zenon DEF Init
  <1>5. probeResults \in Seq(ProbeResult) /\ probes \in Seq([ttl : Nat, probeResults : Seq(ProbeResult)])
    BY DEF Init
  <1>6. QED
    BY <1>1, <1>2, <1>3, <1>4, <1>5 DEF Init, TypeOK, NetworkInit, NetworkTypeOK

(* Beginning a call preserves the types.                                   *)
LEMMA BeginType ==
    ASSUME TypeOK, beginProbing
    PROVE  TypeOK'
  <1>1. PICK a \in Args : args' = a /\ ttl' = a.ttlBegin
    BY DEF beginProbing
  <1>2. args' \in [ttlBegin : Nat, ttlEnd : Nat, retries : Nat] /\ ttl' \in Nat
    BY <1>1, SequentialAssumption
  <1>3. call' \in 0 .. MaxCalls
    BY SequentialAssumption DEF beginProbing, TypeOK
  <1>4. destinationReached' \in BOOLEAN
    BY Zenon DEF beginProbing
  <1>5. QED
    BY <1>2, <1>3, <1>4 DEF beginProbing, TypeOK, NetworkTypeOK, networkVars

(* So does sending.                                                        *)
LEMMA SendType ==
    ASSUME TypeOK, SendPacket
    PROVE  TypeOK'
  <1>1. PICK key \in Keys :
           packet' = [probe |-> [call |-> call, ttl |-> ttl, retry |-> i], key |-> key]
    BY DEF SendPacket
  <1>2. call \in Nat
    BY SequentialAssumption DEF TypeOK
  <1>3. packet' \in Packet
    BY <1>1, <1>2 DEF TypeOK, Packet, Probe
  <1>4. packet' # nullopt
    BY <1>3, PacketIsNotNullopt
  <1>5. NetworkTypeOK'
    BY <1>3 DEF SendPacket, Transmit, NetworkTypeOK, TypeOK
  <1>6. QED
    BY <1>3, <1>4, <1>5 DEF SendPacket, TypeOK, callVars, loopVars

(* So does a row that is finished.                                         *)
LEMMA FinishType ==
    ASSUME TypeOK, FinishRow
    PROVE  TypeOK'
  <1>1. [ttl |-> ttl, probeResults |-> probeResults] \in Row
    BY DEF TypeOK, Row
  <1>2. probes' \in Seq(Row)
    BY <1>1, AppendFacts DEF FinishRow, TypeOK, Row
  <1>3. ttl' \in Nat /\ pc' \in {"send", "return"}
    BY DEF FinishRow, TypeOK
  <1>4. QED
    BY <1>2, <1>3 DEF FinishRow, TypeOK, NetworkTypeOK, callVars, networkVars, Row

(* So does recording a result.                                             *)
LEMMA RecordType ==
    ASSUME TypeOK, NEW result \in ProbeResult, Record(result), pc # "idle",
           UNCHANGED <<callVars, ttl, probes, outcome>>,
           pollLeft' \in {0, pollLeft}, destinationReached' \in BOOLEAN, NetworkTypeOK'
    PROVE  TypeOK'
  <1>1. probeResults' \in Seq(ProbeResult)
    BY AppendFacts DEF Record, TypeOK
  <1>2. age' \in Age /\ pollLeft' \in 0 .. Timeout
    BY TracerouteAssumption DEF Record, Age, AgeCap, TypeOK
  <1>3. QED
    BY <1>1, <1>2 DEF Record, TypeOK, callVars

(* So does a step that waits, an exception, and the end of the call.       *)
LEMMA WaitType ==
    ASSUME TypeOK,
           \/ TakesSentAt \/ SendFails \/ Return \/ WaitsForResponse \/ ReceiveNothing
           \/ ReceiveThrows
    PROVE  TypeOK'
  <1> USE TracerouteAssumption
      DEF TypeOK, NetworkTypeOK, Age, AgeCap, callVars, loopVars, networkVars
  <1>1. CASE TakesSentAt
    BY <1>1 DEF TakesSentAt
  <1>2. CASE SendFails
    BY <1>2 DEF SendFails, Throw
  <1>3. CASE Return
    BY <1>3 DEF Return
  <1>4. CASE WaitsForResponse
    BY <1>4, PollWithinTimeout DEF WaitsForResponse
  <1>5. CASE ReceiveNothing
    BY <1>5 DEF ReceiveNothing
  <1>6. CASE ReceiveThrows
    BY <1>6 DEF ReceiveThrows, Throw, Take
  <1>7. QED
    BY <1>1, <1>2, <1>3, <1>4, <1>5, <1>6

(* While the reply is awaited the packet is held.                          *)
LEMMA PacketAtHand ==
    ASSUME TypeOK, pc \in {"sent", "wait", "receive"}
    PROVE  packet \in Packet /\ packet.probe \in Probe /\ packet # nullopt
  BY DEF TypeOK, Packet

(* So does giving up.                                                      *)
LEMMA GiveUpType ==
    ASSUME TypeOK, GiveUp
    PROVE  TypeOK'
  <1>1. failedProbe(packet.probe) \in ProbeResult
    BY PacketAtHand, FailureIsResult DEF GiveUp
  <1>2. NetworkTypeOK' /\ destinationReached' \in BOOLEAN
    BY DEF GiveUp, TypeOK, NetworkTypeOK, networkVars
  <1>3. QED
    BY <1>1, <1>2, RecordType DEF GiveUp

(* So does a response, valid or not.                                       *)
LEMMA ReceiveType ==
    ASSUME TypeOK, ReceiveResponse
    PROVE  TypeOK'
  <1>1. PICK response \in inbox \ {Stray("malformed")} :
           /\ Take(response)
           /\ IF isValid(packet, response)
              THEN /\ Record(successProbe(packet.probe, response))
                   /\ destinationReached' = (destinationReached \/ response.client = Target)
              ELSE /\ pc' = "wait"
                   /\ UNCHANGED <<probeResults, packet, age, i, destinationReached>>
    BY DEF ReceiveResponse
  <1>2. /\ pc = "receive" /\ pollLeft' = 0
        /\ UNCHANGED <<callVars, ttl, probes, outcome, wire>>
    BY DEF ReceiveResponse
  <1>3. NetworkTypeOK'
    BY <1>1, <1>2 DEF Take, NetworkTypeOK, TypeOK
  <1>4. CASE isValid(packet, response)
    <2>1. response \in Response
      BY DEF TypeOK, NetworkTypeOK
    <2>2. successProbe(packet.probe, response) \in ProbeResult
      BY <2>1, <1>2, <1>4, PacketAtHand, SuccessIsResult
    <2>3. destinationReached' \in BOOLEAN
      BY <1>1, <1>4 DEF TypeOK
    <2>4. QED
      BY <2>2, <2>3, <1>1, <1>2, <1>3, <1>4, RecordType
  <1>5. CASE ~isValid(packet, response)
    BY <1>1, <1>2, <1>3, <1>5, TracerouteAssumption DEF TypeOK, callVars
  <1>6. QED
    BY <1>4, <1>5

(* So do the clock and the network.                                        *)
LEMMA WorldType ==
    ASSUME TypeOK, Tick \/ World
    PROVE  TypeOK'
  <1>1. CASE Tick
    <2>1. age' \in Age
      BY <1>1, TracerouteAssumption, LaterInRange DEF Tick, TypeOK, Age, AgeCap
    <2>2. pollLeft' \in 0 .. Timeout
      BY <1>1, TracerouteAssumption DEF Tick, TypeOK
    <2>3. QED
      BY <1>1, <2>1, <2>2 DEF Tick, TypeOK, NetworkTypeOK, callVars, loopVars, networkVars
  <1>2. CASE World
    <2>1. NetworkTypeOK'
      BY <1>2, EnvironmentType DEF World, TypeOK
    <2>2. QED
      BY <1>2, <2>1 DEF World, TypeOK, callVars, loopVars
  <1>3. QED
    BY <1>1, <1>2

(* Every variable keeps its type, and a packet is held exactly while its   *)
(* reply is awaited.                                                       *)
THEOREM Typing == Spec => []TypeOK
  <1>1. ASSUME TypeOK, [Next]_vars
        PROVE  TypeOK'
    <2>1. CASE beginProbing
      BY <1>1, <2>1, BeginType
    <2>2. CASE Engine
      BY <1>1, <2>2, SendType, FinishType, WaitType, GiveUpType, ReceiveType DEF Engine
    <2>3. CASE Tick \/ World
      BY <1>1, <2>3, WorldType
    <2>4. CASE UNCHANGED vars
      BY <1>1, <2>4 DEF vars, callVars, loopVars, networkVars, TypeOK, NetworkTypeOK
    <2>5. QED
      BY <1>1, <2>1, <2>2, <2>3, <2>4 DEF Next
  <1>2. QED
    BY TypeInit, <1>1, PTL DEF Spec

-------------------------------------------------------------------------------
(* The results of a call *)

(* Recording a result adds it to the results.                              *)
LEMMA ResultsOfRecord ==
    ASSUME TypeOK, NEW result \in ProbeResult, Record(result), UNCHANGED probes
    PROVE  Results' = Results \cup {result}
  <1>1. Range(probeResults') = Range(probeResults) \cup {result}
    BY RangeOfAppend DEF Record, TypeOK
  <1>2. QED
    BY <1>1 DEF Results

(* Finishing a row moves its results, and loses none.                      *)
LEMMA ResultsOfRow ==
    ASSUME TypeOK, FinishRow
    PROVE  Results' = Results
  <1> DEFINE row == [ttl |-> ttl, probeResults |-> probeResults]
  <1>1. row \in Row /\ probes \in Seq(Row) /\ row.probeResults = probeResults
    BY DEF TypeOK, Row
  <1>2. probes' = Append(probes, row) /\ probeResults' = <<>>
    BY DEF FinishRow
  <1> HIDE DEF row
  <1>3. Range(probes') = Range(probes) \cup {row}
    BY <1>1, <1>2, RangeOfAppend
  <1>4. Range(probeResults') = {}
    BY <1>2 DEF Range
  <1>5. QED
    BY <1>1, <1>3, <1>4 DEF Results

(* The results are results.                                                *)
LEMMA ResultsType ==
    ASSUME TypeOK
    PROVE  Results \subseteq ProbeResult
  <1>1. \A s \in Seq(ProbeResult) : Range(s) \subseteq ProbeResult
    BY LenProperties, ElementOfSeq DEF Range
  <1>2. \A row \in Range(probes) : row.probeResults \in Seq(ProbeResult)
    <2>1. probes \in Seq(Row)
      BY DEF TypeOK, Row
    <2>2. \A k \in DOMAIN probes : probes[k] \in Row
      BY <2>1, LenProperties, ElementOfSeq
    <2>3. QED
      BY <2>2 DEF Range, Row
  <1>3. QED
    BY <1>1, <1>2 DEF Results, TypeOK

-------------------------------------------------------------------------------
(* Replies are credited to the probe that was answered *)

PacketOf(e) == [probe |-> e.probe, key |-> e.key]

(* The inductive invariant: the packet held and the replies read stem from *)
(* packets sent, and a credit joins two of them that have one key.         *)
Provenance ==
    /\ packet # nullopt => packet \in wire
    /\ \A r \in inbox : r.kind = "reply" => PacketOf(r) \in wire
    /\ \A r \in Results : r.success =>
          \E m, n \in wire : m.probe = r.probe /\ n.probe = r.cause /\ m.key = n.key

(* Nothing is held, read or credited at first.                             *)
LEMMA ProvenanceInit == Init => Provenance
  BY DEF Init, NetworkInit, Provenance, Results, Range

(* The wire only grows; a step that takes no packet in hand, adds no       *)
(* datagram and no success keeps Provenance.                               *)
LEMMA SameSourcesSameProvenance ==
    ASSUME Provenance,
           wire \subseteq wire',
           packet' # nullopt => packet' = packet \/ packet' \in wire',
           \A r \in inbox' : r \in inbox \/ (r.kind = "reply" => PacketOf(r) \in wire'),
           \A r \in Results' : r \in Results \/ ~r.success
    PROVE  Provenance'
  <1>1. packet' # nullopt => packet' \in wire'
    BY DEF Provenance
  <1>2. \A r \in inbox' : r.kind = "reply" => PacketOf(r) \in wire'
    BY DEF Provenance
  <1>3. \A r \in Results' : r.success =>
           \E m, n \in wire' : m.probe = r.probe /\ n.probe = r.cause /\ m.key = n.key
    BY DEF Provenance
  <1>4. nullopt' = nullopt
    BY DEF nullopt
  <1>5. QED
    BY <1>1, <1>2, <1>3, <1>4 DEF Provenance, PacketOf

(* A response is credited to the packet held if it carries its key, and    *)
(* both were on the wire.                                                  *)
LEMMA ReceivingKeepsProvenance ==
    ASSUME TypeOK, Provenance, ReceiveResponse
    PROVE  Provenance'
  <1>1. PICK response \in inbox \ {Stray("malformed")} :
           /\ Take(response)
           /\ IF isValid(packet, response)
              THEN /\ Record(successProbe(packet.probe, response))
                   /\ destinationReached' = (destinationReached \/ response.client = Target)
              ELSE /\ pc' = "wait"
                   /\ UNCHANGED <<probeResults, packet, age, i, destinationReached>>
    BY DEF ReceiveResponse
  <1>2. pc = "receive" /\ UNCHANGED <<wire, probes>> /\ inbox' \subseteq inbox
    BY <1>1 DEF ReceiveResponse, Take
  <1>3. CASE isValid(packet, response)
    <2> DEFINE r == successProbe(packet.probe, response)
    <2>1. packet \in Packet /\ packet.probe \in Probe /\ packet # nullopt
      BY <1>2, PacketAtHand
    <2>2. response \in Response
      BY DEF TypeOK, NetworkTypeOK
    <2>3. r \in ProbeResult
      BY <2>1, <2>2, <1>3, SuccessIsResult
    <2>4. Results' = Results \cup {r} /\ packet' = nullopt
      BY <2>3, <1>1, <1>2, <1>3, ResultsOfRecord DEF Record
    <2>5. packet \in wire /\ PacketOf(response) \in wire /\ response.key = packet.key
      BY <2>1, <1>3 DEF Provenance, isValid
    <2>6. \E m, n \in wire : m.probe = r.probe /\ n.probe = r.cause /\ m.key = n.key
      <3>1. /\ packet.probe = r.probe
            /\ PacketOf(response).probe = r.cause
            /\ packet.key = PacketOf(response).key
        BY <2>5 DEF PacketOf, successProbe
      <3>2. QED
        BY <3>1, <2>5
    <2> HIDE DEF r
    <2>7. QED
      BY <2>4, <2>6, <1>2 DEF Provenance, PacketOf, nullopt
  <1>4. CASE ~isValid(packet, response)
    <2>1. UNCHANGED <<packet, probeResults, probes>>
      BY <1>1, <1>2, <1>4
    <2>2. QED
      BY <2>1, <1>2, SameSourcesSameProvenance DEF Results
  <1>5. QED
    BY <1>3, <1>4

(* The other steps of the engine credit nothing.                           *)
LEMMA EngineKeepsProvenance ==
    ASSUME TypeOK, Provenance, Engine
    PROVE  Provenance'
  <1>1. CASE ReceiveResponse
    BY <1>1, ReceivingKeepsProvenance
  <1>2. CASE SendPacket
    BY <1>2, SameSourcesSameProvenance DEF SendPacket, Transmit, Results
  <1>3. CASE FinishRow
    BY <1>3, ResultsOfRow, SameSourcesSameProvenance DEF FinishRow, networkVars
  <1>4. CASE GiveUp
    <2> DEFINE r == failedProbe(packet.probe)
    <2>1. r \in ProbeResult
      BY <1>4, PacketAtHand, FailureIsResult DEF GiveUp
    <2>2. Results' = Results \cup {r}
      BY <1>4, <2>1, ResultsOfRecord DEF GiveUp
    <2>3. ~r.success
      BY DEF failedProbe
    <2>4. packet' = nullopt /\ UNCHANGED <<wire, inbox>>
      BY <1>4 DEF GiveUp, Record, networkVars
    <2> HIDE DEF r
    <2>5. QED
      BY <2>2, <2>3, <2>4, SameSourcesSameProvenance
  <1>5. CASE \/ TakesSentAt \/ SendFails \/ Return \/ WaitsForResponse \/ ReceiveNothing
             \/ ReceiveThrows
    <2>1. UNCHANGED <<wire, packet, probeResults, probes>> /\ inbox' \subseteq inbox
      BY <1>5 DEF TakesSentAt, SendFails, Return, WaitsForResponse, ReceiveNothing,
                  ReceiveThrows, Throw, Take, networkVars
    <2>2. QED
      BY <2>1, SameSourcesSameProvenance DEF Results
  <1>6. QED
    BY <1>1, <1>2, <1>3, <1>4, <1>5 DEF Engine

(* So do a new call, the clock and the network.                            *)
LEMMA OtherStepsKeepProvenance ==
    ASSUME TypeOK, Provenance,
           beginProbing \/ Tick \/ World \/ UNCHANGED vars
    PROVE  Provenance'
  <1>1. CASE beginProbing
    <2>1. Results' = {} /\ packet' = nullopt /\ UNCHANGED <<wire, inbox>>
      BY <1>1 DEF beginProbing, Results, Range, networkVars
    <2>2. QED
      BY <2>1, SameSourcesSameProvenance
  <1>2. CASE Tick \/ UNCHANGED vars
    BY <1>2, SameSourcesSameProvenance DEF Tick, vars, networkVars, Results
  <1>3. CASE World
    <2>1. UNCHANGED <<wire, packet, probeResults, probes>>
      BY <1>3 DEF World, Environment, Answer, StrayArrives
    <2>2. \A r \in inbox' : r \in inbox \/ (r.kind = "reply" => PacketOf(r) \in wire')
      <3>1. CASE Answer
        <4>1. PICK p \in wire : inbox' = inbox \cup {Reply(p)}
          BY <3>1 DEF Answer
        <4>2. p \in Packet
          BY DEF TypeOK, NetworkTypeOK
        <4>3. PacketOf(Reply(p)) = p
          BY <4>2 DEF Reply, PacketOf, Packet
        <4>4. QED
          BY <4>1, <4>3, <2>1
      <3>2. CASE StrayArrives
        <4>1. PICK kind \in StrayKinds : inbox' = inbox \cup {Stray(kind)}
          BY <3>2 DEF StrayArrives
        <4>2. Stray(kind).kind # "reply"
          BY NetworkAssumption DEF Stray
        <4>3. QED
          BY <4>1, <4>2
      <3>3. QED
        BY <1>3, <3>1, <3>2 DEF World, Environment
    <2>3. QED
      BY <2>1, <2>2, SameSourcesSameProvenance DEF Results
  <1>4. QED
    BY <1>1, <1>2, <1>3

(* As long as no two packets drew the same key, the reply to a probe given *)
(* up, a second reply or a reply to another call is credited to no other   *)
(* probe, over any number of calls.                                        *)
THEOREM CreditIsRight == Spec => []RepliesCreditTheirProbe
  <1>1. TypeOK /\ Provenance /\ [Next]_vars => Provenance'
    BY EngineKeepsProvenance, OtherStepsKeepProvenance DEF Next
  <1>2. Provenance => RepliesCreditTheirProbe
    BY DEF Provenance, RepliesCreditTheirProbe, DistinctKeys
  <1>3. QED
    BY ProvenanceInit, Typing, <1>1, <1>2, PTL DEF Spec

-------------------------------------------------------------------------------
(* The rows are the path *)

TargetIn(s) == \E r \in Range(s) : r.responseSender = Target

(* The k-th result of a row is that of its k-th retry.                     *)
RetriesOf(rowTtl, s) ==
    \A j \in DOMAIN s : s[j].probe = [call |-> call, ttl |-> rowTtl, retry |-> j - 1]

(* The rows finished: consecutive ttls, all retries, the target at most in *)
(* the last one, and only if the call is about to return.                  *)
RowsDone ==
    \A k \in DOMAIN probes :
        /\ probes[k].ttl = args.ttlBegin + k - 1
        /\ Len(probes[k].probeResults) = args.retries
        /\ RetriesOf(probes[k].ttl, probes[k].probeResults)
        /\ TargetIn(probes[k].probeResults) => k = Len(probes) /\ pc \in {"return", "idle"}

(* The row being filled follows them, and holds the results of the retries *)
(* before i; a packet held is that of retry i.                             *)
RowAtHand ==
    pc \notin {"idle", "return"} =>
        /\ ttl = args.ttlBegin + Len(probes)
        /\ i = Len(probeResults)
        /\ i <= args.retries
        /\ RetriesOf(ttl, probeResults)
        /\ destinationReached <=> TargetIn(probeResults)
        /\ probes # <<>> => ttl <= args.ttlEnd + 1
        /\ i > 0 => ttl <= args.ttlEnd
        /\ pc # "send" => /\ packet.probe = [call |-> call, ttl |-> ttl, retry |-> i]
                          /\ i < args.retries
                          /\ ttl <= args.ttlEnd

ReachesItsEnd ==
    IF probes = <<>>
    THEN args.ttlBegin > args.ttlEnd
    ELSE \/ probes[Len(probes)].ttl = args.ttlEnd
         \/ TargetIn(probes[Len(probes)].probeResults)

Path ==
    /\ RowsDone
    /\ RowAtHand
    /\ pc = "return" => /\ probes # <<>> /\ probeResults = <<>>
                       /\ TargetIn(probes[Len(probes)].probeResults)
                       /\ args.ttlBegin + Len(probes) <= args.ttlEnd + 1
    /\ pc # "idle" => outcome = "none"
    /\ outcome = "returned" => ReachesItsEnd
    /\ call = 0 => pc = "idle" /\ outcome = "none"

(* Nothing is recorded at first.                                           *)
LEMMA PathInit == Init => Path
  BY DEF Init, Path, RowsDone, RowAtHand

(* Beginning a call starts with no rows.                                   *)
LEMMA BeginningKeepsPath ==
    ASSUME TypeOK, beginProbing
    PROVE  Path'
  <1>1. PICK a \in Args : args' = a /\ ttl' = a.ttlBegin
    BY DEF beginProbing
  <1>2. /\ probes' = <<>> /\ probeResults' = <<>> /\ i' = 0
        /\ pc' = "send" /\ outcome' = "none"
    BY DEF beginProbing
  <1>3. args' \in [ttlBegin : Nat, ttlEnd : Nat, retries : Nat]
    BY <1>1, SequentialAssumption
  <1>4. ~destinationReached'
    BY Zenon DEF beginProbing
  <1>5. DOMAIN probes' = {} /\ DOMAIN probeResults' = {} /\ Len(probes') = 0 /\ Len(probeResults') = 0
    BY <1>2
  <1>6. RowsDone'
    BY <1>5 DEF RowsDone
  <1>7. ~TargetIn(probeResults') /\ RetriesOf(ttl, probeResults)'
    BY <1>5 DEF TargetIn, RetriesOf, Range
  <1>8. RowAtHand'
    BY <1>1, <1>2, <1>3, <1>4, <1>5, <1>7 DEF RowAtHand
  <1>9. call' # 0
    BY SequentialAssumption DEF beginProbing, TypeOK
  <1>10. QED
    BY <1>2, <1>6, <1>8, <1>9 DEF Path

(* The packet sent is that of retry i.                                     *)
LEMMA SendingKeepsPath ==
    ASSUME TypeOK, Path, SendPacket
    PROVE  Path'
  <1>1. /\ packet'.probe = [call |-> call, ttl |-> ttl, retry |-> i]
        /\ pc = "send" /\ pc' = "sent"
        /\ ttl <= args.ttlEnd /\ i < args.retries
        /\ UNCHANGED <<call, args, ttl, i, destinationReached, probeResults, probes, outcome>>
    BY DEF SendPacket, MoreToSend, callVars, loopVars
  <1>2. RowsDone'
    BY <1>1 DEF Path, RowsDone, RetriesOf
  <1>3. RowAtHand'
    BY <1>1 DEF Path, RowAtHand, RetriesOf
  <1>4. QED
    BY <1>1, <1>2, <1>3 DEF Path

(* Recording the result of retry i fills the row up to it.                 *)
LEMMA RecordKeepsPath ==
    ASSUME TypeOK, Path, pc \in {"wait", "receive"},
           NEW result \in ProbeResult, result.probe = packet.probe, Record(result),
           destinationReached' <=> destinationReached \/ result.responseSender = Target,
           UNCHANGED <<callVars, ttl, probes, outcome>>
    PROVE  Path'
  <1>1. /\ probeResults' = Append(probeResults, result)
        /\ pc' = "send" /\ i' = i + 1
        /\ UNCHANGED <<call, args>>
    BY DEF Record, callVars
  <1>2. probeResults \in Seq(ProbeResult) /\ Len(probeResults) \in Nat /\ args.retries \in Nat
    BY LenProperties DEF TypeOK
  <1>3. /\ ttl = args.ttlBegin + Len(probes)
        /\ i = Len(probeResults) /\ i < args.retries
        /\ RetriesOf(ttl, probeResults)
        /\ destinationReached <=> TargetIn(probeResults)
        /\ probes # <<>> => ttl <= args.ttlEnd + 1
        /\ ttl <= args.ttlEnd
        /\ packet.probe = [call |-> call, ttl |-> ttl, retry |-> i]
    BY DEF Path, RowAtHand
  <1>4. /\ Len(probeResults') = Len(probeResults) + 1
        /\ DOMAIN probeResults' = 1 .. Len(probeResults) + 1
        /\ DOMAIN probeResults = 1 .. Len(probeResults)
        /\ \A j \in 1 .. Len(probeResults) + 1 :
              probeResults'[j] = IF j <= Len(probeResults) THEN probeResults[j] ELSE result
    BY <1>1, <1>2, AppendFacts, LenProperties
  <1>5. RetriesOf(ttl, probeResults)'
    <2>1. ASSUME NEW j \in 1 .. Len(probeResults) + 1
          PROVE  probeResults'[j].probe = [call |-> call, ttl |-> ttl, retry |-> j - 1]
      <3>1. CASE j <= Len(probeResults)
        BY <3>1, <1>2, <1>3, <1>4 DEF RetriesOf
      <3>2. CASE ~(j <= Len(probeResults))
        <4>1. j - 1 = i /\ probeResults'[j] = result
          BY <3>2, <1>2, <1>3, <1>4
        <4>2. QED
          BY <4>1, <1>3
      <3>3. QED
        BY <3>1, <3>2
    <2>2. QED
      BY <2>1, <1>1, <1>4 DEF RetriesOf, callVars
  <1>6. TargetIn(probeResults') <=> TargetIn(probeResults) \/ result.responseSender = Target
    BY <1>1, <1>2, RangeOfAppend DEF TargetIn
  <1>7. RowAtHand'
    BY <1>1, <1>2, <1>3, <1>4, <1>5, <1>6 DEF RowAtHand
  <1>8. RowsDone'
    BY <1>1 DEF Path, RowsDone, RetriesOf
  <1>9. QED
    BY <1>1, <1>7, <1>8 DEF Path

(* A finished row is the next one, and ends the call if the target         *)
(* answered in it.                                                         *)
LEMMA FinishKeepsPath ==
    ASSUME TypeOK, Path, FinishRow
    PROVE  Path'
  <1> DEFINE row == [ttl |-> ttl, probeResults |-> probeResults]
  <1>1. /\ probes \in Seq(Row) /\ row \in Row
        /\ probeResults \in Seq(ProbeResult)
        /\ args.ttlBegin \in Nat /\ args.ttlEnd \in Nat /\ args.retries \in Nat
        /\ ttl \in Nat /\ i \in Nat
    BY DEF TypeOK, Row
  <1>2. /\ probes' = Append(probes, row)
        /\ probeResults' = <<>> /\ i' = 0
        /\ pc = "send" /\ ttl <= args.ttlEnd /\ i >= args.retries
        /\ call' = call /\ args' = args /\ outcome' = outcome
    BY DEF FinishRow, callVars
  <1>3. /\ Len(probes) \in Nat
        /\ DOMAIN probes = 1 .. Len(probes)
        /\ DOMAIN probes' = 1 .. Len(probes) + 1
        /\ Len(probes') = Len(probes) + 1
        /\ \A k \in 1 .. Len(probes) + 1 :
              probes'[k] = IF k <= Len(probes) THEN probes[k] ELSE row
    BY <1>1, <1>2, AppendFacts, LenProperties
  <1>4. row.ttl = ttl /\ row.probeResults = probeResults
    OBVIOUS
  <1> HIDE DEF row
  <1>5. /\ ttl = args.ttlBegin + Len(probes)
        /\ Len(probeResults) = args.retries
        /\ RetriesOf(ttl, probeResults)
        /\ destinationReached <=> TargetIn(probeResults)
    BY <1>1, <1>2 DEF Path, RowAtHand
  <1>6. IF destinationReached THEN pc' = "return" /\ ttl' = ttl
                              ELSE pc' = "send" /\ ttl' = ttl + 1
    BY DEF FinishRow, StopsHere
  <1>7. ASSUME NEW k \in 1 .. Len(probes) + 1
        PROVE  /\ probes'[k].ttl = args.ttlBegin + k - 1
               /\ Len(probes'[k].probeResults) = args.retries
               /\ RetriesOf(probes'[k].ttl, probes'[k].probeResults)
               /\ TargetIn(probes'[k].probeResults) => k = Len(probes) + 1 /\ pc' = "return"
    <2>1. CASE k <= Len(probes)
      <3>1. k \in DOMAIN probes /\ probes'[k] = probes[k]
        BY <2>1, <1>3
      <3>2. ~TargetIn(probes[k].probeResults)
        BY <3>1, <1>2 DEF Path, RowsDone
      <3>3. QED
        BY <3>1, <3>2 DEF Path, RowsDone
    <2>2. CASE ~(k <= Len(probes))
      <3>1. k = Len(probes) + 1 /\ probes'[k] = row
        BY <2>2, <1>3
      <3>2. QED
        BY <3>1, <1>1, <1>3, <1>4, <1>5, <1>6
    <2>3. QED
      BY <2>1, <2>2
  <1>8. RowsDone'
    BY <1>2, <1>3, <1>7 DEF RowsDone, RetriesOf
  <1>9. probes'[Len(probes')] = row /\ probes' # <<>>
    BY <1>3
  <1>10. CASE destinationReached
    <2>1. pc' = "return"
      BY <1>6, <1>10
    <2>2. TargetIn(probes'[Len(probes')].probeResults)
      BY <1>4, <1>5, <1>9, <1>10
    <2>3. RowAtHand'
      BY <2>1 DEF RowAtHand
    <2>4. args'.ttlBegin + Len(probes') <= args'.ttlEnd + 1
      <3>1. args' = args /\ ttl <= args.ttlEnd
        BY <1>2
      <3>2. QED
        BY <3>1, <1>1, <1>3, <1>5
    <2>5. QED
      BY <2>1, <2>2, <2>3, <2>4, <1>2, <1>8, <1>9 DEF Path
  <1>11. CASE ~destinationReached
    <2>1. pc' = "send" /\ ttl' = ttl + 1
      BY <1>6, <1>11
    <2>2. /\ ~TargetIn(probeResults') /\ RetriesOf(ttl, probeResults)' /\ Len(probeResults') = 0
      BY <1>2 DEF TargetIn, RetriesOf, Range
    <2>3. RowAtHand'
      <3>1. (destinationReached <=> TargetIn(probeResults))'
        <4>1. ~destinationReached'
          BY <1>11, Zenon DEF FinishRow
        <4>2. QED
          BY <2>2, <4>1, Zenon
      <3>2. ttl' = args'.ttlBegin + Len(probes') /\ ttl' <= args'.ttlEnd + 1
        <4>1. args' = args /\ ttl <= args.ttlEnd /\ ttl = args.ttlBegin + Len(probes)
          BY <1>2, <1>5
        <4>2. Len(probes') = Len(probes) + 1 /\ Len(probes) \in Nat
          BY <1>3
        <4>3. QED
          BY <4>1, <4>2, <2>1, <1>1
      <3>3. i' = Len(probeResults') /\ i' <= args'.retries
        <4>1. args' = args /\ i' = 0
          BY <1>2
        <4>2. QED
          BY <4>1, <2>2, <1>1
      <3>4. QED
        BY <2>1, <2>2, <3>1, <3>2, <3>3 DEF RowAtHand
    <2>4. QED
      BY <2>1, <2>3, <1>2, <1>8 DEF Path
  <1>12. QED
    BY <1>10, <1>11

(* The call returns past the last ttl or after the target answered.        *)
LEMMA ReturningKeepsPath ==
    ASSUME TypeOK, Path, Return
    PROVE  Path'
  <1>1. /\ pc # "idle" /\ pc' = "idle" /\ outcome' = "returned"
        /\ UNCHANGED <<call, args, ttl, i, probeResults, probes>>
    BY DEF Return, callVars, loopVars
  <1>2. ReachesItsEnd
    <2>1. CASE pc = "return"
      BY <2>1 DEF Path, ReachesItsEnd
    <2>2. CASE pc = "send" /\ ttl > args.ttlEnd
      <3>1. ttl = args.ttlBegin + Len(probes) /\ (probes # <<>> => ttl <= args.ttlEnd + 1)
        BY <2>2 DEF Path, RowAtHand
      <3>2. probes \in Seq(Row) /\ args.ttlBegin \in Nat /\ args.ttlEnd \in Nat
        BY DEF TypeOK, Row
      <3>3. CASE probes = <<>>
        BY <3>1, <3>2, <3>3, <2>2 DEF ReachesItsEnd
      <3>4. CASE probes # <<>>
        <4>1. Len(probes) \in DOMAIN probes
          BY <3>2, <3>4, EmptySeq, LenProperties
        <4>2. probes[Len(probes)].ttl = args.ttlBegin + Len(probes) - 1
          BY <4>1 DEF Path, RowsDone
        <4>3. QED
          BY <4>2, <3>1, <3>2, <3>4, <2>2, LenProperties DEF ReachesItsEnd
      <3>5. QED
        BY <3>3, <3>4
    <2>3. QED
      BY <2>1, <2>2 DEF Return
  <1>3. RowsDone'
    BY <1>1 DEF Path, RowsDone, RetriesOf
  <1>4. QED
    BY <1>1, <1>2, <1>3 DEF Path, RowAtHand, ReachesItsEnd

(* A step that records nothing keeps the path: it goes on waiting for the  *)
(* same packet, or ends the call without results.                          *)
LEMMA SameRowsSamePath ==
    ASSUME Path,
           UNCHANGED <<call, args, ttl, i, destinationReached, probeResults, probes>>,
           \/ UNCHANGED <<pc, packet, outcome>>
           \/ pc \in {"sent", "wait", "receive"} /\ pc' \in {"wait", "receive"}
                 /\ UNCHANGED <<packet, outcome>>
           \/ pc # "idle" /\ pc' = "idle" /\ outcome' = "threw"
    PROVE  Path'
  <1>1. RowsDone'
    BY DEF Path, RowsDone, RetriesOf
  <1>2. RowAtHand'
    BY DEF Path, RowAtHand, RetriesOf
  <1>3. QED
    BY <1>1, <1>2 DEF Path, ReachesItsEnd

(* The steps of the engine keep the path.                                  *)
LEMMA EngineKeepsPath ==
    ASSUME TypeOK, Path, Engine
    PROVE  Path'
  <1>1. CASE SendPacket
    BY <1>1, SendingKeepsPath
  <1>2. CASE FinishRow
    BY <1>2, FinishKeepsPath
  <1>3. CASE Return
    BY <1>3, ReturningKeepsPath
  <1>4. CASE GiveUp
    <2> DEFINE r == failedProbe(packet.probe)
    <2>1. r \in ProbeResult
      BY <1>4, PacketAtHand, FailureIsResult DEF GiveUp
    <2>2. r.probe = packet.probe /\ r.responseSender # Target
      BY DEF failedProbe, Nobody, Target
    <2>3. pc = "wait" /\ Record(r) /\ UNCHANGED <<callVars, ttl, destinationReached, probes, outcome>>
      BY <1>4 DEF GiveUp
    <2> HIDE DEF r
    <2>4. QED
      BY <2>1, <2>2, <2>3, RecordKeepsPath
  <1>5. CASE ReceiveResponse
    <2>1. PICK response \in inbox \ {Stray("malformed")} :
             IF isValid(packet, response)
             THEN /\ Record(successProbe(packet.probe, response))
                  /\ destinationReached' = (destinationReached \/ response.client = Target)
             ELSE /\ pc' = "wait"
                  /\ UNCHANGED <<probeResults, packet, age, i, destinationReached>>
      BY <1>5 DEF ReceiveResponse
    <2>2. pc = "receive" /\ UNCHANGED <<callVars, ttl, probes, outcome>>
      BY <1>5 DEF ReceiveResponse
    <2>3. CASE isValid(packet, response)
      <3> DEFINE r == successProbe(packet.probe, response)
      <3>1. response \in Response
        BY DEF TypeOK, NetworkTypeOK
      <3>2. r \in ProbeResult
        BY <3>1, <2>2, <2>3, PacketAtHand, SuccessIsResult
      <3>3. r.probe = packet.probe /\ r.responseSender = response.client
        BY DEF successProbe
      <3>4. Record(r) /\ destinationReached' = (destinationReached \/ response.client = Target)
        BY <2>1, <2>3
      <3> HIDE DEF r
      <3>5. destinationReached' <=> destinationReached \/ r.responseSender = Target
        BY <3>3, <3>4
      <3>6. QED
        BY <3>2, <3>3, <3>4, <3>5, <2>2, RecordKeepsPath
    <2>4. CASE ~isValid(packet, response)
      BY <2>1, <2>2, <2>4, SameRowsSamePath DEF callVars
    <2>5. QED
      BY <2>3, <2>4
  <1>6. CASE \/ TakesSentAt \/ SendFails \/ WaitsForResponse \/ ReceiveNothing \/ ReceiveThrows
    BY <1>6, SameRowsSamePath
       DEF TakesSentAt, SendFails, MoreToSend, WaitsForResponse, ReceiveNothing, ReceiveThrows, Throw,
           callVars, loopVars
  <1>7. QED
    BY <1>1, <1>2, <1>3, <1>4, <1>5, <1>6 DEF Engine

(* The invariant behind the path holds in every state.                     *)
THEOREM PathIsKept == Spec => []Path
  <1>1. ASSUME TypeOK, Path, [Next]_vars
        PROVE  Path'
    <2>1. CASE beginProbing
      BY <1>1, <2>1, BeginningKeepsPath
    <2>2. CASE Engine
      BY <1>1, <2>2, EngineKeepsPath
    <2>3. CASE Tick \/ World \/ UNCHANGED vars
      BY <1>1, <2>3, SameRowsSamePath DEF Tick, World, vars, callVars, loopVars
    <2>4. QED
      BY <1>1, <2>1, <2>2, <2>3 DEF Next
  <1>2. QED
    BY PathInit, Typing, <1>1, PTL DEF Spec

(* The rows are the consecutive ttls from ttlBegin with the results of     *)
(* their retries in order; none follows one in which the target answered;  *)
(* a call that returns has reached ttlEnd or the target.                   *)
THEOREM RowsArePath == Spec => []RowsAreThePath
  <1>1. Path => RowsAreThePath
    BY DEF Path, RowsDone, RetriesOf, ReachesItsEnd, RowsAreThePath, AnsweredByTarget,
           TargetIn, Last
  <1>2. QED
    BY PathIsKept, <1>1, PTL

-------------------------------------------------------------------------------
(* The ledger of Probing, to which every step of beginProbing is mapped *)

(* Ledger as a function of what it depends on.                             *)
LedgerOf(asked, recorded, held, at) ==
    [p \in asked |->
        CASE \E r \in recorded : r.probe = p ->
                Verdict(CHOOSE r \in recorded : r.probe = p)
          [] held # nullopt /\ p = at -> "outstanding"
          [] OTHER -> "unsent"]

OneResultEach(recorded) ==
    \A r, s \in recorded : r.probe = s.probe => r = s

(* The probe the loops are at.                                             *)
AtHand == [call |-> call, ttl |-> ttl, retry |-> i]

(* Ledger is LedgerOf the variables.                                       *)
LEMMA LedgerIsLedgerOf == Ledger = LedgerOf(Asked, Results, packet, AtHand)
  BY DEF Ledger, LedgerOf, AtHand

(* A probe with one result has its verdict.                                *)
LEMMA LedgerSettled ==
    ASSUME NEW asked, NEW recorded, NEW held, NEW at,
           OneResultEach(recorded),
           NEW r \in recorded, r.probe \in asked,
           held # nullopt => r.probe # at
    PROVE  LedgerOf(asked, recorded, held, at)[r.probe] = Verdict(r)
  <1> DEFINE p == r.probe
             c == CHOOSE s \in recorded : s.probe = p
  <1>1. c \in recorded /\ c.probe = p
    OBVIOUS
  <1>2. c = r
    BY <1>1 DEF OneResultEach
  <1>3. LedgerOf(asked, recorded, held, at)[p] = Verdict(c)
    BY DEF LedgerOf
  <1>4. QED
    BY <1>2, <1>3

(* Also when no packet is held.                                            *)
LEMMA SettledWhenIdle ==
    ASSUME NEW asked, NEW recorded, NEW at,
           OneResultEach(recorded), NEW r \in recorded, r.probe \in asked
    PROVE  LedgerOf(asked, recorded, nullopt, at)[r.probe] = Verdict(r)
  BY LedgerSettled

(* The probe held without one is outstanding.                              *)
LEMMA LedgerOutstanding ==
    ASSUME NEW asked, NEW recorded, NEW held, NEW at,
           held # nullopt, at \in asked,
           \A r \in recorded : r.probe # at
    PROVE  LedgerOf(asked, recorded, held, at)[at] = "outstanding"
  BY DEF LedgerOf

(* Any other is unsent.                                                    *)
LEMMA LedgerUnsent ==
    ASSUME NEW asked, NEW recorded, NEW held, NEW at, NEW p \in asked,
           held # nullopt => p # at,
           \A r \in recorded : r.probe # p
    PROVE  LedgerOf(asked, recorded, held, at)[p] = "unsent"
  BY DEF LedgerOf

(* A packet sent for a probe without a result makes it outstanding, and    *)
(* changes no other probe.                                                 *)
LEMMA LedgerOfSend ==
    ASSUME NEW asked, NEW recorded, NEW held, NEW at,
           OneResultEach(recorded), held # nullopt,
           at \in asked,
           \A r \in recorded : r.probe # at
    PROVE  LedgerOf(asked, recorded, held, at) =
               [LedgerOf(asked, recorded, nullopt, at) EXCEPT ![at] = "outstanding"]
  <1> DEFINE old == LedgerOf(asked, recorded, nullopt, at)
             new == LedgerOf(asked, recorded, held, at)
  <1>1. /\ old = [q \in asked |-> old[q]]
        /\ new = [q \in asked |-> new[q]]
    BY DEF LedgerOf
  <1>2. new[at] = "outstanding"
    BY LedgerOutstanding
  <1>3. ASSUME NEW q \in asked, q # at
        PROVE  new[q] = old[q]
    <2>1. CASE \E r \in recorded : r.probe = q
      <3>1. PICK r \in recorded : r.probe = q
        BY <2>1
      <3>2. new[q] = Verdict(r)
        BY <3>1, <1>3, LedgerSettled
      <3>3. old[q] = Verdict(r)
        BY <3>1, <1>3, LedgerSettled
      <3>4. QED
        BY <3>2, <3>3
    <2>2. CASE \A r \in recorded : r.probe # q
      <3>1. new[q] = "unsent"
        BY <2>2, <1>3, LedgerUnsent
      <3>2. old[q] = "unsent"
        BY <2>2, <1>3, LedgerUnsent
      <3>3. QED
        BY <3>1, <3>2
    <2>3. QED
      BY <2>1, <2>2
  <1> HIDE DEF old, new
  <1>4. QED
    BY <1>1, <1>2, <1>3 DEF old, new

(* A result recorded for the probe held gives it its verdict, and changes  *)
(* no other probe.                                                         *)
LEMMA LedgerOfRecord ==
    ASSUME NEW asked, NEW recorded, NEW held, NEW at, NEW result,
           OneResultEach(recorded),
           result.probe = at, result.probe \in asked,
           \A r \in recorded : r.probe # at
    PROVE  LedgerOf(asked, recorded \cup {result}, nullopt, at) =
               [LedgerOf(asked, recorded, held, at) EXCEPT ![at] = Verdict(result)]
  <1> DEFINE after == recorded \cup {result}
             old == LedgerOf(asked, recorded, held, at)
             new == LedgerOf(asked, after, nullopt, at)
  <1>1. /\ old = [q \in asked |-> old[q]]
        /\ new = [q \in asked |-> new[q]]
    BY DEF LedgerOf
  <1>2. OneResultEach(after)
    BY DEF OneResultEach
  <1>3. /\ \A r \in recorded : r \in after
        /\ result \in after
        /\ \A r \in after : r \in recorded \/ r = result
    OBVIOUS
  <1> HIDE DEF after
  <1>4. new[at] = Verdict(result)
    <2>1. new[result.probe] = Verdict(result)
      <3>1. result \in after
        BY <1>3
      <3>2. QED
        BY <3>1, <1>2, LedgerSettled
    <2>2. QED
      BY <2>1
  <1>5. ASSUME NEW q \in asked, q # at
        PROVE  new[q] = old[q]
    <2>1. CASE \E r \in recorded : r.probe = q
      <3>1. PICK r \in recorded : r.probe = q
        BY <2>1
      <3>2. r \in after
        BY <1>3
      <3>3. new[r.probe] = Verdict(r)
        <4>1. r.probe \in asked
          BY <3>1, <1>5
        <4>2. QED
          BY <4>1, <3>2, <1>2, SettledWhenIdle
      <3>4. old[r.probe] = Verdict(r)
        <4>1. r.probe \in asked
          BY <3>1, <1>5
        <4>2. r.probe # at
          BY <3>1
        <4>3. QED
          BY <4>1, <4>2, LedgerSettled
      <3>5. QED
        BY <3>1, <3>3, <3>4
    <2>2. CASE \A r \in recorded : r.probe # q
      <3>1. \A r \in after : r.probe # q
        BY <2>2, <1>3, <1>5
      <3>2. new[q] = "unsent"
        BY <3>1, <1>5, LedgerUnsent
      <3>3. old[q] = "unsent"
        BY <2>2, <1>5, LedgerUnsent
      <3>4. QED
        BY <3>2, <3>3
    <2>3. QED
      BY <2>1, <2>2
  <1> HIDE DEF old, new
  <1>6. QED
    BY <1>1, <1>4, <1>5 DEF old, new, after

-------------------------------------------------------------------------------
(* Where the results are *)

(* The rows finished are complete.                                         *)
LEMMA FinishedRow ==
    ASSUME TypeOK, Path, NEW k \in DOMAIN probes
    PROVE  /\ k \in 1 .. Len(probes)
           /\ probes[k] \in Range(probes)
           /\ DOMAIN probes[k].probeResults = 1 .. args.retries
           /\ \A j \in 1 .. args.retries :
                 probes[k].probeResults[j].probe =
                     [call |-> call, ttl |-> args.ttlBegin + k - 1, retry |-> j - 1]
  <1>1. probes \in Seq(Row) /\ probes[k] \in Range(probes)
    BY DEF TypeOK, Row, Range
  <1>2. k \in 1 .. Len(probes) /\ probes[k] \in Row
    BY <1>1, LenProperties, ElementOfSeq
  <1>3. DOMAIN probes[k].probeResults = 1 .. Len(probes[k].probeResults)
    BY <1>2, LenProperties DEF Row
  <1>4. QED
    BY <1>1, <1>2, <1>3 DEF Path, RowsDone, RetriesOf

(* A result of a call is that of one retry of a finished row, or of one    *)
(* before i of the row at hand.                                            *)
LEMMA PlaceOfResult ==
    ASSUME TypeOK, Path, pc # "idle", NEW r \in Results
    PROVE  \/ \E k \in 1 .. Len(probes), j \in 1 .. args.retries :
                 /\ r = probes[k].probeResults[j]
                 /\ r.probe = [call |-> call, ttl |-> args.ttlBegin + k - 1, retry |-> j - 1]
           \/ /\ pc # "return"
              /\ \E j \in 1 .. i : /\ r = probeResults[j]
                                   /\ r.probe = [call |-> call, ttl |-> ttl, retry |-> j - 1]
  <1>1. CASE r \in Range(probeResults)
    <2>1. probeResults \in Seq(ProbeResult) /\ DOMAIN probeResults = 1 .. Len(probeResults)
      BY LenProperties DEF TypeOK
    <2>2. PICK j \in 1 .. Len(probeResults) : r = probeResults[j]
      BY <1>1, <2>1 DEF Range
    <2>3. pc # "return"
      <3>1. probeResults # <<>>
        BY <2>1, <2>2, EmptySeq
      <3>2. QED
        BY <3>1 DEF Path
    <2>4. i = Len(probeResults) /\ RetriesOf(ttl, probeResults)
      BY <2>3 DEF Path, RowAtHand
    <2>5. QED
      BY <2>1, <2>2, <2>3, <2>4 DEF RetriesOf
  <1>2. CASE r \in UNION {Range(row.probeResults) : row \in Range(probes)}
    <2>1. PICK k \in DOMAIN probes : r \in Range(probes[k].probeResults)
      BY <1>2 DEF Range
    <2>2. PICK j \in 1 .. args.retries : r = probes[k].probeResults[j]
      BY <2>1, FinishedRow DEF Range
    <2>3. QED
      BY <2>2, FinishedRow
  <1>3. QED
    BY <1>1, <1>2 DEF Results

(* A sum determines its second term.                                       *)
LEMMA SameTerm ==
    ASSUME NEW a \in Int, NEW m \in Int, NEW n \in Int, a + m - 1 = a + n - 1
    PROVE  m = n
  OBVIOUS

(* No probe has two results.                                               *)
LEMMA OneResult ==
    ASSUME TypeOK, Path, pc # "idle"
    PROVE  OneResultEach(Results)
  <1> DEFINE Done(r, k, j) ==
                 /\ r = probes[k].probeResults[j]
                 /\ r.probe = [call |-> call, ttl |-> args.ttlBegin + k - 1, retry |-> j - 1]
             OfRow(r, j) ==
                 /\ r = probeResults[j]
                 /\ r.probe = [call |-> call, ttl |-> ttl, retry |-> j - 1]
  <1>1. SUFFICES ASSUME NEW r \in Results, NEW s \in Results,
                        r.probe = s.probe
                 PROVE  r = s
    BY DEF OneResultEach
  <1>2. r.probe.ttl = s.probe.ttl /\ r.probe.retry = s.probe.retry
    BY <1>1
  <1>3. args.ttlBegin \in Int /\ args.retries \in Int /\ i \in Int /\ Len(probes) \in Int
    BY LenProperties DEF TypeOK
  <1>4. \A x \in Results : \/ \E k \in 1 .. Len(probes), j \in 1 .. args.retries : Done(x, k, j)
                           \/ pc # "return" /\ \E j \in 1 .. i : OfRow(x, j)
    BY PlaceOfResult
  <1>5. \A x, k, j : Done(x, k, j) =>
           /\ x = probes[k].probeResults[j]
           /\ x.probe.ttl = args.ttlBegin + k - 1 /\ x.probe.retry = j - 1
    OBVIOUS
  <1>6. \A x, j : OfRow(x, j) =>
           x = probeResults[j] /\ x.probe.ttl = ttl /\ x.probe.retry = j - 1
    OBVIOUS
  <1> HIDE DEF Done, OfRow
  <1>7. ASSUME NEW k \in 1 .. Len(probes), NEW j \in 1 .. args.retries, Done(r, k, j),
               NEW m \in 1 .. Len(probes), NEW n \in 1 .. args.retries, Done(s, m, n)
        PROVE  r = s
    <2>1. k \in Int /\ m \in Int /\ j \in Int /\ n \in Int
      BY <1>3
    <2>2. args.ttlBegin + k - 1 = args.ttlBegin + m - 1 /\ j - 1 = n - 1
      BY <1>2, <1>5, <1>7
    <2>3. k = m
      BY <1>3, <2>1, <2>2, SameTerm
    <2>4. j = n
      BY <2>1, <2>2
    <2>5. QED
      BY <2>3, <2>4, <1>5, <1>7
  <1>8. ASSUME pc # "return",
               NEW j \in 1 .. i, OfRow(r, j), NEW n \in 1 .. i, OfRow(s, n)
        PROVE  r = s
    <2>1. j \in Int /\ n \in Int /\ j - 1 = n - 1
      BY <1>2, <1>3, <1>6, <1>8
    <2>2. j = n
      BY <2>1
    <2>3. QED
      BY <2>2, <1>6, <1>8
  <1>9. ASSUME NEW x \in Results, NEW y \in Results, x.probe.ttl = y.probe.ttl,
               pc # "return", NEW k \in 1 .. Len(probes), NEW j, Done(x, k, j),
               NEW n, OfRow(y, n)
        PROVE  FALSE
    <2>1. ttl = args.ttlBegin + Len(probes)
      BY <1>9 DEF Path, RowAtHand
    <2>2. args.ttlBegin + k - 1 = ttl
      BY <1>5, <1>6, <1>9
    <2>3. k \in Int /\ k <= Len(probes)
      BY <1>3
    <2>4. QED
      BY <2>1, <2>2, <2>3, <1>3
  <1>10. QED
    <2>1. CASE \E k \in 1 .. Len(probes), j \in 1 .. args.retries : Done(r, k, j)
      <3>1. CASE \E k \in 1 .. Len(probes), j \in 1 .. args.retries : Done(s, k, j)
        BY <2>1, <3>1, <1>7
      <3>2. CASE pc # "return" /\ \E j \in 1 .. i : OfRow(s, j)
        BY <2>1, <3>2, <1>2, <1>9
      <3>3. QED
        BY <3>1, <3>2, <1>4
    <2>2. CASE pc # "return" /\ \E j \in 1 .. i : OfRow(r, j)
      <3>1. CASE \E k \in 1 .. Len(probes), j \in 1 .. args.retries : Done(s, k, j)
        BY <2>2, <3>1, <1>2, <1>9
      <3>2. CASE \E j \in 1 .. i : OfRow(s, j)
        BY <2>2, <3>2, <1>8
      <3>3. QED
        BY <3>1, <3>2, <1>4
    <2>3. QED
      BY <2>1, <2>2, <1>4

(* The numbers of the loops.                                               *)
LEMMA LoopTypes ==
    ASSUME TypeOK
    PROVE  /\ args.ttlBegin \in Nat /\ args.ttlEnd \in Nat /\ args.retries \in Nat
           /\ ttl \in Nat /\ i \in Nat /\ Len(probes) \in Nat
  BY LenProperties DEF TypeOK

(* Every result is one of a probe the call was asked for, and while the    *)
(* call is under way one before the probe at hand.                         *)
LEMMA ResultIsAsked ==
    ASSUME TypeOK, Path, pc # "idle", NEW r \in Results
    PROVE  /\ r.probe \in Asked
           /\ pc # "return" => \/ r.probe.ttl < ttl
                               \/ r.probe.ttl = ttl /\ r.probe.retry < i
  <1> USE LoopTypes
  <1>1. pc # "return" => /\ ttl = args.ttlBegin + Len(probes)
                         /\ probes # <<>> => ttl <= args.ttlEnd + 1
                         /\ i > 0 => ttl <= args.ttlEnd
                         /\ i <= args.retries
    BY DEF Path, RowAtHand
  <1>2. pc = "return" => args.ttlBegin + Len(probes) <= args.ttlEnd + 1
    BY DEF Path
  <1>3. CASE \E k \in 1 .. Len(probes), j \in 1 .. args.retries :
                 /\ r = probes[k].probeResults[j]
                 /\ r.probe = [call |-> call, ttl |-> args.ttlBegin + k - 1, retry |-> j - 1]
    <2>1. PICK k \in 1 .. Len(probes), j \in 1 .. args.retries :
                 r.probe = [call |-> call, ttl |-> args.ttlBegin + k - 1, retry |-> j - 1]
      BY <1>3
    <2>2. r.probe.call = call /\ r.probe.ttl = args.ttlBegin + k - 1 /\ r.probe.retry = j - 1
      BY <2>1
    <2>3. Len(probes) > 0 /\ probes # <<>>
      BY <2>1
    <2>4. args.ttlBegin + Len(probes) <= args.ttlEnd + 1
      BY <1>1, <1>2, <2>3
    <2>5. r.probe.ttl \in args.ttlBegin .. args.ttlEnd /\ r.probe.retry \in 0 .. args.retries - 1
      BY <2>2, <2>4
    <2>6. r.probe.ttl < args.ttlBegin + Len(probes)
      BY <2>2
    <2>7. r.probe \in Asked
      BY <2>1, <2>2, <2>5 DEF Asked
    <2>8. QED
      BY <1>1, <2>6, <2>7
  <1>4. CASE pc # "return" /\ \E j \in 1 .. i : /\ r = probeResults[j]
                                   /\ r.probe = [call |-> call, ttl |-> ttl, retry |-> j - 1]
    <2>1. PICK j \in 1 .. i : r.probe = [call |-> call, ttl |-> ttl, retry |-> j - 1]
      BY <1>4
    <2>2. r.probe.call = call /\ r.probe.ttl = ttl /\ r.probe.retry = j - 1
      BY <2>1
    <2>3. ttl \in args.ttlBegin .. args.ttlEnd /\ r.probe.retry \in 0 .. args.retries - 1
          /\ r.probe.retry < i
      BY <1>1, <1>4, <2>1, <2>2
    <2>4. QED
      BY <1>1, <1>4, <2>2, <2>3 DEF Asked
  <1>5. QED
    BY <1>3, <1>4, PlaceOfResult

(* Every probe asked for before the one at hand has a result.              *)
LEMMA EarlierHasResult ==
    ASSUME TypeOK, Path, pc \notin {"idle", "return"}, NEW p \in Asked,
           p.ttl < ttl \/ (p.ttl = ttl /\ p.retry < i)
    PROVE  \E r \in Results : r.probe = p
  <1> USE LoopTypes
  <1>1. /\ p.ttl \in args.ttlBegin .. args.ttlEnd
        /\ p.retry \in 0 .. args.retries - 1
        /\ p = [call |-> call, ttl |-> p.ttl, retry |-> p.retry]
    BY DEF Asked
  <1>2. /\ ttl = args.ttlBegin + Len(probes)
        /\ i = Len(probeResults)
        /\ RetriesOf(ttl, probeResults)
    BY DEF Path, RowAtHand
  <1> DEFINE j == p.retry + 1
  <1>3. CASE p.ttl < ttl
    <2> DEFINE k == p.ttl - args.ttlBegin + 1
    <2>1. k \in 1 .. Len(probes) /\ j \in 1 .. args.retries
      <3>1. p.ttl \in Int /\ p.ttl >= args.ttlBegin /\ p.ttl < args.ttlBegin + Len(probes)
        BY <1>1, <1>2, <1>3
      <3>2. k \in 1 .. Len(probes)
        BY <3>1
      <3>3. j \in 1 .. args.retries
        BY <1>1
      <3>4. QED
        BY <3>2, <3>3
    <2>2. k \in DOMAIN probes
      BY <2>1, LenProperties DEF TypeOK
    <2>3. args.ttlBegin + k - 1 = p.ttl /\ j - 1 = p.retry
      BY <1>1
    <2> HIDE DEF k, j
    <2> DEFINE r == probes[k].probeResults[j]
    <2>4. r.probe = [call |-> call, ttl |-> p.ttl, retry |-> p.retry]
      <3>1. probes[k].probeResults[j].probe =
                [call |-> call, ttl |-> args.ttlBegin + k - 1, retry |-> j - 1]
        BY <2>1, <2>2, FinishedRow
      <3>2. QED
        BY <3>1, <2>3
    <2>5. r \in Range(probes[k].probeResults) /\ probes[k] \in Range(probes)
      BY <2>1, <2>2, FinishedRow DEF Range
    <2>6. r \in Results
      BY <2>5 DEF Results
    <2>7. r.probe = p
      BY <2>4, <1>1
    <2>8. QED
      BY <2>6, <2>7
  <1>4. CASE p.ttl = ttl /\ p.retry < i
    <2>1. j \in DOMAIN probeResults
      <3>1. j \in 1 .. Len(probeResults)
        BY <1>1, <1>2, <1>4
      <3>2. QED
        BY <3>1, LenProperties DEF TypeOK
    <2>2. j - 1 = p.retry
      BY <1>1
    <2> HIDE DEF j
    <2>3. probeResults[j].probe = [call |-> call, ttl |-> p.ttl, retry |-> p.retry]
      BY <2>1, <2>2, <1>2, <1>4 DEF RetriesOf
    <2>4. probeResults[j] \in Results
      BY <2>1 DEF Results, Range
    <2>5. probeResults[j].probe = p
      BY <2>3, <1>1
    <2>6. QED
      BY <2>4, <2>5
  <1>5. QED
    BY <1>3, <1>4

(* The probe at hand is one the call was asked for, and has no result.     *)
LEMMA ProbeAtHand ==
    ASSUME TypeOK, Path, pc \notin {"idle", "return"},
           ttl <= args.ttlEnd, i < args.retries
    PROVE  /\ AtHand \in Asked
           /\ \A r \in Results : r.probe # AtHand
  <1> USE LoopTypes
  <1>1. ttl = args.ttlBegin + Len(probes)
    BY DEF Path, RowAtHand
  <1>2. ttl \in args.ttlBegin .. args.ttlEnd /\ i \in 0 .. args.retries - 1
    BY <1>1
  <1>3. ASSUME NEW r \in Results, r.probe = AtHand
        PROVE  FALSE
    <2>1. r.probe.ttl = ttl /\ r.probe.retry = i
      BY <1>3 DEF AtHand
    <2>2. r.probe.ttl < ttl \/ r.probe.retry < i
      BY ResultIsAsked
    <2>3. QED
      BY <2>1, <2>2
  <1>4. QED
    BY <1>2, <1>3 DEF Asked, AtHand

-------------------------------------------------------------------------------
(* Every step of the engine is a step of the promise, or none *)

(* The ledger after a step.                                                *)
LEMMA LedgerNext ==
    Ledger' = LedgerOf(Asked', Results', packet', AtHand')
  BY DEF Ledger, LedgerOf, AtHand, Asked

(* Without a packet the loops do not show.                                 *)
LEMMA LedgerWithoutPacket ==
    ASSUME NEW asked, NEW recorded, NEW p, NEW q
    PROVE  LedgerOf(asked, recorded, nullopt, p) = LedgerOf(asked, recorded, nullopt, q)
  BY DEF LedgerOf

(* The same probes are asked for throughout a call.                        *)
LEMMA SameAsked ==
    ASSUME UNCHANGED <<call, args>>
    PROVE  Asked' = Asked
  BY DEF Asked

(* A step that leaves the results and the packet shows nothing, nor does   *)
(* one of the loops while no packet is held.                               *)
LEMMA SameLedger ==
    ASSUME UNCHANGED <<call, args, packet>>, Results' = Results,
           UNCHANGED <<ttl, i>> \/ packet = nullopt
    PROVE  Ledger' = Ledger
  <1>1. CASE UNCHANGED <<ttl, i>>
    BY <1>1, LedgerIsLedgerOf, LedgerNext, SameAsked DEF AtHand
  <1>2. CASE packet = nullopt
    BY <1>2, LedgerIsLedgerOf, LedgerNext, SameAsked, LedgerWithoutPacket
  <1>3. QED
    BY <1>1, <1>2

(* A call under way has not come out yet.                                  *)
LEMMA UnderWay ==
    ASSUME Path, pc # "idle"
    PROVE  outcome = "none"
  BY DEF Path

(* What the promise is shown besides call, Asked and Ledger.               *)
PhaseShown  == IF pc = "idle" THEN "idle" ELSE "probing"
ReportShown == IF outcome = "returned" THEN Verdicts(probes) ELSE {}

(* A step that ends no call, records nothing and sends nothing is none of  *)
(* the promise.                                                            *)
LEMMA NothingHappens ==
    ASSUME UNCHANGED <<call, args, outcome>>, Ledger' = Ledger,
           UNCHANGED pc \/ (pc # "idle" /\ pc' # "idle"),
           UNCHANGED probes \/ outcome # "returned"
    PROVE  UNCHANGED Promise!vars
  <1>1. Asked' = Asked
    BY SameAsked
  <1>2. PhaseShown' = PhaseShown
    BY DEF PhaseShown
  <1>3. ReportShown' = ReportShown
    BY DEF ReportShown, Verdicts
  <1>4. QED
    BY <1>1, <1>2, <1>3 DEF Promise!vars, PhaseShown, ReportShown

(* The probes asked for are those of the arguments, named by the call.     *)
LEMMA AskedIsNamed ==
    ASSUME NEW n, NEW a
    PROVE  Promise!Named(n, AskedByArgs(a)) =
              [call : {n}, ttl : a.ttlBegin .. a.ttlEnd, retry : 0 .. a.retries - 1]
  <1> DEFINE ttls == a.ttlBegin .. a.ttlEnd
             tries == 0 .. a.retries - 1
             all == [call : {n}, ttl : ttls, retry : tries]
             args1 == [ttl : ttls, retry : tries]
  <1> HIDE DEF ttls, tries
  <1>1. ASSUME NEW p \in args1
        PROVE  [call |-> n, ttl |-> p.ttl, retry |-> p.retry] \in all
    OBVIOUS
  <1>2. ASSUME NEW q \in all
        PROVE  \E p \in args1 : q = [call |-> n, ttl |-> p.ttl, retry |-> p.retry]
    <2>1. [ttl |-> q.ttl, retry |-> q.retry] \in args1
      OBVIOUS
    <2>2. q = [call |-> n, ttl |-> q.ttl, retry |-> q.retry]
      OBVIOUS
    <2>3. QED
      BY <2>1, <2>2
  <1>3. Promise!Named(n, AskedByArgs(a)) =
           {[call |-> n, ttl |-> p.ttl, retry |-> p.retry] : p \in args1}
    BY DEF Promise!Named, AskedByArgs, ttls, tries
  <1> HIDE DEF all, args1
  <1>4. {[call |-> n, ttl |-> p.ttl, retry |-> p.retry] : p \in args1} = all
    BY <1>1, <1>2
  <1>5. QED
    BY <1>3, <1>4 DEF all, ttls, tries

(* Beginning a call: nothing is left of the one before.                    *)
LEMMA BeginningIsBegin ==
    ASSUME beginProbing
    PROVE  Promise!Begin
  <1>1. /\ pc = "idle" /\ pc' # "idle" /\ call' = call + 1 /\ outcome' = "none"
        /\ probes' = <<>> /\ probeResults' = <<>> /\ packet' = nullopt
    BY DEF beginProbing
  <1>2. PICK a \in Args : args' = a
    BY DEF beginProbing
  <1>3. Promise!LeftOver = {}
    BY DEF Promise!LeftOver
  <1>4. Asked' = Promise!Named(call', AskedByArgs(a))
    BY <1>2, AskedIsNamed DEF Asked
  <1>5. Ledger' = [p \in Asked' |-> "unsent"]
    <2>1. Results' = {}
      BY <1>1 DEF Results, Range
    <2>2. Ledger' = LedgerOf(Asked', {}, nullopt, AtHand')
      BY <1>1, <2>1, LedgerNext
    <2>3. QED
      BY <2>2 DEF LedgerOf
  <1>6. PhaseShown = "idle" /\ PhaseShown' = "probing"
    BY <1>1 DEF PhaseShown
  <1>7. ReportShown' = {}
    BY <1>1 DEF ReportShown
  <1>8. /\ \E asks \in {AskedByArgs(b) : b \in Args} :
              Asked' = Promise!Named(call', asks) \cup Promise!LeftOver
        /\ Ledger' = [p \in Asked' |->
                          IF p \in Promise!LeftOver THEN "outstanding" ELSE "unsent"]
    BY <1>3, <1>4, <1>5, AskedByArgs(a) \in {AskedByArgs(b) : b \in Args}
  <1>9. QED
    BY <1>1, <1>6, <1>7, <1>8 DEF Promise!Begin, PhaseShown, ReportShown

(* Sending a packet.                                                       *)
LEMMA SendingIsSend ==
    ASSUME TypeOK, Path, SendPacket
    PROVE  \E p \in Asked : Promise!Send(p)
  <1> DEFINE p == AtHand
  <1>1. /\ pc = "send" /\ pc' = "sent" /\ ttl <= args.ttlEnd /\ i < args.retries
        /\ UNCHANGED <<call, args, ttl, i, probeResults, probes, outcome>>
    BY DEF SendPacket, MoreToSend, callVars, loopVars
  <1>2. packet = nullopt /\ packet' # nullopt
    <2>1. TypeOK'
      BY SendType
    <2>2. QED
      BY <2>1, <1>1 DEF TypeOK, nullopt
  <1>3. outcome = "none"
    BY <1>1, UnderWay
  <1>4. p \in Asked /\ \A r \in Results : r.probe # p
    BY <1>1, ProbeAtHand
  <1>5. OneResultEach(Results) /\ Results' = Results
    BY <1>1, OneResult DEF Results
  <1>6. /\ Ledger = LedgerOf(Asked, Results, nullopt, AtHand)
        /\ Ledger' = LedgerOf(Asked, Results, packet', AtHand)
    BY <1>1, <1>2, <1>5, LedgerIsLedgerOf, LedgerNext, SameAsked DEF AtHand
  <1>7. Ledger' = [Ledger EXCEPT ![p] = "outstanding"]
    BY <1>2, <1>4, <1>5, <1>6, LedgerOfSend
  <1>8. Ledger[p] = "unsent"
    BY <1>4, <1>6, LedgerUnsent
  <1>9. ASSUME NEW q \in Asked, Ledger[q] = "unsent"
        PROVE  ~Promise!Before(q, p)
    <2>1. SUFFICES ASSUME q.ttl < ttl \/ (q.ttl = ttl /\ q.retry < i)
                   PROVE  FALSE
      BY DEF Promise!Before, AtHand
    <2>2. PICK r \in Results : r.probe = q
      BY <2>1, <1>1, EarlierHasResult
    <2>3. r.probe \in Asked
      BY <2>2
    <2>4. Ledger[r.probe] = Verdict(r)
      BY <2>3, <1>5, <1>6, SettledWhenIdle
    <2>5. QED
      BY <2>2, <2>4, <1>9 DEF Verdict, Target
  <1> HIDE DEF p
  <1>10. Promise!Send(p)
    BY <1>1, <1>3, <1>7, <1>8, <1>9, SameAsked DEF Promise!Send
  <1>11. QED
    BY <1>4, <1>10

(* Recording the result of the packet held.                                *)
LEMMA RecordingIsSettle ==
    ASSUME TypeOK, Path, pc \in {"wait", "receive"},
           NEW result \in ProbeResult, result.probe = packet.probe, Record(result),
           UNCHANGED <<callVars, ttl, probes, outcome>>
    PROVE  \E p \in Asked, verdict \in Promise!Verdicts : Promise!Settle(p, verdict)
  <1> DEFINE p == AtHand
  <1>1. /\ pc' = "send" /\ packet' = nullopt /\ packet # nullopt
        /\ UNCHANGED <<call, args, ttl, probes, outcome>>
    BY PacketAtHand DEF Record, callVars
  <1>2. /\ packet.probe = [call |-> call, ttl |-> ttl, retry |-> i]
        /\ i < args.retries /\ ttl <= args.ttlEnd
    BY DEF Path, RowAtHand
  <1>3. result.probe = p
    BY <1>2 DEF AtHand
  <1>4. p \in Asked /\ \A r \in Results : r.probe # p
    BY <1>2, ProbeAtHand
  <1>5. OneResultEach(Results) /\ Results' = Results \cup {result}
    BY <1>1, OneResult, ResultsOfRecord
  <1>6. /\ Ledger = LedgerOf(Asked, Results, packet, AtHand)
        /\ Ledger' = LedgerOf(Asked, Results \cup {result}, nullopt, AtHand)
    <2>1. Ledger' = LedgerOf(Asked, Results \cup {result}, nullopt, AtHand')
      BY <1>1, <1>5, LedgerNext, SameAsked
    <2>2. QED
      BY <2>1, LedgerIsLedgerOf, LedgerWithoutPacket
  <1>7. Ledger' = [Ledger EXCEPT ![p] = Verdict(result)]
    <2>1. result.probe = AtHand /\ result.probe \in Asked
      BY <1>3, <1>4
    <2>2. \A r \in Results : r.probe # AtHand
      BY <1>4
    <2>3. LedgerOf(Asked, Results \cup {result}, nullopt, AtHand) =
             [LedgerOf(Asked, Results, packet, AtHand) EXCEPT ![AtHand] = Verdict(result)]
      BY <2>1, <2>2, <1>5, LedgerOfRecord
    <2>4. QED
      BY <2>3, <1>6
  <1>8. Ledger[p] = "outstanding"
    BY <1>1, <1>4, <1>6, LedgerOutstanding
  <1>9. Verdict(result) \in Promise!Verdicts
    BY DEF Verdict, Promise!Verdicts
  <1>10. outcome = "none"
    BY UnderWay
  <1> HIDE DEF p
  <1>11. Promise!Settle(p, Verdict(result))
    BY <1>1, <1>7, <1>8, <1>10, SameAsked DEF Promise!Settle
  <1>12. QED
    BY <1>4, <1>9, <1>11

(* Ending the call by an exception.                                        *)
LEMMA ThrowingIsAbort ==
    ASSUME Path, pc # "idle", Throw
    PROVE  Promise!Abort
  <1>1. /\ pc' = "idle" /\ outcome' = "threw" /\ outcome = "none"
        /\ UNCHANGED <<call, args, ttl, i, packet, probeResults, probes>>
    BY UnderWay DEF Throw, callVars, loopVars
  <1>2. Ledger' = Ledger
    <2>1. Results' = Results
      BY <1>1 DEF Results
    <2>2. QED
      BY <1>1, <2>1, SameLedger
  <1>3. Asked' = Asked
    BY <1>1, SameAsked
  <1>4. PhaseShown = "probing" /\ PhaseShown' = "idle"
    BY <1>1 DEF PhaseShown
  <1>5. ReportShown' = ReportShown
    BY <1>1 DEF ReportShown
  <1>6. QED
    BY <1>1, <1>2, <1>3, <1>4, <1>5 DEF Promise!Abort, Promise!Ends, PhaseShown, ReportShown

(* When a call returns its results are those of its rows, and a result of  *)
(* the target is in the last one.                                          *)
LEMMA ResultsAtReturn ==
    ASSUME TypeOK, Path, Return
    PROVE  /\ packet = nullopt
           /\ Results = UNION {Range(row.probeResults) : row \in Range(probes)}
           /\ \A r, s \in Results : r.responseSender = Target => s.probe.ttl <= r.probe.ttl
  <1> USE LoopTypes
  <1>1. pc \in {"send", "return"} /\ (pc = "send" => ttl > args.ttlEnd)
    BY DEF Return
  <1>2. packet = nullopt
    BY <1>1 DEF TypeOK
  <1>3. pc = "send" => i = 0
    BY <1>1 DEF Path, RowAtHand
  <1>4. probeResults = <<>>
    <2>1. CASE pc = "send"
      <3>1. probeResults \in Seq(ProbeResult) /\ Len(probeResults) = 0
        BY <2>1, <1>3 DEF TypeOK, Path, RowAtHand
      <3>2. QED
        BY <3>1, EmptySeq
    <2>2. CASE pc = "return"
      BY <2>2 DEF Path
    <2>3. QED
      BY <2>1, <2>2, <1>1
  <1>5. Results = UNION {Range(row.probeResults) : row \in Range(probes)}
    BY <1>4 DEF Results, Range
  <1>6. \A r \in Results : \E k \in 1 .. Len(probes) :
           /\ r.probe.ttl = args.ttlBegin + k - 1
           /\ r \in Range(probes[k].probeResults)
           /\ k \in DOMAIN probes
    <2>1. SUFFICES ASSUME NEW r \in Results
                   PROVE  \E k \in 1 .. Len(probes) :
                             /\ r.probe.ttl = args.ttlBegin + k - 1
                             /\ r \in Range(probes[k].probeResults)
                             /\ k \in DOMAIN probes
      OBVIOUS
    <2>2. PICK k \in DOMAIN probes : r \in Range(probes[k].probeResults)
      BY <1>5 DEF Range
    <2>3. PICK j \in 1 .. args.retries : r = probes[k].probeResults[j]
      BY <2>2, FinishedRow DEF Range
    <2>4. r.probe = [call |-> call, ttl |-> args.ttlBegin + k - 1, retry |-> j - 1]
      BY <2>3, FinishedRow
    <2>5. r.probe.ttl = args.ttlBegin + k - 1
      BY <2>4
    <2>6. QED
      BY <2>2, <2>5, FinishedRow
  <1>7. ASSUME NEW r \in Results, NEW s \in Results, r.responseSender = Target
        PROVE  s.probe.ttl <= r.probe.ttl
    <2>1. PICK k \in 1 .. Len(probes) : /\ r.probe.ttl = args.ttlBegin + k - 1
                                        /\ r \in Range(probes[k].probeResults)
                                        /\ k \in DOMAIN probes
      BY <1>6
    <2>2. TargetIn(probes[k].probeResults)
      BY <2>1, <1>7 DEF TargetIn
    <2>3. k = Len(probes)
      BY <2>1, <2>2 DEF Path, RowsDone
    <2>4. PICK m \in 1 .. Len(probes) : s.probe.ttl = args.ttlBegin + m - 1
      BY <1>6
    <2>5. m \in Int /\ m <= Len(probes)
      OBVIOUS
    <2>6. QED
      BY <2>1, <2>3, <2>4, <2>5
  <1>8. QED
    BY <1>2, <1>5, <1>7

(* Returning the rows.                                                     *)
LEMMA ReturningIsReturn ==
    ASSUME TypeOK, Path, Return
    PROVE  Promise!Return
  <1> DEFINE A == Asked
             reached(q) == \A r \in A : Ledger[r] = Target => q.ttl <= r.ttl
             settled == {q \in A : Ledger[q] \in Promise!Verdicts /\ reached(q)}
             reported == {[probe |-> q, verdict |-> Ledger[q]] : q \in settled}
  <1>1. /\ pc # "idle" /\ pc' = "idle" /\ outcome' = "returned" /\ outcome = "none"
        /\ UNCHANGED <<call, args, ttl, i, packet, probeResults, probes>>
    BY UnderWay DEF Return, callVars, loopVars
  <1>2. Ledger = LedgerOf(A, Results, nullopt, AtHand) /\ OneResultEach(Results)
    BY <1>1, LedgerIsLedgerOf, ResultsAtReturn, OneResult
  <1>3. Ledger' = Ledger
    <2>1. Results' = Results
      BY <1>1 DEF Results
    <2>2. QED
      BY <1>1, <2>1, SameLedger
  <1>4. \A r \in Results : r.probe \in A /\ Ledger[r.probe] = Verdict(r)
    <2>1. SUFFICES ASSUME NEW r \in Results
                   PROVE  r.probe \in A /\ Ledger[r.probe] = Verdict(r)
      OBVIOUS
    <2>2. r.probe \in A
      BY <1>1, ResultIsAsked
    <2>3. QED
      BY <2>2, <1>2, SettledWhenIdle
  <1>5. \A q \in A : Ledger[q] # "unsent" => \E r \in Results : r.probe = q
    BY <1>2, LedgerUnsent
  <1>6. \A r \in Results : /\ Verdict(r) \in Promise!Verdicts
                           /\ Verdict(r) = Target => r.responseSender = Target
    BY DEF Verdict, Promise!Verdicts, Target
  <1>7. Verdicts(probes) = {[probe |-> r.probe, verdict |-> Verdict(r)] : r \in Results}
    BY ResultsAtReturn DEF Verdicts
  <1> HIDE DEF A
  <1>8. ASSUME NEW r \in Results
        PROVE  [probe |-> r.probe, verdict |-> Verdict(r)] \in reported
    <2>1. ASSUME NEW q \in A, Ledger[q] = Target
          PROVE  r.probe.ttl <= q.ttl
      <3>1. PICK s \in Results : s.probe = q
        BY <2>1, <1>5 DEF Target
      <3>2. s.responseSender = Target
        BY <3>1, <2>1, <1>4, <1>6
      <3>3. r.probe.ttl <= s.probe.ttl
        BY <3>2, ResultsAtReturn
      <3>4. q.ttl = s.probe.ttl /\ r.probe.ttl = r.probe.ttl
        BY <3>1
      <3>5. QED
        BY <3>3, <3>4
    <2>2. r.probe \in settled
      BY <2>1, <1>4, <1>6
    <2>3. QED
      BY <2>2, <1>4
  <1>9. ASSUME NEW q \in settled
        PROVE  [probe |-> q, verdict |-> Ledger[q]]
                   \in {[probe |-> r.probe, verdict |-> Verdict(r)] : r \in Results}
    <2>1. Ledger[q] # "unsent"
      BY DEF Promise!Verdicts, Target
    <2>2. PICK r \in Results : r.probe = q
      BY <2>1, <1>5
    <2>3. QED
      BY <2>2, <1>4
  <1>10. Verdicts(probes) = reported
    BY <1>7, <1>8, <1>9
  <1>11. Asked' = Asked
    BY <1>1, SameAsked
  <1>12. PhaseShown = "probing" /\ PhaseShown' = "idle"
    BY <1>1 DEF PhaseShown
  <1>13. ReportShown' = Verdicts(probes)
    BY <1>1 DEF ReportShown, Verdicts
  <1>14. ReportShown' =
            {[probe |-> q, verdict |-> Ledger[q]] : q \in
                {q \in Asked :
                    /\ Ledger[q] \in Promise!Verdicts
                    /\ \A r \in Asked : Ledger[r] = Target => q.ttl <= r.ttl}}
    BY <1>10, <1>13 DEF A
  <1>15. QED
    BY <1>1, <1>3, <1>11, <1>12, <1>14
       DEF Promise!Return, Promise!Ends, PhaseShown, ReportShown

-------------------------------------------------------------------------------
(* The refinement *)

(* A fresh object is where the promise starts.                             *)
LEMMA InitIsInit == Init => Promise!Init
  <1> SUFFICES ASSUME Init
               PROVE  Promise!Init
    OBVIOUS
  <1>1. Asked = {}
    <2>1. 0 .. args.retries - 1 = {}
      BY DEF Init
    <2>2. QED
      BY <2>1 DEF Asked
  <1>2. Ledger = <<>>
    BY <1>1 DEF Ledger
  <1>3. QED
    BY <1>1, <1>2 DEF Init, Promise!Init

(* Every step of the engine is a step of the promise or none.              *)
LEMMA EngineKeepsPromise ==
    ASSUME TypeOK, Path, Engine
    PROVE  [Promise!Next]_(Promise!vars)
  <1>1. CASE SendPacket
    <2>1. \E p \in Asked : Promise!Send(p)
      BY <1>1, SendingIsSend
    <2>2. QED
      BY <2>1 DEF Promise!Next
  <1>2. CASE SendFails \/ ReceiveThrows
    <2>1. pc # "idle" /\ Throw
      BY <1>2 DEF SendFails, MoreToSend, ReceiveThrows
    <2>2. QED
      BY <2>1, ThrowingIsAbort DEF Promise!Next
  <1>3. CASE Return
    BY <1>3, ReturningIsReturn DEF Promise!Next
  <1>4. CASE GiveUp
    <2> DEFINE r == failedProbe(packet.probe)
    <2>1. r \in ProbeResult /\ r.probe = packet.probe
      BY <1>4, PacketAtHand, FailureIsResult DEF GiveUp, failedProbe
    <2>2. pc = "wait" /\ Record(r) /\ UNCHANGED <<callVars, ttl, probes, outcome>>
      BY <1>4 DEF GiveUp
    <2> HIDE DEF r
    <2>3. \E p \in Asked, verdict \in Promise!Verdicts : Promise!Settle(p, verdict)
      BY <2>1, <2>2, RecordingIsSettle
    <2>4. QED
      BY <2>3 DEF Promise!Next
  <1>5. CASE ReceiveResponse
    <2>1. PICK response \in inbox \ {Stray("malformed")} :
             IF isValid(packet, response)
             THEN /\ Record(successProbe(packet.probe, response))
                  /\ destinationReached' = (destinationReached \/ response.client = Target)
             ELSE /\ pc' = "wait"
                  /\ UNCHANGED <<probeResults, packet, age, i, destinationReached>>
      BY <1>5 DEF ReceiveResponse
    <2>2. pc = "receive" /\ UNCHANGED <<callVars, ttl, probes, outcome>>
      BY <1>5 DEF ReceiveResponse
    <2>3. outcome = "none"
      BY <2>2, UnderWay
    <2>4. CASE isValid(packet, response)
      <3> DEFINE r == successProbe(packet.probe, response)
      <3>1. response \in Response
        BY DEF TypeOK, NetworkTypeOK
      <3>2. r \in ProbeResult /\ r.probe = packet.probe
        BY <3>1, <2>2, <2>4, PacketAtHand, SuccessIsResult DEF successProbe
      <3>3. Record(r)
        BY <2>1, <2>4
      <3> HIDE DEF r
      <3>4. \E p \in Asked, verdict \in Promise!Verdicts : Promise!Settle(p, verdict)
        BY <3>2, <3>3, <2>2, RecordingIsSettle
      <3>5. QED
        BY <3>4 DEF Promise!Next
    <2>5. CASE ~isValid(packet, response)
      <3>1. pc' = "wait" /\ UNCHANGED <<call, args, ttl, i, packet, probeResults, probes, outcome>>
        BY <2>1, <2>2, <2>5 DEF callVars
      <3>2. Ledger' = Ledger
        BY <3>1, SameLedger DEF Results
      <3>3. QED
        BY <3>1, <3>2, <2>2, <2>3, NothingHappens
    <2>6. QED
      BY <2>4, <2>5
  <1>6. CASE FinishRow
    <2>1. /\ pc = "send" /\ pc' \in {"send", "return"}
          /\ UNCHANGED <<call, args, packet, outcome>>
      BY <1>6 DEF FinishRow, callVars
    <2>2. packet = nullopt /\ outcome = "none"
      BY <2>1, UnderWay DEF TypeOK
    <2>3. Ledger' = Ledger
      BY <2>1, <2>2, <1>6, ResultsOfRow, SameLedger
    <2>4. QED
      BY <2>1, <2>2, <2>3, NothingHappens
  <1>7. CASE TakesSentAt \/ WaitsForResponse \/ ReceiveNothing
    <2>1. /\ pc # "idle" /\ pc' # "idle"
          /\ UNCHANGED <<call, args, ttl, i, packet, probeResults, probes, outcome>>
      BY <1>7 DEF TakesSentAt, WaitsForResponse, ReceiveNothing, callVars, loopVars
    <2>2. Ledger' = Ledger
      BY <2>1, SameLedger DEF Results
    <2>3. QED
      BY <2>1, <2>2, NothingHappens
  <1>8. QED
    BY <1>1, <1>2, <1>3, <1>4, <1>5, <1>6, <1>7 DEF Engine

(* Every call of SequentialTraceroute does what Probing promises: probes   *)
(* are sent in ascending order, each settles at most once, in its own call *)
(* or never, and a call returns the verdicts of exactly the probes of its  *)
(* own that have one.                                                      *)
THEOREM SequentialKeepsPromise == Spec => KeepsPromise
  <1>1. ASSUME TypeOK, Path, [Next]_vars
        PROVE  [Promise!Next]_(Promise!vars)
    <2>1. CASE beginProbing
      BY <1>1, <2>1, BeginningIsBegin DEF Promise!Next
    <2>2. CASE Engine
      BY <1>1, <2>2, EngineKeepsPromise
    <2>3. CASE Tick \/ World \/ UNCHANGED vars
      <3>1. UNCHANGED <<call, args, pc, ttl, i, packet, probeResults, probes, outcome>>
        BY <2>3 DEF Tick, World, vars, callVars, loopVars
      <3>2. Ledger' = Ledger
        BY <3>1, SameLedger DEF Results
      <3>3. QED
        BY <3>1, <3>2, NothingHappens
    <2>4. QED
      BY <1>1, <2>1, <2>2, <2>3 DEF Next
  <1>2. QED
    BY InitIsInit, Typing, PathIsKept, <1>1, PTL DEF Spec, KeepsPromise, Promise!Spec

===============================================================================
