------------------------- MODULE FastTracerouteProofs -------------------------
(***************************************************************************)
(* Theorems about FastTraceroute, for every timeout, range of ttls, number *)
(* of retries, set of keys and number of calls.                            *)
(***************************************************************************)
EXTENDS FastTraceroute, TracerouteLemmas

-------------------------------------------------------------------------------
(* Operators on sequences *)

(* push_back of a packet adds its probe to the registered ones.            *)
LEMMA ProbesOfAppend ==
    ASSUME NEW S, NEW s \in Seq(S), NEW e \in S
    PROVE  /\ ProbesOf(Append(s, e)) = ProbesOf(s) \cup {e.probe}
           /\ EachProbeOnce(s) /\ e.probe \notin ProbesOf(s) => EachProbeOnce(Append(s, e))
  <1> DEFINE t == Append(s, e)
  <1>1. /\ Len(s) \in Nat
        /\ DOMAIN s = 1 .. Len(s)
        /\ DOMAIN t = 1 .. Len(s) + 1
        /\ \A j \in 1 .. Len(s) + 1 : t[j] = IF j <= Len(s) THEN s[j] ELSE e
    BY LenProperties, AppendFacts
  <1> HIDE DEF t
  <1>2. ProbesOf(s) = {s[j].probe : j \in 1 .. Len(s)}
    BY <1>1 DEF ProbesOf, Range
  <1>3. ProbesOf(t) = {t[j].probe : j \in 1 .. Len(s) + 1}
    BY <1>1 DEF ProbesOf, Range
  <1>4. ProbesOf(t) = ProbesOf(s) \cup {e.probe}
    <2>1. ASSUME NEW p \in ProbesOf(t)
          PROVE  p \in ProbesOf(s) \cup {e.probe}
      BY <2>1, <1>1, <1>2, <1>3
    <2>2. ASSUME NEW p \in ProbesOf(s)
          PROVE  p \in ProbesOf(t)
      BY <2>2, <1>1, <1>2, <1>3
    <2>3. e.probe \in ProbesOf(t)
      <3>1. Len(s) + 1 \in 1 .. Len(s) + 1 /\ t[Len(s) + 1] = e
        BY <1>1
      <3>2. QED
        BY <3>1, <1>3
    <2>4. QED
      BY <2>1, <2>2, <2>3
  <1>5. ASSUME EachProbeOnce(s), e.probe \notin ProbesOf(s)
        PROVE  EachProbeOnce(t)
    BY <1>1, <1>2, <1>5 DEF EachProbeOnce
  <1>6. QED
    BY <1>4, <1>5 DEF t

(* erase of a packet removes its probe, and only that one, if each is      *)
(* registered once.                                                        *)
LEMMA ProbesOfRemoveAt ==
    ASSUME NEW S, NEW s \in Seq(S), NEW k \in 1 .. Len(s), EachProbeOnce(s)
    PROVE  /\ ProbesOf(RemoveAt(s, k)) = ProbesOf(s) \ {s[k].probe}
           /\ s[k].probe \in ProbesOf(s)
           /\ EachProbeOnce(RemoveAt(s, k))
  <1> DEFINE t == RemoveAt(s, k)
  <1>1. /\ Len(s) \in Nat
        /\ DOMAIN s = 1 .. Len(s)
        /\ DOMAIN t = 1 .. Len(s) - 1
        /\ \A j \in 1 .. Len(s) - 1 : t[j] = IF j < k THEN s[j] ELSE s[j + 1]
    BY LenProperties, RemoveAtProperties
  <1> HIDE DEF t
  <1>2. ProbesOf(s) = {s[j].probe : j \in 1 .. Len(s)}
    BY <1>1 DEF ProbesOf, Range
  <1>3. ProbesOf(t) = {t[j].probe : j \in 1 .. Len(s) - 1}
    BY <1>1 DEF ProbesOf, Range
  <1>4. ASSUME NEW p \in ProbesOf(t)
        PROVE  p \in ProbesOf(s) \ {s[k].probe}
    <2>1. PICK j \in 1 .. Len(s) - 1 : p = t[j].probe
      BY <1>3
    <2>2. PICK i \in 1 .. Len(s) : i # k /\ p = s[i].probe
      <3>1. CASE j < k
        BY <3>1, <2>1, <1>1
      <3>2. CASE ~(j < k)
        BY <3>2, <2>1, <1>1
      <3>3. QED
        BY <3>1, <3>2
    <2>3. QED
      BY <2>2, <1>1, <1>2 DEF EachProbeOnce
  <1>5. ASSUME NEW p \in ProbesOf(s), p # s[k].probe
        PROVE  p \in ProbesOf(t)
    <2>1. PICK i \in 1 .. Len(s) : p = s[i].probe
      BY <1>2
    <2>2. CASE i < k
      BY <2>1, <2>2, <1>1, <1>3
    <2>3. CASE i > k
      <3>1. i - 1 \in 1 .. Len(s) - 1 /\ t[i - 1] = s[i]
        BY <2>3, <1>1
      <3>2. QED
        BY <3>1, <2>1, <1>3
    <2>4. QED
      BY <2>1, <2>2, <2>3, <1>5
  <1>6. EachProbeOnce(t)
    <2>1. ASSUME NEW i \in 1 .. Len(s) - 1, NEW j \in 1 .. Len(s) - 1, t[i].probe = t[j].probe
          PROVE  i = j
      <3> DEFINE at(n) == IF n < k THEN n ELSE n + 1
      <3>1. at(i) \in 1 .. Len(s) /\ t[i] = s[at(i)]
        BY <1>1
      <3>2. at(j) \in 1 .. Len(s) /\ t[j] = s[at(j)]
        BY <1>1
      <3>3. at(i) = at(j)
        BY <2>1, <3>1, <3>2, <1>1 DEF EachProbeOnce
      <3>4. QED
        BY <3>3
    <2>2. QED
      BY <2>1, <1>1 DEF EachProbeOnce
  <1>7. QED
    BY <1>1, <1>2, <1>4, <1>5, <1>6 DEF t

-------------------------------------------------------------------------------
(* Operators of the model *)

(* expectedMaxTimeTaken is a natural number, wrapped around or not.        *)
LEMMA BudgetType ==
    ASSUME args \in [ttlBegin : Nat, ttlEnd : Nat, retries : Nat]
    PROVE  /\ Milliseconds(Timeout) \in Nat
           /\ expectedSize \in Nat
           /\ expectedMaxTimeTaken \in Nat
  <1>1. Timeout \div Milli \in Nat
    BY TracerouteAssumption
  <1>2. Milliseconds(Timeout) \in Nat
    BY <1>1, ProductOfNaturals, TracerouteAssumption DEF Milliseconds
  <1>3. expectedSize \in Nat
    <2>1. (args.ttlEnd - args.ttlBegin + 1) * args.retries \in Int
      <3>1. args.ttlEnd - args.ttlBegin + 1 \in Int /\ args.retries \in Int
        OBVIOUS
      <3>2. QED
        BY <3>1
    <2>2. QED
      BY <2>1, FastAssumption DEF expectedSize
  <1>4. QED
    BY <1>2, <1>3, ProductOfNaturals DEF expectedMaxTimeTaken

(* find_if: an index it returns is that of a packet the response is valid  *)
(* for.                                                                    *)
LEMMA ValidPacketFound ==
    ASSUME NEW response, mPacketsToBeValidated \in Seq(PacketToValidate)
    PROVE  /\ ValidPacket(response) \in 0 .. Len(mPacketsToBeValidated)
           /\ ValidPacket(response) # 0 =>
                 isValid(mPacketsToBeValidated[ValidPacket(response)], response)
  <1> DEFINE I == {k \in 1 .. Len(mPacketsToBeValidated) :
                      isValid(mPacketsToBeValidated[k], response)}
  <1>1. ValidPacket(response) = IF I # {} THEN Min(I) ELSE 0
    BY DEF ValidPacket, SelectInSeq
  <1>2. Len(mPacketsToBeValidated) \in Nat
    BY LenProperties
  <1>3. CASE I = {}
    BY <1>1, <1>2, <1>3
  <1>4. CASE I # {}
    <2>1. I \in SUBSET Nat
      BY <1>2
    <2>2. Min(I) \in I
      BY <2>1, <1>4, MinOfNaturals
    <2>3. QED
      BY <1>1, <1>2, <1>4, <2>2
  <1>5. QED
    BY <1>3, <1>4

(* The clock leaves the packets as they are, but for their age.            *)
LEMMA TickKeepsPackets ==
    ASSUME mPacketsToBeValidated \in Seq(PacketToValidate), Tick
    PROVE  /\ mPacketsToBeValidated' \in Seq(PacketToValidate)
           /\ Pending' = Pending
           /\ EachProbeOnce(mPacketsToBeValidated) => EachProbeOnce(mPacketsToBeValidated')
  <1> DEFINE s == mPacketsToBeValidated
             e(k) == [s[k] EXCEPT !.age = Later(@, AgeCap)]
  <1>1. Len(s) \in Nat /\ DOMAIN s = 1 .. Len(s)
    BY LenProperties
  <1>2. s' = [k \in 1 .. Len(s) |-> e(k)]
    BY <1>1 DEF Tick
  <1>3. ASSUME NEW k \in 1 .. Len(s)
        PROVE  e(k) \in PacketToValidate /\ e(k).probe = s[k].probe
    <2>1. s[k] \in PacketToValidate
      BY ElementOfSeq
    <2>2. AgeCap \in Nat
      BY TracerouteAssumption DEF AgeCap
    <2>3. s[k].age \in 0 .. AgeCap
      BY <2>1 DEF PacketToValidate, Age
    <2>4. Later(s[k].age, AgeCap) \in Age
      BY <2>2, <2>3, LaterInRange DEF Age
    <2>5. QED
      BY <2>1, <2>4 DEF PacketToValidate
  <1>4. s' \in Seq(PacketToValidate)
    BY <1>1, <1>2, <1>3
  <1>5. DOMAIN s' = DOMAIN s /\ \A k \in DOMAIN s : s'[k].probe = s[k].probe
    BY <1>1, <1>2, <1>3
  <1>6. Pending' = Pending
    BY <1>5 DEF Pending, ProbesOf, Range
  <1>7. EachProbeOnce(s) => EachProbeOnce(s')
    BY <1>5 DEF EachProbeOnce
  <1>8. QED
    BY <1>4, <1>6, <1>7

-------------------------------------------------------------------------------
(* Type correctness *)

(* An engine that was just constructed is type correct.                    *)
LEMMA TypeInit == Init => TypeOK
  <1> SUFFICES ASSUME Init
               PROVE  TypeOK
    OBVIOUS
  <1>1. MaxCalls \in Nat
    BY FastAssumption
  <1>2. args \in [ttlBegin : Nat, ttlEnd : Nat, retries : Nat]
    BY DEF Init
  <1>3. QED
    BY <1>1, <1>2 DEF Init, TypeOK, NetworkInit, NetworkTypeOK

(* A packet the sender builds is well typed.                               *)
LEMMA SentPacketType ==
    ASSUME TypeOK, NEW key \in Keys
    PROVE  [probe |-> [call |-> call, ttl |-> sTtl, retry |-> sRetry], key |-> key] \in Packet
  <1>1. call \in Nat
    BY FastAssumption DEF TypeOK
  <1>2. QED
    BY <1>1 DEF TypeOK, Packet, Probe

(* The steps of sendPackets preserve the types.                            *)
LEMMA SenderType ==
    ASSUME TypeOK, Sender
    PROVE  TypeOK'
  <1>1. CASE SendPacket
    <2>1. PICK key \in Keys :
             sPacket' = [probe |-> [call |-> call, ttl |-> sTtl, retry |-> sRetry], key |-> key]
      BY <1>1 DEF SendPacket
    <2>2. sPacket' \in Packet
      BY <2>1, SentPacketType
    <2>3. NetworkTypeOK'
      BY <1>1, <2>2 DEF SendPacket, Transmit, NetworkTypeOK, TypeOK
    <2>4. QED
      BY <1>1, <2>2, <2>3 DEF SendPacket, TypeOK, callVars, receiverVars
  <1>2. CASE SendFails
    BY <1>2 DEF SendFails, TypeOK, NetworkTypeOK, callVars, receiverVars, networkVars
  <1>3. CASE RegisterPacket
    <2>1. [probe |-> sPacket.probe, key |-> sPacket.key, age |-> 0] \in PacketToValidate
      BY <1>3, TracerouteAssumption
         DEF RegisterPacket, TypeOK, Packet, PacketToValidate, Age, AgeCap
    <2>2. mPacketsToBeValidated' \in Seq(PacketToValidate)
      BY <1>3, <2>1 DEF RegisterPacket, TypeOK
    <2>3. sTtl' \in Nat /\ sRetry' \in Nat
      BY <1>3 DEF RegisterPacket, NextIteration, TypeOK
    <2>4. QED
      BY <1>3, <2>2, <2>3
         DEF RegisterPacket, TypeOK, NetworkTypeOK, callVars, receiverVars, networkVars
  <1>4. CASE SendPacketsReturns
    BY <1>4 DEF SendPacketsReturns, TypeOK, NetworkTypeOK, callVars, receiverVars, networkVars
  <1>5. QED
    BY <1>1, <1>2, <1>3, <1>4 DEF Sender

(* A response that is valid for a packet is a reply.                       *)
LEMMA SuccessType ==
    ASSUME NEW packet \in PacketToValidate, NEW response \in Response \cup {nullopt},
           isValid(packet, response)
    PROVE  successProbe(packet.probe, response) \in ProbeResult
  BY SuccessIsResult DEF PacketToValidate

(* failedProbe yields a result.                                            *)
LEMMA FailureType ==
    ASSUME NEW packet \in PacketToValidate
    PROVE  failedProbe(packet.probe) \in ProbeResult
  BY FailureIsResult DEF PacketToValidate

(* Crediting a response and erasing its packet preserve the types.         *)
LEMMA MatchType ==
    ASSUME TypeOK, LockAndMatch
    PROVE  /\ mPacketsToBeValidated' \in Seq(PacketToValidate)
           /\ ttlToProbeResults' \in Seq(ProbeResult)
  <1> DEFINE k == IF respInfo = nullopt THEN 0 ELSE ValidPacket(respInfo)
  <1>1. mPacketsToBeValidated \in Seq(PacketToValidate) /\ ttlToProbeResults \in Seq(ProbeResult)
    BY DEF TypeOK
  <1>2. Len(mPacketsToBeValidated) \in Nat
    BY <1>1, LenProperties
  <1>3. CASE k = 0
    BY <1>1, <1>3 DEF LockAndMatch
  <1>4. CASE k # 0
    <2>1. /\ k \in 1 .. Len(mPacketsToBeValidated)
          /\ isValid(mPacketsToBeValidated[k], respInfo)
      BY <1>1, <1>2, <1>4, ValidPacketFound
    <2>2. /\ ttlToProbeResults' =
                Append(ttlToProbeResults, successProbe(mPacketsToBeValidated[k].probe, respInfo))
          /\ mPacketsToBeValidated' = RemoveAt(mPacketsToBeValidated, k)
      BY <1>4 DEF LockAndMatch, ErasePacket
    <2> HIDE DEF k
    <2>3. mPacketsToBeValidated[k] \in PacketToValidate
      BY <1>1, <2>1, ElementOfSeq
    <2>4. respInfo \in Response \cup {nullopt}
      BY DEF TypeOK
    <2>5. successProbe(mPacketsToBeValidated[k].probe, respInfo) \in ProbeResult
      BY <2>1, <2>3, <2>4, SuccessType
    <2>6. QED
      BY <1>1, <2>1, <2>2, <2>5, AppendFacts, RemoveAtProperties
  <1>5. QED
    BY <1>3, <1>4

(* Giving up a packet in the sweep preserves the types.                    *)
LEMMA GiveUpType ==
    ASSUME TypeOK, SweepGivesUp
    PROVE  /\ mPacketsToBeValidated' \in Seq(PacketToValidate)
           /\ ttlToProbeResults' \in Seq(ProbeResult)
           /\ it \in 1 .. Len(mPacketsToBeValidated)
  <1>1. mPacketsToBeValidated \in Seq(PacketToValidate) /\ ttlToProbeResults \in Seq(ProbeResult)
    BY DEF TypeOK
  <1>2. it \in 1 .. Len(mPacketsToBeValidated)
    BY <1>1, LenProperties DEF TypeOK, SweepGivesUp
  <1>3. failedProbe(mPacketsToBeValidated[it].probe) \in ProbeResult
    BY <1>1, <1>2, ElementOfSeq, FailureType
  <1>4. QED
    BY <1>1, <1>2, <1>3, AppendFacts, RemoveAtProperties DEF SweepGivesUp, ErasePacket

(* The steps of receiveAndValidate preserve the types.                     *)
LEMMA ReceiverType ==
    ASSUME TypeOK, Receiver
    PROVE  TypeOK'
  <1> USE DEF TypeOK, NetworkTypeOK, callVars, senderVars, networkVars
  <1>1. CASE ReceiverBegins
    BY <1>1 DEF ReceiverBegins
  <1>2. CASE CheckSize
    BY <1>2 DEF CheckSize
  <1>3. CASE ReceiveResponse
    <2>1. PICK response \in inbox :
             /\ Take(response)
             /\ respInfo' = response
             /\ heard' = IF response.kind = "reply" /\ response.probe \in Pending
                         THEN heard \cup {response.probe} ELSE heard
      BY <1>3 DEF ReceiveResponse
    <2>2. response \in Response
      OBVIOUS
    <2>3. response.kind = "reply" => response.probe \in Probe
      BY <2>2 DEF Response
    <2>4. heard' \subseteq Probe
      BY <2>1, <2>3
    <2>5. QED
      BY <1>3, <2>1, <2>2, <2>4 DEF ReceiveResponse, Take
  <1>4. CASE ReceiveNothing
    BY <1>4 DEF ReceiveNothing
  <1>5. CASE ReceiveThrows
    BY <1>5 DEF ReceiveThrows, Throw
  <1>6. CASE ValidationThrows
    BY <1>6 DEF ValidationThrows, Throw
  <1>7. CASE LockAndMatch
    BY <1>7, MatchType DEF LockAndMatch
  <1>8. CASE SweepGivesUp
    BY <1>8, GiveUpType DEF SweepGivesUp
  <1>9. CASE SweepKeeps
    BY <1>9 DEF SweepKeeps
  <1>10. CASE SweepEnds
    BY <1>10 DEF SweepEnds
  <1>11. CASE CollectResults
    BY <1>11 DEF CollectResults
  <1>12. CASE JoinSender
    BY <1>12 DEF JoinSender
  <1>13. QED
    BY <1>1, <1>2, <1>3, <1>4, <1>5, <1>6, <1>7, <1>8, <1>9, <1>10, <1>11, <1>12 DEF Receiver

(* Beginning a call preserves the types.                                   *)
LEMMA BeginType ==
    ASSUME TypeOK, beginProbing
    PROVE  TypeOK'
  <1>1. PICK a \in Args : args' = a /\ sTtl' = a.ttlBegin
    BY DEF beginProbing
  <1>2. args' \in [ttlBegin : Nat, ttlEnd : Nat, retries : Nat] /\ sTtl' \in Nat
    BY <1>1, FastAssumption
  <1>3. call' \in 0 .. MaxCalls
    BY FastAssumption DEF beginProbing, TypeOK
  <1>4. carried' \in Nat
    BY LenProperties DEF beginProbing, TypeOK
  <1>5. QED
    BY <1>2, <1>3, <1>4 DEF beginProbing, TypeOK, NetworkTypeOK, networkVars

(* The clock preserves the types.                                          *)
LEMMA TickType ==
    ASSUME TypeOK, Tick
    PROVE  TypeOK'
  <1>1. mPacketsToBeValidated' \in Seq(PacketToValidate)
    BY TickKeepsPackets DEF TypeOK
  <1>2. elapsed' \in Nat /\ polled' \in Nat
    BY BudgetType, LaterType DEF Tick, TypeOK
  <1>3. QED
    BY <1>1, <1>2 DEF Tick, TypeOK, NetworkTypeOK, callVars, senderVars, networkVars

(* The network preserves the types.                                        *)
LEMMA WorldType ==
    ASSUME TypeOK, World
    PROVE  TypeOK'
  <1>1. NetworkTypeOK'
    BY EnvironmentType DEF World, TypeOK
  <1>2. QED
    BY <1>1 DEF World, TypeOK, callVars, senderVars, receiverVars

(* Every variable keeps its type.                                          *)
THEOREM Typing == Spec => []TypeOK
  <1>1. TypeOK /\ [Next]_vars => TypeOK'
    <2> SUFFICES ASSUME TypeOK, [Next]_vars
                 PROVE  TypeOK'
      OBVIOUS
    <2>1. CASE beginProbing
      BY <2>1, BeginType
    <2>2. CASE Sender
      BY <2>2, SenderType
    <2>3. CASE Receiver
      BY <2>3, ReceiverType
    <2>4. CASE Tick
      BY <2>4, TickType
    <2>5. CASE World
      BY <2>5, WorldType
    <2>6. CASE UNCHANGED vars
      BY <2>6 DEF vars, callVars, senderVars, receiverVars, networkVars, TypeOK, NetworkTypeOK
    <2>7. QED
      BY <2>1, <2>2, <2>3, <2>4, <2>5, <2>6 DEF Next
  <1>2. QED
    BY TypeInit, <1>1, PTL DEF Spec

-------------------------------------------------------------------------------
(* Every probe has one place *)

(* A step that leaves the sender's loops where they are, and only moves    *)
(* probes between the registered and the recorded ones, keeps Accounting.  *)
LEMMA SameProbesSameAccounts ==
    ASSUME Accounting,
           UNCHANGED <<callVars, sTtl, sRetry>>,
           NoProbeTwice',
           (Pending \cup Recorded)' = Pending \cup Recorded,
           sPc' = "push" => sPc = "push" /\ UNCHANGED sPacket,
           rPc' = "idle" => sPc' \notin {"send", "push"}
    PROVE  Accounting'
  <1>1. \A p : Passed(p)' <=> Passed(p)
    BY DEF Passed, callVars
  <1>2. NoProbeForgotten'
    BY <1>1 DEF Accounting, NoProbeForgotten, callVars
  <1>3. QED
    BY <1>1, <1>2 DEF Accounting, callVars

(* Moving a registered packet to the results, as a match and as a probe    *)
(* given up.                                                               *)
LEMMA SettlingKeepsAccounts ==
    ASSUME TypeOK, Accounting,
           NEW k \in 1 .. Len(mPacketsToBeValidated),
           NEW r \in ProbeResult, r.probe = mPacketsToBeValidated[k].probe,
           mPacketsToBeValidated' = RemoveAt(mPacketsToBeValidated, k),
           ttlToProbeResults' = Append(ttlToProbeResults, r),
           UNCHANGED <<callVars, senderVars>>,
           rPc' # "idle"
    PROVE  Accounting'
  <1>1. /\ mPacketsToBeValidated \in Seq(PacketToValidate)
        /\ ttlToProbeResults \in Seq(ProbeResult)
    BY DEF TypeOK
  <1>2. NoProbeTwice
    BY DEF Accounting
  <1>3. /\ Pending' = Pending \ {r.probe}
        /\ r.probe \in Pending
        /\ EachProbeOnce(mPacketsToBeValidated')
    BY <1>1, <1>2, ProbesOfRemoveAt DEF NoProbeTwice, Pending
  <1>4. /\ Recorded' = Recorded \cup {r.probe}
        /\ EachProbeOnce(ttlToProbeResults')
    <2>1. r.probe \notin ProbesOf(ttlToProbeResults)
      BY <1>2, <1>3 DEF NoProbeTwice, Recorded
    <2>2. EachProbeOnce(ttlToProbeResults)
      BY <1>2 DEF NoProbeTwice
    <2>3. QED
      BY <1>1, <2>1, <2>2, ProbesOfAppend DEF Recorded
  <1>5. NoProbeTwice'
    BY <1>2, <1>3, <1>4 DEF NoProbeTwice
  <1>6. (Pending \cup Recorded)' = Pending \cup Recorded
    BY <1>3, <1>4
  <1>7. QED
    BY <1>5, <1>6, SameProbesSameAccounts DEF senderVars

(* push_back of the packet sent last keeps the accounts: its probe is new, *)
(* and the sender's loops go past it in the same step.                     *)
LEMMA RegisteringKeepsAccounts ==
    ASSUME TypeOK, Accounting, RegisterPacket
    PROVE  Accounting'
  <1> DEFINE new == sPacket.probe
             entry == [probe |-> sPacket.probe, key |-> sPacket.key, age |-> 0]
  <1>1. /\ mPacketsToBeValidated \in Seq(PacketToValidate)
        /\ entry \in PacketToValidate
        /\ entry.probe = new
    BY TracerouteAssumption
       DEF TypeOK, RegisterPacket, Packet, PacketToValidate, Age, AgeCap
  <1>2. /\ call \in Nat /\ sTtl \in Nat /\ sRetry \in Nat
        /\ args.ttlBegin \in Nat /\ args.ttlEnd \in Nat /\ args.retries \in Nat
    BY FastAssumption DEF TypeOK
  <1>3. /\ new = [call |-> call, ttl |-> sTtl, retry |-> sRetry]
        /\ sTtl >= args.ttlBegin /\ sTtl <= args.ttlEnd /\ sRetry < args.retries
    BY DEF Accounting, RegisterPacket
  <1>4. new.call = call /\ ~Passed(new)
    BY <1>2, <1>3 DEF Passed
  <1>5. new \notin Pending \cup Recorded
    BY <1>4 DEF Accounting
  <1>6. /\ Pending' = Pending \cup {new}
        /\ EachProbeOnce(mPacketsToBeValidated')
    BY <1>1, <1>5, ProbesOfAppend
       DEF RegisterPacket, Pending, Accounting, NoProbeTwice
  <1>7. ttlToProbeResults' = ttlToProbeResults /\ Recorded' = Recorded
    BY DEF RegisterPacket, receiverVars, Recorded
  <1>8. NoProbeTwice'
    BY <1>5, <1>6, <1>7 DEF Accounting, NoProbeTwice
  <1>9. ASSUME NEW ttl \in args.ttlBegin .. args.ttlEnd, NEW retry \in 0 .. args.retries - 1
        PROVE  (ttl < sTtl' \/ (ttl = sTtl' /\ retry < sRetry'))
                 <=> \/ ttl < sTtl \/ (ttl = sTtl /\ retry < sRetry)
                     \/ ttl = sTtl /\ retry = sRetry
    <2>1. CASE sRetry + 1 < args.retries
      BY <2>1, <1>2, <1>3 DEF RegisterPacket, NextIteration
    <2>2. CASE ~(sRetry + 1 < args.retries)
      BY <2>2, <1>2, <1>3 DEF RegisterPacket, NextIteration
    <2>3. QED
      BY <2>1, <2>2
  <1>10. UNCHANGED <<call, args>>
    BY DEF RegisterPacket, callVars
  <1>11. NoProbeForgotten'
    <2> SUFFICES ASSUME NEW ttl \in args.ttlBegin .. args.ttlEnd,
                        NEW retry \in 0 .. args.retries - 1
                 PROVE  LET probe == [call |-> call, ttl |-> ttl, retry |-> retry]
                        IN  Passed(probe)' <=> probe \in (Pending \cup Recorded)'
      BY <1>10 DEF NoProbeForgotten
    <2> DEFINE probe == [call |-> call, ttl |-> ttl, retry |-> retry]
    <2>1. Passed(probe) <=> probe \in Pending \cup Recorded
      BY DEF Accounting, NoProbeForgotten
    <2>2. Passed(probe)' <=> (ttl < sTtl' \/ (ttl = sTtl' /\ retry < sRetry'))
      BY <1>10 DEF Passed
    <2>3. Passed(probe) <=> (ttl < sTtl \/ (ttl = sTtl /\ retry < sRetry))
      BY DEF Passed
    <2>4. probe = new <=> (ttl = sTtl /\ retry = sRetry)
      BY <1>3
    <2>5. QED
      BY <2>1, <2>2, <2>3, <2>4, <1>6, <1>7, <1>9
  <1>12. ASSUME NEW p \in (Pending \cup Recorded)'
         PROVE  p.call <= call /\ (p.call = call => Passed(p)')
    <2>1. CASE p = new
      <3>1. Passed(p)'
        BY <2>1, <1>2, <1>3, <1>9, <1>10 DEF Passed
      <3>2. QED
        BY <3>1, <2>1, <1>2, <1>4
    <2>2. CASE p # new
      <3>1. p \in Pending \cup Recorded
        BY <2>2, <1>6, <1>7
      <3>2. p.call <= call /\ (p.call = call => Passed(p))
        BY <3>1 DEF Accounting
      <3>3. Passed(p) => Passed(p)'
        BY <1>9, <1>10 DEF Passed
      <3>4. QED
        BY <3>2, <3>3
    <2>3. QED
      BY <2>1, <2>2
  <1>13. sTtl' >= args.ttlBegin /\ (sRetry' = 0 \/ sRetry' < args.retries)
    BY <1>2, <1>3 DEF RegisterPacket, NextIteration
  <1>14. sPc' # "push" /\ rPc' # "idle"
    BY DEF RegisterPacket, Accounting, receiverVars
  <1>15. carried' = 0 => \A p \in (Pending \cup Recorded)' : p.call = call
    BY <1>4, <1>6, <1>7 DEF Accounting, RegisterPacket, callVars
  <1>16. QED
    BY <1>15, <1>8, <1>10, <1>11, <1>12, <1>13, <1>14 DEF Accounting

(* What is registered or recorded is a probe.                              *)
LEMMA PendingType ==
    ASSUME TypeOK
    PROVE  Pending \subseteq Probe
  <1> SUFFICES ASSUME NEW k \in DOMAIN mPacketsToBeValidated
               PROVE  mPacketsToBeValidated[k].probe \in Probe
    BY DEF Pending, ProbesOf, Range
  <1>1. mPacketsToBeValidated[k] \in PacketToValidate
    BY LenProperties, ElementOfSeq DEF TypeOK
  <1>2. QED
    BY <1>1 DEF PacketToValidate

(* A new call keeps the accounts, whatever an earlier one has left         *)
(* registered.                                                             *)
LEMMA BeginningKeepsAccounts ==
    ASSUME TypeOK, Accounting, beginProbing
    PROVE  Accounting'
  <1>1. PICK a \in Args : args' = a /\ sTtl' = a.ttlBegin
    BY DEF beginProbing
  <1>2. /\ call \in Nat
        /\ a.ttlBegin \in Nat /\ a.ttlEnd \in Nat /\ a.retries \in Nat
    BY FastAssumption DEF TypeOK
  <1>3. call' = call + 1 /\ sRetry' = 0 /\ sPc' = "send" /\ rPc' = "begin"
    BY DEF beginProbing
  <1>4. Pending' = Pending /\ Recorded' = {}
    BY DEF beginProbing, Pending, Recorded, ProbesOf, Range
  <1>5. NoProbeTwice'
    BY <1>4 DEF beginProbing, Accounting, NoProbeTwice, EachProbeOnce
  <1>6. \A p \in (Pending \cup Recorded)' : p.call <= call
    BY <1>4 DEF Accounting
  <1>7. NoProbeForgotten'
    <2>1. \A ttl \in a.ttlBegin .. a.ttlEnd, retry \in 0 .. a.retries - 1 :
             ~(ttl < sTtl' \/ (ttl = sTtl' /\ retry < sRetry'))
      BY <1>1, <1>2, <1>3
    <2>2. \A p : p.call = call' => p \notin (Pending \cup Recorded)'
      BY <1>2, <1>3, <1>6
    <2>3. QED
      BY <2>1, <2>2, <1>1 DEF NoProbeForgotten, Passed
  <1>8. \A p \in (Pending \cup Recorded)' : p.call <= call' /\ (p.call = call' => Passed(p)')
    <2>1. ASSUME NEW p \in (Pending \cup Recorded)'
          PROVE  p.call <= call' /\ p.call # call'
      <3>1. p.call <= call /\ p.call \in Nat
        <4>1. p \in Probe
          BY <1>4, PendingType
        <4>2. QED
          BY <4>1, <1>6 DEF Probe
      <3>2. QED
        BY <3>1, <1>2, <1>3
    <2>2. QED
      BY <2>1
  <1>9. carried' = 0 => (Pending \cup Recorded)' = {}
    <2>1. ASSUME Len(mPacketsToBeValidated) = 0
          PROVE  Pending = {}
      BY <2>1, LenProperties DEF TypeOK, Pending, ProbesOf, Range
    <2>2. QED
      BY <2>1, <1>4 DEF beginProbing
  <1>10. QED
    BY <1>1, <1>2, <1>3, <1>5, <1>7, <1>8, <1>9 DEF Accounting

(* The steps of receiveAndValidate keep the accounts.                      *)
LEMMA ReceiverKeepsAccounts ==
    ASSUME TypeOK, Accounting, Receiver
    PROVE  Accounting'
  <1>1. CASE LockAndMatch
    <2> DEFINE k == IF respInfo = nullopt THEN 0 ELSE ValidPacket(respInfo)
    <2>1. mPacketsToBeValidated \in Seq(PacketToValidate) /\ respInfo \in Response \cup {nullopt}
      BY DEF TypeOK
    <2>2. UNCHANGED <<callVars, senderVars>> /\ rPc' # "idle"
      BY <1>1 DEF LockAndMatch
    <2>3. CASE k = 0
      <3>1. UNCHANGED <<ttlToProbeResults, mPacketsToBeValidated>>
        BY <1>1, <2>3 DEF LockAndMatch
      <3>2. NoProbeTwice' /\ (Pending \cup Recorded)' = Pending \cup Recorded
        BY <3>1 DEF Accounting, NoProbeTwice, Pending, Recorded
      <3>3. QED
        BY <2>2, <3>2, SameProbesSameAccounts DEF senderVars
    <2>4. CASE k # 0
      <3>1. /\ k \in 1 .. Len(mPacketsToBeValidated)
            /\ isValid(mPacketsToBeValidated[k], respInfo)
        BY <2>1, <2>4, ValidPacketFound, LenProperties
      <3>2. /\ ttlToProbeResults' =
                  Append(ttlToProbeResults, successProbe(mPacketsToBeValidated[k].probe, respInfo))
            /\ mPacketsToBeValidated' = RemoveAt(mPacketsToBeValidated, k)
        BY <1>1, <2>4 DEF LockAndMatch, ErasePacket
      <3> HIDE DEF k
      <3> DEFINE r == successProbe(mPacketsToBeValidated[k].probe, respInfo)
      <3>3. r \in ProbeResult
        BY <2>1, <3>1, ElementOfSeq, SuccessType
      <3>4. r.probe = mPacketsToBeValidated[k].probe
        BY DEF successProbe
      <3> HIDE DEF r
      <3>5. QED
        BY <2>2, <3>1, <3>2, <3>3, <3>4, SettlingKeepsAccounts DEF r
    <2>5. QED
      BY <2>3, <2>4
  <1>2. CASE SweepGivesUp
    <2> DEFINE r == failedProbe(mPacketsToBeValidated[it].probe)
    <2>1. it \in 1 .. Len(mPacketsToBeValidated)
      BY <1>2, GiveUpType
    <2>2. r \in ProbeResult
      BY <2>1, ElementOfSeq, FailureType DEF TypeOK
    <2>3. r.probe = mPacketsToBeValidated[it].probe
      BY DEF failedProbe
    <2>4. /\ mPacketsToBeValidated' = RemoveAt(mPacketsToBeValidated, it)
          /\ ttlToProbeResults' = Append(ttlToProbeResults, r)
          /\ UNCHANGED <<callVars, senderVars>>
          /\ rPc' # "idle"
      BY <1>2 DEF SweepGivesUp, ErasePacket
    <2> HIDE DEF r
    <2>5. QED
      BY <2>1, <2>2, <2>3, <2>4, SettlingKeepsAccounts
  <1>3. CASE \/ ReceiverBegins \/ CheckSize \/ ReceiveResponse \/ ReceiveNothing
             \/ ReceiveThrows \/ ValidationThrows \/ SweepKeeps \/ SweepEnds
             \/ CollectResults \/ JoinSender
    <2>1. /\ UNCHANGED <<callVars, senderVars, ttlToProbeResults, mPacketsToBeValidated>>
          /\ rPc' = "idle" => sPc \notin {"send", "push"}
      BY <1>3 DEF ReceiverBegins, CheckSize, ReceiveResponse, ReceiveNothing, ReceiveThrows,
                  ValidationThrows, Throw, SweepKeeps, SweepEnds, CollectResults, JoinSender,
                  FutureReady
    <2>2. NoProbeTwice' /\ (Pending \cup Recorded)' = Pending \cup Recorded
      BY <2>1 DEF Accounting, NoProbeTwice, Pending, Recorded
    <2>3. QED
      BY <2>1, <2>2, SameProbesSameAccounts DEF senderVars
  <1>4. QED
    BY <1>1, <1>2, <1>3 DEF Receiver

(* So do the other steps of sendPackets, the clock and the network.        *)
LEMMA OtherStepsKeepAccounts ==
    ASSUME TypeOK, Accounting,
           \/ SendPacket \/ SendFails \/ SendPacketsReturns \/ Tick \/ World \/ UNCHANGED vars
    PROVE  Accounting'
  <1>1. CASE SendPacket
    <2>1. /\ sPc' = "push" /\ rPc' # "idle"
          /\ sPacket'.probe = [call |-> call, ttl |-> sTtl, retry |-> sRetry]
          /\ sTtl <= args.ttlEnd /\ sRetry < args.retries
          /\ UNCHANGED <<callVars, sTtl, sRetry, ttlToProbeResults, mPacketsToBeValidated>>
      BY <1>1 DEF SendPacket, receiverVars, Accounting
    <2>2. NoProbeTwice' /\ Pending' = Pending /\ Recorded' = Recorded
      BY <2>1 DEF Accounting, NoProbeTwice, Pending, Recorded
    <2>3. \A p : Passed(p)' <=> Passed(p)
      BY <2>1 DEF Passed, callVars
    <2>4. NoProbeForgotten'
      BY <2>1, <2>2, <2>3 DEF Accounting, NoProbeForgotten, callVars
    <2>5. QED
      BY <2>1, <2>2, <2>3, <2>4 DEF Accounting, callVars
  <1>2. CASE SendFails \/ SendPacketsReturns \/ World \/ UNCHANGED vars
    <2>1. /\ UNCHANGED <<callVars, sTtl, sRetry, sPacket, rPc, ttlToProbeResults,
                         mPacketsToBeValidated>>
          /\ sPc' \in {sPc, "ended", "failed"}
      BY <1>2 DEF SendFails, SendPacketsReturns, World, vars, senderVars, receiverVars
    <2>2. NoProbeTwice' /\ (Pending \cup Recorded)' = Pending \cup Recorded
      BY <2>1 DEF Accounting, NoProbeTwice, Pending, Recorded
    <2>3. sPc' = "push" => sPc = "push"
      BY <2>1
    <2>4. rPc' = "idle" => sPc' \notin {"send", "push"}
      BY <2>1 DEF Accounting
    <2>5. QED
      BY <2>1, <2>2, <2>3, <2>4, SameProbesSameAccounts
  <1>3. CASE Tick
    <2>1. UNCHANGED <<callVars, senderVars, rPc, ttlToProbeResults>>
      BY <1>3 DEF Tick
    <2>2. /\ Pending' = Pending
          /\ EachProbeOnce(mPacketsToBeValidated) => EachProbeOnce(mPacketsToBeValidated')
      BY <1>3, TickKeepsPackets DEF TypeOK
    <2>3. NoProbeTwice' /\ (Pending \cup Recorded)' = Pending \cup Recorded
      BY <2>1, <2>2 DEF Accounting, NoProbeTwice, Recorded
    <2>4. QED
      BY <2>1, <2>3, SameProbesSameAccounts DEF senderVars, Accounting
  <1>4. QED
    BY <1>1, <1>2, <1>3

(* The accounts of an engine that was just constructed are in order.       *)
LEMMA AccountingInit == Init => Accounting
  <1> SUFFICES ASSUME Init
               PROVE  Accounting
    OBVIOUS
  <1>1. Pending = {} /\ Recorded = {}
    BY DEF Init, Pending, Recorded, ProbesOf, Range
  <1>2. NoProbeTwice
    BY <1>1 DEF Init, NoProbeTwice, EachProbeOnce
  <1>3. NoProbeForgotten
    BY DEF Init, NoProbeForgotten
  <1>4. QED
    BY <1>1, <1>2, <1>3 DEF Init, Accounting

(* Of each probe of a call the object knows exactly one thing: not sent,   *)
(* registered, or its one verdict - in every interleaving of the sender,   *)
(* the receiver and the clock, and over any number of calls.               *)
THEOREM AccountsAreKept == Spec => []Accounting
  <1>1. TypeOK /\ Accounting /\ [Next]_vars => Accounting'
    <2> SUFFICES ASSUME TypeOK, Accounting, [Next]_vars
                 PROVE  Accounting'
      OBVIOUS
    <2>1. CASE beginProbing
      BY <2>1, BeginningKeepsAccounts
    <2>2. CASE Receiver
      BY <2>2, ReceiverKeepsAccounts
    <2>3. CASE RegisterPacket
      BY <2>3, RegisteringKeepsAccounts
    <2>4. CASE \/ SendPacket \/ SendFails \/ SendPacketsReturns \/ Tick \/ World
               \/ UNCHANGED vars
      BY <2>4, OtherStepsKeepAccounts
    <2>5. QED
      BY <2>1, <2>2, <2>3, <2>4 DEF Next, Sender
  <1>2. QED
    BY AccountingInit, Typing, <1>1, PTL DEF Spec

(* No probe is registered twice, recorded twice, or kept after its verdict.*)
THEOREM NeverTwice == Spec => []NoProbeTwice
  <1>1. Accounting => NoProbeTwice
    BY DEF Accounting
  <1>2. QED
    BY AccountsAreKept, <1>1, PTL

(* A probe the sender has gone past is registered or has its verdict.      *)
THEOREM NeverForgotten == Spec => []NoProbeForgotten
  <1>1. Accounting => NoProbeForgotten
    BY DEF Accounting
  <1>2. QED
    BY AccountsAreKept, <1>1, PTL

-------------------------------------------------------------------------------
(* The count of the results is enough *)

(* The number of probes asked for is what expectedSize computes before it  *)
(* wraps.                                                                  *)
LEMMA CardinalityOfAsked ==
    ASSUME args \in [ttlBegin : Nat, ttlEnd : Nat, retries : Nat],
           (args.ttlEnd - args.ttlBegin + 1) * args.retries \in Nat
    PROVE  /\ IsFiniteSet(Asked)
           /\ Cardinality(Asked) = (args.ttlEnd - args.ttlBegin + 1) * args.retries
  <1> DEFINE ttls    == args.ttlBegin .. args.ttlEnd
             tries   == 0 .. args.retries - 1
             name    == [tr \in ttls \X tries |-> [call |-> call, ttl |-> tr[1], retry |-> tr[2]]]
  <1>1. args.ttlBegin \in Nat /\ args.ttlEnd \in Nat /\ args.retries \in Nat
    OBVIOUS
  <1>2. /\ IsFiniteSet(ttls)
        /\ Cardinality(ttls) =
              IF args.ttlBegin > args.ttlEnd THEN 0 ELSE args.ttlEnd - args.ttlBegin + 1
    BY <1>1, FS_Interval, args.ttlBegin \in Int, args.ttlEnd \in Int
  <1>3. IsFiniteSet(tries) /\ Cardinality(tries) = args.retries
    <2>1. /\ IsFiniteSet(tries)
          /\ Cardinality(tries) =
                IF 0 > args.retries - 1 THEN 0 ELSE (args.retries - 1) - 0 + 1
      BY <1>1, FS_Interval, 0 \in Int, args.retries - 1 \in Int
    <2>2. QED
      BY <2>1, <1>1
  <1>4. /\ IsFiniteSet(ttls \X tries)
        /\ Cardinality(ttls \X tries) = Cardinality(ttls) * Cardinality(tries)
    BY <1>2, <1>3, FS_Product
  <1>5. Cardinality(ttls) * Cardinality(tries)
           = (args.ttlEnd - args.ttlBegin + 1) * args.retries
    <2>1. CASE args.ttlBegin > args.ttlEnd
      <3> DEFINE n == args.ttlEnd - args.ttlBegin + 1
      <3>1. n \in Int /\ n <= 0
        BY <2>1, <1>1
      <3>2. n * args.retries <= 0
        BY <3>1, <1>1
      <3>3. n * args.retries = 0
        BY <3>1, <3>2, <1>1
      <3>4. Cardinality(ttls) * Cardinality(tries) = 0
        BY <2>1, <1>2, <1>3, <1>1
      <3>5. QED
        BY <3>3, <3>4
    <2>2. CASE ~(args.ttlBegin > args.ttlEnd)
      BY <2>2, <1>2, <1>3
    <2>3. QED
      BY <2>1, <2>2
  <1>6. name \in Bijection(ttls \X tries, Asked)
    <2>1. name \in [ttls \X tries -> Asked]
      BY DEF Asked
    <2>2. \A a, b \in ttls \X tries : name[a] = name[b] => a = b
      OBVIOUS
    <2>3. \A p \in Asked : \E tr \in ttls \X tries : name[tr] = p
      <3> TAKE p \in Asked
      <3>1. /\ p.call = call /\ p.ttl \in ttls /\ p.retry \in tries
            /\ p = [call |-> p.call, ttl |-> p.ttl, retry |-> p.retry]
        BY DEF Asked
      <3>2. <<p.ttl, p.retry>> \in ttls \X tries /\ name[<<p.ttl, p.retry>>] = p
        BY <3>1
      <3>3. QED
        BY <3>2
    <2>4. QED
      BY <2>1, <2>2, <2>3 DEF Bijection, Injection, Surjection, IsInjective
  <1>7. QED
    <2>1. ExistsBijection(ttls \X tries, Asked)
      BY <1>6 DEF ExistsBijection
    <2>2. QED
      BY <2>1, <1>4, <1>5, FS_Bijection

(* With each probe recorded once, getCurrentSize is the number of probes   *)
(* recorded.                                                               *)
LEMMA CardinalityOfRecorded ==
    ASSUME ttlToProbeResults \in Seq(ProbeResult), EachProbeOnce(ttlToProbeResults)
    PROVE  IsFiniteSet(Recorded) /\ Cardinality(Recorded) = Len(ttlToProbeResults)
  <1> DEFINE n     == Len(ttlToProbeResults)
             probe == [k \in 1 .. n |-> ttlToProbeResults[k].probe]
  <1>1. n \in Nat /\ DOMAIN ttlToProbeResults = 1 .. n
    BY LenProperties
  <1> HIDE DEF n
  <1>2. IsFiniteSet(1 .. n) /\ Cardinality(1 .. n) = n
    <2>1. IsFiniteSet(1 .. n) /\ Cardinality(1 .. n) = IF 1 > n THEN 0 ELSE n - 1 + 1
      BY <1>1, FS_Interval, 1 \in Int, n \in Int
    <2>2. QED
      BY <2>1, <1>1
  <1>3. Recorded = {ttlToProbeResults[k].probe : k \in 1 .. n}
    BY <1>1 DEF Recorded, ProbesOf, Range
  <1>4. probe \in Bijection(1 .. n, Recorded)
    <2>1. probe \in [1 .. n -> Recorded]
      BY <1>3
    <2>2. \A a, b \in 1 .. n : probe[a] = probe[b] => a = b
      BY <1>1 DEF EachProbeOnce
    <2>3. \A p \in Recorded : \E k \in 1 .. n : probe[k] = p
      BY <1>3
    <2>4. QED
      BY <2>1, <2>2, <2>3 DEF Bijection, Injection, Surjection, IsInjective
  <1>5. ExistsBijection(1 .. n, Recorded)
    BY <1>4 DEF ExistsBijection
  <1>6. QED
    BY <1>2, <1>5, FS_Bijection DEF n

(* When the loop has counted expectedSize results on an object that had    *)
(* nothing registered before the call, it has the results of exactly the   *)
(* probes asked for, and nothing is left registered.                       *)
THEOREM CountSuffices == Spec => []CountMeansComplete
  <1>1. TypeOK /\ Accounting => CountMeansComplete
    <2> SUFFICES ASSUME TypeOK, Accounting,
                        getCurrentSize >= expectedSize, carried = 0,
                        (args.ttlEnd - args.ttlBegin + 1) * args.retries
                            \in 0 .. UintModulus - 1
                 PROVE  mPacketsToBeValidated = <<>> /\ Recorded = Asked
      BY DEF CountMeansComplete
    <2> DEFINE product == (args.ttlEnd - args.ttlBegin + 1) * args.retries
    <2>1. /\ args \in [ttlBegin : Nat, ttlEnd : Nat, retries : Nat]
          /\ mPacketsToBeValidated \in Seq(PacketToValidate)
          /\ ttlToProbeResults \in Seq(ProbeResult)
      BY DEF TypeOK
    <2>2. product \in 0 .. UintModulus - 1 /\ UintModulus \in Nat \ {0}
      BY FastAssumption
    <2>3. expectedSize = product % UintModulus
      BY DEF expectedSize
    <2> HIDE DEF product
    <2>4. expectedSize = product /\ product \in Nat
      BY <2>2, <2>3
    <2>5. IsFiniteSet(Asked) /\ Cardinality(Asked) = product
      BY <2>1, <2>4, CardinalityOfAsked DEF product
    <2>6. IsFiniteSet(Recorded) /\ Cardinality(Recorded) = Len(ttlToProbeResults)
      BY <2>1, CardinalityOfRecorded DEF Accounting, NoProbeTwice
    <2>7. Pending \cup Recorded \subseteq Asked
      <3>1. ASSUME NEW p \in Pending \cup Recorded
            PROVE  p \in Asked
        <4>1. p \in Probe
          <5>1. CASE p \in Pending
            BY <5>1, PendingType
          <5>2. CASE p \in Recorded
            <6>1. PICK k \in 1 .. Len(ttlToProbeResults) : p = ttlToProbeResults[k].probe
              BY <5>2, <2>1, LenProperties DEF Recorded, ProbesOf, Range
            <6>2. ttlToProbeResults[k] \in ProbeResult
              BY <2>1, ElementOfSeq
            <6>3. QED
              BY <6>1, <6>2 DEF ProbeResult
          <5>3. QED
            BY <5>1, <5>2
        <4>2. p.call = call /\ Passed(p)
          BY <3>1 DEF Accounting
        <4>3. QED
          BY <4>1, <4>2 DEF Passed, Asked, Probe
      <3>2. QED
        BY <3>1
    <2>8. Recorded = Asked
      <3>1. Cardinality(Recorded) <= Cardinality(Asked)
        BY <2>5, <2>7, FS_Subset
      <3>2. Cardinality(Recorded) >= Cardinality(Asked)
        BY <2>4, <2>5, <2>6 DEF getCurrentSize
      <3>3. Cardinality(Recorded) = Cardinality(Asked)
        BY <3>1, <3>2, <2>4, <2>5, <2>6, <2>1, LenProperties
      <3>4. QED
        BY <3>3, <2>5, <2>7, FS_Subset
    <2>9. Pending = {}
      BY <2>7, <2>8 DEF Accounting, NoProbeTwice
    <2>10. mPacketsToBeValidated = <<>>
      <3>1. \A k \in DOMAIN mPacketsToBeValidated : mPacketsToBeValidated[k].probe \in Pending
        BY DEF Pending, ProbesOf, Range
      <3>2. DOMAIN mPacketsToBeValidated = {}
        BY <3>1, <2>9
      <3>3. QED
        BY <3>2, <2>1
    <2>11. QED
      BY <2>8, <2>10
  <1>2. QED
    BY Typing, AccountsAreKept, <1>1, PTL

-------------------------------------------------------------------------------
(* Replies are credited to the probe that was answered *)

(* Nothing is registered, read or credited at first.                       *)
LEMMA ProvenanceInit == Init => Provenance
  BY DEF Init, NetworkInit, Provenance, nullopt, Range

(* The wire only grows; a step that adds no packet, no datagram and no     *)
(* result keeps Provenance.                                                *)
LEMMA SameSourcesSameProvenance ==
    ASSUME Provenance,
           wire \subseteq wire',
           sPc' = "push" => sPacket' \in wire',
           \A p \in Range(mPacketsToBeValidated)' :
               p \in Range(mPacketsToBeValidated) \/ PacketOf(p) \in wire',
           \A r \in inbox' \cup {respInfo'} :
               r \in inbox \cup {respInfo} \/ (r.kind = "reply" => PacketOf(r) \in wire'),
           \A r \in Range(ttlToProbeResults)' :
               \/ r \in Range(ttlToProbeResults)
               \/ r.success => \E m, n \in wire' :
                     m.probe = r.probe /\ n.probe = r.cause /\ m.key = n.key
    PROVE  Provenance'
  <1>1. \A p \in Range(mPacketsToBeValidated)' : PacketOf(p) \in wire'
    BY DEF Provenance
  <1>2. \A r \in inbox' \cup {respInfo'} : r.kind = "reply" => PacketOf(r) \in wire'
    BY DEF Provenance
  <1>3. \A r \in Range(ttlToProbeResults)' : r.success =>
           \E m, n \in wire' : m.probe = r.probe /\ n.probe = r.cause /\ m.key = n.key
    BY DEF Provenance
  <1>4. QED
    BY <1>1, <1>2, <1>3 DEF Provenance, PacketOf

(* sendPackets registers what it has put on the wire.                      *)
LEMMA SenderKeepsProvenance ==
    ASSUME TypeOK, Provenance, Sender
    PROVE  Provenance'
  <1>1. CASE SendPacket
    BY <1>1, SameSourcesSameProvenance DEF SendPacket, Transmit, receiverVars
  <1>2. CASE SendFails \/ SendPacketsReturns
    BY <1>2, SameSourcesSameProvenance
       DEF SendFails, SendPacketsReturns, receiverVars, networkVars
  <1>3. CASE RegisterPacket
    <2> DEFINE entry == [probe |-> sPacket.probe, key |-> sPacket.key, age |-> 0]
    <2>1. /\ mPacketsToBeValidated \in Seq(PacketToValidate)
          /\ entry \in PacketToValidate
          /\ mPacketsToBeValidated' = Append(mPacketsToBeValidated, entry)
      BY <1>3, TracerouteAssumption
         DEF TypeOK, RegisterPacket, Packet, PacketToValidate, Age, AgeCap
    <2>2. PacketOf(entry) \in wire
      BY <1>3 DEF RegisterPacket, Provenance, PacketOf, TypeOK, Packet
    <2> HIDE DEF entry
    <2>3. \A p \in Range(mPacketsToBeValidated)' :
             p \in Range(mPacketsToBeValidated) \/ PacketOf(p) \in wire
      BY <2>1, <2>2, RangeOfAppend
    <2>4. QED
      BY <1>3, <2>3, SameSourcesSameProvenance DEF RegisterPacket, receiverVars, networkVars
  <1>4. QED
    BY <1>1, <1>2, <1>3 DEF Sender

(* A response is credited to a packet with its key, and both were on the   *)
(* wire.                                                                   *)
LEMMA MatchKeepsProvenance ==
    ASSUME TypeOK, Provenance, LockAndMatch
    PROVE  Provenance'
  <1> DEFINE k == IF respInfo = nullopt THEN 0 ELSE ValidPacket(respInfo)
  <1>1. /\ mPacketsToBeValidated \in Seq(PacketToValidate)
        /\ ttlToProbeResults \in Seq(ProbeResult)
        /\ respInfo \in Response \cup {nullopt}
    BY DEF TypeOK
  <1>2. UNCHANGED <<wire, inbox, sPc, sPacket>> /\ respInfo' = nullopt
    BY DEF LockAndMatch, senderVars, networkVars
  <1>3. nullopt.kind # "reply"
    BY DEF nullopt
  <1>4. CASE k = 0
    <2>1. UNCHANGED <<ttlToProbeResults, mPacketsToBeValidated>>
      BY <1>4 DEF LockAndMatch
    <2>2. QED
      BY <2>1, <1>2, <1>3, SameSourcesSameProvenance DEF Provenance
  <1>5. CASE k # 0
    <2>1. /\ k \in 1 .. Len(mPacketsToBeValidated)
          /\ isValid(mPacketsToBeValidated[k], respInfo)
      BY <1>1, <1>5, ValidPacketFound, LenProperties
    <2>2. /\ ttlToProbeResults' =
                Append(ttlToProbeResults, successProbe(mPacketsToBeValidated[k].probe, respInfo))
          /\ mPacketsToBeValidated' = RemoveAt(mPacketsToBeValidated, k)
      BY <1>5 DEF LockAndMatch, ErasePacket
    <2> HIDE DEF k
    <2> DEFINE p == mPacketsToBeValidated[k]
               r == successProbe(p.probe, respInfo)
    <2>3. p \in PacketToValidate /\ p \in Range(mPacketsToBeValidated)
      BY <1>1, <2>1, ElementOfSeq, LenProperties DEF Range
    <2>4. r \in ProbeResult
      BY <1>1, <2>1, <2>3, SuccessType
    <2>5. /\ PacketOf(p) \in wire
          /\ PacketOf(respInfo) \in wire
          /\ respInfo.key = p.key
      BY <2>1, <2>3 DEF isValid, Provenance
    <2>6. \E m, n \in wire : m.probe = r.probe /\ n.probe = r.cause /\ m.key = n.key
      <3>1. /\ PacketOf(p).probe = r.probe
            /\ PacketOf(respInfo).probe = r.cause
            /\ PacketOf(p).key = PacketOf(respInfo).key
        BY <2>5 DEF PacketOf, successProbe
      <3>2. QED
        BY <3>1, <2>5
    <2> HIDE DEF r
    <2>7. \A x \in Range(ttlToProbeResults)' : x \in Range(ttlToProbeResults) \/ x = r
      BY <1>1, <2>2, <2>4, RangeOfAppend DEF r
    <2>8. \A x \in Range(mPacketsToBeValidated)' : x \in Range(mPacketsToBeValidated)
      BY <1>1, <2>1, <2>2, RangeOfRemoveAt
    <2>9. QED
      BY <1>2, <1>3, <2>6, <2>7, <2>8, SameSourcesSameProvenance DEF Provenance
  <1>6. QED
    BY <1>4, <1>5

(* Giving up a packet credits nothing.                                     *)
LEMMA GivingUpKeepsProvenance ==
    ASSUME TypeOK, Provenance, SweepGivesUp
    PROVE  Provenance'
  <1> DEFINE r == failedProbe(mPacketsToBeValidated[it].probe)
  <1>1. /\ mPacketsToBeValidated \in Seq(PacketToValidate)
        /\ ttlToProbeResults \in Seq(ProbeResult)
    BY DEF TypeOK
  <1>2. it \in 1 .. Len(mPacketsToBeValidated)
    BY GiveUpType
  <1>3. r \in ProbeResult /\ ~r.success
    BY <1>1, <1>2, ElementOfSeq, FailureType DEF failedProbe
  <1>4. /\ mPacketsToBeValidated' = RemoveAt(mPacketsToBeValidated, it)
        /\ ttlToProbeResults' = Append(ttlToProbeResults, r)
        /\ UNCHANGED <<wire, inbox, respInfo, sPc, sPacket>>
    BY DEF SweepGivesUp, ErasePacket, senderVars, networkVars
  <1> HIDE DEF r
  <1>5. \A x \in Range(ttlToProbeResults)' : x \in Range(ttlToProbeResults) \/ x = r
    BY <1>1, <1>3, <1>4, RangeOfAppend
  <1>6. \A x \in Range(mPacketsToBeValidated)' : x \in Range(mPacketsToBeValidated)
    BY <1>1, <1>2, <1>4, RangeOfRemoveAt
  <1>7. QED
    BY <1>3, <1>4, <1>5, <1>6, SameSourcesSameProvenance DEF Provenance

(* The steps of receiveAndValidate keep provenance.                        *)
LEMMA ReceiverKeepsProvenance ==
    ASSUME TypeOK, Provenance, Receiver
    PROVE  Provenance'
  <1>1. CASE LockAndMatch
    BY <1>1, MatchKeepsProvenance
  <1>2. CASE SweepGivesUp
    BY <1>2, GivingUpKeepsProvenance
  <1>3. CASE ReceiveResponse
    BY <1>3, SameSourcesSameProvenance DEF ReceiveResponse, Take, senderVars, Provenance
  <1>4. CASE ReceiveThrows \/ ValidationThrows
    <2>1. nullopt.kind # "reply"
      BY DEF nullopt
    <2>2. QED
      BY <1>4, <2>1, SameSourcesSameProvenance
         DEF ReceiveThrows, ValidationThrows, Throw, senderVars, networkVars, Provenance
  <1>5. CASE \/ ReceiverBegins \/ CheckSize \/ ReceiveNothing \/ SweepKeeps \/ SweepEnds
             \/ CollectResults \/ JoinSender
    BY <1>5, SameSourcesSameProvenance
       DEF ReceiverBegins, CheckSize, ReceiveNothing, SweepKeeps, SweepEnds, CollectResults,
           JoinSender, senderVars, networkVars, Provenance
  <1>6. QED
    BY <1>1, <1>2, <1>3, <1>4, <1>5 DEF Receiver

(* So do a new call, the clock and the network.                            *)
LEMMA OtherStepsKeepProvenance ==
    ASSUME TypeOK, Provenance,
           beginProbing \/ Tick \/ World \/ UNCHANGED vars
    PROVE  Provenance'
  <1>1. CASE beginProbing
    <2>1. Range(ttlToProbeResults)' = {}
      BY <1>1 DEF beginProbing, Range
    <2>2. QED
      BY <1>1, <2>1, SameSourcesSameProvenance DEF beginProbing, networkVars
  <1>2. CASE Tick
    <2> DEFINE s == mPacketsToBeValidated
    <2>1. /\ DOMAIN s' = DOMAIN s
          /\ \A k \in DOMAIN s : s'[k] = [s[k] EXCEPT !.age = Later(@, AgeCap)]
      BY <1>2 DEF Tick
    <2>2. \A k \in DOMAIN s : s[k] \in PacketToValidate
      BY LenProperties, ElementOfSeq DEF TypeOK
    <2>3. \A k \in DOMAIN s : PacketOf(s'[k]) = PacketOf(s[k])
      BY <2>1, <2>2 DEF PacketOf, PacketToValidate
    <2>4. UNCHANGED <<wire, inbox, respInfo, sPc, sPacket, ttlToProbeResults>>
      BY <1>2 DEF Tick, senderVars, networkVars
    <2>5. \A p \in Range(s)' : PacketOf(p) \in wire
      <3>1. \A k \in DOMAIN s : PacketOf(s[k]) \in wire
        BY DEF Provenance, Range
      <3>2. QED
        BY <3>1, <2>1, <2>3 DEF Range
    <2>6. QED
      BY <2>4, <2>5, SameSourcesSameProvenance DEF Provenance
  <1>3. CASE World
    <2>1. \A r \in inbox' : r \in inbox \/ (r.kind = "reply" => PacketOf(r) \in wire')
      <3>1. CASE Answer
        <4>1. PICK packet \in wire : inbox' = inbox \cup {Reply(packet)}
          BY <3>1 DEF Answer
        <4>2. packet \in Packet
          BY DEF TypeOK, NetworkTypeOK
        <4>3. PacketOf(Reply(packet)) = packet
          BY <4>2 DEF Reply, PacketOf, Packet
        <4>4. wire' = wire
          BY <3>1 DEF Answer
        <4>5. QED
          BY <4>1, <4>3, <4>4
      <3>2. CASE StrayArrives
        <4>1. PICK kind \in StrayKinds : inbox' = inbox \cup {Stray(kind)}
          BY <3>2 DEF StrayArrives
        <4>2. Stray(kind).kind # "reply"
          BY NetworkAssumption DEF Stray
        <4>3. QED
          BY <4>1, <4>2
      <3>3. QED
        BY <1>3, <3>1, <3>2 DEF World, Environment
    <2>2. UNCHANGED <<wire, respInfo, sPc, sPacket, ttlToProbeResults, mPacketsToBeValidated>>
      BY <1>3 DEF World, Environment, Answer, StrayArrives, senderVars, receiverVars
    <2>3. QED
      BY <2>1, <2>2, SameSourcesSameProvenance DEF Provenance
  <1>4. CASE UNCHANGED vars
    BY <1>4, SameSourcesSameProvenance
       DEF vars, senderVars, receiverVars, networkVars, Provenance
  <1>5. QED
    BY <1>1, <1>2, <1>3, <1>4

(* What is registered, read and credited stems from packets sent, and a    *)
(* credit joins two of them that have one key.                             *)
THEOREM ProvenanceIsKept == Spec => []Provenance
  <1>1. TypeOK /\ Provenance /\ [Next]_vars => Provenance'
    BY SenderKeepsProvenance, ReceiverKeepsProvenance, OtherStepsKeepProvenance DEF Next
  <1>2. QED
    BY ProvenanceInit, Typing, <1>1, PTL DEF Spec

(* As long as no two packets drew the same key, a success is credited to   *)
(* the probe that was answered: whatever replies are lost, repeated or     *)
(* late, from this call or an earlier one.                                 *)
THEOREM CreditIsRight == Spec => []RepliesCreditTheirProbe
  <1>1. Provenance => RepliesCreditTheirProbe
    BY DEF Provenance, RepliesCreditTheirProbe, DistinctKeys
  <1>2. QED
    BY ProvenanceIsKept, <1>1, PTL

-------------------------------------------------------------------------------
(* Nothing runs between calls *)

(* Between the end of a call and the next, nothing is sent, no probe is    *)
(* registered or settled, and the sender does not move.                    *)
THEOREM CallsLeaveNoThread == Spec => NothingRunsBetweenCalls
  <1>1. ASSUME TypeOK, Accounting, [Next]_vars, rPc = "idle", rPc' = "idle"
        PROVE  UNCHANGED <<wire, sPc>> /\ Pending' = Pending
    <2>1. sPc \notin {"send", "push"}
      BY <1>1 DEF Accounting
    <2>2. ~Sender /\ ~beginProbing
      BY <1>1, <2>1 DEF Sender, SendPacket, SendFails, RegisterPacket, SendPacketsReturns,
                        beginProbing
    <2>3. ~Receiver
      BY <1>1 DEF Receiver, ReceiverBegins, CheckSize, ReceiveResponse, ReceiveNothing,
                  ReceiveThrows, ValidationThrows, LockAndMatch, SweepGivesUp, SweepKeeps,
                  SweepEnds, CollectResults, JoinSender
    <2>4. CASE Tick
      <3>1. Pending' = Pending
        BY <1>1, <2>4, TickKeepsPackets DEF TypeOK
      <3>2. QED
        BY <2>4, <3>1 DEF Tick, senderVars, networkVars
    <2>5. CASE World
      BY <2>5 DEF World, Environment, Answer, StrayArrives, senderVars, Pending
    <2>6. CASE UNCHANGED vars
      BY <2>6 DEF vars, senderVars, networkVars, Pending
    <2>7. QED
      BY <1>1, <2>2, <2>3, <2>4, <2>5, <2>6 DEF Next
  <1>2. TypeOK /\ Accounting /\ [Next]_vars
          => [rPc = "idle" /\ rPc' = "idle" => UNCHANGED <<wire, sPc>> /\ Pending' = Pending]_vars
    BY <1>1
  <1>3. QED
    BY Typing, AccountsAreKept, <1>2, PTL DEF Spec, NothingRunsBetweenCalls

-------------------------------------------------------------------------------
(* FastTraceroute does not give up a probe whose reply it has read: the    *)
(* match of a critical section settles the probe before the sweep of the   *)
(* same critical section looks at its age.                                 *)

(* One packet per probe *)

(* The sender's loops never send a probe again: what is on the wire for    *)
(* this call is behind the loops, but for the packet in the sender's hands.*)
OnePacketPerProbe ==
    /\ \A m, n \in wire : m.probe = n.probe => m = n
    /\ \A m \in wire :
          /\ m.probe.call <= call
          /\ m.probe.call = call => Passed(m.probe) \/ (sPc = "push" /\ m = sPacket)

(* Nothing is on the wire at first.                                        *)
LEMMA OnePacketInit == Init => OnePacketPerProbe
  BY DEF Init, NetworkInit, OnePacketPerProbe

(* A step that sends nothing and leaves the sender's packet and loops      *)
(* alone keeps one packet per probe.                                       *)
LEMMA NothingSentKeepsOnePacket ==
    ASSUME OnePacketPerProbe,
           UNCHANGED <<wire, call, args, sTtl, sRetry>>,
           sPc = "push" => sPc' = "push" /\ UNCHANGED sPacket
    PROVE  OnePacketPerProbe'
  <1>1. \A p : Passed(p)' <=> Passed(p)
    BY DEF Passed
  <1>2. QED
    BY <1>1 DEF OnePacketPerProbe

(* The packet sent carries the probe the loops stand at, which no packet   *)
(* on the wire carries.                                                    *)
LEMMA SendingKeepsOnePacket ==
    ASSUME TypeOK, Accounting, OnePacketPerProbe, SendPacket
    PROVE  OnePacketPerProbe'
  <1>1. PICK key \in Keys :
           sPacket' = [probe |-> [call |-> call, ttl |-> sTtl, retry |-> sRetry], key |-> key]
    BY DEF SendPacket
  <1>2. /\ wire' = wire \cup {sPacket'}
        /\ sPc = "send" /\ sPc' = "push"
        /\ UNCHANGED <<call, args, sTtl, sRetry>>
    BY DEF SendPacket, Transmit, callVars
  <1> DEFINE new == [call |-> call, ttl |-> sTtl, retry |-> sRetry]
  <1>3. sPacket'.probe = new /\ new.call = call
    BY <1>1
  <1>4. call \in Nat /\ sTtl \in Nat /\ sRetry \in Nat
    BY FastAssumption DEF TypeOK
  <1>5. ~Passed(new)
    BY <1>4 DEF Passed
  <1>6. \A p : Passed(p)' <=> Passed(p)
    BY <1>2 DEF Passed
  <1>7. \A m \in wire : m.probe.call = call => Passed(m.probe)
    BY <1>2 DEF OnePacketPerProbe
  <1>8. \A m \in wire : m.probe # new
    BY <1>3, <1>5, <1>7
  <1>9. \A m, n \in wire' : m.probe = n.probe => m = n
    BY <1>2, <1>3, <1>8 DEF OnePacketPerProbe
  <1>10. ASSUME NEW m \in wire'
         PROVE  /\ m.probe.call <= call'
                /\ m.probe.call = call' => Passed(m.probe)' \/ (sPc' = "push" /\ m = sPacket')
    <2>1. CASE m \in wire
      BY <2>1, <1>2, <1>6, <1>7 DEF OnePacketPerProbe
    <2>2. CASE m = sPacket'
      BY <2>2, <1>2, <1>3, <1>4
    <2>3. QED
      BY <2>1, <2>2, <1>2
  <1>11. QED
    BY <1>9, <1>10 DEF OnePacketPerProbe

(* push_back takes the loops past the packet in the sender's hands.        *)
LEMMA RegisteringKeepsOnePacket ==
    ASSUME TypeOK, Accounting, OnePacketPerProbe, RegisterPacket
    PROVE  OnePacketPerProbe'
  <1>1. UNCHANGED <<wire, call, args>> /\ NextIteration /\ sPc = "push"
    BY DEF RegisterPacket, networkVars, callVars
  <1>2. /\ call \in Nat /\ sTtl \in Nat /\ sRetry \in Nat
        /\ args.ttlBegin \in Nat /\ args.ttlEnd \in Nat /\ args.retries \in Nat
    BY FastAssumption DEF TypeOK
  <1>3. /\ sPacket.probe = [call |-> call, ttl |-> sTtl, retry |-> sRetry]
        /\ sTtl >= args.ttlBegin /\ sTtl <= args.ttlEnd /\ sRetry < args.retries
    BY <1>1 DEF Accounting
  <1>4. \A p : Passed(p) => Passed(p)'
    <2>1. CASE sRetry + 1 < args.retries
      BY <2>1, <1>1, <1>2 DEF NextIteration, Passed
    <2>2. CASE ~(sRetry + 1 < args.retries)
      BY <2>2, <1>1, <1>2 DEF NextIteration, Passed
    <2>3. QED
      BY <2>1, <2>2
  <1>5. ASSUME NEW p, p = sPacket.probe
        PROVE  Passed(p)'
    <2>1. p.ttl = sTtl /\ p.retry = sRetry /\ p.call = call
      BY <1>3, <1>5
    <2>2. CASE sRetry + 1 < args.retries
      BY <2>1, <2>2, <1>1, <1>2, <1>3 DEF NextIteration, Passed
    <2>3. CASE ~(sRetry + 1 < args.retries)
      BY <2>1, <2>3, <1>1, <1>2, <1>3 DEF NextIteration, Passed
    <2>4. QED
      BY <2>2, <2>3
  <1>6. QED
    BY <1>1, <1>4, <1>5 DEF OnePacketPerProbe

(* A new call finds no packet of its own on the wire.                      *)
LEMMA BeginningKeepsOnePacket ==
    ASSUME TypeOK, OnePacketPerProbe, beginProbing
    PROVE  OnePacketPerProbe'
  <1>1. wire' = wire /\ call' = call + 1 /\ call \in Nat
    BY FastAssumption DEF beginProbing, networkVars, TypeOK
  <1>2. \A m \in wire : m.probe.call \in Nat
    BY DEF TypeOK, NetworkTypeOK, Packet, Probe
  <1>3. \A m \in wire : m.probe.call <= call' /\ m.probe.call # call'
    BY <1>1, <1>2 DEF OnePacketPerProbe
  <1>4. QED
    BY <1>1, <1>3 DEF OnePacketPerProbe

(* The sender sends each probe in at most one packet, over all calls.      *)
THEOREM OnePacketIsKept == Spec => []OnePacketPerProbe
  <1>1. ASSUME TypeOK, Accounting, OnePacketPerProbe, [Next]_vars
        PROVE  OnePacketPerProbe'
    <2>1. CASE beginProbing
      BY <1>1, <2>1, BeginningKeepsOnePacket
    <2>2. CASE SendPacket
      BY <1>1, <2>2, SendingKeepsOnePacket
    <2>3. CASE RegisterPacket
      BY <1>1, <2>3, RegisteringKeepsOnePacket
    <2>4. CASE SendFails \/ SendPacketsReturns
      BY <1>1, <2>4, NothingSentKeepsOnePacket
         DEF SendFails, SendPacketsReturns, callVars, networkVars
    <2>5. CASE Receiver
      <3>1. UNCHANGED <<wire, callVars, senderVars>>
        BY <2>5 DEF Receiver, ReceiverBegins, CheckSize, ReceiveResponse, ReceiveNothing,
                    ReceiveThrows, ValidationThrows, Throw, LockAndMatch, SweepGivesUp,
                    SweepKeeps, SweepEnds, CollectResults, JoinSender, networkVars
      <3>2. QED
        BY <1>1, <3>1, NothingSentKeepsOnePacket DEF callVars, senderVars
    <2>6. CASE Tick \/ World \/ UNCHANGED vars
      BY <1>1, <2>6, NothingSentKeepsOnePacket
         DEF Tick, World, Environment, Answer, StrayArrives, vars, callVars, senderVars,
             networkVars
    <2>7. QED
      BY <1>1, <2>1, <2>2, <2>3, <2>4, <2>5, <2>6 DEF Next, Sender
  <1>2. QED
    BY OnePacketInit, Typing, AccountsAreKept, <1>1, PTL DEF Spec

-------------------------------------------------------------------------------
(* What was heard is settled as a success *)

(* The inductive invariant: a probe heard of and still registered is the   *)
(* one whose reply waits in mBuffer for the lock.                          *)
Hearing ==
    /\ heard \subseteq Pending \cup Recorded
    /\ DistinctKeys => \A p \in heard \cap Pending :
          rPc = "lock" /\ respInfo.kind = "reply" /\ respInfo.probe = p
    /\ HeardIsNotGivenUp

(* No probe was heard of at first.                                         *)
LEMMA HearingInit == Init => Hearing
  BY DEF Init, Hearing, HeardIsNotGivenUp, Range

(* find_if misses nothing: if the response is valid for some registered    *)
(* packet, it finds one.                                                   *)
LEMMA ValidPacketNotMissed ==
    ASSUME NEW response, mPacketsToBeValidated \in Seq(PacketToValidate),
           NEW j \in 1 .. Len(mPacketsToBeValidated),
           isValid(mPacketsToBeValidated[j], response)
    PROVE  ValidPacket(response) # 0
  <1> DEFINE I == {k \in 1 .. Len(mPacketsToBeValidated) :
                      isValid(mPacketsToBeValidated[k], response)}
  <1>1. ValidPacket(response) = IF I # {} THEN Min(I) ELSE 0
    BY DEF ValidPacket, SelectInSeq
  <1>2. j \in I
    OBVIOUS
  <1>3. I \in SUBSET Nat /\ \A k \in I : k # 0
    BY LenProperties
  <1>4. Min(I) \in I
    BY <1>2, <1>3, MinOfNaturals
  <1>5. QED
    BY <1>1, <1>2, <1>3, <1>4

(* The reply to a registered probe is valid for its packet: the probe was  *)
(* sent once, with one key.                                                *)
LEMMA ReplyFindsItsProbe ==
    ASSUME TypeOK, Provenance, OnePacketPerProbe,
           respInfo.kind = "reply", respInfo.probe \in Pending
    PROVE  ValidPacket(respInfo) # 0
  <1>1. PICK j \in DOMAIN mPacketsToBeValidated : mPacketsToBeValidated[j].probe = respInfo.probe
    BY DEF Pending, ProbesOf, Range
  <1>2. mPacketsToBeValidated \in Seq(PacketToValidate)
    BY DEF TypeOK
  <1>3. j \in 1 .. Len(mPacketsToBeValidated)
    BY <1>1, <1>2, LenProperties
  <1> DEFINE p == mPacketsToBeValidated[j]
  <1>4. PacketOf(p) \in wire /\ PacketOf(respInfo) \in wire
    BY <1>1 DEF Provenance, Range
  <1>5. PacketOf(p).probe = PacketOf(respInfo).probe
    BY <1>1 DEF PacketOf
  <1>6. PacketOf(p) = PacketOf(respInfo)
    BY <1>4, <1>5 DEF OnePacketPerProbe
  <1>7. p.key = respInfo.key
    BY <1>6 DEF PacketOf
  <1>8. isValid(p, respInfo)
    BY <1>7 DEF isValid
  <1>9. QED
    BY <1>2, <1>3, <1>8, ValidPacketNotMissed

(* A step that settles and reads nothing keeps Hearing if it leaves the    *)
(* response alone, or if nothing heard of is registered.                   *)
LEMMA NothingHeardKeepsHearing ==
    ASSUME Hearing,
           wire \subseteq wire',
           UNCHANGED <<heard, ttlToProbeResults>>, Pending' = Pending,
           UNCHANGED <<rPc, respInfo>> \/ rPc # "lock" \/ respInfo.kind # "reply"
    PROVE  Hearing'
  <1>1. Recorded' = Recorded
    BY DEF Recorded
  <1>2. ASSUME DistinctKeys', NEW p \in heard' \cap Pending'
        PROVE  rPc' = "lock" /\ respInfo'.kind = "reply" /\ respInfo'.probe = p
    BY <1>2, DistinctBefore DEF Hearing
  <1>3. HeardIsNotGivenUp'
    BY DistinctBefore DEF Hearing, HeardIsNotGivenUp
  <1>4. QED
    BY <1>1, <1>2, <1>3 DEF Hearing

(* The match settles the probe whose reply was read.                       *)
LEMMA MatchKeepsHearing ==
    ASSUME TypeOK, Accounting, Provenance, OnePacketPerProbe, Hearing, LockAndMatch
    PROVE  Hearing'
  <1> DEFINE k == IF respInfo = nullopt THEN 0 ELSE ValidPacket(respInfo)
  <1>1. /\ mPacketsToBeValidated \in Seq(PacketToValidate)
        /\ ttlToProbeResults \in Seq(ProbeResult)
        /\ respInfo \in Response \cup {nullopt}
    BY DEF TypeOK
  <1>2. UNCHANGED <<wire, heard>>
    BY DEF LockAndMatch, networkVars
  <1>3. DistinctKeys' <=> DistinctKeys
    BY <1>2 DEF DistinctKeys
  <1>4. CASE k = 0
    <2>1. UNCHANGED <<ttlToProbeResults, mPacketsToBeValidated>>
      BY <1>4 DEF LockAndMatch
    <2>2. Pending' = Pending /\ Recorded' = Recorded
      BY <2>1 DEF Pending, Recorded
    <2>3. ASSUME DistinctKeys, NEW p \in heard \cap Pending
          PROVE  FALSE
      <3>1. respInfo.kind = "reply" /\ respInfo.probe \in Pending
        BY <2>3 DEF Hearing
      <3>2. respInfo # nullopt
        BY <3>1 DEF nullopt
      <3>3. QED
        BY <3>1, <3>2, <1>4, ReplyFindsItsProbe
    <2>4. HeardIsNotGivenUp'
      BY <2>1, <1>2, <1>3 DEF Hearing, HeardIsNotGivenUp
    <2>5. QED
      BY <2>2, <2>3, <2>4, <1>2, <1>3 DEF Hearing
  <1>5. CASE k # 0
    <2>1. /\ k \in 1 .. Len(mPacketsToBeValidated)
          /\ isValid(mPacketsToBeValidated[k], respInfo)
      BY <1>1, <1>5, ValidPacketFound, LenProperties
    <2>2. /\ ttlToProbeResults' =
                Append(ttlToProbeResults, successProbe(mPacketsToBeValidated[k].probe, respInfo))
          /\ mPacketsToBeValidated' = RemoveAt(mPacketsToBeValidated, k)
      BY <1>5 DEF LockAndMatch, ErasePacket
    <2> HIDE DEF k
    <2> DEFINE packet == mPacketsToBeValidated[k]
               r == successProbe(packet.probe, respInfo)
    <2>3. packet \in PacketToValidate /\ packet \in Range(mPacketsToBeValidated)
      BY <1>1, <2>1, ElementOfSeq, LenProperties DEF Range
    <2>4. r \in ProbeResult
      BY <1>1, <2>1, <2>3, SuccessType
    <2>5. r.probe = packet.probe /\ r.success
      BY DEF successProbe
    <2>6. DistinctKeys => respInfo.probe = packet.probe
      <3>1. /\ PacketOf(packet) \in wire
            /\ PacketOf(respInfo) \in wire
            /\ respInfo.key = packet.key
        BY <2>1, <2>3 DEF isValid, Provenance
      <3>2. PacketOf(packet).key = PacketOf(respInfo).key
        BY <3>1 DEF PacketOf
      <3>3. DistinctKeys => PacketOf(packet) = PacketOf(respInfo)
        BY <3>1, <3>2 DEF DistinctKeys
      <3>4. QED
        BY <3>3 DEF PacketOf
    <2>7. Pending' = Pending \ {packet.probe}
      BY <1>1, <2>1, <2>2, ProbesOfRemoveAt DEF Accounting, NoProbeTwice, Pending
    <2> HIDE DEF r
    <2>8. Recorded' = Recorded \cup {packet.probe}
      BY <1>1, <2>2, <2>4, <2>5, ProbesOfAppend DEF Recorded, r
    <2>9. \A x \in Range(ttlToProbeResults)' : x \in Range(ttlToProbeResults) \/ x = r
      BY <1>1, <2>2, <2>4, RangeOfAppend DEF r
    <2>10. ASSUME DistinctKeys, NEW p \in heard \cap Pending'
           PROVE  FALSE
      <3>1. respInfo.probe = p
        BY <2>7, <2>10 DEF Hearing
      <3>2. QED
        BY <3>1, <2>6, <2>7, <2>10
    <2>11. HeardIsNotGivenUp'
      BY <2>5, <2>9, <1>2, <1>3 DEF Hearing, HeardIsNotGivenUp
    <2>12. heard \subseteq (Pending \cup Recorded)'
      BY <2>7, <2>8 DEF Hearing
    <2>13. QED
      BY <2>10, <2>11, <2>12, <1>2, <1>3 DEF Hearing
  <1>6. QED
    BY <1>4, <1>5

(* In the sweep nothing heard of is registered any more, so what is given  *)
(* up was not heard of.                                                    *)
LEMMA GivingUpKeepsHearing ==
    ASSUME TypeOK, Accounting, Hearing, SweepGivesUp
    PROVE  Hearing'
  <1> DEFINE packet == mPacketsToBeValidated[it]
             r == failedProbe(packet.probe)
  <1>1. /\ mPacketsToBeValidated \in Seq(PacketToValidate)
        /\ ttlToProbeResults \in Seq(ProbeResult)
        /\ it \in 1 .. Len(mPacketsToBeValidated)
    BY GiveUpType DEF TypeOK
  <1>2. r \in ProbeResult /\ r.probe = packet.probe
    BY <1>1, ElementOfSeq, FailureType DEF failedProbe
  <1>3. /\ mPacketsToBeValidated' = RemoveAt(mPacketsToBeValidated, it)
        /\ ttlToProbeResults' = Append(ttlToProbeResults, r)
        /\ UNCHANGED <<wire, heard, rPc>> /\ rPc = "sweep"
    BY DEF SweepGivesUp, ErasePacket, networkVars
  <1> HIDE DEF r
  <1>4. Pending' = Pending \ {packet.probe} /\ packet.probe \in Pending
    BY <1>1, <1>3, ProbesOfRemoveAt DEF Accounting, NoProbeTwice, Pending
  <1>5. Recorded' = Recorded \cup {packet.probe}
    BY <1>1, <1>2, <1>3, ProbesOfAppend DEF Recorded
  <1>6. \A x \in Range(ttlToProbeResults)' : x \in Range(ttlToProbeResults) \/ x = r
    BY <1>1, <1>2, <1>3, RangeOfAppend
  <1>7. DistinctKeys' <=> DistinctKeys
    BY <1>3 DEF DistinctKeys
  <1>8. DistinctKeys => heard \cap Pending = {}
    BY <1>3 DEF Hearing
  <1>9. HeardIsNotGivenUp'
    BY <1>2, <1>3, <1>4, <1>6, <1>7, <1>8 DEF Hearing, HeardIsNotGivenUp
  <1>10. QED
    BY <1>3, <1>4, <1>5, <1>7, <1>8, <1>9 DEF Hearing

(* A reply that is read for a registered probe is kept for the lock.       *)
LEMMA ReceivingKeepsHearing ==
    ASSUME TypeOK, Accounting, Hearing, ReceiveResponse
    PROVE  Hearing'
  <1>1. PICK response \in inbox :
           /\ respInfo' = response
           /\ heard' = IF response.kind = "reply" /\ response.probe \in Pending
                       THEN heard \cup {response.probe} ELSE heard
    BY DEF ReceiveResponse
  <1>2. /\ rPc = "receive" /\ rPc' = "lock"
        /\ UNCHANGED <<wire, ttlToProbeResults, mPacketsToBeValidated>>
    BY DEF ReceiveResponse
  <1>3. Pending' = Pending /\ Recorded' = Recorded /\ (DistinctKeys' <=> DistinctKeys)
    BY <1>2 DEF Pending, Recorded, DistinctKeys
  <1>4. DistinctKeys => heard \cap Pending = {}
    BY <1>2 DEF Hearing
  <1>5. CASE response.kind = "reply" /\ response.probe \in Pending
    <2>1. response.probe \notin Recorded
      BY <1>5 DEF Accounting, NoProbeTwice
    <2>2. \A r \in Range(ttlToProbeResults) : r.probe # response.probe
      BY <2>1 DEF Recorded, ProbesOf
    <2>3. heard' = heard \cup {response.probe}
      BY <1>1, <1>5
    <2>4. HeardIsNotGivenUp'
      BY <2>2, <2>3, <1>2, <1>3 DEF Hearing, HeardIsNotGivenUp
    <2>5. QED
      BY <2>3, <2>4, <1>1, <1>2, <1>3, <1>4, <1>5 DEF Hearing
  <1>6. CASE ~(response.kind = "reply" /\ response.probe \in Pending)
    <2>1. heard' = heard
      BY <1>1, <1>6
    <2>2. QED
      BY <2>1, <1>2, <1>3, NothingHeardKeepsHearing
  <1>7. QED
    BY <1>5, <1>6

(* The other steps of receiveAndValidate hear and settle nothing.          *)
LEMMA ReceiverKeepsHearing ==
    ASSUME TypeOK, Accounting, Provenance, OnePacketPerProbe, Hearing, Receiver
    PROVE  Hearing'
  <1>1. CASE LockAndMatch
    BY <1>1, MatchKeepsHearing
  <1>2. CASE SweepGivesUp
    BY <1>2, GivingUpKeepsHearing
  <1>3. CASE ReceiveResponse
    BY <1>3, ReceivingKeepsHearing
  <1>4. CASE \/ ReceiverBegins \/ CheckSize \/ ReceiveNothing \/ ReceiveThrows
             \/ ValidationThrows \/ SweepKeeps \/ SweepEnds \/ CollectResults \/ JoinSender
    <2>1. UNCHANGED <<wire, heard, ttlToProbeResults, mPacketsToBeValidated>>
      BY <1>4 DEF ReceiverBegins, CheckSize, ReceiveNothing, ReceiveThrows, ValidationThrows,
                  Throw, SweepKeeps, SweepEnds, CollectResults, JoinSender, networkVars
    <2>2. rPc # "lock" \/ respInfo.kind # "reply"
      BY <1>4 DEF ReceiverBegins, CheckSize, ReceiveNothing, ReceiveThrows, ValidationThrows,
                  SweepKeeps, SweepEnds, CollectResults, JoinSender, Stray
    <2>3. Pending' = Pending
      BY <2>1 DEF Pending
    <2>4. QED
      BY <2>1, <2>2, <2>3, NothingHeardKeepsHearing
  <1>5. QED
    BY <1>1, <1>2, <1>3, <1>4 DEF Receiver

(* A probe that is registered was not heard of before.                     *)
LEMMA RegisteringKeepsHearing ==
    ASSUME TypeOK, Accounting, Hearing, RegisterPacket
    PROVE  Hearing'
  <1> DEFINE entry == [probe |-> sPacket.probe, key |-> sPacket.key, age |-> 0]
  <1>1. /\ mPacketsToBeValidated \in Seq(PacketToValidate)
        /\ entry \in PacketToValidate
        /\ mPacketsToBeValidated' = Append(mPacketsToBeValidated, entry)
    BY TracerouteAssumption
       DEF TypeOK, RegisterPacket, Packet, PacketToValidate, Age, AgeCap
  <1>2. Pending' = Pending \cup {sPacket.probe}
    BY <1>1, ProbesOfAppend DEF Pending
  <1>3. sPacket.probe \notin Pending \cup Recorded
    <2>1. sPacket.probe = [call |-> call, ttl |-> sTtl, retry |-> sRetry]
      BY DEF RegisterPacket, Accounting
    <2>2. ~Passed(sPacket.probe) /\ sPacket.probe.call = call
      BY <2>1 DEF Passed, TypeOK
    <2>3. QED
      BY <2>2 DEF Accounting
  <1>4. UNCHANGED <<wire, heard, ttlToProbeResults, rPc, respInfo>>
    BY DEF RegisterPacket, receiverVars, networkVars
  <1>5. Recorded' = Recorded /\ heard' \cap Pending' = heard \cap Pending
    BY <1>2, <1>3, <1>4 DEF Hearing, Recorded
  <1>6. DistinctKeys' <=> DistinctKeys
    BY <1>4 DEF DistinctKeys
  <1>7. HeardIsNotGivenUp'
    BY <1>4, <1>6 DEF Hearing, HeardIsNotGivenUp
  <1>8. QED
    BY <1>2, <1>4, <1>5, <1>6, <1>7 DEF Hearing

(* So do the other steps of the sender, a new call, the clock and the      *)
(* network.                                                                *)
LEMMA OtherStepsKeepHearing ==
    ASSUME TypeOK, Hearing,
           \/ beginProbing \/ SendPacket \/ SendFails \/ SendPacketsReturns
           \/ Tick \/ World \/ UNCHANGED vars
    PROVE  Hearing'
  <1>1. CASE beginProbing
    <2>1. heard' = {} /\ Range(ttlToProbeResults') = {}
      BY <1>1 DEF beginProbing, Range
    <2>2. QED
      BY <2>1 DEF Hearing, HeardIsNotGivenUp
  <1>2. CASE Tick
    BY <1>2, TickKeepsPackets, NothingHeardKeepsHearing DEF Tick, TypeOK, networkVars
  <1>3. CASE SendPacket \/ SendFails \/ SendPacketsReturns \/ World \/ UNCHANGED vars
    <2>1. UNCHANGED <<heard, ttlToProbeResults, mPacketsToBeValidated, rPc, respInfo>>
      BY <1>3 DEF SendPacket, SendFails, SendPacketsReturns, World, vars, receiverVars
    <2>2. wire \subseteq wire'
      BY <1>3 DEF SendPacket, Transmit, SendFails, SendPacketsReturns, World, Environment,
                  Answer, StrayArrives, vars, networkVars
    <2>3. QED
      BY <2>1, <2>2, NothingHeardKeepsHearing DEF Pending
  <1>4. QED
    BY <1>1, <1>2, <1>3

(* With distinct keys, a probe whose reply was read while it was           *)
(* registered is never recorded as given up, however late it is by then.   *)
THEOREM HeardIsSettled == Spec => []HeardIsNotGivenUp
  <1>1. TypeOK /\ Accounting /\ Provenance /\ OnePacketPerProbe /\ Hearing /\ [Next]_vars
          => Hearing'
    BY ReceiverKeepsHearing, RegisteringKeepsHearing, OtherStepsKeepHearing DEF Next, Sender
  <1>2. Hearing => HeardIsNotGivenUp
    BY DEF Hearing
  <1>3. QED
    BY HearingInit, Typing, AccountsAreKept, ProvenanceIsKept, OnePacketIsKept, <1>1, <1>2, PTL
       DEF Spec

===============================================================================
