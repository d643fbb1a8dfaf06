---------------------------- MODULE FastTraceroute ----------------------------
(***************************************************************************)
(* FastTraceroute::beginProbing: a sender thread (std::async, sendPackets) *)
(* puts every probe on the wire and registers it in mPacketsToBeValidated; *)
(* the calling thread (receiveAndValidate) reads datagrams, matches them   *)
(* with the registered packets and gives the old ones up.  The two share   *)
(* mPacketsToBeValidated under mMutex; the object, and so the vector,      *)
(* outlives the call.                                                      *)
(*                                                                         *)
(* One action is one stretch of a thread between two points where the      *)
(* other thread, the clock or the network can interfere.                   *)
(*                                                                         *)
(* Definitions that no other refers to (expectedSizeOffByOne, EraseLast,   *)
(* ...) are the next one with a plausible mistake in it: each makes some   *)
(* property below fail, which shows that the property depends on the code. *)
(***************************************************************************)
EXTENDS Network, Traceroute

CONSTANTS
    Args,          \* the arguments of beginProbing: [ttlBegin, ttlEnd, retries]
    MaxCalls,      \* bound: calls made on one object
    UintModulus    \* 2^32, the values of unsigned

ASSUME FastAssumption ==
    /\ MaxCalls \in Nat
    /\ UintModulus \in Nat \ {0}
    /\ Args \subseteq [ttlBegin : Nat, ttlEnd : Nat, retries : Nat]

VARIABLES
    call,                   \* number of calls begun (history)
    args,                   \* the arguments of the call
    sPc,                    \* where the sender thread is
    sTtl, sRetry,           \* ttl and i of the loops of sendPackets
    sPacket,                \* the packet sent and not yet registered
    rPc,                    \* where the calling thread is
    elapsed,                \* now() - beginAt
    polled,                 \* time spent in tryReceiving
    respInfo,               \* the response read, with its bytes in mBuffer
    it,                     \* index of the sweep over the packets
    mPacketsToBeValidated,  \* sequence of [probe, key, age]
    ttlToProbeResults,      \* the results, in the order they were pushed
    outcome,                \* how the call ends: "none" until it does
    results,                \* the vector returned
    carried,                \* packets registered before the call began (history)
    heard                   \* probes a reply to which was read while they
                            \* were registered (history)

callVars     == <<call, args, carried>>
senderVars   == <<sPc, sTtl, sRetry, sPacket>>
receiverVars == <<rPc, elapsed, polled, respInfo, it, ttlToProbeResults,
                  outcome, results, heard>>
vars == <<callVars, senderVars, receiverVars, mPacketsToBeValidated, networkVars>>

-------------------------------------------------------------------------------
(* What the loops compute *)

PacketToValidate == [probe : Probe, key : Keys, age : Age]

ProbesOf(s) == {e.probe : e \in Range(s)}

Pending  == ProbesOf(mPacketsToBeValidated)
Recorded == ProbesOf(ttlToProbeResults)

expectedSizeOffByOne == ((args.ttlEnd - args.ttlBegin) * args.retries) % UintModulus

expectedSize == ((args.ttlEnd - args.ttlBegin + 1) * args.retries) % UintModulus

expectedMaxTimeTaken == Milliseconds(Timeout) * expectedSize

getCurrentSize == Len(ttlToProbeResults)

(* find_if over the registered packets: the first the response is valid    *)
(* for, 0 if there is none.                                                *)
ValidPacketInTime(response) ==
    SelectInSeq(mPacketsToBeValidated, LAMBDA p : isValid(p, response) /\ ~GivenUp(p.age))

ValidPacket(response) ==
    SelectInSeq(mPacketsToBeValidated, LAMBDA p : isValid(p, response))

(* One row per ttl, in order, cut after the first row in which the target  *)
(* answered.                                                               *)
ReportUncut(recorded) == Rows({r.probe.ttl : r \in Range(recorded)}, recorded)

ReportCutTooEarly(recorded) ==
    LET reached == {r.probe.ttl : r \in {q \in Range(recorded) : q.responseSender = Target}}
    IN  Rows({t \in {r.probe.ttl : r \in Range(recorded)} : \A u \in reached : t < u}, recorded)

Report(recorded) ==
    LET ttls    == {r.probe.ttl : r \in Range(recorded)}
        reached == {r.probe.ttl : r \in {q \in Range(recorded) : q.responseSender = Target}}
    IN  Rows({t \in ttls : \A u \in reached : t <= u}, recorded)

-------------------------------------------------------------------------------
Init ==
    /\ NetworkInit
    /\ call = 0
    /\ args = [ttlBegin |-> 0, ttlEnd |-> 0, retries |-> 0]
    /\ carried = 0
    /\ sPc = "idle"
    /\ sTtl = 0
    /\ sRetry = 0
    /\ sPacket = nullopt
    /\ rPc = "idle"
    /\ elapsed = 0
    /\ polled = 0
    /\ respInfo = nullopt
    /\ it = 1
    /\ mPacketsToBeValidated = <<>>
    /\ ttlToProbeResults = <<>>
    /\ outcome = "none"
    /\ results = <<>>
    /\ heard = {}

(* beginProbing: start the sender, then receive in this thread.            *)
beginProbing ==
    /\ rPc = "idle"
    /\ call < MaxCalls
    /\ call' = call + 1
    /\ \E a \in Args : /\ args' = a
                       /\ sTtl' = a.ttlBegin
    /\ sRetry' = 0
    /\ sPc' = "send"
    /\ rPc' = "begin"
    /\ carried' = Len(mPacketsToBeValidated)
    /\ ttlToProbeResults' = <<>>
    /\ outcome' = "none"
    /\ results' = <<>>
    /\ heard' = {}
    /\ UNCHANGED <<sPacket, elapsed, polled, respInfo, it,
                   mPacketsToBeValidated, networkVars>>

-------------------------------------------------------------------------------
(* The sender thread: sendPackets *)

(* createPacket draws the key, trySending returns true.                    *)
SendPacket ==
    /\ sPc = "send"
    /\ sTtl <= args.ttlEnd
    /\ sRetry < args.retries
    /\ \E key \in Keys :
          sPacket' = [probe |-> [call |-> call, ttl |-> sTtl, retry |-> sRetry],
                      key   |-> key]
    /\ Transmit(sPacket')
    /\ sPc' = "push"
    /\ UNCHANGED <<callVars, sTtl, sRetry, receiverVars, mPacketsToBeValidated, inbox>>

(* trySending returns false or throws: the thread ends with an exception   *)
(* that stays in the future.                                               *)
SendFails ==
    /\ sPc = "send"
    /\ sTtl <= args.ttlEnd
    /\ sRetry < args.retries
    /\ sPc' = "failed"
    /\ UNCHANGED <<callVars, sTtl, sRetry, sPacket, receiverVars,
                   mPacketsToBeValidated, networkVars>>

NextTtl == sRetry' = 0 /\ sTtl' = sTtl + 1

NextIteration ==
    IF sRetry + 1 < args.retries
    THEN sRetry' = sRetry + 1 /\ sTtl' = sTtl
    ELSE sRetry' = 0 /\ sTtl' = sTtl + 1

(* Lock, push_back with sentAt = now(), unlock, next iteration.            *)
RegisterPacket ==
    /\ sPc = "push"
    /\ rPc # "sweep"      \* the receiver holds mMutex in its sweep
    /\ mPacketsToBeValidated' =
          Append(mPacketsToBeValidated,
                 [probe |-> sPacket.probe, key |-> sPacket.key, age |-> 0])
    /\ sPacket' = nullopt
    /\ sPc' = "send"
    /\ NextIteration
    /\ UNCHANGED <<callVars, receiverVars, networkVars>>

SendPacketsReturns ==
    /\ sPc = "send"
    /\ sTtl > args.ttlEnd \/ args.retries = 0
    /\ sPc' = "ended"
    /\ UNCHANGED <<callVars, sTtl, sRetry, sPacket, receiverVars,
                   mPacketsToBeValidated, networkVars>>

Sender == SendPacket \/ SendFails \/ RegisterPacket \/ SendPacketsReturns

-------------------------------------------------------------------------------
(* The calling thread: receiveAndValidate *)

ReceiverBegins ==
    /\ rPc = "begin"
    /\ rPc' = "check"      \* beginAt
    /\ UNCHANGED <<callVars, senderVars, elapsed, polled, respInfo, it, ttlToProbeResults,
                   outcome, results, heard, mPacketsToBeValidated, networkVars>>

MoreToCount == getCurrentSize < expectedSize

MoreToReceive ==
    /\ getCurrentSize < expectedSize
    /\ getTimeLeft(elapsed, expectedMaxTimeTaken) > 0

CheckSize ==
    /\ rPc = "check"
    /\ IF MoreToReceive
       THEN rPc' = "receive" /\ UNCHANGED elapsed
       ELSE rPc' = "collect" /\ elapsed' = 0
    /\ UNCHANGED <<callVars, senderVars, polled, respInfo, it, ttlToProbeResults,
                   outcome, results, heard, mPacketsToBeValidated, networkVars>>

(* tryReceiving hands over a datagram.                                     *)
ReceiveResponse ==
    /\ rPc = "receive"
    /\ rPc' = "lock"
    /\ polled' = 0
    /\ \E response \in inbox :
          /\ Take(response)
          /\ respInfo' = response
          /\ heard' = IF response.kind = "reply" /\ response.probe \in Pending
                      THEN heard \cup {response.probe} ELSE heard
    /\ UNCHANGED <<callVars, senderVars, elapsed, it, ttlToProbeResults,
                   outcome, results, mPacketsToBeValidated, wire>>

(* tryReceiving returns nullopt once its timeout has passed.               *)
ReceiveNothing ==
    /\ rPc = "receive"
    /\ inbox = {}
    /\ polled >= Milliseconds(Timeout)
    /\ rPc' = "lock"
    /\ polled' = 0
    /\ UNCHANGED <<callVars, senderVars, elapsed, respInfo, it, ttlToProbeResults,
                   outcome, results, heard, mPacketsToBeValidated, networkVars>>

(* An exception leaves receiveAndValidate: no results are returned, what is *)
(* registered stays, and ~future waits for the sender.  (ttlToProbeResults  *)
(* is dead from here on and from CollectResults on; it keeps its value.)   *)
Throw ==
    /\ rPc' = "join"
    /\ outcome' = "threw"
    /\ respInfo' = nullopt
    /\ elapsed' = 0
    /\ polled' = 0
    /\ UNCHANGED <<callVars, senderVars, it, ttlToProbeResults, results, heard, mPacketsToBeValidated, networkVars>>

ReceiveThrows == rPc = "receive" /\ Throw

(* isValid throws on the first packet it is asked about.                   *)
ValidationThrows ==
    /\ rPc = "lock"
    /\ respInfo = Stray("malformed")
    /\ mPacketsToBeValidated # <<>>
    /\ Throw

EraseLast(k) ==
    mPacketsToBeValidated' = RemoveAt(mPacketsToBeValidated, Len(mPacketsToBeValidated))

EraseNothing(k) == UNCHANGED mPacketsToBeValidated

(* vector::erase of the packet an iterator stands at.                      *)
ErasePacket(k) == mPacketsToBeValidated' = RemoveAt(mPacketsToBeValidated, k)

(* Lock mMutex; credit the response to the first packet it is valid for    *)
(* and erase that packet; keep the lock for the sweep.                     *)
LockAndMatch ==
    /\ rPc = "lock"
    /\ respInfo = Stray("malformed") => mPacketsToBeValidated = <<>>
    /\ LET k == IF respInfo = nullopt THEN 0 ELSE ValidPacket(respInfo)
       IN  IF k = 0
           THEN UNCHANGED <<ttlToProbeResults, mPacketsToBeValidated>>
           ELSE /\ ttlToProbeResults' =
                      Append(ttlToProbeResults,
                             successProbe(mPacketsToBeValidated[k].probe, respInfo))
                /\ ErasePacket(k)
    /\ rPc' = "sweep"
    /\ it' = 1
    /\ respInfo' = nullopt
    /\ UNCHANGED <<callVars, senderVars, elapsed, polled, outcome, results, heard,
                   networkVars>>

(* One iteration of the sweep.  erase(it) leaves it at the next packet:    *)
(* the iterator is invalid by the standard, a plain pointer in libstdc++.  *)
SweepGivesUp ==
    /\ rPc = "sweep"
    /\ it <= Len(mPacketsToBeValidated)
    /\ GivenUp(mPacketsToBeValidated[it].age)
    /\ ttlToProbeResults' =
          Append(ttlToProbeResults, failedProbe(mPacketsToBeValidated[it].probe))
    /\ ErasePacket(it)
    /\ UNCHANGED <<callVars, senderVars, rPc, elapsed, polled, respInfo, it,
                   outcome, results, heard, networkVars>>

SweepKeeps ==
    /\ rPc = "sweep"
    /\ it <= Len(mPacketsToBeValidated)
    /\ ~GivenUp(mPacketsToBeValidated[it].age)
    /\ it' = it + 1
    /\ UNCHANGED <<callVars, senderVars, rPc, elapsed, polled, respInfo,
                   ttlToProbeResults, outcome, results, heard,
                   mPacketsToBeValidated, networkVars>>

SweepEnds ==
    /\ rPc = "sweep"
    /\ it > Len(mPacketsToBeValidated)
    /\ rPc' = "check"
    /\ it' = 1
    /\ UNCHANGED <<callVars, senderVars, elapsed, polled, respInfo,
                   ttlToProbeResults, outcome, results, heard,
                   mPacketsToBeValidated, networkVars>>

CollectResults ==
    /\ rPc = "collect"
    /\ rPc' = "join"
    /\ results' = Report(ttlToProbeResults)
    /\ outcome' = "returned"
    /\ UNCHANGED <<callVars, senderVars, elapsed, polled, respInfo, it, ttlToProbeResults,
                   heard, mPacketsToBeValidated, networkVars>>

FutureDetached == TRUE

FutureReady == sPc \in {"ended", "failed"}

(* ~future of std::async blocks until sendPackets has ended; an exception  *)
(* of the sender is dropped with the shared state.                         *)
JoinSender ==
    /\ rPc = "join"
    /\ FutureReady
    /\ rPc' = "idle"
    /\ UNCHANGED <<callVars, senderVars, elapsed, polled, respInfo, it,
                   ttlToProbeResults, outcome, results, heard,
                   mPacketsToBeValidated, networkVars>>

Receiver ==
    \/ ReceiverBegins \/ CheckSize
    \/ ReceiveResponse \/ ReceiveNothing \/ ReceiveThrows
    \/ ValidationThrows \/ LockAndMatch
    \/ SweepGivesUp \/ SweepKeeps \/ SweepEnds
    \/ CollectResults \/ JoinSender

-------------------------------------------------------------------------------
(* The clock: every duration the code is measuring grows by one unit.      *)
Tick ==
    /\ mPacketsToBeValidated' =
          [k \in DOMAIN mPacketsToBeValidated |->
              [mPacketsToBeValidated[k] EXCEPT !.age = Later(@, AgeCap)]]
    /\ elapsed' = IF rPc \in {"check", "receive", "lock", "sweep"}
                  THEN Later(elapsed, expectedMaxTimeTaken) ELSE elapsed
    /\ polled' = IF rPc = "receive"
                 THEN Later(polled, Milliseconds(Timeout)) ELSE polled
    /\ UNCHANGED <<callVars, senderVars, rPc, respInfo, it, ttlToProbeResults,
                   outcome, results, heard, networkVars>>

World ==
    /\ Environment
    /\ UNCHANGED <<callVars, senderVars, receiverVars, mPacketsToBeValidated>>

Next == beginProbing \/ Sender \/ Receiver \/ Tick \/ World

(* Both threads are scheduled and the clock runs.  Nobody has to make a    *)
(* call, and no packet has to be answered.                                 *)
Fairness ==
    /\ WF_vars(Sender)
    /\ WF_vars(Receiver)
    /\ WF_vars(Tick)

Spec == Init /\ [][Next]_vars

FairSpec == Spec /\ Fairness

-------------------------------------------------------------------------------
(* Invariants *)

(* The ranges of the members of FastTraceroute and of the locals of its    *)
(* two threads.                                                            *)
TypeOK ==
    /\ NetworkTypeOK
    /\ call \in 0 .. MaxCalls
    /\ args \in [ttlBegin : Nat, ttlEnd : Nat, retries : Nat]
    /\ carried \in Nat
    /\ sPc \in {"idle", "send", "push", "ended", "failed"}
    /\ sTtl \in Nat
    /\ sRetry \in Nat
    /\ sPacket \in Packet \cup {nullopt}
    /\ sPc = "push" => sPacket \in Packet
    /\ rPc \in {"idle", "begin", "check", "receive", "lock", "sweep", "collect", "join"}
    /\ elapsed \in Nat
    /\ polled \in Nat
    /\ respInfo \in Response \cup {nullopt}
    /\ it \in Nat \ {0}
    /\ mPacketsToBeValidated \in Seq(PacketToValidate)
    /\ ttlToProbeResults \in Seq(ProbeResult)
    /\ outcome \in {"none", "returned", "threw"}
    /\ heard \subseteq Probe

(* The probes of this call that the loops of sendPackets have gone past.   *)
Passed(probe) ==
    /\ probe.call = call
    /\ probe.ttl \in args.ttlBegin .. args.ttlEnd
    /\ probe.retry \in 0 .. args.retries - 1
    /\ probe.ttl < sTtl \/ (probe.ttl = sTtl /\ probe.retry < sRetry)

EachProbeOnce(s) == \A j, k \in DOMAIN s : s[j].probe = s[k].probe => j = k

(* However the two threads interleave their push_back and erase, and       *)
(* although the sweep goes on with an iterator it has erased, no probe is  *)
(* registered twice, recorded twice, or kept after its verdict, ...        *)
NoProbeTwice ==
    /\ EachProbeOnce(mPacketsToBeValidated)
    /\ EachProbeOnce(ttlToProbeResults)
    /\ Pending \cap Recorded = {}

(* ... and none is forgotten: a probe of this call is registered or has a  *)
(* verdict exactly if the sender's loops have gone past it.                *)
NoProbeForgotten ==
    \A ttl \in args.ttlBegin .. args.ttlEnd, retry \in 0 .. args.retries - 1 :
        LET probe == [call |-> call, ttl |-> ttl, retry |-> retry]
        IN  Passed(probe) <=> probe \in Pending \cup Recorded

(* Why the two hold, whatever the constants: the probe in the hands of the *)
(* sender is the one its loops stand at, what is registered or recorded is *)
(* behind them, and no sender runs between calls.                          *)
Accounting ==
    /\ NoProbeTwice
    /\ NoProbeForgotten
    /\ \A p \in Pending \cup Recorded : p.call <= call /\ (p.call = call => Passed(p))
    /\ carried = 0 => \A p \in Pending \cup Recorded : p.call = call
    /\ sTtl >= args.ttlBegin
    /\ sRetry = 0 \/ sRetry < args.retries
    /\ sPc = "push" => /\ sPacket.probe = [call |-> call, ttl |-> sTtl, retry |-> sRetry]
                       /\ sTtl <= args.ttlEnd
                       /\ sRetry < args.retries
    /\ rPc = "idle" => sPc \notin {"send", "push"}

(* The probes a call is asked for.                                         *)
Asked == [call : {call}, ttl : args.ttlBegin .. args.ttlEnd, retry : 0 .. args.retries - 1]

(* If the loop ends because it has counted expectedSize results, not       *)
(* because the time is up, and nothing was left over from an earlier call, *)
(* then those are the results of exactly the probes asked for and no       *)
(* packet stays registered: the count, which ignores which probes it       *)
(* counts, is enough.  It is not once expectedSize wraps around.           *)
CountMeansComplete ==
    ( /\ rPc = "collect"
      /\ getCurrentSize >= expectedSize
      /\ carried = 0
      /\ (args.ttlEnd - args.ttlBegin + 1) * args.retries \in 0 .. UintModulus - 1 )
    => /\ mPacketsToBeValidated = <<>>
       /\ Recorded = Asked

(* A probe whose own reply was read while the probe was registered is not  *)
(* given up by the sweep of that same critical section, even if its time   *)
(* is over by then - unless another packet drew the same key.              *)
HeardIsNotGivenUp ==
    DistinctKeys => \A r \in Range(ttlToProbeResults) : r.probe \in heard => r.success

(* Whatever the order in which replies arrive, how often they are          *)
(* repeated and from which call they come, a success is credited to the    *)
(* probe that was answered, as long as no two packets drew the same key.   *)
RepliesCreditTheirProbe ==
    DistinctKeys => \A r \in Range(ttlToProbeResults) : r.success => r.cause = r.probe

(* Why: what is registered, read and credited stems from packets sent, and *)
(* a credit joins two of them that have one key.                           *)
PacketOf(e) == [probe |-> e.probe, key |-> e.key]

Provenance ==
    /\ sPc = "push" => sPacket \in wire
    /\ \A p \in Range(mPacketsToBeValidated) : PacketOf(p) \in wire
    /\ \A r \in inbox \cup {respInfo} : r.kind = "reply" => PacketOf(r) \in wire
    /\ \A r \in Range(ttlToProbeResults) : r.success =>
          \E m, n \in wire : m.probe = r.probe /\ n.probe = r.cause /\ m.key = n.key

AnsweredByTarget(row) ==
    \E r \in Range(row.probeResults) : r.responseSender = Target

(* If nothing was registered before the call, nothing is left registered   *)
(* after it and the sender sent everything, the results are the whole      *)
(* path: consecutive ttls from ttlBegin, retries results each, up to       *)
(* ttlEnd or to the first row in which the target answered.                *)
SettledReportIsWhole ==
    ( /\ outcome = "returned"
      /\ sPc = "ended"
      /\ carried = 0
      /\ mPacketsToBeValidated = <<>>
      /\ args.retries > 0
      /\ args.ttlBegin <= args.ttlEnd )
    => /\ results # <<>>
       /\ \A k \in DOMAIN results :
             /\ results[k].ttl = args.ttlBegin + k - 1
             /\ Len(results[k].probeResults) = args.retries
             /\ k < Len(results) => ~AnsweredByTarget(results[k])
       /\ Last(results).ttl = args.ttlEnd \/ AnsweredByTarget(Last(results))

-------------------------------------------------------------------------------
(* Action and liveness properties *)

(* Once a call has returned or thrown, no thread of it is left that        *)
(* touches the object: only time passes for what stays registered.         *)
NothingRunsBetweenCalls ==
    [][rPc = "idle" /\ rPc' = "idle" =>
          /\ UNCHANGED <<wire, sPc>>
          /\ Pending' = Pending]_vars

(* Every call ends, answered or not, under a stream of stray datagrams,    *)
(* with a failed sender, and with an expectedSize that wraps around.       *)
Termination == rPc = "begin" ~> rPc = "idle"

-------------------------------------------------------------------------------
(* What FastTest's onTimeout test expects of a call with one probe:        *)
(* ASSERT_THAT(probes, SizeIs(1)), and one probe result in it.             *)
OneProbeOneResult ==
    ( /\ rPc = "idle"
      /\ outcome = "returned"
      /\ sPc = "ended"
      /\ carried = 0
      /\ args.ttlBegin = args.ttlEnd
      /\ args.retries = 1 )
    => Len(results) = 1 /\ Len(results[1].probeResults) = 1
-------------------------------------------------------------------------------
(* The calls on an object do what Probing promises.  A probe counts as     *)
(* sent when it is registered; the report is read off the rows.            *)
Known == Asked \cup Pending \cup Recorded

Ledger ==
    [p \in Known |->
        IF p \in Recorded
        THEN Verdict(CHOOSE r \in Range(ttlToProbeResults) : r.probe = p)
        ELSE IF p \in Pending THEN "outstanding" ELSE "unsent"]

Promise == INSTANCE Probing WITH
    AskedFor <- {AskedByArgs(a) : a \in Args},
    Reached  <- Target,
    Keeps    <- TRUE,
    calls    <- call,
    asked    <- Known,
    ledger   <- Ledger,
    phase    <- IF rPc = "idle" THEN "idle"
                ELSE IF rPc = "join" THEN "ending" ELSE "probing",
    report   <- Verdicts(results)

(* Every step of the two threads is a step of Probing or none.             *)
KeepsPromise == Promise!Spec

===============================================================================
