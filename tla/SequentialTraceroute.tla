------------------------- MODULE SequentialTraceroute -------------------------
(***************************************************************************)
(* SequentialTraceroute::beginProbing: one thread sends a probe, waits for *)
(* its reply until the timeout, and only then sends the next.  The engine  *)
(* keeps nothing between calls; the sockets do: the reply to a probe that  *)
(* was given up, or a second reply, is still read later, by another probe  *)
(* or another call.                                                        *)
(***************************************************************************)
EXTENDS Network, Traceroute

CONSTANTS
    Args,       \* the arguments of beginProbing: [ttlBegin, ttlEnd, retries]
    MaxCalls    \* bound: calls made on one object

ASSUME SequentialAssumption ==
    /\ MaxCalls \in Nat
    /\ Args \subseteq [ttlBegin : Nat, ttlEnd : Nat, retries : Nat]

VARIABLES
    call,                 \* number of calls begun (history)
    args,                 \* the arguments of the call
    pc,                   \* where the call is
    ttl, i,               \* the loops
    packet,               \* the packet sent last
    age,                  \* now() - sentAt
    pollLeft,             \* what is left of the timeout given to tryReceiving
    probeResults,         \* the row being filled
    destinationReached,
    probes,               \* the rows finished
    outcome               \* how the call ends: "none" until it does

callVars == <<call, args>>
loopVars == <<ttl, i, destinationReached>>
vars == <<callVars, pc, loopVars, packet, age, pollLeft, probeResults, probes,
          outcome, networkVars>>

Init ==
    /\ NetworkInit
    /\ call = 0
    /\ args = [ttlBegin |-> 0, ttlEnd |-> 0, retries |-> 0]
    /\ pc = "idle"
    /\ ttl = 0
    /\ i = 0
    /\ packet = nullopt
    /\ age = 0
    /\ pollLeft = 0
    /\ probeResults = <<>>
    /\ destinationReached = FALSE
    /\ probes = <<>>
    /\ outcome = "none"

beginProbing ==
    /\ pc = "idle"
    /\ call < MaxCalls
    /\ call' = call + 1
    /\ \E a \in Args : /\ args' = a
                       /\ ttl' = a.ttlBegin
    /\ pc' = "send"
    /\ i' = 0
    /\ destinationReached' = FALSE
    /\ probeResults' = <<>>
    /\ probes' = <<>>
    /\ outcome' = "none"
    /\ packet' = nullopt
    /\ UNCHANGED <<age, pollLeft, networkVars>>

-------------------------------------------------------------------------------
(* Sending *)

MoreToSend ==
    /\ pc = "send"
    /\ ttl <= args.ttlEnd
    /\ i < args.retries

(* createPacket, trySending, sentAt = now().                               *)
SendPacket ==
    /\ MoreToSend
    /\ \E key \in Keys :
          packet' = [probe |-> [call |-> call, ttl |-> ttl, retry |-> i], key |-> key]
    /\ Transmit(packet')
    /\ pc' = "sent"
    /\ UNCHANGED <<callVars, loopVars, age, pollLeft, probeResults, probes, outcome, inbox>>

TakesSentAt ==
    /\ pc = "sent"
    /\ pc' = "wait"
    /\ age' = 0
    /\ UNCHANGED <<callVars, loopVars, packet, pollLeft, probeResults, probes,
                   outcome, networkVars>>

(* An exception ends the call without results; the locals are dead.        *)
Throw ==
    /\ pc' = "idle"
    /\ outcome' = "threw"
    /\ age' = 0
    /\ pollLeft' = 0
    /\ UNCHANGED <<callVars, loopVars, packet, probeResults, probes, wire>>

SendFails == MoreToSend /\ Throw /\ UNCHANGED inbox

NeverStops == FALSE   \* a variant with the break left out

StopsHere == destinationReached

(* The row is finished: go on with the next ttl unless the target has      *)
(* answered.                                                               *)
FinishRow ==
    /\ pc = "send"
    /\ ttl <= args.ttlEnd
    /\ i >= args.retries
    /\ probes' = Append(probes, [ttl |-> ttl, probeResults |-> probeResults])
    /\ probeResults' = <<>>
    /\ i' = 0
    /\ IF StopsHere
       THEN pc' = "return" /\ ttl' = ttl
       ELSE pc' = "send" /\ ttl' = ttl + 1
    /\ UNCHANGED <<callVars, destinationReached, packet, age, pollLeft, outcome, networkVars>>

Return ==
    /\ pc = "return" \/ (pc = "send" /\ ttl > args.ttlEnd)
    /\ pc' = "idle"
    /\ outcome' = "returned"
    /\ UNCHANGED <<callVars, loopVars, packet, age, pollLeft, probeResults, probes,
                   networkVars>>

-------------------------------------------------------------------------------
(* Waiting for the reply *)

Record(result) ==
    /\ probeResults' = Append(probeResults, result)
    /\ packet' = nullopt
    /\ age' = 0
    /\ pc' = "send"
    /\ i' = i + 1

GiveUp ==
    /\ pc = "wait"
    /\ GivenUp(age)
    /\ Record(failedProbe(packet.probe))
    /\ UNCHANGED <<callVars, ttl, destinationReached, pollLeft, probes, outcome,
                   networkVars>>

(* tryReceiving with the whole milliseconds of the time left: less than    *)
(* one is a poll that does not wait.                                       *)
WaitsForResponse ==
    /\ pc = "wait"
    /\ ~GivenUp(age)
    /\ pc' = "receive"
    /\ pollLeft' = Milliseconds(getTimeLeft(age, Timeout))
    /\ UNCHANGED <<callVars, loopVars, packet, age, probeResults, probes, outcome,
                   networkVars>>

ReceiveNothing ==
    /\ pc = "receive"
    /\ inbox = {}
    /\ pollLeft = 0
    /\ pc' = "wait"
    /\ UNCHANGED <<callVars, loopVars, packet, age, pollLeft, probeResults, probes,
                   outcome, networkVars>>

(* tryReceiving throws, or isValid does on what it read.                   *)
ReceiveThrows ==
    /\ pc = "receive"
    /\ \/ UNCHANGED inbox
       \/ Take(Stray("malformed"))
    /\ Throw

ReceiveResponse ==
    /\ pc = "receive"
    /\ pollLeft' = 0
    /\ \E response \in inbox \ {Stray("malformed")} :
          /\ Take(response)
          /\ IF isValid(packet, response)
             THEN /\ Record(successProbe(packet.probe, response))
                  /\ destinationReached' = (destinationReached \/ response.client = Target)
             ELSE /\ pc' = "wait"
                  /\ UNCHANGED <<probeResults, packet, age, i, destinationReached>>
    /\ UNCHANGED <<callVars, ttl, probes, outcome, wire>>

-------------------------------------------------------------------------------
Tick ==
    /\ pc \in {"wait", "receive"}
    /\ age' = Later(age, AgeCap)
    /\ pollLeft' = IF pollLeft > 0 THEN pollLeft - 1 ELSE 0
    /\ UNCHANGED <<callVars, pc, loopVars, packet, probeResults, probes, outcome,
                   networkVars>>

World ==
    /\ Environment
    /\ UNCHANGED <<callVars, pc, loopVars, packet, age, pollLeft, probeResults,
                   probes, outcome>>

Engine ==
    \/ SendPacket \/ TakesSentAt \/ SendFails \/ FinishRow \/ Return
    \/ GiveUp \/ WaitsForResponse \/ ReceiveNothing \/ ReceiveThrows \/ ReceiveResponse

Next == beginProbing \/ Engine \/ Tick \/ World

(* The calling thread is scheduled and the clock runs.                     *)
Fairness == WF_vars(Engine) /\ WF_vars(Tick)

Spec == Init /\ [][Next]_vars

FairSpec == Spec /\ Fairness

-------------------------------------------------------------------------------
(* Properties *)

(* The ranges of the locals of beginProbing; a packet is held exactly while *)
(* its reply is awaited.                                                   *)
TypeOK ==
    /\ NetworkTypeOK
    /\ call \in 0 .. MaxCalls
    /\ args \in [ttlBegin : Nat, ttlEnd : Nat, retries : Nat]
    /\ pc \in {"idle", "send", "sent", "wait", "receive", "return"}
    /\ ttl \in Nat
    /\ i \in Nat
    /\ packet \in Packet \cup {nullopt}
    /\ pc # "idle" => (packet = nullopt <=> pc \in {"send", "return"})
    /\ age \in Age
    /\ pollLeft \in 0 .. Timeout
    /\ probeResults \in Seq(ProbeResult)
    /\ destinationReached \in BOOLEAN
    /\ probes \in Seq([ttl : Nat, probeResults : Seq(ProbeResult)])
    /\ outcome \in {"none", "returned", "threw"}

Results == Range(probeResults) \cup UNION {Range(row.probeResults) : row \in Range(probes)}

(* The reply to a probe that was given up, a second reply and a reply to   *)
(* another call are read while a later probe waits; none is credited to    *)
(* it, as long as no two packets drew the same key.                        *)
RepliesCreditTheirProbe ==
    DistinctKeys => \A r \in Results : r.success => r.cause = r.probe

AnsweredByTarget(row) ==
    \E r \in Range(row.probeResults) : r.responseSender = Target

(* The rows are the consecutive ttls from ttlBegin, each with the results  *)
(* of its retries in the order they were sent; no row follows one in which *)
(* the target answered; and a call that returns has reached ttlEnd or the  *)
(* target.                                                                 *)
RowsAreThePath ==
    /\ \A k \in DOMAIN probes :
          /\ probes[k].ttl = args.ttlBegin + k - 1
          /\ Len(probes[k].probeResults) = args.retries
          /\ \A j \in DOMAIN probes[k].probeResults :
                probes[k].probeResults[j].probe =
                    [call |-> call, ttl |-> probes[k].ttl, retry |-> j - 1]
          /\ AnsweredByTarget(probes[k]) => k = Len(probes) /\ pc \in {"return", "idle"}
    /\ outcome = "returned" =>
          IF probes = <<>>
          THEN args.ttlBegin > args.ttlEnd
          ELSE Last(probes).ttl = args.ttlEnd \/ AnsweredByTarget(Last(probes))

(* Every call ends, also while polling without waiting in the last         *)
(* millisecond of a probe and under a stream of stray datagrams.           *)
Termination == pc = "send" ~> pc = "idle"

-------------------------------------------------------------------------------
(* The calls on an object do what Probing promises.                        *)
Asked == [call : {call}, ttl : args.ttlBegin .. args.ttlEnd, retry : 0 .. args.retries - 1]

Ledger ==
    [p \in Asked |->
        CASE \E r \in Results : r.probe = p ->
                Verdict(CHOOSE r \in Results : r.probe = p)
          [] packet # nullopt /\ p = [call |-> call, ttl |-> ttl, retry |-> i] -> "outstanding"
          [] OTHER -> "unsent"]

Promise == INSTANCE Probing WITH
    AskedFor <- {AskedByArgs(a) : a \in Args},
    Reached  <- Target,
    Keeps    <- FALSE,
    calls    <- call,
    asked    <- Asked,
    ledger   <- Ledger,
    phase    <- IF pc = "idle" THEN "idle" ELSE "probing",
    report   <- IF outcome = "returned" THEN Verdicts(probes) ELSE {}

(* Every step of beginProbing is a step of Probing or none.                *)
KeepsPromise == Promise!Spec

===============================================================================
