------------------------------ MODULE Traceroute ------------------------------
(***************************************************************************)
(* What the two probing engines share: the base class Traceroute (its      *)
(* clock arithmetic and MinTimeWaitForResponse) and the results of         *)
(* Probe.hpp.                                                              *)
(*                                                                         *)
(* Time is counted in abstract clock units.  The code stores time points   *)
(* and subtracts them from ISystemClock::now(); only the difference is     *)
(* ever used, so the model keeps the difference itself, an age that grows  *)
(* with the clock (Later) and stops at the first value past every          *)
(* comparison the code makes.                                              *)
(*                                                                         *)
(* GivenUpBelowZero and failedProbeOfNobody are variants with a mistake,   *)
(* each of which breaks a property of the engines.                         *)
(***************************************************************************)
EXTENDS Probes, Collections, Integers, SequencesExt

CONSTANTS
    Timeout,                 \* the timeout argument of beginProbing, in clock units
    MinTimeWaitForResponse,  \* Traceroute.hpp's 10us, in clock units
    Milli                    \* clock units in one millisecond

ASSUME TracerouteAssumption ==
    /\ Timeout \in Nat
    /\ MinTimeWaitForResponse \in Nat \ {0}
    /\ Milli \in Nat \ {0}

-------------------------------------------------------------------------------
(* Clock arithmetic *)

Later(age, cap) == IF age < cap THEN age + 1 ELSE cap

(* getTimeLeft of the time point timePassed units ago. *)
getTimeLeft(timePassed, timeout) ==
    IF timePassed > timeout THEN 0 ELSE timeout - timePassed

(* duration_cast<milliseconds>: whole milliseconds, rounded towards zero. *)
Milliseconds(duration) == (duration \div Milli) * Milli

(* Bound of the ages of packets: at Timeout the time left is 0 for good. *)
AgeCap == Timeout

Age == 0 .. AgeCap

(* The test of both engines that gives a probe up. *)
GivenUpBelowZero(age) == getTimeLeft(age, Timeout) < 0

GivenUp(age) == getTimeLeft(age, Timeout) < MinTimeWaitForResponse

-------------------------------------------------------------------------------
(* Results.  waitedFor is left out: no decision depends on it.  cause is a  *)
(* history value, the probe whose reply was credited.                       *)

NoProbe == [call |-> 0, ttl |-> 0, retry |-> 0]

successProbe(probe, response) ==
    [probe          |-> probe,
     success        |-> TRUE,
     responseSender |-> response.client,
     cause          |-> response.probe]

failedProbeOfNobody(probe) ==
    [probe |-> probe, success |-> FALSE, responseSender |-> "0.0.0.0", cause |-> NoProbe]

failedProbe(probe) ==
    [probe          |-> probe,
     success        |-> FALSE,
     responseSender |-> Nobody,
     cause          |-> NoProbe]

ProbeResult ==
    [probe : Probe, success : BOOLEAN,
     responseSender : Clients \cup {Nobody}, cause : Probe]

(* The vector of TracerouteResult for the ttls of a set, in ascending      *)
(* order, each row holding its results in the order they were recorded.    *)
ResultsOf(ttl, recorded) ==
    Among(recorded, {r \in Range(recorded) : r.probe.ttl = ttl})

Rows(ttls, recorded) ==
    [k \in 1 .. Cardinality(ttls) |->
        [ttl          |-> InOrder(ttls)[k],
         probeResults |-> ResultsOf(InOrder(ttls)[k], recorded)]]

-------------------------------------------------------------------------------
(* The view of the abstract specification Probing: the probes a call is    *)
(* asked for, and the verdicts in the rows it returns.                     *)

AskedByArgs(a) == [ttl : a.ttlBegin .. a.ttlEnd, retry : 0 .. a.retries - 1]

Verdict(r) ==
    CASE ~r.success                -> "timedOut"
      [] r.responseSender = Target -> Target
      [] OTHER                     -> "hop"

Verdicts(rows) ==
    {[probe |-> r.probe, verdict |-> Verdict(r)] :
        r \in UNION {Range(row.probeResults) : row \in Range(rows)}}

===============================================================================
