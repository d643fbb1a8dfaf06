-------------------------------- MODULE Probing --------------------------------
(***************************************************************************)
(* What the calls of ITraceroute::beginProbing on one object promise,      *)
(* whichever engine implements it: every probe goes from unsent to         *)
(* outstanding to at most one verdict, and a call that returns reports     *)
(* exactly the probes that have one, without those beyond the nearest ttl  *)
(* from which the target answered.                                         *)
(*                                                                         *)
(* The engines differ in what becomes of a probe that is outstanding when  *)
(* its call ends: FastTraceroute settles it in the next call, and reports  *)
(* it there; SequentialTraceroute forgets it.  Neither ever comes back to  *)
(* a probe that has a verdict.                                             *)
(***************************************************************************)
EXTENDS Integers

CONSTANTS
    AskedFor,    \* sets of probes [ttl, retry] a call may be asked for
    Reached,     \* the verdict on a probe the target answered
    Keeps        \* whether outstanding probes are left to the next call

Verdicts == {Reached, "hop", "timedOut"}

VARIABLES
    calls,     \* the number of calls begun
    asked,     \* the probes [call, ttl, retry] the call may settle
    ledger,    \* what the engine knows of each of them
    phase,     \* of the call
    report     \* what the call returned: a set of [probe, verdict]

vars == <<calls, asked, ledger, phase, report>>

Init ==
    /\ calls = 0
    /\ asked = {}
    /\ ledger = <<>>
    /\ phase = "idle"
    /\ report = {}

LeftOver == IF Keeps THEN {p \in asked : ledger[p] = "outstanding"} ELSE {}

Named(call, probes) == {[call |-> call, ttl |-> p.ttl, retry |-> p.retry] : p \in probes}

Begin ==
    /\ phase = "idle"
    /\ calls' = calls + 1
    /\ \E probes \in AskedFor : asked' = Named(calls', probes) \cup LeftOver
    /\ ledger' = [p \in asked' |-> IF p \in LeftOver THEN "outstanding" ELSE "unsent"]
    /\ phase' = "probing"
    /\ report' = {}

(* Probes are sent in ascending order.  A call whose report is made may    *)
(* still be sending; once it is over it is not.                            *)
Before(p, q) == p.ttl < q.ttl \/ (p.ttl = q.ttl /\ p.retry < q.retry)

Send(p) ==
    /\ phase \in {"probing", "ending"}
    /\ ledger[p] = "unsent"
    /\ \A q \in asked : ledger[q] = "unsent" => ~Before(q, p)
    /\ ledger' = [ledger EXCEPT ![p] = "outstanding"]
    /\ UNCHANGED <<calls, asked, phase, report>>

Settle(p, verdict) ==
    /\ phase = "probing"
    /\ ledger[p] = "outstanding"
    /\ ledger' = [ledger EXCEPT ![p] = verdict]
    /\ UNCHANGED <<calls, asked, phase, report>>

Ends == phase = "probing" /\ phase' \in {"ending", "idle"}

Return ==
    /\ Ends
    /\ report' = {[probe |-> p, verdict |-> ledger[p]] : p \in
                     {q \in asked : /\ ledger[q] \in Verdicts
                                    /\ \A r \in asked : ledger[r] = Reached => q.ttl <= r.ttl}}
    /\ UNCHANGED <<calls, asked, ledger>>

Abort ==
    /\ Ends
    /\ UNCHANGED <<calls, asked, ledger, report>>

Finish ==
    /\ phase = "ending"
    /\ phase' = "idle"
    /\ UNCHANGED <<calls, asked, ledger, report>>

Next ==
    \/ Begin
    \/ \E p \in asked : Send(p) \/ \E verdict \in Verdicts : Settle(p, verdict)
    \/ Return \/ Abort \/ Finish

Spec == Init /\ [][Next]_vars

===============================================================================
