------------------------ MODULE MCSequentialTraceroute ------------------------
(***************************************************************************)
(* Small instances of SequentialTraceroute for TLC.                        *)
(***************************************************************************)
EXTENDS SequentialTraceroute

(* Three ttls, two retries, no retries, no ttl at all.                     *)
PathArgs == {[ttlBegin |-> 1, ttlEnd |-> 3, retries |-> 1],
             [ttlBegin |-> 1, ttlEnd |-> 2, retries |-> 2],
             [ttlBegin |-> 1, ttlEnd |-> 2, retries |-> 0],
             [ttlBegin |-> 2, ttlEnd |-> 1, retries |-> 1]}

TwoProbes == {[ttlBegin |-> 1, ttlEnd |-> 2, retries |-> 1],
              [ttlBegin |-> 1, ttlEnd |-> 1, retries |-> 2]}

===============================================================================
