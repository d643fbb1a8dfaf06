--------------------------- MODULE MCFastTraceroute ---------------------------
(***************************************************************************)
(* Small instances of FastTraceroute for TLC.                              *)
(***************************************************************************)
EXTENDS FastTraceroute

(* Two ttls or two retries; no ttl at all; ttlBegin = ttlEnd + 3, whose    *)
(* expectedSize wraps around.                                              *)
PathArgs == {[ttlBegin |-> 1, ttlEnd |-> 2, retries |-> 1],
             [ttlBegin |-> 1, ttlEnd |-> 1, retries |-> 2]}

EdgeArgs == {[ttlBegin |-> 1, ttlEnd |-> 2, retries |-> 0],
             [ttlBegin |-> 2, ttlEnd |-> 1, retries |-> 1],
             [ttlBegin |-> 3, ttlEnd |-> 0, retries |-> 1]}

(* Also three ttls, the target in the middle: the last row is cut off.     *)
LongPath == {[ttlBegin |-> 1, ttlEnd |-> 3, retries |-> 1]}

OneProbe == {[ttlBegin |-> 1, ttlEnd |-> 1, retries |-> 1]}

PathAndEdgeArgs == PathArgs \cup EdgeArgs

LongAndEdgeArgs == PathAndEdgeArgs \cup LongPath

===============================================================================
