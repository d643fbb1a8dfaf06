------------------------------ MODULE MCFirstProbe ------------------------------
(* A host with two addresses of each family, a target and a router of      *)
(* each, some groups, and samples of what the memory of a function may     *)
(* hold.                                                                   *)
EXTENDS FirstProbe

IPv4(a, b, c, d) == [family |-> "v4", addr |-> <<a, b, c, d>>]

IPv6(last) == [family |-> "v6", addr |-> <<253>> \o [k \in 1 .. 14 |-> 0] \o <<last>>]

Local == [v4 |-> IPv4(10, 0, 0, 2), v6 |-> IPv6(2)]

(* The route's source, and the addresses of another interface.             *)
HostAddresses == {Local.v4, Local.v6, IPv4(10, 0, 1, 2), IPv6(3)}

Multicast6 == [IPv6(1) EXCEPT !.addr[1] = 255, !.addr[2] = 2]

(* Multicast, the directed broadcast its last three bytes make of          *)
(* getsockname's first, and multicast of IPv6.                             *)
GroupAddresses == {IPv4(224, 0, 0, 255), IPv4(10, 0, 0, 255), Multicast6}

Targets == {IPv4(10, 0, 0, 9), IPv6(9)}

Routers == {IPv4(10, 0, 0, 1), IPv6(1)}

UserTexts ==
    [form : {"plain"}, host : Targets]
        \cup {[form |-> "plain", host |-> IPv4(10, 0, 0, 1)],
              [form |-> "short", host |-> IPv4(10, 0, 0, 9)],
              [form |-> "zone", host |-> IPv6(9)],
              [form |-> "name", host |-> IPv6(9)]}

(* Memory never used, and what an earlier call left there.                 *)
Memory ==
    {Zero,
     [Zero EXCEPT !.family = "v4"],
     [StorageOf(IPv4(10, 0, 0, 1), StorageOf(IPv6(1), Zero)) EXCEPT !.rest = "junk"],
     StorageOf(IPv4(10, 0, 1, 2), StorageOf(IPv6(3), Zero)),
     StorageOf(IPv4(224, 0, 0, 255), StorageOf(Multicast6, Zero))}

(* Negative, nothing, the family, one byte of sin_addr, everything.        *)
AnyLength == {-1, 0, 2, 5, 28}

===============================================================================
