----------------------------- MODULE SocketAddress -----------------------------
(***************************************************************************)
(* SocketAddress over the sockaddr_storage it holds.  sin_addr and         *)
(* sin6_flowinfo lie at the same place, sin6_addr behind it; what a        *)
(* constructor does not set keeps what the memory held.                    *)
(*                                                                         *)
(* SameStorage and Stored6InFront are variants with a mistake.             *)
(***************************************************************************)
EXTENDS Naturals, Sequences

Families == {"v4", "v6"}

Byte == 0 .. 255

(* What an address names.                                                  *)
Host == [family : {"v4"}, addr : [1 .. 4 -> Byte]]
            \cup [family : {"v6"}, addr : [1 .. 16 -> Byte]]

(* mAddress: family (of "none" there are no sockets), the four bytes of    *)
(* sin_addr (sin6_flowinfo), the sixteen of sin6_addr, and the rest (port, *)
(* scope).                                                                 *)
Storage == [family : Families \cup {"none"}, addr4 : [1 .. 4 -> Byte],
            addr6 : [1 .. 16 -> Byte], rest : {"zero", "junk", "kernel"}]

isV4(address) == address.family = "v4"

isV6(address) == ~isV4(address)

(* The memory junk after the address of a host was written into it.        *)
Stored4(host, junk) == [junk EXCEPT !.family = "v4", !.addr4 = host.addr]

Stored6InFront(host, junk) == [junk EXCEPT !.family = "v6", !.addr4 = host.addr]

Stored6(host, junk) == [junk EXCEPT !.family = "v6", !.addr6 = host.addr]

StorageOf(host, junk) ==
    IF host.family = "v4" THEN Stored4(host, junk) ELSE Stored6(host, junk)

HostOf(address) ==
    [family |-> address.family, addr |-> IF isV4(address) THEN address.addr4 ELSE address.addr6]

SameStorage(a, b) == a = b

(* operator==: the family of the left side decides what is compared.       *)
SameAddress(a, b) ==
    IF isV4(a) THEN a.addr4 = b.addr4 ELSE a.addr6 = b.addr6

-------------------------------------------------------------------------------
(* SocketAddress(string).  A text names a host in some form; getaddrinfo   *)
(* (external) takes every numeric form, inet_pton the plain ones only: not *)
(* an IPv6 address with a zone, nor an IPv4 address with fewer numbers.    *)
Forms == {"plain", "zone", "short", "name"}

Numeric(text) == text.form # "name"

Plain(text) == text.form = "plain"

===============================================================================
