-------------------------------- MODULE Checksum --------------------------------
(***************************************************************************)
(* ChecksumCalculator, and what a receiver makes of its result.  Headers   *)
(* are sequences of bytes; the code reads them as unsigned shorts in the   *)
(* order of the host, here le (little endian) or not.                      *)
(*                                                                         *)
(* FoldedOnce is a variant with a mistake.                                 *)
(***************************************************************************)
EXTENDS SocketAddress, Collections, SequencesExt

(* The unsigned short stored at bytes b, c.                                *)
Short(le, b, c) == IF le THEN b + 256 * c ELSE 256 * b + c

(* The bytes of an unsigned short.                                         *)
Stored(le, n) == IF le THEN <<n % 256, n \div 256>> ELSE <<n \div 256, n % 256>>

htons(le, n) == Short(le, n \div 256, n % 256)

Shorts(le, bytes) ==
    [k \in 1 .. Len(bytes) \div 2 |-> Short(le, bytes[2 * k - 1], bytes[2 * k])]

SumOf(le, bytes) == Total(Shorts(le, bytes))

(* What is left is masked with htons(0xFF00): the last byte, padded.       *)
OddByte(le, bytes) ==
    IF Len(bytes) % 2 = 1 THEN Short(le, Last(bytes), 0) ELSE 0

FoldedOnce(sum) == ((sum % 65536) + (sum \div 65536)) % 65536

Folded(sum) ==
    LET fold[n \in Nat] == IF n < 65536 THEN n ELSE fold[(n % 65536) + (n \div 65536)]
    IN  fold[sum]

computeChecksum(le, bytes, prevSum) ==
    65535 - Folded(prevSum + SumOf(le, bytes) + OddByte(le, bytes))

(* The branch for IPv6 adds the source twice, as the code does.            *)
computePseudoheaderChecksum(le, protocol, headerlen, source, destination) ==
    ( IF isV4(source)
      THEN SumOf(le, source.addr4) + SumOf(le, destination.addr4)
      ELSE SumOf(le, source.addr6) + SumOf(le, source.addr6) )
    + htons(le, protocol) + htons(le, headerlen)

(* bytes with n stored at an offset.                                       *)
WithShort(le, bytes, at, n) ==
    [bytes EXCEPT ![at + 1] = Stored(le, n)[1], ![at + 2] = Stored(le, n)[2]]

(* The three headers: where check lies, and what is summed besides them.   *)
computeICMPHeaderChecksum(le, header) ==
    computeChecksum(le, WithShort(le, header, 2, 0), 0)

computeTCPHeaderChecksum(le, header, source, destination) ==
    computeChecksum(le, WithShort(le, header, 16, 0),
                    computePseudoheaderChecksum(le, 6, Len(header), source, destination))

computeUdpHeaderChecksum(le, header, source, destination) ==
    computeChecksum(le, WithShort(le, header, 6, 0),
                    computePseudoheaderChecksum(le, 17, Len(header), source, destination))

-------------------------------------------------------------------------------
(* Receivers (external): the one's complement sum of the 16 bit words, in  *)
(* network order, of pseudo header and segment is all ones (RFC 1071).     *)
Verifies(bytes) == LET s == SumOf(FALSE, bytes) IN s # 0 /\ s % 65535 = 0

(* RFC 793, 768 and 8200.                                                  *)
PseudoHeader(source, destination, protocol, length) ==
    source.addr \o destination.addr \o
        IF source.family = "v4"
        THEN <<0, protocol, 0, length>>
        ELSE <<0, 0, 0, length, 0, 0, 0, protocol>>

===============================================================================
