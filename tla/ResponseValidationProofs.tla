----------------------- MODULE ResponseValidationProofs -----------------------
(***************************************************************************)
(* Theorems about ResponseValidation, for any keys, ports, cuts and number *)
(* of datagrams: with whatever an earlier datagram left behind it in the   *)
(* buffer, isValid says of a datagram what Ruling says, which looks at     *)
(* nothing but the datagram.  Of those it does not rule on, errors that    *)
(* quote too little and segments taken for an ip header, the words that    *)
(* isValid reads behind their end are keys of earlier datagrams.           *)
(***************************************************************************)
EXTENDS ResponseValidation, CollectionLemmas

-------------------------------------------------------------------------------
(* Words and parts of sequences of words *)

Words == [byte : Nat, rest : Nat]

(* The bytes that are an ip header's first, and some that are not.         *)
LEMMA Nibbles ==
    /\ \A n \in Nat : n < 64 => n \div 16 \notin {4, 6}
    /\ 129 \div 16 = 8
    /\ 69 \div 16 = 4 /\ 72 \div 16 = 4 /\ 96 \div 16 = 6
    /\ 69 % 16 = 5 /\ 72 % 16 = 8
  OBVIOUS

(* Word keeps its parts.                                                   *)
LEMMA WordFacts ==
    ASSUME NEW b \in Nat, NEW n \in Nat
    PROVE  Word(b, n) \in Words /\ Word(b, n).byte = b /\ Word(b, n).rest = n
  BY DEF Word, Words

(* Blank words are words.                                                  *)
LEMMA ZerosFacts ==
    ASSUME NEW n \in Nat
    PROVE  Zeros(n) \in Seq(Words) /\ Len(Zeros(n)) = n /\ \A k \in 1 .. n : Zeros(n)[k] = Blank
  <1>1. Blank \in Words
    BY WordFacts DEF Blank
  <1>2. Zeros(n) \in [1 .. n -> Words]
    BY <1>1 DEF Zeros
  <1>3. QED
    BY <1>2 DEF Zeros

(* response + n.                                                           *)
LEMMA SkipFacts ==
    ASSUME NEW r \in Seq(Words), NEW n \in Nat, n <= Len(r)
    PROVE  /\ Skip(r, n) \in Seq(Words)
           /\ Len(Skip(r, n)) = Len(r) - n
           /\ \A k \in Nat : 1 <= k /\ k <= Len(r) - n => Skip(r, n)[k] = r[n + k]
  <1>1. Len(r) \in Nat
    BY LenProperties
  <1>2. \A k \in n + 1 .. Len(r) : r[k] \in Words
    BY <1>1, ElementOfSeq
  <1>3. /\ Skip(r, n) \in Seq(Words)
        /\ Len(Skip(r, n)) = IF n + 1 <= Len(r) THEN Len(r) - (n + 1) + 1 ELSE 0
        /\ \A k \in 1 .. Len(r) - (n + 1) + 1 : Skip(r, n)[k] = r[n + 1 + k - 1]
    BY <1>1, <1>2, SubSeqProperties DEF Skip
  <1>4. QED
    BY <1>1, <1>3

(* The first n words.                                                      *)
LEMMA FirstWords ==
    ASSUME NEW r \in Seq(Words), NEW n \in Nat, n <= Len(r)
    PROVE  /\ SubSeq(r, 1, n) \in Seq(Words)
           /\ Len(SubSeq(r, 1, n)) = n
           /\ \A k \in 1 .. n : SubSeq(r, 1, n)[k] = r[k]
  <1>1. Len(r) \in Nat
    BY LenProperties
  <1>2. \A k \in 1 .. n : r[k] \in Words
    BY <1>1, ElementOfSeq
  <1>3. /\ SubSeq(r, 1, n) \in Seq(Words)
        /\ Len(SubSeq(r, 1, n)) = IF 1 <= n THEN n - 1 + 1 ELSE 0
        /\ \A k \in 1 .. n - 1 + 1 : SubSeq(r, 1, n)[k] = r[1 + k - 1]
    BY <1>2, SubSeqProperties
  <1>4. QED
    BY <1>3

-------------------------------------------------------------------------------
(* What a datagram looks like: where its parts are, and what they hold.  f *)
(* is the family, t the kind of the packets.                               *)

OuterSize(f) == IF f = 4 THEN 5 ELSE 0

Size(f, d) == Len(d.words) - OuterSize(f)

Payload(f, d, k) == d.words[OuterSize(f) + k]

(* What isValid says of a datagram, without a buffer.                      *)
SameKey(packet, d) == Says(packet.key = d.about.key)

Ruling(packet, d) ==
    CASE d.message = "empty"           -> "throws"
      [] d.message = "cut"             ->
            IF kind = "udp" /\ Size(family, d) >= 4
            THEN UdpFields(d.client, <<Payload(family, d, 1)>>)
            ELSE "invalid"
      [] d.message = "garbage"         -> IF kind = "udp" THEN Says(d.client = Router)
                                          ELSE "throws"
      [] d.message \in {"echo", "ack"} -> SameKey(packet, d)
      [] d.message = "exceeded"        -> IF kind = "udp" THEN "valid" ELSE SameKey(packet, d)
      [] d.message = "unreach"         ->
            CASE kind = "icmp" -> IF family = 4 THEN SameKey(packet, d) ELSE "invalid"
              [] kind = "tcp"  -> IF d.client = Target THEN SameKey(packet, d) ELSE "invalid"
              [] kind = "udp"  -> Says(d.client = Target)

IsEmpty(d) ==
    /\ d.message = "empty"
    /\ d.words = <<>>
    /\ d.about = NoPacket

IsCut(f, t, d) ==
    /\ d.message = "cut"
    /\ d.about # NoPacket
    /\ \/ d.protocol = "icmp"
       \/ d.protocol = "tcp" /\ t = "tcp" /\ Size(f, d) < 5

IsGarbage(f, d) ==
    /\ d.message = "garbage"
    /\ d.about = NoPacket
    /\ d.protocol = "icmp"
    /\ d.client \in {Target, Router}
    /\ Size(f, d) = 9
    /\ Payload(f, d, 1) = Word(TimeExceeded(f), 0)
    /\ Payload(f, d, 3) = Blank

IsEcho(f, t, d) ==
    /\ d.message = "echo"
    /\ t = "icmp"
    /\ d.protocol = "icmp"
    /\ d.client = Target
    /\ Size(f, d) = 2
    /\ Payload(f, d, 1) = Word(IF f = 4 THEN 0 ELSE 129, 0)
    /\ Payload(f, d, 2) = Word(0, d.about.key)

IsAck(f, t, d) ==
    /\ d.message = "ack"
    /\ t = "tcp"
    /\ d.protocol = "tcp"
    /\ d.client = Target
    /\ Size(f, d) = 5
    /\ Payload(f, d, 1) = Word(d.about.port, 0)
    /\ Payload(f, d, 3) = Word(0, d.about.key + 1)

IsError(f, t, d) ==
    /\ d.protocol = "icmp"
    /\ \/ /\ d.message = "exceeded" /\ d.client = Router
          /\ Payload(f, d, 1) = Word(TimeExceeded(f), 0)
       \/ /\ d.message = "unreach" /\ d.client \in {Target, Router}
          /\ Payload(f, d, 1) = Word(DestUnreach(f), 0)
    /\ Size(f, d) >= 9
    /\ \E n \in {5, 8, 10} :
          /\ Payload(f, d, 3) = Word(IF f = 4 THEN 64 + n ELSE 96, 0)
          /\ f = 4 => n # 10
          /\ f = 6 => n = 10
          /\ Size(f, d) >= n + 4
          /\ t # "udp" => Payload(f, d, n + 4) = Word(0, d.about.key)

IsAnswer(f, t, d) ==
    /\ d.about # NoPacket
    /\ IsEcho(f, t, d) \/ IsAck(f, t, d) \/ IsError(f, t, d)

(* The packet a datagram answers is one of ours or has another key.        *)
AboutPacket(t, p, d) ==
    /\ d.about \in [kind : {t}, port : PortBytes, key : OurKeys \cup OtherKeys]
    /\ d.about.key \in OurKeys => d.about.port = p

(* All of it, of the packets to port p.                                    *)
Described(f, t, p, d) ==
    /\ d.words \in Seq(Words)
    /\ Len(d.words) <= 40
    /\ d.about # NoPacket => AboutPacket(t, p, d)
    /\ \/ IsEmpty(d)
       \/ /\ d.message # "empty"
          /\ Size(f, d) > 0
          /\ f = 4 => d.words[1] = Word(69, 0)
          /\ f = 6 /\ d.protocol # "tcp" => d.words[1].byte < 64 \/ d.words[1].byte = 129
          /\ IsCut(f, t, d) \/ IsGarbage(f, d) \/ IsAnswer(f, t, d)

(* A cut error that is not too short for the validators.                   *)
EndsEarly(f, t, d) ==
    /\ d.message = "cut"
    /\ d.protocol = "icmp"
    /\ \/ t = "icmp" /\ Size(f, d) >= 2
       \/ t = "tcp"  /\ Size(f, d) >= 7

(* Where a datagram has something else than zero in the part of a word     *)
(* that holds keys: the key, or in a TCP segment what it acknowledges.     *)
Bears(f, t, d) ==
    t # "udp" =>
        \A k \in 1 .. Len(d.words) :
            d.words[k].rest # 0 =>
                \/ d.protocol = "icmp" /\ d.words[k].rest = d.about.key
                \/ /\ d.protocol = "tcp" /\ k = OuterSize(f) + 3
                   /\ d.words[k].rest = d.about.key + 1

(* A buffer that begins with the words of a datagram.                      *)
Holds(r, d) ==
    /\ r \in Seq(Words)
    /\ Len(r) = BufferSize
    /\ \A k \in 1 .. Len(d.words) : r[k] = d.words[k]

(* The first byte of a TCP segment from an IPv6 socket is a port's.        *)
Misleads(f, d) ==
    /\ f = 6
    /\ d.protocol = "tcp"
    /\ d.words # <<>>
    /\ IsIpHeader(d.words)

-------------------------------------------------------------------------------
(* The validators *)

(* The icmp header is 2 words, the quoted ip header n: the key is the      *)
(* second word of what follows.                                            *)
LEMMA QuotesFacts ==
    ASSUME NEW packet, NEW r \in Seq(Words), Len(r) >= 43, NEW n \in {5, 8, 10},
           Version(r[3]) \in {4, 6},
           Version(r[3]) = 4 => r[3].byte % 16 = n,
           Version(r[3]) = 6 => n = 10
    PROVE  Quotes(r, packet) = Says(r[n + 4] = KeyWord(packet))
  <1>1. /\ Len(r) \in Nat /\ 2 \in Nat /\ 2 <= Len(r) /\ n \in Nat /\ n <= Len(r) - 2
        /\ 1 \in Nat /\ 1 <= Len(r) - 2 /\ n + 2 \in Nat /\ 1 <= n + 2 /\ n + 2 <= Len(r) - 2
    BY LenProperties
  <1> DEFINE inner == Skip(r, 2)
  <1>2. /\ inner \in Seq(Words) /\ Len(inner) = Len(r) - 2
        /\ \A k \in Nat : 1 <= k /\ k <= Len(r) - 2 => inner[k] = r[2 + k]
    BY <1>1, SkipFacts, Zenon
  <1> HIDE DEF inner
  <1>3. inner[1] = r[2 + 1] /\ inner[n + 2] = r[2 + (n + 2)]
    BY <1>1, <1>2
  <1>4. inner[1] = r[3] /\ inner[n + 2] = r[n + 4]
    BY <1>3
  <1>5. IsIpHeader(inner) /\ getIpHeaderSize(inner) = n
    BY <1>4 DEF IsIpHeader, getIpHeaderSize
  <1> DEFINE header == Skip(inner, n)
  <1>6. \A k \in Nat : 1 <= k /\ k <= Len(inner) - n => header[k] = inner[n + k]
    <2>1. n <= Len(inner)
      BY <1>1, <1>2
    <2>2. QED
      BY <1>1, <1>2, <2>1, SkipFacts, Zenon
  <1>7. header[2] = inner[n + 2]
    <2>1. 2 <= Len(inner) - n
      BY <1>1, <1>2
    <2>2. QED
      BY <1>6, <2>1
  <1>8. Quotes(r, packet) = Says(CarriesKey(header, packet))
    BY <1>5 DEF Quotes, inner
  <1>9. QED
    BY <1>4, <1>7, <1>8 DEF CarriesKey

(* The buffer from where the outer ip header ends.                         *)
Inside(f, r) == IF f = 4 THEN Skip(r, 5) ELSE r

(* isValid gets past the outer ip header, for IPv4, to the payload.        *)
LEMMA Stripped ==
    ASSUME family \in {4, 6}, NEW packet, NEW d, NEW r, Holds(r, d),
           d.words \in Seq(Words), Len(d.words) <= 40, Size(family, d) > 0,
           family = 4 => d.words[1] = Word(69, 0),
           family = 6 => ~IsIpHeader(d.words)
    PROVE  LET s == Inside(family, r)
           IN  /\ s \in Seq(Words)
               /\ Len(s) >= 43
               /\ \A k \in 1 .. Size(family, d) : s[k] = Payload(family, d, k)
               /\ \A k \in 1 .. 43 : s[k] = r[OuterSize(family) + k]
               /\ isValid(packet, Info(d), r) = validateAll(packet, Info(d), Size(family, d), s)
  <1>1. Len(d.words) \in Nat /\ DOMAIN d.words = 1 .. Len(d.words)
    BY LenProperties
  <1>2. Size(family, d) = IF family = 4 THEN Len(d.words) - 5 ELSE Len(d.words)
    BY <1>1 DEF Size, OuterSize
  <1>3. /\ Len(d.words) # 0 /\ 1 \in 1 .. Len(d.words)
        /\ Size(family, d) \in Nat
    BY <1>1, <1>2
  <1>4. Info(d).size = Len(d.words)
    BY DEF Info
  <1>5. r \in Seq(Words) /\ Len(r) = 48 /\ r[1] = d.words[1]
    BY <1>3 DEF Holds, BufferSize
  <1>6. \A k \in 1 .. Len(d.words) : r[k] = d.words[k]
    BY DEF Holds
  <1>7. CASE family = 4
    <2>1. IsIpHeader(r) /\ getIpHeaderSize(r) = 5
      <3>1. r[1].byte = 69
        BY <1>5, <1>7, WordFacts
      <3>2. QED
        BY <3>1, Nibbles DEF IsIpHeader, getIpHeaderSize, Version
    <2> DEFINE s == Skip(r, 5)
    <2>2. /\ s \in Seq(Words) /\ Len(s) = Len(r) - 5
          /\ \A k \in Nat : 1 <= k /\ k <= Len(r) - 5 => s[k] = r[5 + k]
      <3>1. 5 \in Nat /\ 5 <= Len(r)
        BY <1>5
      <3>2. QED
        BY <1>5, <3>1, SkipFacts, Zenon
    <2>3. (Info(d).size - 5) % SizeModulus = Size(family, d)
      <3>1. Size(family, d) = Len(d.words) - 5
        BY <1>2, <1>7
      <3>2. SizeModulus \in Nat /\ Len(d.words) - 5 \in Nat /\ Len(d.words) - 5 < SizeModulus
        BY <1>1, <1>3, <3>1, ValidationAssumption DEF BufferSize
      <3>3. \A m, n \in Nat : n < m => n % m = n
        OBVIOUS
      <3>4. (Len(d.words) - 5) % SizeModulus = Len(d.words) - 5
        BY <3>2, <3>3
      <3>5. QED
        BY <1>4, <3>1, <3>4
    <2>4. isValid(packet, Info(d), r) = validateAll(packet, Info(d), Size(family, d), s)
      BY <1>3, <1>4, <2>1, <2>3 DEF isValid
    <2> HIDE DEF s
    <2>5. ASSUME NEW k \in 1 .. Size(family, d)
          PROVE  s[k] = Payload(family, d, k)
      <3>1. 5 + k \in 1 .. Len(d.words)
        BY <1>1, <1>2, <1>7
      <3>2. k \in Nat /\ 1 <= k /\ k <= Len(r) - 5
        BY <1>1, <1>2, <1>5, <1>7
      <3>3. s[k] = d.words[5 + k]
        BY <1>6, <2>2, <3>1, <3>2
      <3>4. QED
        BY <1>7, <3>3 DEF Payload, OuterSize
    <2>6. Len(s) >= 43
      BY <1>5, <2>2
    <2>7. \A k \in 1 .. 43 : s[k] = r[OuterSize(family) + k]
      <3>1. OuterSize(family) = 5 /\ Len(r) - 5 = 43
        BY <1>5, <1>7 DEF OuterSize
      <3>2. ASSUME NEW k \in 1 .. 43
            PROVE  s[k] = r[5 + k]
        <4>1. k \in Nat /\ 1 <= k /\ k <= Len(r) - 5
          BY <1>5
        <4>2. \A j \in Nat : 1 <= j /\ j <= Len(r) - 5 => s[j] = r[5 + j]
          BY <2>2, Zenon
        <4>3. QED
          BY <4>1, <4>2, Zenon
      <3>3. QED
        BY <3>1, <3>2
    <2>8. Inside(family, r) = s
      BY <1>7 DEF Inside, s
    <2>9. QED
      BY <2>2, <2>4, <2>5, <2>6, <2>7, <2>8
  <1>8. CASE family = 6
    <2>1. ~IsIpHeader(r)
      BY <1>5, <1>8 DEF IsIpHeader
    <2>2. Size(family, d) = Len(d.words)
      BY <1>2, <1>8
    <2>3. isValid(packet, Info(d), r) = validateAll(packet, Info(d), Size(family, d), r)
      BY <1>3, <1>4, <2>1, <2>2 DEF isValid
    <2>4. ASSUME NEW k \in 1 .. Size(family, d)
          PROVE  r[k] = Payload(family, d, k)
      <3>1. 0 + k = k /\ k \in 1 .. Len(d.words)
        BY <2>2
      <3>2. QED
        BY <1>6, <1>8, <3>1 DEF Payload, OuterSize
    <2>5. Len(r) >= 43
      BY <1>5
    <2>6. \A k \in 1 .. 43 : r[k] = r[OuterSize(family) + k]
      <3>1. OuterSize(family) = 0 /\ \A k \in 1 .. 43 : 0 + k = k
        BY <1>8 DEF OuterSize
      <3>2. QED
        BY <3>1
    <2>7. Inside(family, r) = r
      BY <1>8 DEF Inside
    <2>8. QED
      BY <1>5, <2>3, <2>4, <2>5, <2>6, <2>7
  <1>9. QED
    BY <1>7, <1>8


(* A key is in the word a validator compares.                              *)
LEMMA SameWord ==
    ASSUME NEW packet, NEW d
    PROVE  Says(Word(0, d.about.key) = KeyWord(packet)) = SameKey(packet, d)
  <1>1. Word(0, d.about.key) = KeyWord(packet) <=> packet.key = d.about.key
    <2>1. /\ Word(0, d.about.key).rest = d.about.key
          /\ KeyWord(packet).rest = packet.key
      BY DEF Word, KeyWord
    <2>2. QED
      BY <2>1 DEF Word, KeyWord
  <1>2. QED
    BY <1>1 DEF Says, SameKey

(* The types that IcmpFields, IcmpToTcpFields and UdpFields tell apart.     *)
LEMMA TypesDiffer ==
    /\ TimeExceeded(4) = 11 /\ TimeExceeded(6) = 3
    /\ DestUnreach(4) = 3 /\ DestUnreach(6) = 1
  BY DEF TimeExceeded, DestUnreach

(* What is left of an answer is too little, unless it is an error; of that *)
(* the UDP validator looks at the type alone.                              *)
LEMMA CutIsRuled ==
    ASSUME family \in {4, 6}, kind \in {"icmp", "tcp", "udp"}, NEW packet \in packets, NEW d,
           NEW s, IsCut(family, kind, d), ~EndsEarly(family, kind, d),
           Size(family, d) \in Nat, Size(family, d) > 0,
           \A k \in 1 .. Size(family, d) : s[k] = Payload(family, d, k)
    PROVE  validateAll(packet, Info(d), Size(family, d), s) = Ruling(packet, d)
  <1>1. packet.kind = kind /\ Info(d).protocol = d.protocol /\ Info(d).client = d.client
    BY DEF packets, Info
  <1>2. d.message = "cut"
    BY DEF IsCut
  <1>3. CASE kind = "udp"
    <2>1. MinSize(packet, Info(d).protocol) = 4
      BY <1>1, <1>3 DEF MinSize
    <2>2. validateFields(packet, Info(d), s) = UdpFields(d.client, s)
      BY <1>1, <1>3 DEF validateFields
    <2>3. s[1] = Payload(family, d, 1)
      OBVIOUS
    <2>4. UdpFields(d.client, s) = UdpFields(d.client, <<Payload(family, d, 1)>>)
      BY <2>3 DEF UdpFields, getIcmpType
    <2>5. QED
      BY <1>2, <1>3, <2>1, <2>2, <2>4 DEF validateAll, Ruling
  <1>4. CASE kind # "udp"
    <2>1. Size(family, d) < MinSize(packet, Info(d).protocol)
          /\ MinSize(packet, Info(d).protocol) \in Nat
      BY <1>1, <1>2, <1>4 DEF MinSize, IsCut, EndsEarly
    <2>2. validateAll(packet, Info(d), Size(family, d), s) = "invalid"
      BY <2>1 DEF validateAll
    <2>3. QED
      BY <1>2, <1>4, <2>2 DEF Ruling
  <1>5. QED
    BY <1>3, <1>4

(* An error that quotes no ip packet makes the ICMP and TCP validators     *)
(* throw; the UDP validator does not look.                                 *)
LEMMA GarbageIsRuled ==
    ASSUME family \in {4, 6}, kind \in {"icmp", "tcp", "udp"}, NEW packet \in packets, NEW d,
           NEW s \in Seq(Words), Len(s) >= 43, IsGarbage(family, d),
           \A k \in 1 .. Size(family, d) : s[k] = Payload(family, d, k)
    PROVE  validateAll(packet, Info(d), Size(family, d), s) = Ruling(packet, d)
  <1>1. packet.kind = kind /\ Info(d).protocol = "icmp" /\ Info(d).client = d.client
    BY DEF packets, Info, IsGarbage
  <1>2. Size(family, d) = 9 /\ s[1] = Word(TimeExceeded(family), 0) /\ s[3] = Blank
    BY DEF IsGarbage
  <1>3. getIcmpType(s) = TimeExceeded(family)
    BY <1>2 DEF getIcmpType, Word
  <1>4. Quotes(s, packet) = "throws"
    <2> DEFINE inner == Skip(s, 2)
    <2>1. 2 \in Nat /\ 2 <= Len(s) /\ 1 \in Nat /\ 1 <= 1 /\ 1 <= Len(s) - 2
      BY LenProperties
    <2>2. inner[1] = s[2 + 1]
      BY <2>1, SkipFacts, Zenon
    <2>3. inner[1].byte = 0
      BY <1>2, <2>2 DEF Blank, Word
    <2>4. ~IsIpHeader(inner)
      BY <2>3, Nibbles DEF IsIpHeader, Version
    <2>5. QED
      BY <2>4 DEF Quotes
  <1>5. validateAll(packet, Info(d), Size(family, d), s) = validateFields(packet, Info(d), s)
    <2>1. MinSize(packet, Info(d).protocol) \in {2, 4, 7}
      BY <1>1 DEF MinSize
    <2>2. QED
      BY <1>2, <2>1 DEF validateAll
  <1>6. d.message = "garbage" /\ d.client \in {Target, Router}
    BY DEF IsGarbage
  <1>7. CASE kind = "icmp"
    <2>1. validateFields(packet, Info(d), s) = IcmpFields(packet, d.client, s)
      BY <1>1, <1>7 DEF validateFields
    <2>2. getIcmpType(s) \notin EchoReplies /\ getIcmpType(s) \in {TimeExceeded(4), TimeExceeded(6)}
      BY <1>3, TypesDiffer DEF EchoReplies
    <2>3. QED
      BY <1>4, <1>5, <1>6, <1>7, <2>1, <2>2 DEF IcmpFields, Ruling
  <1>8. CASE kind = "tcp"
    <2>1. validateFields(packet, Info(d), s) = IcmpToTcpFields(packet, d.client, s)
      BY <1>1, <1>8 DEF validateFields
    <2>2. QED
      BY <1>3, <1>4, <1>5, <1>6, <1>8, <2>1 DEF IcmpToTcpFields, Ruling
  <1>9. CASE kind = "udp"
    <2>1. validateFields(packet, Info(d), s) = UdpFields(d.client, s)
      BY <1>1, <1>9 DEF validateFields
    <2>2. TimeExceeded(family) # DestUnreach(family) /\ Target # Router
      BY TypesDiffer DEF Target, Router
    <2>3. UdpFields(d.client, s) = Says(d.client = Router)
      BY <1>3, <1>6, <2>2 DEF UdpFields, Says
    <2>4. QED
      BY <1>5, <1>6, <1>9, <2>1, <2>3 DEF Ruling
  <1>10. QED
    BY <1>7, <1>8, <1>9

(* An echo reply carries the id.                                           *)
LEMMA EchoIsRuled ==
    ASSUME family \in {4, 6}, NEW packet \in packets, NEW d, NEW s, IsEcho(family, kind, d),
           \A k \in 1 .. Size(family, d) : s[k] = Payload(family, d, k)
    PROVE  validateAll(packet, Info(d), Size(family, d), s) = Ruling(packet, d)
  <1>1. packet.kind = "icmp" /\ Info(d).protocol = "icmp" /\ Info(d).client = Target
    BY DEF packets, Info, IsEcho
  <1>2. /\ Size(family, d) = 2
        /\ s[1] = Word(IF family = 4 THEN 0 ELSE 129, 0)
        /\ s[2] = Word(0, d.about.key)
    BY DEF IsEcho
  <1>3. getIcmpType(s) \in EchoReplies
    BY <1>2 DEF getIcmpType, Word, EchoReplies
  <1>4. IcmpFields(packet, Target, s) = SameKey(packet, d)
    <2>1. IcmpFields(packet, Target, s) = Says(CarriesKey(s, packet))
      <3>1. getIcmpType(s) \notin {TimeExceeded(4), TimeExceeded(6)}
        BY <1>3, TypesDiffer DEF EchoReplies
      <3>2. QED
        BY <1>3, <3>1 DEF IcmpFields, Says
    <2>2. QED
      BY <1>2, <2>1, SameWord DEF CarriesKey
  <1>5. validateAll(packet, Info(d), Size(family, d), s) = IcmpFields(packet, Target, s)
    <2>1. MinSize(packet, Info(d).protocol) = 2
      BY <1>1 DEF MinSize
    <2>2. validateFields(packet, Info(d), s) = IcmpFields(packet, Target, s)
      BY <1>1 DEF validateFields
    <2>3. QED
      BY <1>2, <2>1, <2>2 DEF validateAll
  <1>6. d.message = "echo"
    BY DEF IsEcho
  <1>7. QED
    BY <1>4, <1>5, <1>6 DEF Ruling

(* A segment of the target acknowledges the sequence number.               *)
LEMMA AckIsRuled ==
    ASSUME NEW packet \in packets, NEW d, NEW s, IsAck(family, kind, d),
           d.about.key \in Nat, packet.key \in Nat,
           \A k \in 1 .. Size(family, d) : s[k] = Payload(family, d, k)
    PROVE  validateAll(packet, Info(d), Size(family, d), s) = Ruling(packet, d)
  <1>1. packet.kind = "tcp" /\ Info(d).protocol = "tcp" /\ Info(d).client = Target
    BY DEF packets, Info, IsAck
  <1>2. Size(family, d) = 5 /\ s[3] = Word(0, d.about.key + 1)
    BY DEF IsAck
  <1>3. TcpToTcpFields(packet, Target, s) = SameKey(packet, d)
    <2>1. s[3] = Word(0, packet.key + 1) <=> d.about.key + 1 = packet.key + 1
      <3>1. s[3].rest = d.about.key + 1 /\ Word(0, packet.key + 1).rest = packet.key + 1
        BY <1>2 DEF Word
      <3>2. QED
        BY <1>2, <3>1
    <2>2. d.about.key + 1 = packet.key + 1 <=> packet.key = d.about.key
      OBVIOUS
    <2>3. QED
      BY <2>1, <2>2 DEF TcpToTcpFields, SameKey, Says
  <1>4. validateAll(packet, Info(d), Size(family, d), s) = TcpToTcpFields(packet, Target, s)
    <2>1. MinSize(packet, Info(d).protocol) = 5
      BY <1>1 DEF MinSize
    <2>2. validateFields(packet, Info(d), s) = TcpToTcpFields(packet, Target, s)
      BY <1>1 DEF validateFields
    <2>3. QED
      BY <1>2, <2>1, <2>2 DEF validateAll
  <1>5. d.message = "ack"
    BY DEF IsAck
  <1>6. QED
    BY <1>3, <1>4, <1>5 DEF Ruling


(* An error is judged by the key of the header it quotes; which errors are *)
(* looked at depends on the kind of the packets.                           *)
LEMMA ErrorIsRuled ==
    ASSUME family \in {4, 6}, kind \in {"icmp", "tcp", "udp"}, NEW packet \in packets, NEW d,
           NEW s \in Seq(Words), Len(s) >= 43, IsError(family, kind, d),
           Len(d.words) \in Nat,
           \A k \in 1 .. Size(family, d) : s[k] = Payload(family, d, k)
    PROVE  validateAll(packet, Info(d), Size(family, d), s) = Ruling(packet, d)
  <1>1. packet.kind = kind /\ Info(d).protocol = "icmp" /\ Info(d).client = d.client
    BY DEF packets, Info, IsError
  <1>2. Size(family, d) \in Int /\ Size(family, d) >= 9
    BY DEF IsError, Size, OuterSize
  <1>3. Target # Router
    BY DEF Target, Router
  <1>4. \/ d.message = "exceeded" /\ d.client = Router /\ getIcmpType(s) = TimeExceeded(family)
        \/ /\ d.message = "unreach" /\ d.client \in {Target, Router}
           /\ getIcmpType(s) = DestUnreach(family)
    <2>1. 1 \in 1 .. Size(family, d)
      BY <1>2
    <2>2. s[1] = Payload(family, d, 1)
      BY <2>1
    <2>3. /\ Payload(family, d, 1) = Word(TimeExceeded(family), 0)
             => getIcmpType(s) = TimeExceeded(family)
          /\ Payload(family, d, 1) = Word(DestUnreach(family), 0)
             => getIcmpType(s) = DestUnreach(family)
      BY <2>2 DEF getIcmpType, Word
    <2>4. QED
      BY <2>3 DEF IsError
  <1>5. kind # "udp" => Quotes(s, packet) = SameKey(packet, d)
    <2>1. PICK n \in {5, 8, 10} :
             /\ Payload(family, d, 3) = Word(IF family = 4 THEN 64 + n ELSE 96, 0)
             /\ family = 4 => n # 10
             /\ family = 6 => n = 10
             /\ Size(family, d) >= n + 4
             /\ kind # "udp" => Payload(family, d, n + 4) = Word(0, d.about.key)
      BY DEF IsError
    <2>2. 3 \in 1 .. Size(family, d) /\ n + 4 \in 1 .. Size(family, d)
      BY <1>2, <2>1
    <2>3. s[3] = Word(IF family = 4 THEN 64 + n ELSE 96, 0)
      BY <2>1, <2>2
    <2>4. s[3].byte = IF family = 4 THEN 64 + n ELSE 96
      BY <2>3 DEF Word
    <2>5. /\ Version(s[3]) \in {4, 6}
          /\ Version(s[3]) = 4 => s[3].byte % 16 = n
          /\ Version(s[3]) = 6 => n = 10
      <3>1. CASE family = 4
        <4>1. n = 5 \/ n = 8
          BY <2>1, <3>1
        <4>2. s[3].byte = 64 + n
          BY <2>4, <3>1
        <4>3. QED
          BY <4>1, <4>2, Nibbles DEF Version
      <3>2. CASE family = 6
        <4>1. s[3].byte = 96 /\ n = 10
          BY <2>1, <2>4, <3>2
        <4>2. QED
          BY <4>1, Nibbles DEF Version
      <3>3. QED
        BY <3>1, <3>2
    <2>6. Quotes(s, packet) = Says(s[n + 4] = KeyWord(packet))
      BY <2>5, QuotesFacts
    <2>7. kind # "udp" => s[n + 4] = Word(0, d.about.key)
      BY <2>1, <2>2
    <2>8. QED
      BY <2>6, <2>7, SameWord
  <1>6. validateAll(packet, Info(d), Size(family, d), s) = validateFields(packet, Info(d), s)
    <2>1. MinSize(packet, Info(d).protocol) \in {2, 4, 7}
      BY <1>1 DEF MinSize
    <2>2. QED
      BY <1>2, <2>1 DEF validateAll
  <1>7. CASE kind = "icmp"
    <2>1. validateFields(packet, Info(d), s) = IcmpFields(packet, d.client, s)
      BY <1>1, <1>7 DEF validateFields
    <2>2. CASE d.message = "exceeded"
      <3>1. getIcmpType(s) \notin EchoReplies /\ getIcmpType(s) \in {TimeExceeded(4), TimeExceeded(6)}
        BY <1>4, <2>2, TypesDiffer DEF EchoReplies
      <3>2. QED
        BY <1>5, <1>6, <1>7, <2>1, <2>2, <3>1 DEF IcmpFields, Ruling
    <2>3. CASE d.message = "unreach" /\ family = 4
      <3>1. getIcmpType(s) \notin EchoReplies /\ getIcmpType(s) \in {TimeExceeded(4), TimeExceeded(6)}
        BY <1>4, <2>3, TypesDiffer DEF EchoReplies
      <3>2. QED
        BY <1>5, <1>6, <1>7, <2>1, <2>3, <3>1 DEF IcmpFields, Ruling
    <2>4. CASE d.message = "unreach" /\ family = 6
      <3>1. getIcmpType(s) \notin EchoReplies /\ getIcmpType(s) \notin {TimeExceeded(4), TimeExceeded(6)}
        BY <1>4, <2>4, TypesDiffer DEF EchoReplies
      <3>2. QED
        BY <1>6, <1>7, <2>1, <2>4, <3>1 DEF IcmpFields, Ruling
    <2>5. QED
      BY <1>4, <2>2, <2>3, <2>4
  <1>8. CASE kind = "tcp"
    <2>1. validateFields(packet, Info(d), s) = IcmpToTcpFields(packet, d.client, s)
      BY <1>1, <1>8 DEF validateFields
    <2>2. TimeExceeded(family) # DestUnreach(family)
      BY TypesDiffer
    <2>3. IcmpToTcpFields(packet, d.client, s)
             = IF d.message = "exceeded" \/ d.client = Target THEN SameKey(packet, d) ELSE "invalid"
      BY <1>3, <1>4, <1>5, <1>8, <2>2 DEF IcmpToTcpFields
    <2>4. QED
      BY <1>4, <1>6, <1>8, <2>1, <2>3 DEF Ruling
  <1>9. CASE kind = "udp"
    <2>1. validateFields(packet, Info(d), s) = UdpFields(d.client, s)
      BY <1>1, <1>9 DEF validateFields
    <2>2. TimeExceeded(family) # DestUnreach(family)
      BY TypesDiffer
    <2>3. UdpFields(d.client, s) = Says(d.message = "exceeded" \/ d.client = Target)
      BY <1>3, <1>4, <2>2 DEF UdpFields, Says
    <2>4. QED
      BY <1>4, <1>6, <1>9, <2>1, <2>3 DEF Ruling, Says
  <1>10. QED
    BY <1>7, <1>8, <1>9

(* Whatever follows a datagram in the buffer, isValid says what Ruling     *)
(* says, but of errors that end early and segments that mislead.           *)
LEMMA VerdictIsRuling ==
    ASSUME family \in {4, 6}, kind \in {"icmp", "tcp", "udp"}, NEW packet \in packets, NEW p, NEW d,
           Described(family, kind, p, d), ~Misleads(family, d), ~EndsEarly(family, kind, d),
           NEW r, Holds(r, d)
    PROVE  isValid(packet, Info(d), r) = Ruling(packet, d)
  <1>1. CASE IsEmpty(d)
    <2>1. Info(d).size = 0 /\ d.message = "empty"
      BY <1>1 DEF IsEmpty, Info
    <2>2. QED
      BY <2>1 DEF isValid, Ruling
  <1>2. CASE ~IsEmpty(d)
    <2>1. /\ d.words \in Seq(Words) /\ Len(d.words) <= 40 /\ Size(family, d) > 0
          /\ family = 4 => d.words[1] = Word(69, 0)
          /\ family = 6 /\ d.protocol # "tcp" => d.words[1].byte < 64 \/ d.words[1].byte = 129
          /\ IsCut(family, kind, d) \/ IsGarbage(family, d) \/ IsAnswer(family, kind, d)
      BY <1>2 DEF Described
    <2>2. Len(d.words) \in Nat /\ Len(d.words) >= 1 /\ d.words[1] \in Words /\ d.words # <<>>
      <3>1. Len(d.words) \in Nat
        BY <2>1, LenProperties
      <3>2. Len(d.words) >= 1
        <4>1. Size(family, d) = IF family = 4 THEN Len(d.words) - 5 ELSE Len(d.words)
          BY <3>1 DEF Size, OuterSize
        <4>2. QED
          BY <2>1, <3>1, <4>1
      <3>3. d.words[1] \in Words
        BY <2>1, <3>1, <3>2, ElementOfSeq
      <3>4. QED
        BY <3>1, <3>2, <3>3
    <2>3. family = 6 => ~IsIpHeader(d.words)
      <3>1. CASE family = 6 /\ d.protocol = "tcp"
        BY <2>2, <3>1 DEF Misleads
      <3>2. CASE family = 6 /\ d.protocol # "tcp"
        <4>1. d.words[1].byte \in Nat
          BY <2>2 DEF Words
        <4>2. QED
          BY <2>1, <3>2, <4>1, Nibbles DEF IsIpHeader, Version
      <3>3. QED
        BY <3>1, <3>2
    <2> DEFINE s == Inside(family, r)
    <2>4. /\ s \in Seq(Words)
          /\ Len(s) >= 43
          /\ \A k \in 1 .. Size(family, d) : s[k] = Payload(family, d, k)
          /\ isValid(packet, Info(d), r) = validateAll(packet, Info(d), Size(family, d), s)
      BY <2>1, <2>3, Stripped
    <2> HIDE DEF s
    <2>5. CASE IsCut(family, kind, d)
      <3>1. Size(family, d) \in Nat
        <4>1. OuterSize(family) \in {0, 5}
          BY DEF OuterSize
        <4>2. Size(family, d) = Len(d.words) - OuterSize(family)
          BY DEF Size
        <4>3. QED
          BY <2>1, <2>2, <4>1, <4>2
      <3>2. QED
        BY <2>1, <2>4, <2>5, <3>1, CutIsRuled
    <2>6. CASE IsGarbage(family, d)
      BY <2>4, <2>6, GarbageIsRuled
    <2>7. CASE IsEcho(family, kind, d)
      BY <2>4, <2>7, EchoIsRuled
    <2>8. CASE IsAck(family, kind, d) /\ d.about # NoPacket
      <3>1. d.about.key \in Nat /\ packet.key \in Nat
        BY <2>8, ValidationAssumption DEF Described, AboutPacket, packets
      <3>2. QED
        BY <2>4, <2>8, <3>1, AckIsRuled
    <2>9. CASE IsError(family, kind, d)
      BY <2>2, <2>4, <2>9, ErrorIsRuled
    <2>10. QED
      BY <2>1, <2>5, <2>6, <2>7, <2>8, <2>9 DEF IsAnswer
  <1>3. QED
    BY <1>1, <1>2


-------------------------------------------------------------------------------
(* What arrives *)

(* An ip header, with or without options.                                  *)
LEMMA IpHeaderFacts ==
    ASSUME family \in {4, 6}, NEW n \in {5, 8}
    PROVE  /\ IpHeader(n) \in Seq(Words)
           /\ Len(IpHeader(n)) = IF family = 4 THEN n ELSE 10
           /\ IpHeader(n)[1] = Word(IF family = 4 THEN 64 + n ELSE 96, 0)
  <1> DEFINE b == IF family = 4 THEN 64 + n ELSE 96
             m == IF family = 4 THEN n - 1 ELSE 9
             first == <<Word(b, 0)>>
             rest == Zeros(m)
  <1>1. IpHeader(n) = first \o rest
    BY DEF IpHeader
  <1>2. b \in Nat /\ m \in Nat
    OBVIOUS
  <1>3. first \in Seq(Words) /\ Len(first) = 1 /\ first[1] = Word(b, 0)
    <2> HIDE DEF b
    <2>1. Word(b, 0) \in Words
      BY <1>2, WordFacts
    <2>2. QED
      BY <2>1
  <1>4. rest \in Seq(Words) /\ Len(rest) = m
    <2> HIDE DEF m
    <2>1. QED
      BY <1>2, ZerosFacts
  <1> HIDE DEF first, rest
  <1>5. /\ first \o rest \in Seq(Words)
        /\ Len(first \o rest) = Len(first) + Len(rest)
        /\ \A i \in 1 .. Len(first) + Len(rest) :
              (first \o rest)[i] = IF i <= Len(first) THEN first[i] ELSE rest[i - Len(first)]
    BY <1>3, <1>4, ConcatProperties, Zenon
  <1>6. 1 \in 1 .. Len(first) + Len(rest) /\ 1 <= Len(first)
    BY <1>2, <1>3, <1>4
  <1>7. (first \o rest)[1] = Word(b, 0)
    BY <1>3, <1>5, <1>6
  <1>8. Len(first \o rest) = 1 + m
    BY <1>3, <1>4, <1>5
  <1>9. 1 + m = IF family = 4 THEN n ELSE 10
    OBVIOUS
  <1>10. QED
    BY <1>1, <1>5, <1>7, <1>8, <1>9

(* Concatenations, by the sizes of their parts.                            *)
LEMMA Joined ==
    ASSUME NEW s \in Seq(Words), NEW t \in Seq(Words)
    PROVE  /\ s \o t \in Seq(Words)
           /\ Len(s) \in Nat /\ Len(t) \in Nat
           /\ Len(s \o t) = Len(s) + Len(t)
           /\ \A k \in 1 .. Len(s) : (s \o t)[k] = s[k]
           /\ \A k \in 1 .. Len(t) : (s \o t)[Len(s) + k] = t[k]
  <1>1. Len(s) \in Nat /\ Len(t) \in Nat
    BY LenProperties
  <1>2. /\ s \o t \in Seq(Words)
        /\ Len(s \o t) = Len(s) + Len(t)
        /\ \A k \in 1 .. Len(s) + Len(t) :
              (s \o t)[k] = IF k <= Len(s) THEN s[k] ELSE t[k - Len(s)]
    BY ConcatProperties, Zenon
  <1> DEFINE u == s \o t
  <1> HIDE DEF u
  <1>3. \A k \in 1 .. Len(s) + Len(t) : u[k] = IF k <= Len(s) THEN s[k] ELSE t[k - Len(s)]
    BY <1>2 DEF u
  <1>4. ASSUME NEW k \in 1 .. Len(s)
        PROVE  u[k] = s[k]
    BY <1>1, <1>3
  <1>5. ASSUME NEW k \in 1 .. Len(t)
        PROVE  u[Len(s) + k] = t[k]
    <2>1. Len(s) + k \in 1 .. Len(s) + Len(t) /\ ~(Len(s) + k <= Len(s)) /\ Len(s) + k - Len(s) = k
      BY <1>1
    <2>2. QED
      BY <1>3, <2>1
  <1>6. QED
    BY <1>1, <1>2, <1>4, <1>5 DEF u

(* A payload is delivered with the ip header for IPv4, without for IPv6.   *)
LEMMA DeliveredFacts ==
    ASSUME family \in {4, 6}, NEW u \in Seq(Words)
    PROVE  /\ Delivered(u) \in Seq(Words)
           /\ Len(u) \in Nat
           /\ Len(Delivered(u)) = OuterSize(family) + Len(u)
           /\ \A k \in 1 .. Len(u) : Delivered(u)[OuterSize(family) + k] = u[k]
           /\ family = 4 => Delivered(u)[1] = Word(69, 0)
           /\ family = 6 => Delivered(u) = u
  <1>1. CASE family = 4
    <2> DEFINE h == IpHeader(5)
    <2>1. h \in Seq(Words) /\ Len(h) = 5 /\ h[1] = Word(69, 0)
      BY <1>1, IpHeaderFacts
    <2> HIDE DEF h
    <2>2. /\ h \o u \in Seq(Words)
          /\ Len(u) \in Nat
          /\ Len(h \o u) = Len(h) + Len(u)
          /\ \A k \in 1 .. Len(h) : (h \o u)[k] = h[k]
          /\ \A k \in 1 .. Len(u) : (h \o u)[Len(h) + k] = u[k]
      BY <2>1, Joined, Zenon
    <2>3. Delivered(u) = h \o u
      BY <1>1 DEF Delivered, h
    <2>4. OuterSize(family) = Len(h) /\ 1 \in 1 .. Len(h)
      BY <1>1, <2>1 DEF OuterSize
    <2>5. (h \o u)[1] = Word(69, 0)
      BY <2>1, <2>2, <2>4
    <2>6. \A k \in 1 .. Len(u) : (h \o u)[OuterSize(family) + k] = u[k]
      BY <2>2, <2>4
    <2>7. Len(h \o u) = OuterSize(family) + Len(u)
      BY <2>2, <2>4
    <2>8. family # 6
      BY <1>1
    <2>9. Delivered(u) \in Seq(Words) /\ Len(Delivered(u)) = OuterSize(family) + Len(u)
      BY <2>2, <2>3, <2>7
    <2>10. Delivered(u)[1] = Word(69, 0)
      BY <2>3, <2>5
    <2>11. \A k \in 1 .. Len(u) : Delivered(u)[OuterSize(family) + k] = u[k]
      BY <2>3, <2>6
    <2>12. QED
      BY <2>2, <2>8, <2>9, <2>10, <2>11
  <1>2. CASE family = 6
    <2>1. Delivered(u) = u /\ OuterSize(family) = 0 /\ Len(u) \in Nat
      BY <1>2, LenProperties DEF Delivered, OuterSize
    <2>2. Len(Delivered(u)) = OuterSize(family) + Len(u)
      BY <2>1
    <2>3. ASSUME NEW k \in 1 .. Len(u)
          PROVE  Delivered(u)[OuterSize(family) + k] = u[k]
      <3>1. OuterSize(family) + k = k
        BY <2>1
      <3>2. QED
        BY <2>1, <3>1
    <2>4. QED
      BY <1>2, <2>1, <2>2, <2>3
  <1>3. QED
    BY <1>1, <1>2

(* What the descriptions ask of a datagram with payload u.                 *)
LEMMA DeliveredDatagram ==
    ASSUME family \in {4, 6}, NEW u \in Seq(Words), Len(u) <= 30, Len(u) >= 1,
           NEW d, d.words = Delivered(u)
    PROVE  /\ d.words \in Seq(Words) /\ Len(d.words) <= 40
           /\ Size(family, d) = Len(u) /\ Len(u) \in Nat
           /\ \A k \in 1 .. Len(u) : Payload(family, d, k) = u[k]
           /\ family = 4 => d.words[1] = Word(69, 0)
           /\ family = 6 => d.words[1] = u[1]
  <1>1. OuterSize(family) \in {0, 5}
    BY DEF OuterSize
  <1>2. /\ d.words \in Seq(Words) /\ Len(u) \in Nat
        /\ Len(d.words) = OuterSize(family) + Len(u)
        /\ \A k \in 1 .. Len(u) : d.words[OuterSize(family) + k] = u[k]
        /\ family = 4 => d.words[1] = Word(69, 0)
        /\ family = 6 => d.words = u
    BY DeliveredFacts
  <1>3. Len(d.words) <= 40 /\ Size(family, d) = Len(u)
    BY <1>1, <1>2 DEF Size
  <1>4. QED
    BY <1>2, <1>3 DEF Payload


(* Each of them is one of ours or has a key of others.                     *)
LEMMA SourceFacts ==
    ASSUME port \in PortBytes, NEW a \in Sources
    PROVE  /\ a.kind = kind /\ a.port \in PortBytes /\ a.key \in Nat /\ a # NoPacket
           /\ \A d : d.about = a => AboutPacket(kind, port, d)
  <1>1. /\ a \in [kind : {kind}, port : PortBytes, key : OurKeys \cup OtherKeys]
        /\ a.key \in OurKeys => a.port = port
    BY ValidationAssumption DEF Sources, packets
  <1>2. a.key \in Nat /\ a.key >= 1
    BY <1>1, ValidationAssumption
  <1>3. a # NoPacket
    BY <1>2 DEF NoPacket
  <1>4. QED
    BY <1>1, <1>2, <1>3 DEF AboutPacket

(* An echo reply.                                                          *)
LEMMA EchoDescribed ==
    ASSUME family \in {4, 6}, port \in PortBytes, kind = "icmp", NEW a \in Sources
    PROVE  LET d == EchoReply(a)
           IN  Described(family, kind, port, d) /\ IsAnswer(family, kind, d) /\ d.about = a
  <1> DEFINE b == IF family = 4 THEN 0 ELSE 129
             u == <<Word(b, 0), KeyWord(a)>>
             d == EchoReply(a)
  <1>1. d.about = a /\ d.message = "echo" /\ d.client = Target /\ d.protocol = "icmp"
        /\ d.words = Delivered(u)
    BY DEF EchoReply, Datagram
  <1>2. /\ a \in Sources /\ a # NoPacket /\ a.key \in Nat
        /\ d.about = a => AboutPacket(kind, port, d)
    BY SourceFacts
  <1>3. b \in Nat /\ (family = 6 => b = 129)
    OBVIOUS
  <1>4. u \in Seq(Words) /\ Len(u) = 2 /\ u[1] = Word(b, 0) /\ u[2] = Word(0, a.key)
    <2> HIDE DEF b
    <2>1. Word(b, 0) \in Words /\ KeyWord(a) \in Words
      BY <1>2, <1>3, WordFacts DEF KeyWord
    <2>2. QED
      BY <2>1 DEF KeyWord
  <1> HIDE DEF u, d
  <1>5. /\ d.words \in Seq(Words) /\ Len(d.words) <= 40
        /\ Size(family, d) = Len(u) /\ Len(u) \in Nat
        /\ \A k \in 1 .. Len(u) : Payload(family, d, k) = u[k]
        /\ family = 4 => d.words[1] = Word(69, 0)
        /\ family = 6 => d.words[1] = u[1]
    <2>1. Len(u) <= 30 /\ Len(u) >= 1
      BY <1>4
    <2>2. QED
      BY <1>1, <1>4, <2>1, DeliveredDatagram, Zenon
  <1>6. Size(family, d) = 2 /\ Payload(family, d, 1) = Word(b, 0) /\ Payload(family, d, 2) = Word(0, a.key)
    BY <1>4, <1>5
  <1>7. IsEcho(family, kind, d)
    BY <1>1, <1>6 DEF IsEcho
  <1>8. family = 6 => d.words[1].byte = 129
    BY <1>3, <1>4, <1>5, WordFacts
  <1>9. Described(family, kind, port, d)
    BY <1>1, <1>2, <1>5, <1>6, <1>7, <1>8 DEF Described, IsAnswer
  <1>10. QED
    BY <1>1, <1>2, <1>7, <1>9 DEF IsAnswer, d

(* An acknowledgement.                                                     *)
LEMMA AckDescribed ==
    ASSUME family \in {4, 6}, port \in PortBytes, kind = "tcp", NEW a \in Sources
    PROVE  LET d == Ack(a)
           IN  Described(family, kind, port, d) /\ IsAnswer(family, kind, d) /\ d.about = a
  <1> DEFINE first == <<Word(a.port, 0), Blank, Word(0, a.key + 1)>>
             rest == Zeros(2)
             u == first \o rest
             d == Ack(a)
  <1>1. d.about = a /\ d.message = "ack" /\ d.client = Target /\ d.protocol = "tcp"
        /\ d.words = Delivered(u)
    BY DEF Ack, Datagram
  <1>2. /\ a # NoPacket /\ a.key \in Nat /\ a.port \in Nat
        /\ d.about = a => AboutPacket(kind, port, d)
    BY SourceFacts, ValidationAssumption
  <1>3. first \in Seq(Words) /\ Len(first) = 3 /\ first[1] = Word(a.port, 0)
        /\ first[3] = Word(0, a.key + 1)
    <2>1. Word(a.port, 0) \in Words /\ Blank \in Words /\ Word(0, a.key + 1) \in Words
      BY <1>2, WordFacts DEF Blank
    <2>2. QED
      BY <2>1
  <1>4. rest \in Seq(Words) /\ Len(rest) = 2
    BY ZerosFacts
  <1> HIDE DEF first, rest, d
  <1>5. /\ first \o rest \in Seq(Words)
        /\ Len(first \o rest) = Len(first) + Len(rest)
        /\ \A k \in 1 .. Len(first) : (first \o rest)[k] = first[k]
    BY <1>3, <1>4, Joined, Zenon
  <1>6. u \in Seq(Words) /\ Len(u) = 5 /\ u[1] = Word(a.port, 0) /\ u[3] = Word(0, a.key + 1)
    BY <1>3, <1>4, <1>5
  <1> HIDE DEF u
  <1>7. /\ d.words \in Seq(Words) /\ Len(d.words) <= 40
        /\ Size(family, d) = Len(u) /\ Len(u) \in Nat
        /\ \A k \in 1 .. Len(u) : Payload(family, d, k) = u[k]
        /\ family = 4 => d.words[1] = Word(69, 0)
        /\ family = 6 => d.words[1] = u[1]
    <2>1. Len(u) <= 30 /\ Len(u) >= 1
      BY <1>6
    <2>2. QED
      BY <1>1, <1>6, <2>1, DeliveredDatagram, Zenon
  <1>8. /\ Size(family, d) = 5
        /\ Payload(family, d, 1) = Word(a.port, 0) /\ Payload(family, d, 3) = Word(0, a.key + 1)
    BY <1>6, <1>7
  <1>9. IsAck(family, kind, d)
    BY <1>1, <1>8 DEF IsAck
  <1>10. Described(family, kind, port, d)
    BY <1>1, <1>2, <1>7, <1>8, <1>9 DEF Described, IsAnswer
  <1>11. QED
    BY <1>1, <1>2, <1>9, <1>10 DEF IsAnswer, d


(* The header an error quotes, whole or its first eight bytes.             *)
LEMMA QuotedFacts ==
    ASSUME family \in {4, 6}, kind \in {"icmp", "tcp", "udp"}, NEW a \in Sources,
           a.kind = kind, a.key \in Nat,
           NEW n \in {2, Len(Header(a))}
    PROVE  LET q == SubSeq(Header(a), 1, n)
           IN  /\ q \in Seq(Words)
               /\ Len(q) >= 2 /\ Len(q) <= 5
               /\ kind # "udp" => q[2] = Word(0, a.key)
  <1> DEFINE r == Header(a)
  <1>1. /\ r \in Seq(Words) /\ Len(r) \in {2, 5}
        /\ kind # "udp" => r[2] = Word(0, a.key)
    <2>1. KeyWord(a) = Word(0, a.key) /\ KeyWord(a) \in Words
      BY WordFacts DEF KeyWord
    <2>2. Word(8, 0) \in Words /\ Word(128, 0) \in Words /\ Word(195, 0) \in Words /\ Word(0, 8) \in Words
      BY WordFacts
    <2>3. CASE kind = "icmp"
      <3>1. r = <<Word(IF family = 4 THEN 8 ELSE 128, 0), KeyWord(a)>>
        BY <2>3 DEF Header
      <3>2. Word(IF family = 4 THEN 8 ELSE 128, 0) \in Words
        BY <2>2
      <3>3. QED
        BY <2>1, <3>1, <3>2
    <2>4. CASE kind = "tcp"
      <3> DEFINE first == <<Word(195, 0), KeyWord(a)>>
                 rest == Zeros(3)
      <3>1. r = first \o rest
        BY <2>4 DEF Header
      <3>2. first \in Seq(Words) /\ Len(first) = 2 /\ first[2] = KeyWord(a)
        BY <2>1, <2>2
      <3>3. rest \in Seq(Words) /\ Len(rest) = 3
        BY ZerosFacts
      <3> HIDE DEF first, rest
      <3>4. /\ first \o rest \in Seq(Words)
            /\ Len(first \o rest) = Len(first) + Len(rest)
            /\ \A k \in 1 .. Len(first) : (first \o rest)[k] = first[k]
        BY <3>2, <3>3, Joined, Zenon
      <3> HIDE DEF r
      <3>5. r[2] = KeyWord(a)
        BY <3>1, <3>2, <3>4
      <3>6. r \in Seq(Words) /\ Len(r) = 5
        BY <3>1, <3>2, <3>3, <3>4
      <3>7. QED
        BY <2>1, <3>5, <3>6
    <2>5. CASE kind = "udp"
      <3>1. r = <<Word(195, 0), Word(0, 8)>>
        BY <2>5 DEF Header
      <3>2. QED
        BY <2>2, <2>5, <3>1
    <2>6. QED
      BY <2>3, <2>4, <2>5
  <1>2. n \in {2, Len(r)}
    OBVIOUS
  <1> HIDE DEF r
  <1>3. n \in Nat /\ n <= Len(r) /\ n >= 2 /\ n <= 5
    <2>1. \A j, k \in {2, 5} : j = 2 \/ j = k => j \in Nat /\ j <= k /\ j >= 2 /\ j <= 5
      OBVIOUS
    <2>2. Len(r) \in {2, 5} /\ n \in {2, 5} /\ (n = 2 \/ n = Len(r))
      BY <1>1, <1>2
    <2>3. QED
      BY <2>1, <2>2, Zenon
  <1> DEFINE q == SubSeq(r, 1, n)
  <1>4. q \in Seq(Words) /\ Len(q) = n /\ \A k \in 1 .. n : q[k] = r[k]
    BY <1>1, <1>3, FirstWords, Zenon
  <1> HIDE DEF q
  <1>5. q[2] = r[2]
    BY <1>3, <1>4
  <1>6. QED
    BY <1>1, <1>3, <1>4, <1>5 DEF q, r

(* Each error message with its type and a sender.                          *)
LEMMA ErrorDescribed ==
    ASSUME family \in {4, 6}, kind \in {"icmp", "tcp", "udp"}, port \in PortBytes,
           NEW a \in Sources, NEW n \in {2, Len(Header(a))}, NEW d \in Errors(a, n)
    PROVE  Described(family, kind, port, d) /\ IsAnswer(family, kind, d) /\ d.about = a
  <1>1. PICK e \in {[message |-> "exceeded", type |-> TimeExceeded(family), client |-> Router],
                    [message |-> "unreach",  type |-> DestUnreach(family),  client |-> Router],
                    [message |-> "unreach",  type |-> DestUnreach(family),  client |-> Target]} :
           \E ihl \in {5, 8} :
              d = Datagram(a, e.message, e.client, "icmp",
                           Delivered(<<Word(e.type, 0), Blank>> \o IpHeader(ihl)
                                         \o SubSeq(Header(a), 1, n)))
    BY DEF Errors
  <1>2. PICK ihl \in {5, 8} :
           d = Datagram(a, e.message, e.client, "icmp",
                        Delivered(<<Word(e.type, 0), Blank>> \o IpHeader(ihl)
                                      \o SubSeq(Header(a), 1, n)))
    BY <1>1
  <1> DEFINE first == <<Word(e.type, 0), Blank>>
             h == IpHeader(ihl)
             q == SubSeq(Header(a), 1, n)
             v == first \o h
             u == v \o q
             b == IF family = 4 THEN 64 + ihl ELSE 96
             m == IF family = 4 THEN ihl ELSE 10
  <1>3. d.about = a /\ d.message = e.message /\ d.client = e.client /\ d.protocol = "icmp"
        /\ d.words = Delivered(u)
    BY <1>2 DEF Datagram
  <1>4. \/ d.message = "exceeded" /\ d.client = Router /\ e.type = TimeExceeded(family)
        \/ /\ d.message = "unreach" /\ d.client \in {Target, Router}
           /\ e.type = DestUnreach(family)
    BY <1>3
  <1>5. e.type \in Nat /\ e.type < 64
    BY <1>4, TypesDiffer
  <1>6. first \in Seq(Words) /\ Len(first) = 2 /\ first[1] = Word(e.type, 0)
    <2>1. Word(e.type, 0) \in Words /\ Blank \in Words
      BY <1>5, WordFacts DEF Blank
    <2>2. QED
      BY <2>1
  <1>7. h \in Seq(Words) /\ Len(h) = m /\ h[1] = Word(b, 0)
    BY IpHeaderFacts
  <1>8. /\ a.kind = kind /\ a.key \in Nat /\ a # NoPacket
        /\ d.about = a => AboutPacket(kind, port, d)
    BY SourceFacts
  <1>9. /\ q \in Seq(Words) /\ Len(q) >= 2 /\ Len(q) <= 5
        /\ kind # "udp" => q[2] = Word(0, a.key)
    BY <1>8, QuotedFacts
  <1>10. m \in {5, 8, 10} /\ b = (IF family = 4 THEN 64 + m ELSE 96)
         /\ (family = 4 => m # 10) /\ (family = 6 => m = 10)
    OBVIOUS
  <1> HIDE DEF first, h, q, b, m
  <1>11. /\ v \in Seq(Words)
         /\ Len(v) = Len(first) + Len(h)
         /\ \A k \in 1 .. Len(first) : v[k] = first[k]
         /\ \A k \in 1 .. Len(h) : v[Len(first) + k] = h[k]
    BY <1>6, <1>7, Joined, Zenon
  <1>12. Len(v) = m + 2 /\ v[1] = Word(e.type, 0) /\ v[3] = Word(b, 0)
    <2>1. 1 \in 1 .. Len(first) /\ 1 \in 1 .. Len(h) /\ Len(first) + 1 = 3
      BY <1>6, <1>7, <1>10
    <2>2. v[1] = first[1] /\ v[Len(first) + 1] = h[1]
      BY <1>11, <2>1
    <2> HIDE DEF v
    <2>3. Len(v) = m + 2
      BY <1>6, <1>7, <1>10, <1>11
    <2>4. QED
      BY <1>6, <1>7, <2>1, <2>2, <2>3
  <1> HIDE DEF v
  <1>13. /\ u \in Seq(Words)
         /\ Len(q) \in Nat
         /\ Len(u) = Len(v) + Len(q)
         /\ \A k \in 1 .. Len(v) : u[k] = v[k]
         /\ \A k \in 1 .. Len(q) : u[Len(v) + k] = q[k]
    BY <1>9, <1>11, Joined, Zenon
  <1> HIDE DEF u
  <1>14. /\ Len(u) >= m + 4 /\ Len(u) >= 9 /\ Len(u) <= 17 /\ Len(u) \in Int
         /\ 1 \in 1 .. Len(v) /\ 3 \in 1 .. Len(v) /\ 2 \in 1 .. Len(q)
    BY <1>9, <1>10, <1>12, <1>13
  <1>15. u[1] = Word(e.type, 0) /\ u[3] = Word(b, 0) /\ u[Len(v) + 2] = q[2]
    BY <1>12, <1>13, <1>14
  <1>16. kind # "udp" => u[m + 4] = Word(0, a.key)
    <2>1. Len(v) + 2 = m + 4
      BY <1>10, <1>12
    <2>2. QED
      BY <1>9, <1>15, <2>1
  <1>17. /\ d.words \in Seq(Words) /\ Len(d.words) <= 40
         /\ Size(family, d) = Len(u) /\ Len(u) \in Nat
         /\ \A k \in 1 .. Len(u) : Payload(family, d, k) = u[k]
         /\ family = 4 => d.words[1] = Word(69, 0)
         /\ family = 6 => d.words[1] = u[1]
    <2>1. Len(u) <= 30 /\ Len(u) >= 1
      BY <1>14
    <2>2. QED
      BY <1>3, <1>13, <2>1, DeliveredDatagram, Zenon
  <1>18. /\ Size(family, d) >= 9 /\ Size(family, d) >= m + 4 /\ Size(family, d) > 0
         /\ Payload(family, d, 1) = Word(e.type, 0)
         /\ Payload(family, d, 3) = Word(b, 0)
         /\ kind # "udp" => Payload(family, d, m + 4) = Word(0, a.key)
    <2>1. 1 \in 1 .. Len(u) /\ 3 \in 1 .. Len(u) /\ m + 4 \in 1 .. Len(u)
      BY <1>10, <1>14
    <2>2. QED
      BY <1>14, <1>15, <1>16, <1>17, <2>1
  <1>19. IsError(family, kind, d)
    <2>1. \/ /\ d.message = "exceeded" /\ d.client = Router
             /\ Payload(family, d, 1) = Word(TimeExceeded(family), 0)
          \/ /\ d.message = "unreach" /\ d.client \in {Target, Router}
             /\ Payload(family, d, 1) = Word(DestUnreach(family), 0)
      BY <1>4, <1>18
    <2>2. Payload(family, d, 3) = Word(IF family = 4 THEN 64 + m ELSE 96, 0)
      BY <1>10, <1>18
    <2>3. QED
      BY <1>3, <1>10, <1>18, <2>1, <2>2 DEF IsError
  <1>20. family = 6 => d.words[1].byte < 64
    BY <1>5, <1>15, <1>17, WordFacts
  <1>21. d.about = a /\ a # NoPacket /\ AboutPacket(kind, port, d)
    BY <1>3, <1>8
  <1>22. IsAnswer(family, kind, d)
    BY <1>19, <1>21 DEF IsAnswer
  <1>23. d.message # "empty"
    BY <1>4
  <1>24. Described(family, kind, port, d)
    BY <1>17, <1>18, <1>20, <1>21, <1>22, <1>23 DEF Described
  <1>25. QED
    BY <1>21, <1>22, <1>24


(* Every answer is a record that looks as described.                       *)
LEMMA AnswerDescribed ==
    ASSUME family \in {4, 6}, kind \in {"icmp", "tcp", "udp"}, port \in PortBytes,
           NEW a \in Sources, NEW d \in Answers(a)
    PROVE  /\ Described(family, kind, port, d) /\ IsAnswer(family, kind, d) /\ d.about = a
           /\ \E m, c, p, w : d = Datagram(a, m, c, p, w)
  <1>1. a.kind = kind
    BY SourceFacts
  <1>2. ASSUME NEW n \in {2, Len(Header(a))}, d \in Errors(a, n)
        PROVE  /\ Described(family, kind, port, d) /\ IsAnswer(family, kind, d) /\ d.about = a
               /\ \E m, c, p, w : d = Datagram(a, m, c, p, w)
    <2>1. \E m, c, p, w : d = Datagram(a, m, c, p, w)
      BY <1>2 DEF Errors
    <2>2. Described(family, kind, port, d) /\ IsAnswer(family, kind, d) /\ d.about = a
      BY <1>2, ErrorDescribed
    <2>3. QED
      BY <2>1, <2>2
  <1>3. CASE kind = "icmp" /\ d = EchoReply(a)
    <2>1. \E m, c, p, w : d = Datagram(a, m, c, p, w)
      BY <1>3 DEF EchoReply
    <2>2. QED
      BY <1>3, <2>1, EchoDescribed
  <1>4. CASE kind = "tcp" /\ d = Ack(a)
    <2>1. \E m, c, p, w : d = Datagram(a, m, c, p, w)
      BY <1>4 DEF Ack
    <2>2. QED
      BY <1>4, <2>1, AckDescribed
  <1>5. QED
    BY <1>1, <1>2, <1>3, <1>4 DEF Answers, Shortest, Replies

(* What Delivered adds to a payload, and what is behind it.                *)
LEMMA BehindIsSize ==
    ASSUME family \in {4, 6}
    PROVE  /\ Len(Delivered(<<>>)) = OuterSize(family) /\ OuterSize(family) \in {0, 5}
           /\ \A d : Behind(d) = Size(family, d)
  <1>1. <<>> \in Seq(Words) /\ Len(<<>>) = 0
    OBVIOUS
  <1>2. Len(Delivered(<<>>)) = OuterSize(family) + 0
    BY <1>1, DeliveredFacts
  <1>3. OuterSize(family) = 0 \/ OuterSize(family) = 5
    BY DEF OuterSize
  <1>4. Len(Delivered(<<>>)) = OuterSize(family)
    BY <1>2, <1>3
  <1>5. QED
    BY <1>3, <1>4 DEF Behind, Size

(* A datagram that is cut short begins like the whole one.                 *)
LEMMA CutFacts ==
    ASSUME family \in {4, 6}, kind \in {"icmp", "tcp", "udp"}, port \in PortBytes,
           NEW a \in Sources, NEW whole \in Answers(a), NEW n \in Kept, n < Behind(whole)
    PROVE  LET d == CutShort(whole, n)
           IN  /\ d.about = a /\ d.message = "cut" /\ d.protocol = whole.protocol
               /\ d.words \in Seq(Words)
               /\ Len(d.words) = OuterSize(family) + n /\ Len(d.words) <= Len(whole.words)
               /\ Size(family, d) = n /\ n \in Nat /\ n >= 1
               /\ \A k \in 1 .. Len(d.words) : d.words[k] = whole.words[k]
  <1> DEFINE d == CutShort(whole, n)
             outer == OuterSize(family)
             m == outer + n
             w == whole.words
  <1>1. /\ Described(family, kind, port, whole) /\ IsAnswer(family, kind, whole)
        /\ whole.about = a
        /\ \E x, c, p, v : whole = Datagram(a, x, c, p, v)
    BY AnswerDescribed
  <1>2. n \in Nat /\ n >= 1 /\ outer \in {0, 5} /\ n < Len(w) - outer
    BY BehindIsSize, ValidationAssumption DEF Size
  <1>3. /\ d.about = a /\ d.message = "cut" /\ d.protocol = whole.protocol
        /\ d.words = SubSeq(w, 1, m)
    BY <1>1, BehindIsSize DEF CutShort, Datagram
  <1>4. w \in Seq(Words) /\ Len(w) \in Nat
    BY <1>1, LenProperties DEF Described
  <1> HIDE DEF d, w, outer
  <1>5. m \in Nat /\ m <= Len(w) /\ m - outer = n
    BY <1>2, <1>4
  <1> HIDE DEF m
  <1>6. /\ SubSeq(w, 1, m) \in Seq(Words)
        /\ Len(SubSeq(w, 1, m)) = m
        /\ \A k \in 1 .. m : SubSeq(w, 1, m)[k] = w[k]
    BY <1>4, <1>5, FirstWords, Zenon
  <1>7. Size(family, d) = n
    BY <1>3, <1>5, <1>6 DEF Size, outer
  <1>8. QED
    BY <1>2, <1>3, <1>5, <1>6, <1>7 DEF d, w, m, outer

(* A datagram cut within the header that follows the ip header, or in what *)
(* an error quotes.                                                        *)
LEMMA CutDescribed ==
    ASSUME family \in {4, 6}, kind \in {"icmp", "tcp", "udp"}, port \in PortBytes,
           NEW a \in Sources, NEW whole \in Answers(a), NEW n \in Kept, n < Behind(whole)
    PROVE  Described(family, kind, port, CutShort(whole, n))
  <1> DEFINE d == CutShort(whole, n)
  <1>1. /\ Described(family, kind, port, whole) /\ IsAnswer(family, kind, whole)
        /\ whole.about = a
    BY AnswerDescribed
  <1>2. /\ d.about = a /\ d.message = "cut" /\ d.protocol = whole.protocol
        /\ d.words \in Seq(Words)
        /\ Len(d.words) = OuterSize(family) + n /\ Len(d.words) <= Len(whole.words)
        /\ Size(family, d) = n /\ n \in Nat /\ n >= 1
        /\ \A k \in 1 .. Len(d.words) : d.words[k] = whole.words[k]
    BY CutFacts
  <1> HIDE DEF d
  <1>3. /\ whole.words \in Seq(Words) /\ Len(whole.words) <= 40
        /\ family = 4 => whole.words[1] = Word(69, 0)
        /\ family = 6 /\ whole.protocol # "tcp"
              => whole.words[1].byte < 64 \/ whole.words[1].byte = 129
        /\ AboutPacket(kind, port, whole) /\ a # NoPacket
    <2>1. ~IsEmpty(whole) /\ a # NoPacket
      BY <1>1 DEF IsAnswer, IsEmpty
    <2>2. QED
      BY <1>1, <2>1 DEF Described
  <1>4. AboutPacket(kind, port, d)
    BY <1>1, <1>2, <1>3 DEF AboutPacket
  <1>5. Len(d.words) <= 40 /\ d.words[1] = whole.words[1]
    <2>1. Len(whole.words) \in Nat /\ OuterSize(family) \in {0, 5}
      BY <1>3, LenProperties DEF OuterSize
    <2>2. QED
      BY <1>2, <1>3, <2>1
  <1>6. whole.protocol = "icmp" \/ (whole.protocol = "tcp" /\ kind = "tcp" /\ n < 5)
    <2>1. Behind(whole) = Size(family, whole)
      BY BehindIsSize
    <2>2. QED
      BY <1>1, <2>1 DEF IsAnswer, IsEcho, IsAck, IsError
  <1>7. IsCut(family, kind, d)
    BY <1>2, <1>3, <1>6 DEF IsCut
  <1>8. Described(family, kind, port, d)
    BY <1>2, <1>3, <1>4, <1>5, <1>7 DEF Described
  <1>9. QED
    BY <1>8 DEF d

(* Garbage has the type of an error, and nothing behind it.                *)
LEMMA GarbageDescribed ==
    ASSUME family \in {4, 6}, NEW client \in {Target, Router}
    PROVE  Described(family, kind, port,
                     Datagram(NoPacket, "garbage", client, "icmp",
                              Delivered(<<Word(TimeExceeded(family), 0)>> \o Zeros(8))))
  <1> DEFINE first == <<Word(TimeExceeded(family), 0)>>
             rest == Zeros(8)
             u == first \o rest
             d == Datagram(NoPacket, "garbage", client, "icmp", Delivered(u))
  <1>1. /\ d.about = NoPacket /\ d.message = "garbage" /\ d.client = client /\ d.protocol = "icmp"
        /\ d.words = Delivered(u)
    BY DEF Datagram
  <1>2. TimeExceeded(family) \in Nat /\ TimeExceeded(family) < 64
    BY TypesDiffer
  <1>3. first \in Seq(Words) /\ Len(first) = 1 /\ first[1] = Word(TimeExceeded(family), 0)
    <2>1. Word(TimeExceeded(family), 0) \in Words
      BY <1>2, WordFacts
    <2>2. QED
      BY <2>1
  <1>4. rest \in Seq(Words) /\ Len(rest) = 8 /\ \A k \in 1 .. 8 : rest[k] = Blank
    BY ZerosFacts
  <1> HIDE DEF first, rest, d
  <1>5. /\ u \in Seq(Words)
        /\ Len(u) = Len(first) + Len(rest)
        /\ \A k \in 1 .. Len(first) : u[k] = first[k]
        /\ \A k \in 1 .. Len(rest) : u[Len(first) + k] = rest[k]
    BY <1>3, <1>4, Joined, Zenon
  <1> HIDE DEF u
  <1>6. Len(u) = 9 /\ u[1] = Word(TimeExceeded(family), 0) /\ u[3] = Blank
    <2>1. 1 \in 1 .. Len(first) /\ 2 \in 1 .. Len(rest) /\ Len(first) + 2 = 3 /\ 2 \in 1 .. 8
      BY <1>3, <1>4
    <2>2. u[1] = first[1] /\ u[Len(first) + 2] = rest[2]
      BY <1>5, <2>1
    <2>3. Len(u) = 9
      BY <1>3, <1>4, <1>5
    <2>4. QED
      BY <1>3, <1>4, <2>1, <2>2, <2>3
  <1>7. /\ d.words \in Seq(Words) /\ Len(d.words) <= 40
        /\ Size(family, d) = Len(u) /\ Len(u) \in Nat
        /\ \A k \in 1 .. Len(u) : Payload(family, d, k) = u[k]
        /\ family = 4 => d.words[1] = Word(69, 0)
        /\ family = 6 => d.words[1] = u[1]
    <2>1. Len(u) <= 30 /\ Len(u) >= 1
      BY <1>6
    <2>2. QED
      BY <1>1, <1>5, <2>1, DeliveredDatagram, Zenon
  <1>8. /\ Size(family, d) = 9
        /\ Payload(family, d, 1) = Word(TimeExceeded(family), 0)
        /\ Payload(family, d, 3) = Blank
    BY <1>6, <1>7
  <1>9. IsGarbage(family, d)
    BY <1>1, <1>8 DEF IsGarbage
  <1>10. family = 6 => d.words[1].byte < 64
    BY <1>2, <1>6, <1>7, WordFacts
  <1>11. Described(family, kind, port, d)
    BY <1>1, <1>7, <1>8, <1>9, <1>10 DEF Described
  <1>12. QED
    BY <1>11 DEF d, u, first, rest

(* All that arrives looks as described.                                    *)
LEMMA TrafficDescribed ==
    ASSUME family \in {4, 6}, kind \in {"icmp", "tcp", "udp"}, port \in PortBytes,
           NEW d \in Traffic
    PROVE  Described(family, kind, port, d)
  <1>1. ASSUME NEW a \in Sources, d \in Answers(a)
        PROVE  Described(family, kind, port, d)
    BY <1>1, AnswerDescribed
  <1>2. ASSUME NEW a \in Sources, d \in Cuts(a)
        PROVE  Described(family, kind, port, d)
    <2>1. PICK w \in Shortest(a) : \E n \in Kept : n < Behind(w) /\ d = CutShort(w, n)
      BY <1>2 DEF Cuts
    <2>2. PICK n \in Kept : n < Behind(w) /\ d = CutShort(w, n)
      BY <2>1
    <2>3. w \in Answers(a)
      BY DEF Answers
    <2>4. QED
      BY <2>2, <2>3, CutDescribed
  <1>3. ASSUME NEW protocol, d = Datagram(NoPacket, "empty", Target, protocol, <<>>)
        PROVE  Described(family, kind, port, d)
    <2>1. d.message = "empty" /\ d.words = <<>> /\ d.about = NoPacket
      BY <1>3 DEF Datagram
    <2>2. d.words \in Seq(Words) /\ Len(d.words) <= 40
      BY <2>1
    <2>3. QED
      BY <2>1, <2>2 DEF Described, IsEmpty
  <1>4. ASSUME NEW client \in {Target, Router},
               d = Datagram(NoPacket, "garbage", client, "icmp",
                            Delivered(<<Word(TimeExceeded(family), 0)>> \o Zeros(8)))
        PROVE  Described(family, kind, port, d)
    BY <1>4, GarbageDescribed
  <1>5. \/ \E a \in Sources : d \in Answers(a) \/ d \in Cuts(a)
        \/ d \in Runts
    BY DEF Traffic
  <1>6. CASE d \in Runts
    BY <1>3, <1>4, <1>6 DEF Runts
  <1>7. QED
    BY <1>1, <1>2, <1>5, <1>6


-------------------------------------------------------------------------------
(* Where the keys are in what arrives *)

(* Words whose second part holds the key n or nothing.                     *)
Bearing(n) == [byte : Nat, rest : {0, n}]

(* A word with the key, or with nothing, in its second part.               *)
LEMMA WordBears ==
    ASSUME NEW n \in Nat, NEW b \in Nat, NEW m \in {0, n}
    PROVE  Word(b, m) \in Bearing(n)
  BY DEF Word, Bearing

(* Blank words.                                                            *)
LEMMA ZerosBear ==
    ASSUME NEW n \in Nat, NEW k \in Nat
    PROVE  Zeros(k) \in Seq(Bearing(n))
  <1>1. Blank \in Bearing(n)
    BY WordBears DEF Blank
  <1>2. Zeros(k) \in [1 .. k -> Bearing(n)]
    BY <1>1 DEF Zeros
  <1>3. QED
    BY <1>2

(* Sequences of such words, joined.                                        *)
LEMMA JoinedBear ==
    ASSUME NEW n \in Nat, NEW s \in Seq(Bearing(n)), NEW t \in Seq(Bearing(n))
    PROVE  s \o t \in Seq(Bearing(n))
  BY ConcatProperties, Zenon

(* An ip header, which holds no key.                                       *)
LEMMA IpHeaderBears ==
    ASSUME family \in {4, 6}, NEW n \in Nat, NEW ihl \in {5, 8}
    PROVE  IpHeader(ihl) \in Seq(Bearing(n))
  <1> DEFINE b == IF family = 4 THEN 64 + ihl ELSE 96
             m == IF family = 4 THEN ihl - 1 ELSE 9
             first == <<Word(b, 0)>>
             rest == Zeros(m)
  <1>1. IpHeader(ihl) = first \o rest
    BY DEF IpHeader
  <1>2. b \in Nat /\ m \in Nat
    OBVIOUS
  <1> HIDE DEF b, m
  <1>3. first \in Seq(Bearing(n)) /\ rest \in Seq(Bearing(n))
    <2>1. Word(b, 0) \in Bearing(n)
      BY <1>2, WordBears
    <2>2. QED
      BY <1>2, <2>1, ZerosBear
  <1> HIDE DEF first, rest
  <1>4. QED
    BY <1>1, <1>3, JoinedBear

(* A payload, with or without the ip header.                               *)
LEMMA DeliveredBears ==
    ASSUME family \in {4, 6}, NEW n \in Nat, NEW u \in Seq(Bearing(n))
    PROVE  Delivered(u) \in Seq(Bearing(n))
  <1>1. IpHeader(5) \in Seq(Bearing(n))
    BY IpHeaderBears
  <1>2. IpHeader(5) \o u \in Seq(Bearing(n))
    BY <1>1, JoinedBear
  <1>3. QED
    BY <1>2 DEF Delivered

(* A datagram of such words bears its key or nothing.                      *)
LEMMA BearingBears ==
    ASSUME NEW d, d.about.key \in Nat, d.protocol = "icmp",
           d.words \in Seq(Bearing(d.about.key))
    PROVE  Bears(family, kind, d)
  <1> DEFINE w == d.words
             n == d.about.key
  <1>1. w \in Seq(Bearing(n))
    OBVIOUS
  <1> HIDE DEF w, n
  <1>2. \A k \in 1 .. Len(w) : w[k] \in Bearing(n)
    BY <1>1, ElementOfSeq
  <1>3. \A k \in 1 .. Len(w) : w[k].rest # 0 => w[k].rest = n
    BY <1>2 DEF Bearing
  <1>4. QED
    BY <1>3 DEF Bears, w, n

(* The first n words of a sequence of such words.                          *)
LEMMA FirstBear ==
    ASSUME NEW m \in Nat, NEW r \in Seq(Bearing(m)), NEW n \in Nat, n <= Len(r)
    PROVE  SubSeq(r, 1, n) \in Seq(Bearing(m))
  <1>1. Len(r) \in Nat
    BY LenProperties
  <1>2. \A k \in 1 .. n : r[k] \in Bearing(m)
    BY <1>1, ElementOfSeq
  <1>3. QED
    BY <1>2, SubSeqProperties

(* The header an error quotes.                                             *)
LEMMA QuotedBears ==
    ASSUME family \in {4, 6}, kind \in {"icmp", "tcp"}, NEW a \in Sources,
           a.kind = kind, a.key \in Nat,
           NEW n \in {2, Len(Header(a))}
    PROVE  SubSeq(Header(a), 1, n) \in Seq(Bearing(a.key))
  <1> DEFINE r == Header(a)
             m == a.key
  <1>1. KeyWord(a) \in Bearing(m) /\ \A b \in {8, 128, 195} : Word(b, 0) \in Bearing(m)
    BY WordBears DEF KeyWord
  <1>2. r \in Seq(Bearing(m)) /\ Len(r) \in {2, 5}
    <2>1. CASE kind = "icmp"
      <3>1. r = <<Word(IF family = 4 THEN 8 ELSE 128, 0), KeyWord(a)>>
        BY <2>1 DEF Header
      <3>2. Word(IF family = 4 THEN 8 ELSE 128, 0) \in Bearing(m)
        BY <1>1
      <3> HIDE DEF r, m
      <3>3. QED
        BY <1>1, <3>1, <3>2
    <2>2. CASE kind = "tcp"
      <3> DEFINE first == <<Word(195, 0), KeyWord(a)>>
                 rest == Zeros(3)
      <3>1. r = first \o rest
        BY <2>2 DEF Header
      <3>2. first \in Seq(Bearing(m)) /\ Len(first) = 2
        BY <1>1
      <3>3. rest \in Seq(Bearing(m)) /\ Len(rest) = 3
        BY ZerosBear, ZerosFacts
      <3> HIDE DEF first, rest, r, m
      <3>4. m \in Nat
        BY DEF m
      <3>5. first \o rest \in Seq(Bearing(m))
        BY <3>2, <3>3, <3>4, JoinedBear
      <3>6. Len(first \o rest) = 5
        <4>1. Len(first \o rest) = Len(first) + Len(rest)
          BY <3>2, <3>3, ConcatProperties, Zenon
        <4>2. QED
          BY <3>2, <3>3, <4>1
      <3>7. QED
        BY <3>1, <3>5, <3>6
    <2>3. QED
      BY <2>1, <2>2
  <1>3. n \in {2, Len(r)}
    OBVIOUS
  <1> HIDE DEF r
  <1>4. n \in Nat /\ n <= Len(r)
    <2>1. \A j, k \in {2, 5} : j = 2 \/ j = k => j \in Nat /\ j <= k
      OBVIOUS
    <2>2. Len(r) \in {2, 5} /\ n \in {2, 5} /\ (n = 2 \/ n = Len(r))
      BY <1>2, <1>3
    <2>3. QED
      BY <2>1, <2>2, Zenon
  <1>5. QED
    BY <1>2, <1>4, FirstBear DEF r

(* An error bears the key of the packet it quotes.                         *)
LEMMA ErrorBears ==
    ASSUME family \in {4, 6}, kind \in {"icmp", "tcp"}, port \in PortBytes,
           NEW a \in Sources, NEW n \in {2, Len(Header(a))}, NEW d \in Errors(a, n)
    PROVE  Bears(family, kind, d)
  <1>1. PICK e \in {[message |-> "exceeded", type |-> TimeExceeded(family), client |-> Router],
                    [message |-> "unreach",  type |-> DestUnreach(family),  client |-> Router],
                    [message |-> "unreach",  type |-> DestUnreach(family),  client |-> Target]} :
           \E ihl \in {5, 8} :
              d = Datagram(a, e.message, e.client, "icmp",
                           Delivered(<<Word(e.type, 0), Blank>> \o IpHeader(ihl)
                                         \o SubSeq(Header(a), 1, n)))
    BY DEF Errors
  <1>2. PICK ihl \in {5, 8} :
           d = Datagram(a, e.message, e.client, "icmp",
                        Delivered(<<Word(e.type, 0), Blank>> \o IpHeader(ihl)
                                      \o SubSeq(Header(a), 1, n)))
    BY <1>1
  <1> DEFINE first == <<Word(e.type, 0), Blank>>
             h == IpHeader(ihl)
             q == SubSeq(Header(a), 1, n)
             key == a.key
  <1>3. d.about = a /\ d.protocol = "icmp" /\ d.words = Delivered((first \o h) \o q)
    BY <1>2 DEF Datagram
  <1>4. e.type \in Nat
    BY TypesDiffer
  <1>5. a.kind = kind /\ key \in Nat
    BY SourceFacts
  <1>6. q \in Seq(Bearing(key))
    BY <1>5, QuotedBears
  <1>7. h \in Seq(Bearing(key))
    BY <1>5, IpHeaderBears
  <1>8. first \in Seq(Bearing(key))
    <2>1. Word(e.type, 0) \in Bearing(key) /\ Blank \in Bearing(key)
      BY <1>4, <1>5, WordBears DEF Blank
    <2>2. QED
      BY <2>1
  <1> HIDE DEF first, h, q, key
  <1>9. first \o h \in Seq(Bearing(key))
    BY <1>5, <1>7, <1>8, JoinedBear
  <1>10. (first \o h) \o q \in Seq(Bearing(key))
    BY <1>5, <1>6, <1>9, JoinedBear
  <1>11. d.words \in Seq(Bearing(key))
    BY <1>3, <1>5, <1>10, DeliveredBears
  <1>12. QED
    BY <1>3, <1>5, <1>11, BearingBears DEF key

(* An echo reply bears the id.                                             *)
LEMMA EchoBears ==
    ASSUME family \in {4, 6}, kind = "icmp", port \in PortBytes, NEW a \in Sources
    PROVE  Bears(family, kind, EchoReply(a))
  <1> DEFINE d == EchoReply(a)
             b == IF family = 4 THEN 0 ELSE 129
             u == <<Word(b, 0), KeyWord(a)>>
             key == a.key
  <1>1. d.about = a /\ d.protocol = "icmp" /\ d.words = Delivered(u)
    BY DEF EchoReply, Datagram
  <1>2. key \in Nat /\ b \in Nat
    BY SourceFacts
  <1>3. u \in Seq(Bearing(key))
    <2> HIDE DEF b
    <2>1. Word(b, 0) \in Bearing(key) /\ KeyWord(a) \in Bearing(key)
      BY <1>2, WordBears DEF KeyWord
    <2> HIDE DEF key
    <2>2. QED
      BY <2>1
  <1> HIDE DEF d, u, key
  <1>4. d.words \in Seq(Bearing(key))
    BY <1>1, <1>2, <1>3, DeliveredBears
  <1>5. d.about.key = key
    BY <1>1 DEF key
  <1>6. Bears(family, kind, d)
    BY <1>1, <1>2, <1>4, <1>5, BearingBears
  <1>7. QED
    BY <1>6 DEF d

(* A segment has, but for its third word, nothing where keys are.          *)
LEMMA AckBears ==
    ASSUME family \in {4, 6}, kind = "tcp", port \in PortBytes, NEW a \in Sources
    PROVE  Bears(family, kind, Ack(a))
  <1> DEFINE d == Ack(a)
             first == <<Word(a.port, 0), Blank, Word(0, a.key + 1)>>
             rest == Zeros(2)
             u == first \o rest
             n == a.key + 1
             outer == OuterSize(family)
  <1>1. d.about = a /\ d.protocol = "tcp" /\ d.words = Delivered(u)
    BY DEF Ack, Datagram
  <1>2. a.key \in Nat /\ a.port \in Nat /\ n \in Nat
    BY SourceFacts, ValidationAssumption
  <1>3. /\ first \in Seq(Words) /\ Len(first) = 3
        /\ first[1].rest = 0 /\ first[2].rest = 0 /\ first[3].rest = n
    <2>1. Word(a.port, 0) \in Words /\ Blank \in Words /\ Word(0, n) \in Words
      BY <1>2, WordFacts DEF Blank
    <2>2. first \in Seq(Words) /\ Len(first) = 3
      BY <2>1
    <2>3. first[1] = Word(a.port, 0) /\ first[2] = Blank /\ first[3] = Word(0, n)
      OBVIOUS
    <2>4. QED
      BY <2>2, <2>3 DEF Word, Blank
  <1>4. rest \in Seq(Words) /\ Len(rest) = 2 /\ \A k \in 1 .. 2 : rest[k].rest = 0
    <2>1. rest \in Seq(Words) /\ Len(rest) = 2 /\ \A k \in 1 .. 2 : rest[k] = Blank
      BY ZerosFacts
    <2>2. Blank.rest = 0
      BY DEF Blank, Word
    <2> HIDE DEF rest
    <2>3. QED
      BY <2>1, <2>2
  <1> HIDE DEF d, first, rest, n
  <1>5. /\ u \in Seq(Words)
        /\ Len(u) = Len(first) + Len(rest)
        /\ \A k \in 1 .. Len(first) : u[k] = first[k]
        /\ \A k \in 1 .. Len(rest) : u[Len(first) + k] = rest[k]
    BY <1>3, <1>4, Joined, Zenon
  <1> HIDE DEF u
  <1>6. Len(u) = 5 /\ \A k \in 1 .. 5 : u[k].rest = IF k = 3 THEN n ELSE 0
    <2>1. /\ Len(u) = 5
          /\ u[1] = first[1] /\ u[2] = first[2] /\ u[3] = first[3]
          /\ u[4] = rest[1] /\ u[5] = rest[2]
      <3>1. 1 \in 1 .. Len(first) /\ 2 \in 1 .. Len(first) /\ 3 \in 1 .. Len(first)
            /\ 1 \in 1 .. Len(rest) /\ 2 \in 1 .. Len(rest)
            /\ Len(first) + 1 = 4 /\ Len(first) + 2 = 5 /\ Len(first) + Len(rest) = 5
        BY <1>3, <1>4
      <3>2. u[Len(first) + 1] = rest[1] /\ u[Len(first) + 2] = rest[2]
        BY <1>5, <3>1
      <3>3. QED
        BY <1>5, <3>1, <3>2
    <2>2. u[1].rest = 0 /\ u[2].rest = 0 /\ u[3].rest = n /\ u[4].rest = 0 /\ u[5].rest = 0
      <3>1. rest[1].rest = 0 /\ rest[2].rest = 0
        BY <1>4
      <3>2. QED
        BY <1>3, <2>1, <3>1
    <2>3. \A k \in 1 .. 5 : k = 1 \/ k = 2 \/ k = 3 \/ k = 4 \/ k = 5
      OBVIOUS
    <2>4. QED
      BY <2>1, <2>2, <2>3
  <1>7. ASSUME NEW k \in 1 .. Len(d.words), d.words[k].rest # 0
        PROVE  k = outer + 3 /\ d.words[k].rest = n
    <2>1. CASE family = 4
      <3> DEFINE h == IpHeader(5)
      <3>1. h \in Seq(Words) /\ Len(h) = 5 /\ h \in Seq(Bearing(0))
        BY <2>1, IpHeaderFacts, IpHeaderBears
      <3> HIDE DEF h
      <3>2. /\ h \o u \in Seq(Words)
            /\ Len(h \o u) = Len(h) + Len(u)
            /\ \A j \in 1 .. Len(h) : (h \o u)[j] = h[j]
            /\ \A j \in 1 .. Len(u) : (h \o u)[Len(h) + j] = u[j]
        BY <1>5, <3>1, Joined, Zenon
      <3>3. d.words = h \o u
        BY <1>1, <2>1 DEF Delivered, h
      <3>4. Len(d.words) = 10
        BY <1>6, <3>1, <3>2, <3>3
      <3>5. CASE k <= 5
        <4>1. k \in 1 .. Len(h)
          BY <3>1, <3>4, <3>5
        <4>2. h[k] \in Bearing(0)
          BY <3>1, <4>1, ElementOfSeq
        <4>3. d.words[k] = h[k]
          BY <3>2, <3>3, <4>1
        <4>4. QED
          BY <1>7, <4>2, <4>3 DEF Bearing
      <3>6. CASE k > 5
        <4>1. k - 5 \in 1 .. 5 /\ k - 5 \in 1 .. Len(u) /\ Len(h) + (k - 5) = k
          BY <1>6, <3>1, <3>4, <3>6
        <4>2. (h \o u)[Len(h) + (k - 5)] = u[k - 5]
          BY <3>2, <4>1
        <4>3. d.words[k] = u[k - 5]
          BY <3>3, <4>1, <4>2
        <4>4. u[k - 5].rest = IF k - 5 = 3 THEN n ELSE 0
          BY <1>6, <4>1
        <4>5. k - 5 = 3 /\ d.words[k].rest = n
          BY <1>7, <4>3, <4>4
        <4>6. outer = 5
          BY <2>1 DEF OuterSize
        <4>7. QED
          BY <4>5, <4>6
      <3>7. QED
        BY <3>4, <3>5, <3>6
    <2>2. CASE family = 6
      <3>1. d.words = u /\ outer = 0
        BY <1>1, <2>2 DEF Delivered, OuterSize
      <3>2. k \in 1 .. 5
        BY <1>6, <3>1
      <3>3. u[k].rest = IF k = 3 THEN n ELSE 0
        BY <1>6, <3>2
      <3>4. QED
        BY <1>7, <3>1, <3>3
    <2>3. QED
      BY <2>1, <2>2
  <1>8. Bears(family, kind, d)
    BY <1>1, <1>7 DEF Bears, n
  <1>9. QED
    BY <1>8 DEF d

(* All that arrives bears no other key than that of the packet it answers. *)
LEMMA TrafficBears ==
    ASSUME family \in {4, 6}, kind \in {"icmp", "tcp", "udp"}, port \in PortBytes,
           NEW d \in Traffic
    PROVE  Bears(family, kind, d)
  <1>1. CASE kind = "udp"
    BY <1>1 DEF Bears
  <1>2. CASE kind \in {"icmp", "tcp"}
    <2>1. ASSUME NEW a \in Sources, NEW e \in Answers(a)
          PROVE  Bears(family, kind, e)
      <3>1. a.kind = kind
        BY SourceFacts
      <3>2. ASSUME NEW n \in {2, Len(Header(a))}, e \in Errors(a, n)
            PROVE  Bears(family, kind, e)
        BY <1>2, <3>2, ErrorBears
      <3>3. CASE kind = "icmp" /\ e = EchoReply(a)
        BY <3>3, EchoBears
      <3>4. CASE kind = "tcp" /\ e = Ack(a)
        BY <3>4, AckBears
      <3>5. QED
        BY <1>2, <3>1, <3>2, <3>3, <3>4 DEF Answers, Shortest, Replies
    <2>2. ASSUME NEW a \in Sources, d \in Cuts(a)
          PROVE  Bears(family, kind, d)
      <3>1. PICK w \in Shortest(a) : \E n \in Kept : n < Behind(w) /\ d = CutShort(w, n)
        BY <2>2 DEF Cuts
      <3>2. PICK n \in Kept : n < Behind(w) /\ d = CutShort(w, n)
        BY <3>1
      <3>3. w \in Answers(a)
        BY DEF Answers
      <3>4. Bears(family, kind, w) /\ w.about = a /\ Described(family, kind, port, w)
        BY <2>1, <3>3, AnswerDescribed
      <3>5. /\ d.about = a /\ d.protocol = w.protocol
            /\ d.words \in Seq(Words)
            /\ Len(d.words) <= Len(w.words)
            /\ \A k \in 1 .. Len(d.words) : d.words[k] = w.words[k]
        BY <3>2, <3>3, CutFacts
      <3>6. 1 .. Len(d.words) \subseteq 1 .. Len(w.words)
        <4>1. Len(d.words) \in Nat /\ Len(w.words) \in Nat
          BY <3>4, <3>5, LenProperties DEF Described
        <4>2. QED
          BY <3>5, <4>1
      <3>7. QED
        BY <3>4, <3>5, <3>6 DEF Bears
    <2>3. ASSUME NEW protocol, d = Datagram(NoPacket, "empty", Target, protocol, <<>>)
          PROVE  Bears(family, kind, d)
      <3>1. d.words = <<>>
        BY <2>3 DEF Datagram
      <3>2. 1 .. Len(d.words) = {}
        BY <3>1
      <3>3. QED
        BY <3>2 DEF Bears
    <2>4. ASSUME NEW client \in {Target, Router},
                 d = Datagram(NoPacket, "garbage", client, "icmp",
                              Delivered(<<Word(TimeExceeded(family), 0)>> \o Zeros(8)))
          PROVE  Bears(family, kind, d)
      <3> DEFINE first == <<Word(TimeExceeded(family), 0)>>
                 rest == Zeros(8)
      <3>1. d.about.key = 0 /\ d.protocol = "icmp" /\ d.words = Delivered(first \o rest)
        BY <2>4 DEF Datagram, NoPacket
      <3>2. first \in Seq(Bearing(0)) /\ rest \in Seq(Bearing(0))
        <4>1. TimeExceeded(family) \in Nat
          BY TypesDiffer
        <4>2. Word(TimeExceeded(family), 0) \in Bearing(0)
          BY <4>1, WordBears
        <4>3. QED
          BY <4>2, ZerosBear
      <3> HIDE DEF first, rest
      <3>3. first \o rest \in Seq(Bearing(0))
        BY <3>2, JoinedBear
      <3> DEFINE v == first \o rest
      <3> HIDE DEF v
      <3>4. Delivered(v) \in Seq(Bearing(0))
        BY <3>3, DeliveredBears DEF v
      <3>5. d.words \in Seq(Bearing(0))
        BY <3>1, <3>4 DEF v
      <3>6. QED
        BY <3>1, <3>5, BearingBears
    <2>5. \/ \E a \in Sources : d \in Answers(a) \/ d \in Cuts(a)
          \/ d \in Runts
      BY DEF Traffic
    <2>6. CASE d \in Runts
      BY <2>3, <2>4, <2>6 DEF Runts
    <2>7. QED
      BY <2>1, <2>2, <2>5, <2>6
  <1>3. QED
    BY <1>1, <1>2

-------------------------------------------------------------------------------
(* The buffer *)

(* Behind the last datagram there are no keys but those of earlier ones,   *)
(* except where segments have what they acknowledge.                       *)
Remains ==
    kind # "udp" =>
        \A k \in 1 .. BufferSize :
            Len(datagram.words) < k /\ mBuffer[k].rest # 0 /\ k # OuterSize(family) + 3 =>
                mBuffer[k].rest \in earlierKeys

(* The buffer begins with the last datagram, which looks as described; the *)
(* rest of it is the remains of earlier ones.                              *)
Buffered ==
    /\ family \in {4, 6}
    /\ kind \in {"icmp", "tcp", "udp"}
    /\ port \in PortBytes
    /\ received \in Nat
    /\ received = 0 => datagram = NoDatagram
    /\ mBuffer \in Seq(Words) /\ Len(mBuffer) = BufferSize
    /\ received > 0 =>
          /\ Described(family, kind, port, datagram)
          /\ Bears(family, kind, datagram)
          /\ Holds(mBuffer, datagram)
    /\ Remains

(* recvfrom writes a datagram over the beginning of the buffer and leaves  *)
(* the rest.                                                               *)
LEMMA OverwriteFacts ==
    ASSUME NEW r \in Seq(Words), Len(r) = BufferSize,
           NEW d, d.words \in Seq(Words), Len(d.words) <= BufferSize
    PROVE  LET new == d.words \o Skip(r, Len(d.words))
           IN  /\ Holds(new, d)
               /\ \A k \in 1 .. BufferSize : Len(d.words) < k => new[k] = r[k]
  <1> DEFINE w == d.words
             n == Len(w)
             rest == Skip(r, n)
  <1>1. w \in Seq(Words) /\ n \in Nat /\ n <= Len(r)
    BY LenProperties
  <1> HIDE DEF w
  <1>2. /\ rest \in Seq(Words) /\ Len(rest) = Len(r) - n
        /\ \A k \in Nat : 1 <= k /\ k <= Len(r) - n => rest[k] = r[n + k]
    BY <1>1, SkipFacts, Zenon
  <1> HIDE DEF rest
  <1>3. /\ w \o rest \in Seq(Words)
        /\ Len(w \o rest) = Len(w) + Len(rest)
        /\ \A k \in 1 .. Len(w) : (w \o rest)[k] = w[k]
        /\ \A k \in 1 .. Len(rest) : (w \o rest)[Len(w) + k] = rest[k]
    BY <1>1, <1>2, Joined, Zenon
  <1>4. Len(w \o rest) = BufferSize
    <2>1. BufferSize \in Nat
      BY DEF BufferSize
    <2>2. QED
      BY <1>1, <1>2, <1>3, <2>1
  <1>5. ASSUME NEW k \in 1 .. BufferSize, n < k
        PROVE  (w \o rest)[k] = r[k]
    <2>1. BufferSize \in Nat
      BY DEF BufferSize
    <2> DEFINE m == k - n
    <2>2. m \in Nat /\ 1 <= m /\ m <= Len(r) - n /\ m \in 1 .. Len(rest) /\ n + m = k
      BY <1>1, <1>2, <1>5, <2>1
    <2> HIDE DEF m
    <2>3. (w \o rest)[n + m] = rest[m]
      BY <1>3, <2>2
    <2>4. rest[m] = r[n + m]
      BY <1>2, <2>2
    <2>5. QED
      BY <2>2, <2>3, <2>4
  <1>6. QED
    BY <1>3, <1>4, <1>5 DEF Holds, w, rest

(* Whatever arrives, in whatever order.                                    *)
THEOREM BufferIsKept == Spec => []Buffered
  <1>1. Init => Buffered
    <2> SUFFICES ASSUME Init
                 PROVE  Buffered
      OBVIOUS
    <2>1. /\ Zeros(BufferSize) \in Seq(Words) /\ Len(Zeros(BufferSize)) = BufferSize
          /\ \A k \in 1 .. BufferSize : Zeros(BufferSize)[k] = Blank
      BY ZerosFacts DEF BufferSize
    <2>2. Blank.rest = 0
      BY DEF Blank, Word
    <2>3. Remains
      BY <2>1, <2>2 DEF Init, Remains
    <2>4. QED
      BY <2>1, <2>3 DEF Init, Buffered
  <1>2. ASSUME Buffered, [Next]_vars
        PROVE  Buffered'
    <2>1. CASE Receive
      <3>1. /\ received' = received + 1 /\ datagram' \in Traffic
            /\ earlierKeys' = earlierKeys \cup {datagram.about.key}
            /\ mBuffer' = datagram'.words \o Skip(mBuffer, Len(datagram'.words))
            /\ family' = family /\ kind' = kind /\ port' = port
        BY <2>1 DEF Receive
      <3>2. Described(family, kind, port, datagram') /\ Bears(family, kind, datagram')
        BY <1>2, <3>1, TrafficDescribed, TrafficBears DEF Buffered
      <3>3. datagram'.words \in Seq(Words) /\ Len(datagram'.words) <= BufferSize
            /\ Len(datagram'.words) \in Nat
        <4>1. Len(datagram'.words) \in Nat
          BY <3>2, LenProperties DEF Described
        <4>2. QED
          BY <3>2, <4>1 DEF Described, BufferSize
      <3>4. /\ Holds(mBuffer', datagram')
            /\ \A k \in 1 .. BufferSize :
                  Len(datagram'.words) < k => mBuffer'[k] = mBuffer[k]
        BY <1>2, <3>1, <3>3, OverwriteFacts DEF Buffered
      <3>5. mBuffer' \in Seq(Words) /\ Len(mBuffer') = BufferSize
        BY <3>4 DEF Holds
      <3>6. received' \in Nat /\ received' # 0
        BY <1>2, <3>1 DEF Buffered
      <3>7. ASSUME kind # "udp", NEW k \in 1 .. BufferSize,
                   mBuffer[k].rest # 0, k # OuterSize(family) + 3
            PROVE  mBuffer[k].rest \in earlierKeys \cup {datagram.about.key}
        <4>1. CASE Len(datagram.words) < k
          BY <1>2, <3>7, <4>1 DEF Buffered, Remains
        <4>2. CASE ~(Len(datagram.words) < k)
          <5>1. received > 0
            <6>1. CASE received = 0
              <7>1. datagram.words = <<>>
                BY <1>2, <6>1 DEF Buffered, NoDatagram, Datagram
              <7>2. Len(datagram.words) = 0 /\ k > 0
                BY <7>1 DEF BufferSize
              <7>3. QED
                BY <4>2, <7>2
            <6>2. QED
              BY <1>2, <6>1 DEF Buffered
          <5>2. /\ Described(family, kind, port, datagram) /\ Bears(family, kind, datagram)
                /\ Holds(mBuffer, datagram)
            BY <1>2, <5>1 DEF Buffered
          <5>3. Len(datagram.words) \in Nat
            BY <5>2, LenProperties DEF Described
          <5>4. k \in 1 .. Len(datagram.words)
            BY <4>2, <5>3 DEF BufferSize
          <5>5. mBuffer[k] = datagram.words[k]
            BY <5>2, <5>4 DEF Holds
          <5>6. datagram.words[k].rest = datagram.about.key
            BY <3>7, <5>2, <5>4, <5>5 DEF Bears
          <5>7. QED
            BY <5>5, <5>6
        <4>3. QED
          BY <4>1, <4>2
      <3>8. Remains'
        BY <3>1, <3>4, <3>7 DEF Remains
      <3>9. QED
        BY <1>2, <3>1, <3>2, <3>4, <3>5, <3>6, <3>8 DEF Buffered
    <2>2. CASE UNCHANGED vars
      BY <1>2, <2>2 DEF vars, Buffered, Remains
    <2>3. QED
      BY <1>2, <2>1, <2>2 DEF Next
  <1>3. QED
    BY <1>1, <1>2, PTL DEF Spec

(* Misread and Truncated are about the last datagram.                      *)
LEMMA Exceptions ==
    ASSUME Buffered
    PROVE  /\ Misread <=> Misleads(family, datagram)
           /\ Truncated <=> EndsEarly(family, kind, datagram)
  <1>1. Behind(datagram) = Size(family, datagram)
    BY BehindIsSize DEF Buffered
  <1>2. QED
    BY <1>1 DEF Misread, Misleads, Truncated, EndsEarly

(* The verdict on the last datagram.                                       *)
LEMMA VerdictNow ==
    ASSUME Buffered, received > 0, ~Misread, ~Truncated, NEW p \in packets
    PROVE  Verdict(p) = Ruling(p, datagram)
  <1>1. /\ Described(family, kind, port, datagram) /\ Holds(mBuffer, datagram)
        /\ family \in {4, 6} /\ kind \in {"icmp", "tcp", "udp"}
    BY DEF Buffered
  <1>2. ~Misleads(family, datagram) /\ ~EndsEarly(family, kind, datagram)
    BY Exceptions
  <1>3. QED
    BY <1>1, <1>2, VerdictIsRuling DEF Verdict

(* Every answer a traceroute builds on is accepted for the packet it       *)
(* answers, with whatever was in the buffer.                               *)
THEOREM OursAreAccepted == Spec => []OursAccepted
  <1>1. Buffered => OursAccepted
    <2> SUFFICES ASSUME Buffered,
                        datagram.about \in packets, ~Misread,
                        \/ datagram.message \in {"exceeded", "echo", "ack"}
                        \/ /\ datagram.message = "unreach" /\ datagram.client = Target
                           /\ kind # "icmp"
                 PROVE  Verdict(datagram.about) = "valid"
      BY DEF OursAccepted
    <2>1. received > 0
      <3>1. datagram # NoDatagram
        BY DEF NoDatagram, Datagram
      <3>2. QED
        BY <3>1 DEF Buffered
    <2>2. Verdict(datagram.about) = Ruling(datagram.about, datagram)
      BY <2>1, VerdictNow DEF Truncated
    <2>3. SameKey(datagram.about, datagram) = "valid"
      BY DEF SameKey, Says
    <2>4. CASE datagram.message \in {"exceeded", "echo", "ack"}
      BY <2>2, <2>3, <2>4 DEF Ruling
    <2>5. CASE datagram.message = "unreach" /\ datagram.client = Target /\ kind # "icmp"
      BY <2>2, <2>3, <2>5 DEF Ruling, Says, Buffered
    <2>6. QED
      BY <2>4, <2>5
  <1>2. QED
    BY BufferIsKept, <1>1, PTL

-------------------------------------------------------------------------------
(* What isValid reads behind the end of a datagram *)

(* An ip header is at most fifteen words long.                             *)
LEMMA SizeOfIpHeader ==
    ASSUME NEW r, r[1] \in Words
    PROVE  getIpHeaderSize(r) \in 0 .. 15
  <1>1. r[1].byte \in Nat
    BY DEF Words
  <1>2. \A n \in Nat : n % 16 \in 0 .. 15
    OBVIOUS
  <1>3. QED
    BY <1>1, <1>2 DEF getIpHeaderSize

(* Wherever the quoted ip header says it ends, what is compared is no word *)
(* before the fourth.                                                      *)
LEMMA QuotesReads ==
    ASSUME NEW packet, NEW r \in Seq(Words), Len(r) >= 43, Quotes(r, packet) = "valid"
    PROVE  \E m \in 4 .. 19 : r[m] = KeyWord(packet)
  <1> DEFINE inner == Skip(r, 2)
             n == getIpHeaderSize(inner)
             header == Skip(inner, n)
  <1>1. Len(r) \in Nat /\ 2 \in Nat /\ 2 <= Len(r)
    BY LenProperties
  <1>2. Quotes(r, packet) = IF IsIpHeader(inner) THEN Says(CarriesKey(header, packet)) ELSE "throws"
    BY DEF Quotes
  <1>3. CarriesKey(header, packet)
    BY <1>2 DEF Says
  <1>4. /\ inner \in Seq(Words) /\ Len(inner) = Len(r) - 2
        /\ \A k \in Nat : 1 <= k /\ k <= Len(r) - 2 => inner[k] = r[2 + k]
    BY <1>1, SkipFacts, Zenon
  <1> HIDE DEF inner
  <1>5. n \in 0 .. 15
    <2>1. inner[1] \in Words
      BY <1>1, <1>4, ElementOfSeq
    <2>2. QED
      BY <2>1, SizeOfIpHeader
  <1> HIDE DEF n
  <1>6. n \in Nat /\ n <= Len(inner) /\ 2 <= Len(inner) - n
    BY <1>1, <1>4, <1>5
  <1>7. \A k \in Nat : 1 <= k /\ k <= Len(inner) - n => header[k] = inner[n + k]
    BY <1>4, <1>6, SkipFacts, Zenon
  <1> HIDE DEF header
  <1>8. header[2] = inner[n + 2]
    BY <1>6, <1>7
  <1>9. n + 2 \in Nat /\ 1 <= n + 2 /\ n + 2 <= Len(r) - 2 /\ n + 4 \in 4 .. 19 /\ 2 + (n + 2) = n + 4
    BY <1>1, <1>5
  <1>10. inner[n + 2] = r[n + 4]
    BY <1>4, <1>9
  <1>11. r[n + 4] = KeyWord(packet)
    BY <1>3, <1>8, <1>10 DEF CarriesKey
  <1>12. QED
    BY <1>9, <1>11

(* Where isValid finds something but where acknowledgements are, it is the *)
(* key of the last datagram or of an earlier one.                          *)
LEMMA WordRead ==
    ASSUME Buffered, received > 0, kind # "udp",
           NEW k \in 1 .. BufferSize, k # OuterSize(family) + 3, mBuffer[k].rest # 0
    PROVE  \/ mBuffer[k].rest \in earlierKeys
           \/ datagram.protocol = "icmp" /\ mBuffer[k].rest = datagram.about.key
  <1>1. CASE Len(datagram.words) < k
    BY <1>1 DEF Buffered, Remains
  <1>2. CASE ~(Len(datagram.words) < k)
    <2>1. /\ Described(family, kind, port, datagram) /\ Bears(family, kind, datagram)
          /\ Holds(mBuffer, datagram)
      BY DEF Buffered
    <2>2. Len(datagram.words) \in Nat
      BY <2>1, LenProperties DEF Described
    <2>3. k \in 1 .. Len(datagram.words)
      <3> DEFINE n == Len(datagram.words)
      <3>1. n \in Nat /\ ~(n < k) /\ k \in 1 .. 48
        BY <1>2, <2>2 DEF BufferSize
      <3> HIDE DEF n
      <3>2. k \in 1 .. n
        BY <3>1
      <3>3. QED
        BY <3>2 DEF n
    <2>4. mBuffer[k] = datagram.words[k]
      BY <2>1, <2>3 DEF Holds
    <2>5. QED
      BY <2>1, <2>3, <2>4 DEF Bears
  <1>3. QED
    BY <1>1, <1>2

(* The keys of ours tell the datagrams apart.                              *)
LEMMA KeyTells ==
    ASSUME Buffered, received > 0, NEW p \in packets, datagram.about.key = p.key
    PROVE  datagram.about = p
  <1>1. p \in [kind : {kind}, port : {port}, key : OurKeys] /\ p.key \in Nat /\ p.key >= 1
    BY ValidationAssumption DEF packets
  <1>2. datagram.about # NoPacket
    BY <1>1 DEF NoPacket
  <1>3. AboutPacket(kind, port, datagram)
    BY <1>2 DEF Buffered, Described
  <1>4. QED
    BY <1>1, <1>3 DEF AboutPacket

(* An error that ends early, judged by what lies behind it.                *)
LEMMA TruncatedAccepted ==
    ASSUME Buffered, received > 0, Truncated, NEW p \in packets, Verdict(p) = "valid"
    PROVE  datagram.about = p \/ p.key \in earlierKeys
  <1> DEFINE d == datagram
             s == Inside(family, mBuffer)
             outer == OuterSize(family)
  <1>1. /\ family \in {4, 6} /\ kind \in {"icmp", "tcp"}
        /\ Described(family, kind, port, d) /\ Holds(mBuffer, d)
        /\ d.message = "cut" /\ d.protocol = "icmp" /\ p.kind = kind
    BY DEF Buffered, Truncated, packets
  <1>2. /\ d.words \in Seq(Words) /\ Len(d.words) <= 40 /\ Size(family, d) > 0
        /\ family = 4 => d.words[1] = Word(69, 0)
        /\ family = 6 => d.words[1].byte < 64 \/ d.words[1].byte = 129
    BY <1>1 DEF Described, IsEmpty
  <1>3. family = 6 => ~IsIpHeader(d.words)
    <2> SUFFICES ASSUME family = 6
                 PROVE  ~IsIpHeader(d.words)
      OBVIOUS
    <2>1. Size(family, d) = Len(d.words) - 0 /\ Len(d.words) \in Nat
      BY <1>2, LenProperties DEF Size, OuterSize
    <2>2. 1 \in 1 .. Len(d.words)
      BY <1>2, <2>1
    <2>3. d.words[1] \in Words
      BY <1>2, <2>2, ElementOfSeq
    <2>4. QED
      BY <1>2, <2>3, Nibbles DEF IsIpHeader, Version, Words
  <1>4. /\ s \in Seq(Words) /\ Len(s) >= 43
        /\ \A k \in 1 .. 43 : s[k] = mBuffer[outer + k]
        /\ isValid(p, Info(d), mBuffer) = validateAll(p, Info(d), Size(family, d), s)
    BY <1>1, <1>2, <1>3, Stripped
  <1> HIDE DEF s
  <1>5. validateFields(p, Info(d), s) = "valid"
    BY <1>4 DEF Verdict, validateAll
  <1>6. \/ Quotes(s, p) = "valid"
        \/ s[2] = KeyWord(p)
    <2>1. Info(d).protocol = "icmp" /\ Info(d).client = d.client
      BY <1>1 DEF Info
    <2>2. CASE kind = "icmp"
      <3>1. IcmpFields(p, d.client, s) = "valid"
        BY <1>1, <1>5, <2>1, <2>2 DEF validateFields
      <3>2. CASE getIcmpType(s) \in EchoReplies
        <4>1. getIcmpType(s) \notin {TimeExceeded(4), TimeExceeded(6)}
          BY <3>2, TypesDiffer DEF EchoReplies
        <4>2. IcmpFields(p, d.client, s) = Says(d.client = Target /\ CarriesKey(s, p))
          BY <3>2, <4>1 DEF IcmpFields
        <4>3. QED
          BY <3>1, <4>2 DEF Says, CarriesKey
      <3>3. CASE getIcmpType(s) \in {TimeExceeded(4), TimeExceeded(6)}
        <4>1. getIcmpType(s) \notin EchoReplies
          BY <3>3, TypesDiffer DEF EchoReplies
        <4>2. QED
          BY <3>1, <3>3, <4>1 DEF IcmpFields
      <3>4. QED
        BY <3>1, <3>2, <3>3 DEF IcmpFields
    <2>3. CASE kind = "tcp"
      <3>1. IcmpToTcpFields(p, d.client, s) = "valid"
        BY <1>1, <1>5, <2>1, <2>3 DEF validateFields
      <3>2. QED
        BY <3>1 DEF IcmpToTcpFields
    <2>4. QED
      BY <1>1, <2>2, <2>3
  <1>7. PICK m \in 1 .. 43 : m # 3 /\ m <= 19 /\ s[m] = KeyWord(p)
    <2>1. CASE Quotes(s, p) = "valid"
      <3>1. PICK m \in 4 .. 19 : s[m] = KeyWord(p)
        BY <1>4, <2>1, QuotesReads
      <3>2. m \in 1 .. 43 /\ m # 3 /\ m <= 19
        OBVIOUS
      <3>3. QED
        BY <3>1, <3>2
    <2>2. CASE s[2] = KeyWord(p)
      BY <2>2
    <2>3. QED
      BY <1>6, <2>1, <2>2
  <1>8. p.key # 0
    BY ValidationAssumption DEF packets
  <1> DEFINE k == outer + m
  <1>9. k \in 1 .. BufferSize /\ k # outer + 3 /\ mBuffer[k] = KeyWord(p)
    <2>1. outer \in {0, 5}
      BY DEF OuterSize
    <2> HIDE DEF outer
    <2>2. k \in 1 .. BufferSize /\ k # outer + 3
      BY <1>7, <2>1 DEF BufferSize
    <2>3. QED
      BY <1>4, <1>7, <2>2
  <1> HIDE DEF k
  <1>10. mBuffer[k].rest = p.key
    BY <1>9 DEF KeyWord, Word
  <1>11. kind # "udp"
    BY <1>1
  <1>12. p.key \in earlierKeys \/ p.key = datagram.about.key
    BY <1>8, <1>9, <1>10, <1>11, WordRead
  <1>13. QED
    BY <1>12, KeyTells

(* A segment that is taken for an ip header, judged by what lies behind    *)
(* it, unless the header is taken to be empty.                             *)
LEMMA MisreadAccepted ==
    ASSUME Buffered, received > 0, Misread, kind # "udp", NEW p \in packets, Verdict(p) = "valid"
    PROVE  datagram.about = p \/ p.key + 1 \in earlierKeys
  <1> DEFINE d == datagram
             r == mBuffer
             n == getIpHeaderSize(r)
             s == Skip(r, n)
             size == (Len(d.words) - n) % SizeModulus
  <1>1. /\ family = 6 /\ d.protocol = "tcp" /\ d.words # <<>> /\ IsIpHeader(d.words)
        /\ Described(family, kind, port, d) /\ Holds(r, d) /\ Bears(family, kind, d)
        /\ r \in Seq(Words) /\ Len(r) = 48
        /\ kind \in {"icmp", "tcp"} /\ p.kind = kind /\ p.key \in Nat
    BY ValidationAssumption DEF Buffered, Misread, packets, BufferSize
  <1>2. kind = "tcp"
    BY <1>1 DEF Described, IsEmpty, IsCut, IsGarbage, IsAnswer, IsEcho, IsAck, IsError
  <1>3. Len(d.words) \in Nat /\ Len(d.words) >= 1 /\ Len(d.words) <= 40
    <2>1. d.words \in Seq(Words) /\ Len(d.words) <= 40
      BY <1>1 DEF Described
    <2>2. Len(d.words) \in Nat /\ Len(d.words) # 0
      BY <1>1, <2>1, LenProperties, EmptySeq
    <2>3. QED
      BY <2>1, <2>2
  <1>4. r[1] = d.words[1] /\ r[1] \in Words
    <2>1. 1 \in 1 .. Len(d.words) /\ 1 \in 1 .. Len(r)
      BY <1>1, <1>3
    <2>2. r[1] = d.words[1]
      BY <1>1, <2>1 DEF Holds
    <2>3. r[1] \in Words
      BY <1>1, <2>1, ElementOfSeq
    <2>4. QED
      BY <2>2, <2>3
  <1>5. IsIpHeader(r) /\ n \in 0 .. 15
    BY <1>1, <1>4, SizeOfIpHeader DEF IsIpHeader
  <1>6. Info(d).size = Len(d.words) /\ Info(d).protocol = "tcp"
    BY <1>1 DEF Info
  <1>7. isValid(p, Info(d), r) = validateAll(p, Info(d), size, s)
    BY <1>3, <1>5, <1>6 DEF isValid
  <1> HIDE DEF n, s, size
  <1>8. /\ size >= MinSize(p, "tcp")
        /\ validateFields(p, Info(d), s) = "valid"
    BY <1>6, <1>7 DEF Verdict, validateAll
  <1>9. size >= 5 /\ s[3] = Word(0, p.key + 1)
    <2>1. MinSize(p, "tcp") = 5
      BY <1>1, <1>2 DEF MinSize
    <2>2. TcpToTcpFields(p, Info(d).client, s) = "valid"
      BY <1>1, <1>2, <1>6, <1>8 DEF validateFields
    <2>3. QED
      BY <1>8, <2>1, <2>2 DEF TcpToTcpFields, Says
  <1>10. s[3] = r[n + 3]
    <2>1. n \in Nat /\ n <= Len(r) /\ 3 \in Nat /\ 1 <= 3 /\ 3 <= Len(r) - n
      BY <1>1, <1>5
    <2>2. \A k \in Nat : 1 <= k /\ k <= Len(r) - n => s[k] = r[n + k]
      BY <1>1, <2>1, SkipFacts, Zenon DEF s
    <2>3. QED
      BY <2>1, <2>2
  <1>11. r[n + 3].rest = p.key + 1 /\ p.key + 1 # 0
    <2>1. Word(0, p.key + 1).rest = p.key + 1
      BY DEF Word
    <2>2. r[n + 3] = Word(0, p.key + 1)
      BY <1>9, <1>10
    <2>3. QED
      BY <1>1, <2>1, <2>2
  <1>12. CASE n = 0
    <2>1. size = Len(d.words)
      <3>1. SizeModulus \in Nat /\ Len(d.words) < SizeModulus
        BY <1>3, ValidationAssumption DEF BufferSize
      <3>2. \A a, b \in Nat : a < b => (a - 0) % b = a
        OBVIOUS
      <3>3. QED
        BY <1>3, <1>12, <3>1, <3>2 DEF size
    <2>2. 3 \in 1 .. Len(d.words)
      BY <1>3, <1>9, <2>1
    <2>3. d.words[3].rest = p.key + 1
      BY <1>1, <1>11, <1>12, <2>2 DEF Holds
    <2>4. d.words[3].rest = d.about.key + 1
      BY <1>1, <1>2, <1>11, <2>2, <2>3 DEF Bears
    <2>5. d.about.key \in Nat
      <3>1. \/ d.about = NoPacket
            \/ d.about \in [kind : {kind}, port : PortBytes, key : OurKeys \cup OtherKeys]
        BY <1>1 DEF Described, AboutPacket
      <3>2. QED
        BY <3>1, ValidationAssumption DEF NoPacket
    <2>6. d.about.key = p.key
      BY <1>1, <2>3, <2>4, <2>5
    <2>7. QED
      BY <2>6, KeyTells
  <1>13. CASE n # 0
    <2> DEFINE k == n + 3
    <2>1. k \in 1 .. BufferSize /\ k # OuterSize(family) + 3
      <3>1. OuterSize(family) = 0 /\ n \in 1 .. 15
        BY <1>1, <1>5, <1>13 DEF OuterSize
      <3>2. QED
        BY <3>1 DEF BufferSize
    <2> HIDE DEF k
    <2>2. mBuffer[k].rest # 0 /\ mBuffer[k].rest = p.key + 1
      BY <1>11 DEF k
    <2>3. QED
      BY <1>1, <2>1, <2>2, WordRead
  <1>14. QED
    BY <1>12, <1>13

-------------------------------------------------------------------------------
(* The properties *)

(* A packet with a key accepts replies to itself and nothing else, but for *)
(* the two exceptions: these it accepts only after its own key, or for a   *)
(* segment the next one, has arrived before.                               *)
THEOREM AcceptedAreOurs == Spec => []AcceptedMeansOurs
  <1>1. Buffered => AcceptedMeansOurs
    <2> SUFFICES ASSUME Buffered, NEW p \in packets, received > 0, kind # "udp",
                        Verdict(p) = "valid"
                 PROVE  \/ datagram.about = p
                        \/ Truncated /\ p.key \in earlierKeys
                        \/ Misread /\ p.key + 1 \in earlierKeys
      BY DEF AcceptedMeansOurs
    <2>1. CASE ~Misread /\ ~Truncated
      <3>1. Ruling(p, datagram) = "valid"
        BY <2>1, VerdictNow
      <3>2. Described(family, kind, port, datagram) /\ kind \in {"icmp", "tcp", "udp"}
        BY DEF Buffered
      <3>3. datagram.message \in {"empty", "cut", "garbage", "echo", "ack", "exceeded", "unreach"}
        BY <3>2 DEF Described, IsEmpty, IsCut, IsGarbage, IsAnswer, IsEcho, IsAck, IsError
      <3>4. SameKey(p, datagram) = "valid"
        BY <3>1, <3>2, <3>3 DEF Ruling
      <3>5. p.key = datagram.about.key
        BY <3>4 DEF SameKey, Says
      <3>6. QED
        BY <3>5, KeyTells
    <2>2. CASE Truncated
      BY <2>2, TruncatedAccepted
    <2>3. CASE Misread
      BY <2>3, MisreadAccepted
    <2>4. QED
      BY <2>1, <2>2, <2>3
  <1>2. QED
    BY BufferIsKept, <1>1, PTL

(* Whether isValid throws does not depend on the key of the packet.        *)
LEMMA ThrowsForAll ==
    ASSUME kind \in {"icmp", "tcp", "udp"}, NEW p \in packets, NEW q \in packets,
           NEW info, NEW r, info.size = 0 \/ info.protocol \in {"icmp", "tcp"},
           isValid(p, info, r) = "throws"
    PROVE  isValid(q, info, r) = "throws"
  <1>1. p.kind = kind /\ q.kind = kind
    BY DEF packets
  <1>2. \A protocol \in {"icmp", "tcp"} : MinSize(p, protocol) = MinSize(q, protocol)
    BY <1>1 DEF MinSize
  <1>3. ASSUME NEW s, Quotes(s, p) = "throws"
        PROVE  Quotes(s, q) = "throws"
    BY <1>3 DEF Quotes, Says
  <1>4. ASSUME NEW s, info.protocol \in {"icmp", "tcp"}, validateFields(p, info, s) = "throws"
        PROVE  validateFields(q, info, s) = "throws"
    <2>1. CASE kind = "icmp"
      <3>1. /\ validateFields(p, info, s) = IcmpFields(p, info.client, s)
            /\ validateFields(q, info, s) = IcmpFields(q, info.client, s)
        BY <1>1, <2>1 DEF validateFields
      <3>2. \A a, b : Says(a) # "throws"
        BY DEF Says
      <3>3. QED
        BY <1>3, <1>4, <3>1, <3>2 DEF IcmpFields
    <2>2. CASE kind = "udp"
      <3>1. validateFields(p, info, s) = UdpFields(info.client, s)
        BY <1>1, <2>2 DEF validateFields
      <3>2. QED
        BY <1>4, <3>1 DEF UdpFields, Says
    <2>3. CASE kind = "tcp" /\ info.protocol = "icmp"
      <3>1. /\ validateFields(p, info, s) = IcmpToTcpFields(p, info.client, s)
            /\ validateFields(q, info, s) = IcmpToTcpFields(q, info.client, s)
        BY <1>1, <2>3 DEF validateFields
      <3>2. QED
        BY <1>3, <1>4, <3>1 DEF IcmpToTcpFields
    <2>4. CASE kind = "tcp" /\ info.protocol = "tcp"
      <3>1. validateFields(p, info, s) = TcpToTcpFields(p, info.client, s)
        BY <1>1, <2>4 DEF validateFields
      <3>2. QED
        BY <1>4, <3>1 DEF TcpToTcpFields, Says
    <2>5. QED
      BY <1>4, <2>1, <2>2, <2>3, <2>4
  <1>5. CASE info.size = 0
    BY <1>5 DEF isValid
  <1>6. CASE info.size # 0
    <2>1. ASSUME NEW size, NEW s, validateAll(p, info, size, s) = "throws"
          PROVE  validateAll(q, info, size, s) = "throws"
      BY <1>2, <1>4, <1>6, <2>1 DEF validateAll
    <2>2. QED
      BY <1>6, <2>1 DEF isValid
  <1>7. QED
    BY <1>5, <1>6

(* isValid throws for every packet or for none, so the order in which the  *)
(* engines ask does not matter, and it throws for no whole answer.         *)
THEOREM ThrowsAlike == Spec => []ThrowsForAllOrNone
  <1>1. Buffered => ThrowsForAllOrNone
    <2> SUFFICES ASSUME Buffered, NEW p \in packets, NEW q \in packets, received > 0,
                        Verdict(p) = "throws"
                 PROVE  Verdict(q) = "throws" /\ (datagram.about = NoPacket \/ Truncated)
      BY DEF ThrowsForAllOrNone
    <2>1. Described(family, kind, port, datagram) /\ kind \in {"icmp", "tcp", "udp"}
      BY DEF Buffered
    <2>2. ~Misread
      <3> SUFFICES ASSUME Misread
                   PROVE  FALSE
        OBVIOUS
      <3>1. datagram.protocol = "tcp" /\ datagram.words # <<>> /\ family = 6
        BY DEF Misread
      <3>2. kind = "tcp"
        BY <2>1, <3>1
           DEF Described, IsEmpty, IsCut, IsGarbage, IsAnswer, IsEcho, IsAck, IsError
      <3>3. Len(datagram.words) # 0
        BY <2>1, <3>1, EmptySeq DEF Described
      <3>4. Info(datagram).size # 0 /\ Info(datagram).protocol = "tcp" /\ p.kind = "tcp"
        BY <3>1, <3>2, <3>3 DEF Info, packets
      <3>5. \A size, response : validateAll(p, Info(datagram), size, response) # "throws"
        BY <3>4 DEF validateAll, validateFields, TcpToTcpFields, Says
      <3>6. Verdict(p) # "throws"
        BY <3>4, <3>5 DEF Verdict, isValid
      <3>7. QED
        BY <3>6
    <2>3. Verdict(q) = "throws"
      <3>1. Info(datagram).size = 0 \/ Info(datagram).protocol \in {"icmp", "tcp"}
        <4>1. Len(<<>>) = 0
          OBVIOUS
        <4>2. QED
          BY <2>1, <4>1 DEF Info, Described, IsEmpty, IsCut, IsGarbage, IsAnswer, IsEcho, IsAck, IsError
      <3>2. QED
        BY <2>1, <3>1, ThrowsForAll DEF Verdict
    <2>4. CASE ~Truncated
      <3>1. Ruling(p, datagram) = "throws"
        BY <2>2, <2>4, VerdictNow
      <3>2. datagram.message \in {"empty", "cut", "garbage", "echo", "ack", "exceeded", "unreach"}
        BY <2>1 DEF Described, IsEmpty, IsCut, IsGarbage, IsAnswer, IsEcho, IsAck, IsError
      <3>3. datagram.message = "empty" \/ datagram.message = "garbage"
        BY <2>1, <3>1, <3>2 DEF Ruling, SameKey, Says, UdpFields
      <3>4. QED
        BY <2>1, <2>3, <3>3 DEF Described, IsEmpty, IsCut, IsGarbage, IsAnswer, IsEcho, IsAck, IsError
    <2>5. QED
      BY <2>3, <2>4
  <1>2. QED
    BY BufferIsKept, <1>1, PTL

(* The remains of earlier datagrams decide about no datagram but the two   *)
(* exceptions.                                                             *)
THEOREM TailNeverDecides == Spec => []StaleTailNeverDecides
  <1>1. Buffered => StaleTailNeverDecides
    <2> SUFFICES ASSUME Buffered, NEW p \in packets, received > 0, ~Misread, ~Truncated
                 PROVE  Verdict(p) = isValid(p, Info(datagram),
                                             datagram.words
                                                \o Zeros(BufferSize - Len(datagram.words)))
      BY DEF StaleTailNeverDecides
    <2> DEFINE w == datagram.words
               n == BufferSize - Len(w)
               rest == Zeros(n)
    <2>1. Described(family, kind, port, datagram)
      BY DEF Buffered
    <2>2. w \in Seq(Words) /\ Len(w) \in Nat /\ n \in Nat
      <3>1. w \in Seq(Words) /\ Len(w) <= 40
        BY <2>1 DEF Described
      <3>2. Len(w) \in Nat
        BY <3>1, LenProperties
      <3>3. QED
        BY <3>1, <3>2 DEF BufferSize
    <2>3. rest \in Seq(Words) /\ Len(rest) = n
      <3> HIDE DEF n
      <3>1. QED
        BY <2>2, ZerosFacts
    <2>4. Holds(w \o rest, datagram)
      <3> HIDE DEF rest
      <3>1. /\ w \o rest \in Seq(Words)
            /\ Len(w \o rest) = Len(w) + Len(rest)
            /\ \A k \in 1 .. Len(w) : (w \o rest)[k] = w[k]
        BY <2>2, <2>3, Joined, Zenon
      <3>2. Len(w \o rest) = BufferSize
        BY <2>2, <2>3, <3>1 DEF BufferSize
      <3>3. QED
        BY <3>1, <3>2 DEF Holds
    <2>5. isValid(p, Info(datagram), w \o rest) = Ruling(p, datagram)
      <3> HIDE DEF w, rest
      <3>1. QED
        BY <2>1, <2>4, VerdictIsRuling, Exceptions DEF Buffered
    <2>6. QED
      BY <2>5, VerdictNow
  <1>2. QED
    BY BufferIsKept, <1>1, PTL

===============================================================================
