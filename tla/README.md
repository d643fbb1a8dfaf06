# Traceroute: a TLA+ model of the library

The library sends probes with increasing ttl and reports which router or
target answered each. This directory models it in TLA+, checks the model with
TLC on small instances, and proves its safety properties and the refinements of
its abstract specifications with TLAPS. Paths are those of the repository.

## 1. The system

| Part | Source | State | Operations |
|---|---|---|---|
| FastTraceroute | `src/FastTraceroute.cpp` | `mPacketsToBeValidated` under `mMutex` (a member: it outlives the call); the results of the call | `beginProbing`: `sendPackets` in a `std::async` thread, `receiveAndValidate` in the caller's |
| SequentialTraceroute | `src/SequentialTraceroute.cpp` | locals of the call only | `beginProbing`: send, wait for the reply, next |
| Traceroute | `src/Traceroute.cpp` | clock, `mBuffer` | `getTimePassedTillNow`, `getTimeLeft` |
| Probe results | `src/Probe.cpp` | values | `successProbe`, `failedProbe` |
| Response validators | `src/ResponseValidators/*` | none; they read the engine's `mBuffer` | `Packet::isValid` of ICMP, TCP and UDP packets |
| DataSender, Poll | `src/DataSender.cpp`, `src/utils/Poll.cpp` | descriptors by role, protocol by descriptor; the kernel's sockets | `trySending`, `tryReceiving` |
| Socket providers, creation, binding | `src/SocketProviders/*`, `src/utils/CreateSocket.cpp`, `Bind.cpp` | kernel sockets | `createSockets` |
| Packets, factories, checksum | `src/Packet/*`, `src/PacketFactory/*`, `src/utils/ChecksumCalculator.cpp` | immutable headers with a random key | `createPacket`, `serialize` |
| Addresses, source resolution | `src/SocketAddress.cpp`, `src/ResolveSourceAddress.cpp` | values | parse, compare, `getsockname` |

A user creates sockets through a provider, a DataSender over them, a packet
factory, and one engine over both; `beginProbing` may be called repeatedly on
one engine. The engine draws packets from the factory, hands them to
`trySending`, reads datagrams with `tryReceiving` into `mBuffer` and asks
packets whether a datagram is their reply. All sockets are raw: they also
receive what other programs cause, and they keep what arrives between calls.

What is hard here, by part (the full list, line by line, is `hazards` in
`PROJECT.json`):

- *FastTraceroute.* A probe is on the wire before it is registered; the
  receiver erases from the vector the sender appends to, through an iterator
  it has erased; the loop ends on a count of results or on a budget of time,
  neither of which looks at which probes have a result; packets of an earlier
  call stay registered; a failure of the sender is dropped.
- *SequentialTraceroute.* Late and repeated replies are read by a later probe;
  a poll timeout that rounds to zero; the stop at the target only between rows.
- *Validators.* Offsets taken from the datagram, over a buffer that still
  holds earlier ones; header detection by one nibble.
- *DataSender.* ttl as an option of a socket that is shared by two threads;
  poll and recvfrom as two steps; preference among sockets; descriptor 0, which
  stands for "no socket" in one place and for a default entry in another.
- *Setup.* A row of system calls of which any may fail, one whose result is
  never looked at, one that is given a length nobody set; addresses whose
  storage is only partly written.
- *Packets.* A checksum that the code computes for IPv4, in the order of the
  host, and the kernel for IPv6, at an offset the code names.

## 2. Modules

| Module | Models | Extends |
|---|---|---|
| `Probes` | identity of probes, their packets and replies, `isValid` as the engines see it | |
| `Collections` | the loops that select from a vector, walk a map and add up shorts | |
| `Traceroute` | clock arithmetic, results | `Probes`, `Collections` |
| `Network` | external: packets on the wire, datagrams waiting in the sockets | `Probes` |
| `FastTraceroute` | the engine with two threads | `Network`, `Traceroute` |
| `SequentialTraceroute` | the engine with one thread | `Network`, `Traceroute` |
| `Probing` | abstract: what the calls of `ITraceroute::beginProbing` on one object promise | |
| `ResponseValidation` | `Packet::isValid` word by word over `mBuffer` | |
| `DatagramService` | abstract: `IDataSender` over the network the engines are modelled with | `Network` |
| `DataSender` | DataSender and Poll over the kernel's sockets; implements `DatagramService` | `Probes`, `Collections` |
| `SocketAddress` | addresses as the bytes of their storage, their texts, `operator==` | |
| `Checksum` | ChecksumCalculator; external: the sum a receiver computes | `SocketAddress`, `Collections` |
| `SocketSetup` | parsing the target, `resolveSourceAddress`, `createSockets`; external: the table of descriptors | `SocketAddress` |
| `FirstProbe` | headers and checksums of the packets, and what leaves for the wire, after the setup | `SocketSetup`, `Checksum` |
| `MCFastTraceroute`, `MCSequentialTraceroute`, `MCDataSender`, `MCFirstProbe` | argument sets, the sockets of the providers, a host and its neighbours | their component |
| `CollectionLemmas`, `TracerouteLemmas` | lemmas about vectors, sets of numbers, `Collections`; about the clock and the results | TLAPS |
| `FastTracerouteProofs`, `FastPromiseProofs` | theorems about `FastTraceroute`; its reports and the refinement of `Probing` | `TracerouteLemmas` |
| `SequentialTracerouteProofs`, `DataSenderProofs`, `ResponseValidationProofs`, `SocketSetupProofs` | theorems about these components, the refinements of `Probing` and `DatagramService`; the last is about `SocketSetup` and `FirstProbe` | their component, the lemmas |

A definition of a module whose name no other definition uses
(`EraseLast`, `expectedSizeOffByOne`, ...) is the definition after it with a
plausible mistake. `mutants` in `PROJECT.json` pairs each with the property it
breaks.

### FastTraceroute

State: the locals of the two threads (`sPc`, `sTtl`, `sRetry`, `sPacket`;
`rPc`, `respInfo`, `it`, `ttlToProbeResults`), the member
`mPacketsToBeValidated`, and what the clock is compared with (`elapsed` since
`beginAt`, the age of each registered packet since `sentAt`, `polled` inside
`tryReceiving`). Absolute time points never matter, so differences are kept;
each stops growing at the first value past every comparison.

An action is a stretch of code between two points at which the other thread,
the clock or the network can interfere: `SendPacket` (`createPacket` and
`trySending`) and `RegisterPacket` (lock, `push_back`) are two actions,
because a reply can arrive and be handled in between. `LockAndMatch` takes the
mutex, matches and erases; the sweep is one action per packet, since the clock
goes on during it; `RegisterPacket` waits for the sweep to end.

- `erase(it)` on a vector invalidates `it`, which the loop then uses. With
  libstdc++ a vector's iterator is a pointer, which now stands at the next
  packet; this is the outcome modelled.
- `~future` of `std::async` joins the thread (`JoinSender`), also when
  `receiveAndValidate` throws. The sender's exception is dropped.
- A response that makes `isValid` throw ("malformed") ends the call as soon as
  there is a packet to ask (`ValidationThrows`); `tryReceiving` may throw at
  any time (`ReceiveThrows`).
- `expectedSize` is unsigned; `UintModulus` stands for 2^32. It bounds nothing
  else: a ttl above 255 makes `setsockopt` fail and so ends the sender, long
  before the loops themselves could wrap.

`call`, `carried`, `heard` and `cause` are history variables: no guard of the
engine reads them, except `call`, which also bounds the calls (`MaxCalls`).

### SequentialTraceroute

One program counter, the loop variables, `age` (since `sentAt`) and what is
left of the timeout given to `tryReceiving`. `wire` and `inbox` live on between
calls, so that a reply to an earlier probe or call can come at any moment.

### Probing

The ledger of the calls on one object. Probes are named by call, ttl and retry;
each one asked for goes from *unsent* to *outstanding* to at most one verdict,
in the order of sending; a call that returns reports exactly the verdicts it
has, without those beyond the nearest ttl at which the target answered; a call
that throws reports nothing; the sender may go on between report and return,
never after it. The next call starts a new ledger, and `Keeps` says with what:
a FastTraceroute still holds the packets the last call left registered
(`mPacketsToBeValidated` is a member), so their probes come along as
*outstanding* and are reported by the call that settles them; a
SequentialTraceroute forgets them. Neither comes back to a probe with a
verdict. Both engines implement it, over any number of calls, under the
refinement mappings at the end of their modules.

### ResponseValidation

Justifies `Traceroute!isValid`. One traceroute sends packets of one kind over
one family; routers, the target and other programs answer them, and cut or
malformed datagrams arrive as well. Sizes are words of four bytes, a word is
its first byte and the rest; keys are compared as words (of the ICMP word, the
id; its sequence number is left out, since the code does not compare it).
`size()` wraps as `size_t` (`SizeModulus`).

An answer may end after any number of words of `Kept`: within the ICMP or TCP
header, or before the eight bytes of the probe that an error must quote.
`validateSize` refuses only the first kind. Of the second it asks for no more
than the outer ICMP header (`IcmpResponseValidator.cpp:49-52`) or that and the
length of a TCP header (`IcmpToTcpResponseValidator.cpp:68-71`), so that the offsets
reach beyond the datagram and the remains of earlier ones decide: `Truncated`.
The other datagrams they decide about are TCP segments taken for an ip header,
`Misread`. `AcceptedMeansOurs` bounds what can come of it - at most a packet whose
key (or the next one) an earlier datagram carried, which is what `earlierKeys`, a history
variable, is for - and the properties of the buffer name both cases. In these two
the engines' assumption about `isValid` does not hold, and `RepliesCreditTheirProbe`
speaks of whole answers only: a probe may be credited with a truncated error that
belongs to another.

### DataSender

Each system call is an action; packets carry their probe, and routers and the
target answer what is on the wire by the ttl it really left with. `Poll`'s
vector starts with as many entries of descriptor 0 and no events as it gets
descriptors (the constructor and the `back_inserter` both add entries); poll
reports on those only errors and hang-ups of standard input.
`DataSenderAssumption` says what the three providers guarantee: distinct
descriptors and one sending socket. A program started without standard input
gets 0 as its first descriptor; the runs have such providers too.

`ImplementsService` joins this module to the engines. They are modelled over
`Network`: one set of datagrams, answers by the ttl of the probe. The mapping
takes the union of the sockets that are read as that set, `wire` without the
ttls, and the last results of `trySending` and `tryReceiving` as those of the
service. It fails if a ttl is set on the wrong socket, if `true` is returned for
what was not sent, if a datagram of one socket hides behind an empty other, or
if a datagram that was not waiting is returned. `Take` lets a datagram stay in
the set it was taken from, because two equal ones may wait.

### SocketSetup and FirstProbe

One caller, who parses a target, resolves the source for it and creates the
sockets of a provider, any of them again after a failure. `pc` runs through
the system calls of the function at hand; each may fail and then throws with
the table of descriptors as it stands, except `socket`, whose -1 goes on to the
next call. Memory that a function does not initialise holds any member of
`Junk`: what `SocketAddress(string)` leaves around the address, what
`getsockname` leaves of its buffer. `Lengths` are the values of the `len` it is
given: negative (an error), none, the family, one byte of the address, all.
`bind` takes the addresses of the host (`Interfaces`) and, on a raw socket, those of
`FromDevice`: the wildcard and multicast or broadcast addresses (`Groups`). Bound to
one of these, a socket sends from the address of the device.

`SendProbe` creates a packet over the resolved addresses and sends it on the
sending socket just created. Headers are sequences of bytes, in both byte
orders of the host: the code sums them as `unsigned short` in memory order and
stores the result the same way, a receiver sums 16 bit words in network order.
The kernel's part for IPv6 (ICMPv6 always, TCP and UDP where `IPV6_CHECKSUM`
says) is external. `rand()` draws from `Ports` and `Ids`.

## 3. Runs

| Run | Shows | Bounds |
|---|---|---|
| `fast_path` | `TypeOK`, `NoProbeTwice`, `NoProbeForgotten`, `CountMeansComplete`, `HeardIsNotGivenUp`, `SettledReportIsWhole` for one call | two probes (two ttls, or two retries); three ttls with the target at the second, so that there are rows before, at and beyond the cut; the edge cases: no retries, no ttl, `ttlBegin = ttlEnd + 3` with modulus 8 so that `expectedSize` wraps; two keys, malformed strays, a timeout of one tick |
| `fast_reuse` | `Accounting`, `Provenance`, `RepliesCreditTheirProbe`, `NothingRunsBetweenCalls`, `KeepsPromise` over two calls | one probe per call, two keys, both kinds of strays, a timeout of one and a half milliseconds, so that budget and age end at different times |
| `fast_promise` | `KeepsPromise`, `Termination` | two probes and the edge cases, one key: strays and probes of one key are the worst case for crediting, and distinct keys add no transition |
| `fast_on_timeout` | finding: `OneProbeOneResult` fails | one probe |
| `sequential_path` | `TypeOK`, `RowsAreThePath`, `KeepsPromise`, `Termination` | up to three ttls, two retries, no retries, no ttl |
| `sequential_late` | `RepliesCreditTheirProbe`, `KeepsPromise` over two calls | two probes per call, three keys: distinct keys for three of four packets |
| `validation` | `OursAccepted`, `AcceptedMeansOurs`, `ThrowsForAllOrNone`, `StaleTailNeverDecides` | two packets with neighbouring keys (an ack is the key plus one), four port bytes, three datagrams in a row: what is left of two earlier ones lies behind the third; answers cut short on either side of each `validateSize` |
| `validation_tcp_ack_v6` | finding: `TcpAckV6Valid` fails | as above |
| `data_sender` | `SentWithItsTtl`, `ResponsesNameTheirProtocol`, `ReadySocketHasDatagram`, `EverySocketIsRead`, `ImplementsService` | the sockets of all three providers, from descriptor 3 and from descriptor 0; two sends, three arrivals; sockets of IPv4; ttls 0 and 256, which `setsockopt` refuses for them, and one on either side of the target |
| `data_sender_stdin` | finding: `PollReturnsGivenFd` fails | as above |
| `setup` | `SetupTypeOK`, `ReturnedSocketsAreReady`, `ReturnsWhatItOpened`, `TargetIsRecognised`, `EveryProbeVerifies`, `FieldsArriveAsMade`, `LeavesFromItsSource` | four calls: parse, resolve, create, and one more after a failure; three descriptors, so that what a failure leaves exhausts them; memory that holds nothing, a router, another interface, or groups; sequence numbers for which the fold of a carry carries again, in either byte order |
| `resolve_source` | finding: `ResolvedSourceIsAssigned` fails | as above |

Every interleaving fault of FastTraceroute that a packet can meet needs that
packet and at most one other (the one erased before it, or the one that draws
the same key), and one call before it; two probes and two calls hold all of
them. Ages need the values "waiting", "below MinTimeWaitForResponse" and, for
the budget, one more. No run uses symmetry.

Deadlock is not checked: a program whose calls are used up (`MaxCalls`,
`MaxSends`, `MaxReceived`) and whose inbox is full has stopped.

**Fairness.** `FastTraceroute`: weak fairness of the sender thread, of the
receiver thread and of the clock. Both threads run under the system's
scheduler, and the mutex is held only for a bounded sweep, so neither can be
kept from its next step for ever; every wait inside `trySending` and
`tryReceiving` is bounded by a poll timeout. Nothing is assumed of the
network: no packet need be answered, no stray need arrive or stay away, and
sending and receiving may fail. `SequentialTraceroute`: the same for its
one thread. `DataSender`: the engine keeps calling `tryReceiving`, and the step
that follows poll is taken; arrivals are finite (`MaxArrivals`), without which
the socket polled first could keep the other waiting.

### Disagreements found

1. `fast_on_timeout`: `FastTraceroute.cpp:65` ends the loop when
   `timeout * expectedSize` has passed since the receiver began. The sender may
   register its packets later than that, and a call for one probe, which was
   sent, returns no row, where `FastTest.cpp:89` has
   `ASSERT_THAT(probes, SizeIs(1));`.
2. `validation_tcp_ack_v6`: `isIpHeaderPresent` looks at one nibble. A TCP
   segment read from an IPv6 socket has no ip header and starts with its source
   port; from a port 0x4000-0x4fff or 0x6000-0x6fff it is skipped as an ip
   header and refused, where `TcpAckV6.cpp:51` (for port 80) has
   `EXPECT_TRUE(isValid);`. From a port 0x4600-0x4fff the announced header is
   longer than the segment, the size left wraps, and what an earlier datagram
   left in the buffer decides. From 0x4b00-0x4bff that may be the sequence
   number an ICMPv6 error quoted, and the segment is accepted for the packet whose
   number is one less, whichever packet it acknowledged. `AcceptedMeansOurs` allows for
   that case, and `StaleTailNeverDecides` and `OursAccepted` leave these segments out.
3. `data_sender_stdin`: `Poll.cpp:15` polls descriptor 0 as well, and returns it
   when standard input has hung up; `recvfrom` on it fails and the call ends
   with an exception. `Poll.hpp:9`: "poll wrapper, returns a fd within given
   timeout".

4. `resolve_source`: `ResolveSourceAddress.cpp:26` declares `len` and never sets it.
   `getsockname` writes at most that many bytes, so the source may keep what the
   stack held, or the call may fail. `ResolveSourceAddress.hpp:8` calls it the
   address "which is going to be assigned to an outgoing packet". The harm is
   contained: `bind` refuses the address of another host, so
   (`LeavesFromItsSource`) every packet leaves from an address of this one, and that is
   the source its checksum was computed with unless that is the wildcard (bytes of
   zero) or a multicast or broadcast address. These pass `bind` on a raw socket, and
   the checksums of TCP and UDP over IPv4 are then wrong (`SummedOverAnother`).
   `EveryProbeVerifies` leaves out that case and no other.

`validation` also shows that an ICMP error which quotes too little may be accepted for
a packet that an earlier datagram answered; no text of the repository speaks of such
errors. `setup` shows what the code does not say: `socket` is never checked, and
`createSockets` nevertheless returns open sockets only, because `bind` on -1
fails; the pseudo header for IPv6 adds the source twice, and no packet of IPv6
uses it; `urg_ptr` of a TCP header is whatever the memory held, and is in the
checksum. Descriptors of a failed call stay open (`ReturnsWhatItOpened` is about
calls that return); nothing in the library closes those it did return.

## 4. Proofs

Every invariant and action property of the passing runs is a theorem, and so are
the three refinements. Each holds for every value of the constants that satisfies the named assumptions of the
modules: any timeout, set of keys, arguments, ports, texts and bounds.

### FastTraceroute (`FastTracerouteProofs`, `FastPromiseProofs`)

- `Typing`: `Spec => []TypeOK`, one lemma per thread.
- `AccountsAreKept`: `Spec => []Accounting`. `NoProbeTwice` and
  `NoProbeForgotten` are not inductive: that a registered packet is new
  follows only if the probe in the sender's hands is the one its loops stand
  at, if everything registered or recorded lies behind the loops, and if no
  sender is left when a call begins. `Accounting` adds these. The steps that move
  a packet from the registered to the recorded ones share one lemma
  (`SettlingKeepsAccounts`), the sender's registration has its own
  (`RegisteringKeepsAccounts`), the steps that touch neither follow from
  `SameProbesSameAccounts`.
- `NeverTwice`, `NeverForgotten`: consequences of it. `CallsLeaveNoThread`
  (`NothingRunsBetweenCalls`) too: with both threads at rest no action but the
  network's and the clock's is left, and those register nothing.
- `CountSuffices`: `Spec => []CountMeansComplete`. With distinct probes the
  number of results is the cardinality of their set, which lies in the set of
  probes asked for, whose cardinality is `expectedSize`; a subset with as many
  elements is the whole set, and by `NoProbeTwice` nothing is registered.
- `CreditIsRight`: `Spec => []RepliesCreditTheirProbe` from the inductive
  `Provenance` (`ProvenanceIsKept`): what is registered, read or credited stems
  from packets on the wire, and a credit joins two packets with one key.
- `HeardIsSettled`: `Spec => []HeardIsNotGivenUp`. `OnePacketPerProbe` comes
  first: a probe is on the wire as one packet, since the loops never come back
  to it. `Hearing` then says that a probe that was heard and is still registered is
  the one whose reply is in the buffer and waits for the lock; the match finds a
  packet with its key, with distinct keys this one, and erases it ahead of the
  sweep.
- `SettledIsWhole`: `Spec => []SettledReportIsWhole`. `Reported` keeps that what was
  returned is `Report` of what was recorded, and that an ended sender has passed
  its loops. With nothing registered, `NoProbeForgotten` makes the recorded probes
  those asked for, so every ttl has `retries` results (a bijection between its
  retries and its results, by `NoProbeTwice`), and the ttls in order are an interval.
- `FastKeepsPromise`: `Spec => KeepsPromise`, for any number of calls on the object. One
  lemma per step of the abstract specification: beginning, sending, settling and
  giving up as `Settle`, the report as `Return`, the exceptions. `LedgerOf` makes the
  ledger a function of the probes known, recorded and registered, so that a step
  changes it where it changes these. `Accounting` gives what no test sees at the
  seam of two calls: what the ledger has outstanding is exactly what is still
  registered (`LeftOverIsPending`), and since probes are named by their call, no
  probe of the new call is among it. `OnlyRepliesName` (a probe given up names no
  sender) is the other invariant.

### SequentialTraceroute (`SequentialTracerouteProofs`)

- `Typing`; `CreditIsRight`, from the same provenance as above.
- `PathIsKept`: `Path` says of the rows done what `RowsAreThePath` says, of the row at
  hand how many results it has for where the loop is, and where the call
  may return. `RowsArePath` follows.
- `SequentialKeepsPromise`: `Spec => KeepsPromise`, for any number of calls. `Path` gives
  the ledger at every point of the loops: probes before them have a result, the
  one at hand is outstanding, those after are unsent; nothing of it survives the call.

### DataSender (`DataSenderProofs`)

- `LeavesWithItsTtl`: `Spec => []SentWithItsTtl`. Inductive with `TtlIsKept`: from
  `setsockopt` to `sendto` the option of the sending socket is the ttl of the
  packet in hand, and only a packet of the family is past the check. The steps
  of the other thread and of the kernel leave both alone.
- `ResponsesAreOfTheirSocket`, `PolledStaysReadable`: from `Sorted`, which says that the
  tables of the object are those of its sockets and that every queue holds datagrams of
  the protocol of its socket.
- `DataSenderServes`: `Spec => ImplementsService`, for any provider and any number of
  calls. Sending, receiving and arriving each map to a step of the service or
  to none; `Unseen` collects what the service does not see.

### ResponseValidation (`ResponseValidationProofs`)

`Ruling` is what the engines' models assume of `isValid`: a table over the kind of
a datagram and the two keys, without a buffer. `VerdictIsRuling` proves that
`isValid` computes it over any buffer that begins with a datagram that looks as
`Described`, `TrafficDescribed` that whatever arrives looks so, and `BufferIsKept`
(`Spec => []Buffered`) that the buffer begins with the last datagram. The four
invariants - `OursAreAccepted`, `AcceptedAreOurs`, `ThrowsAlike`, `TailNeverDecides` -
follow from the table, except for `Truncated` errors and `Misread` segments, which are outside
it. For those, `Remains` (a part of `Buffered`) says that the words behind the last
datagram hold no key but those of `earlierKeys`, wherever the validators may look for
one; so a packet they are accepted for was answered before.

### SocketSetup and FirstProbe (`SocketSetupProofs`)

- `SetupTyping`, `CallsAgree`: types, and which variables a system call may rely on.
- `TargetRecognised`: parsing writes the bytes of the host and `operator==` reads
  these only.
- `OpensWhatItReturns`: from `Books`, which divides the open descriptors into those
  before, those in the result, and the one in hand.
- `SocketsAreReady`: from `Planned` (the sockets so far and the steps left make up the
  plan of the provider) and `Readiness` (the sockets so far are ready, the one in
  hand as far as the call has come; past `bind` it cannot be -1).
- `ProbesLeaveFromTheirSource`, `FieldsAreKept`: of the packets, for any setup. The
  first rests on `BindsAtHome` (`BindsAreKept`): no socket of the table is ever bound to
  the address of another host.
- `ProbesVerify`: `Spec => []EveryProbeVerifies`, for every header and address. The
  sum of bytes one behind the other is the sum of their sums (`SumOfConcat`), and of
  a header with its check field filled in the sum with the field empty and the short
  stored there (`SumWithField`). A sum taken in the order of a little endian host
  is modulo 65535 that in the order of the network times 256, and zero with it
  (`Swapped`, which addition keeps); times 256 twice is times one, so the
  complement, stored in the order of the host, completes the sum in either
  (`SwappedCompletes`). `FoldedFacts`: folding keeps the remainder and never makes
  zero of what is not. `HeaderFacts` gives what every header has: an even number of
  bytes, and its check field at an even place. For IPv4 the sum is the code's
  (`CodeProbeVerifies`), over a pseudo header that is the receiver's; for IPv6 the
  kernel's, at the offset `Equipped` says (`KernelFieldVerifies`).

### What is assumed

`ProbesAssumption`, `TracerouteAssumption`, `NetworkAssumption`, `FastAssumption` or
`SequentialAssumption`, `DataSenderAssumption` (what the providers return),
`SetupAssumption`, `FirstProbeAssumption`, `ValidationAssumption` (`size_t` counts
more than the buffer). No theorem assumes anything else; TLC evaluates all of
these in the runs.

### Only model-checked

- `Termination`, `EverySocketIsRead`: liveness under fairness, and with it ENABLED,
  is beyond TLAPS.
- The properties of the four runs that expect a violation.

### How the models are written for this

Some definitions have the form they have because the provers see into it:
`Among`, `InOrder` and `Total` instead of the library's `SelectSeq`, sorting and
folds, function constructors instead of `@@`, bounds on numbers as inequalities instead of
large intervals, `Phase` of the mappings as IF instead of a CASE whose guards
overlap. `InductiveSetIsNat` is induction over a set, since the induction
theorems of the library have an operator as a parameter; `InductionUpTo` and
`StrongInduction` follow from it, and with them what the recursive functions
`Among`, `Total` and `Folded` compute.

## 5. Not modelled, or not covered

- `waitedFor` and `toString`: no decision depends on them.
- `std::async` failing to start a thread; allocation failures; `poll` timeouts
  longer than an `int`.
- Draws of keys: `createPacket` may draw any key, also one in use; the
  properties about crediting say "if no two packets drew the same key". UDP
  packets have none (`UdpResponseValidator.cpp:17` says so): all of them share
  one value of `Keys`.
- A DataSender given two sending sockets (`DataSender.cpp:31` throws, or does not
  when the first is descriptor 0): no provider returns two.
- Link-local addresses: `sin6_scope_id` is never set, and what `connect` and
  `sendto` make of that depends on the interfaces of the host.
- The list `getaddrinfo` returns (`SocketAddress.cpp:52` frees it, unless
  `inet_pton` refused the text): no behaviour depends on it.
- Not covered: probes whose reply is read before they are registered (`FastTraceroute.cpp:48`): the
  code drops the reply and may give the probe up. The model has the interleaving; no
  property forbids it, since nothing in the repository does.
- Not covered: a stream of ICMP datagrams that never lets the TCP socket be read (`Poll.cpp:25`):
  arrivals are finite. `EverySocketIsRead` says that a later socket is read once the
  earlier ones are empty, no more.
- `SystemClock` and `serialize`: one call of the library, one copy of bytes.

## 6. Plan

Done: all components that keep state, the abstract `Probing` and
`DatagramService` with the implementations of both, and the theorems above.
What is left is a proof: a call of an engine over `DataSender` instead of `Network`,
the composition that `ImplementsService` makes possible, stated as one theorem.
