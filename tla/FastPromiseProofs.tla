--------------------------- MODULE FastPromiseProofs ---------------------------
(***************************************************************************)
(* What a call of FastTraceroute returns: a report that is whole once      *)
(* every packet is settled, and what Probing promises.                     *)
(***************************************************************************)
EXTENDS FastTracerouteProofs

-------------------------------------------------------------------------------
(* The rows of a report *)

(* The ttls that were recorded, and those the target answered.             *)
TtlsOf(recorded) == {r.probe.ttl : r \in Range(recorded)}

ReachedOf(recorded) == {r.probe.ttl : r \in {q \in Range(recorded) : q.responseSender = Target}}

(* When exactly the probes asked for are recorded, so are their ttls.      *)
LEMMA TtlsOfAsked ==
    ASSUME TypeOK, Recorded = Asked, args.retries > 0
    PROVE  TtlsOf(ttlToProbeResults) = args.ttlBegin .. args.ttlEnd
  <1>1. ASSUME NEW t \in TtlsOf(ttlToProbeResults)
        PROVE  t \in args.ttlBegin .. args.ttlEnd
    <2>1. PICK r \in Range(ttlToProbeResults) : t = r.probe.ttl
      BY DEF TtlsOf
    <2>2. r.probe \in Asked
      BY DEF Recorded, ProbesOf
    <2>3. QED
      BY <2>1, <2>2 DEF Asked
  <1>2. ASSUME NEW t \in args.ttlBegin .. args.ttlEnd
        PROVE  t \in TtlsOf(ttlToProbeResults)
    <2>1. 0 \in 0 .. args.retries - 1
      BY DEF TypeOK
    <2>2. [call |-> call, ttl |-> t, retry |-> 0] \in Asked
      BY <2>1 DEF Asked
    <2>3. PICK r \in Range(ttlToProbeResults) : r.probe = [call |-> call, ttl |-> t, retry |-> 0]
      BY <2>2 DEF Recorded, ProbesOf
    <2>4. r.probe.ttl = t
      BY <2>3
    <2>5. QED
      BY <2>4 DEF TtlsOf
  <1>3. QED
    BY <1>1, <1>2

(* Each ttl then has a result for every retry.                             *)
LEMMA RetriesOfRow ==
    ASSUME TypeOK, EachProbeOnce(ttlToProbeResults), Recorded = Asked,
           NEW t \in args.ttlBegin .. args.ttlEnd
    PROVE  /\ ResultsOf(t, ttlToProbeResults) \in Seq(ProbeResult)
           /\ Len(ResultsOf(t, ttlToProbeResults)) = args.retries
           /\ Range(ResultsOf(t, ttlToProbeResults)) =
                 {r \in Range(ttlToProbeResults) : r.probe.ttl = t}
  <1> DEFINE s == ttlToProbeResults
             P == {r \in Range(s) : r.probe.ttl = t}
             name(j) == [call |-> call, ttl |-> t, retry |-> j]
             tries == 0 .. args.retries - 1
             f == [j \in tries |-> CHOOSE r \in Range(s) : r.probe = name(j)]
  <1>1. s \in Seq(ProbeResult) /\ args.retries \in Nat
    BY DEF TypeOK
  <1>2. \A q, r \in Range(s) : q.probe = r.probe => q = r
    BY DEF EachProbeOnce, Range
  <1>3. \A j, k \in 1 .. Len(s) : s[j] = s[k] => j = k
    BY <1>1, LenProperties DEF EachProbeOnce
  <1>4. Range(s) \cap P = P
    OBVIOUS
  <1> HIDE DEF P
  <1>5. /\ Among(s, P) \in Seq(ProbeResult)
        /\ Range(Among(s, P)) = P
        /\ Len(Among(s, P)) = Cardinality(P)
    <2>1. Among(s, P) \in Seq(ProbeResult)
      BY <1>1, AmongFacts
    <2>2. Range(Among(s, P)) = Range(s) \cap P
      BY <1>1, RangeOfAmong
    <2>3. Len(Among(s, P)) = Cardinality(Range(s) \cap P)
      BY <1>1, <1>3, LenOfAmong
    <2>4. QED
      BY <2>1, <2>2, <2>3, <1>4
  <1>6. \A j \in tries : f[j] \in Range(s) /\ f[j].probe = name(j)
    <2> SUFFICES ASSUME NEW j \in tries
                 PROVE  f[j] \in Range(s) /\ f[j].probe = name(j)
      OBVIOUS
    <2>1. name(j) \in Recorded
      BY DEF Asked
    <2>2. \E r \in Range(s) : r.probe = name(j)
      BY <2>1 DEF Recorded, ProbesOf
    <2>3. QED
      BY <2>2
  <1>7. DOMAIN f = tries /\ f = [j \in tries |-> f[j]]
    OBVIOUS
  <1> HIDE DEF f
  <1>8. f \in [tries -> P]
    <2>1. \A j \in tries : name(j).ttl = t
      OBVIOUS
    <2>2. \A j \in tries : f[j] \in P
      <3>1. SUFFICES ASSUME NEW j \in tries
                     PROVE  f[j] \in P
        OBVIOUS
      <3>2. f[j] \in Range(s) /\ f[j].probe.ttl = t
        BY <1>6, <2>1
      <3>3. QED
        BY <3>2 DEF P
    <2>3. QED
      BY <2>2, <1>7
  <1>9. \A j, k \in tries : f[j] = f[k] => j = k
    <2>1. \A j, k \in tries : name(j) = name(k) => j = k
      OBVIOUS
    <2>2. QED
      BY <1>6, <2>1
  <1>10. \A r \in P : \E j \in tries : f[j] = r
    <2> SUFFICES ASSUME NEW r \in P
                 PROVE  \E j \in tries : f[j] = r
      OBVIOUS
    <2>1. r \in Range(s) /\ r.probe.ttl = t
      BY DEF P
    <2>2. r.probe \in Asked
      BY <2>1 DEF Recorded, ProbesOf
    <2>3. r.probe.retry \in tries /\ r.probe = name(r.probe.retry)
      BY <2>1, <2>2 DEF Asked
    <2>4. QED
      BY <2>1, <2>3, <1>2, <1>6
  <1>11. ExistsBijection(tries, P)
    BY <1>8, <1>9, <1>10 DEF ExistsBijection, Bijection, Injection, Surjection, IsInjective
  <1>12. IsFiniteSet(tries) /\ Cardinality(tries) = args.retries
    <2>1. /\ IsFiniteSet(tries)
          /\ Cardinality(tries) =
                IF 0 > args.retries - 1 THEN 0 ELSE (args.retries - 1) - 0 + 1
      BY <1>1, FS_Interval, 0 \in Int, args.retries - 1 \in Int
    <2>2. QED
      BY <2>1, <1>1
  <1>13. Cardinality(P) = args.retries
    BY <1>11, <1>12, FS_Bijection
  <1>14. ResultsOf(t, s) = Among(s, P)
    BY DEF ResultsOf, P
  <1>15. QED
    BY <1>5, <1>13, <1>14 DEF P

(* A set of numbers cut after the first of some marked ones.               *)
LEMMA CutInterval ==
    ASSUME NEW a \in Nat, NEW b \in Nat, a <= b, NEW marked, marked \subseteq a .. b
    PROVE  \E m \in a .. b :
              /\ {t \in a .. b : \A u \in marked : t <= u} = a .. m
              /\ m = b \/ m \in marked
              /\ \A t \in a .. m : t # m => t \notin marked
  <1> DEFINE Cut == {t \in a .. b : \A u \in marked : t <= u}
  <1>1. CASE marked = {}
    <2>1. Cut = a .. b /\ b \in a .. b
      BY <1>1
    <2>2. QED
      BY <2>1, <1>1
  <1>2. CASE marked # {}
    <2> DEFINE m == Min(marked)
    <2>1. marked \in SUBSET Nat
      OBVIOUS
    <2>2. m \in marked /\ \A n \in marked : m <= n
      BY <2>1, <1>2, MinOfNaturals
    <2> HIDE DEF m
    <2>3. m \in a .. b
      BY <2>2
    <2>4. Cut = a .. m
      BY <2>2, <2>3
    <2>5. \A t \in a .. m : t # m => t \notin marked
      BY <2>2, <2>3
    <2>6. QED
      BY <2>2, <2>3, <2>4, <2>5
  <1>3. QED
    BY <1>1, <1>2

(* The report of exactly the probes asked for: a row with all retries for  *)
(* each ttl, from the first to the last or to the first the target         *)
(* answered.                                                               *)
LEMMA WholeReport ==
    ASSUME TypeOK, EachProbeOnce(ttlToProbeResults), Recorded = Asked,
           args.retries > 0, args.ttlBegin <= args.ttlEnd,
           NEW rows, rows = Report(ttlToProbeResults)
    PROVE  /\ rows # <<>>
           /\ \A k \in DOMAIN rows :
                 /\ rows[k].ttl = args.ttlBegin + k - 1
                 /\ Len(rows[k].probeResults) = args.retries
                 /\ k < Len(rows) => ~AnsweredByTarget(rows[k])
           /\ Last(rows).ttl = args.ttlEnd \/ AnsweredByTarget(Last(rows))
  <1> DEFINE s == ttlToProbeResults
             a == args.ttlBegin
             b == args.ttlEnd
             row(k) == [ttl |-> a + k - 1, probeResults |-> ResultsOf(a + k - 1, s)]
             Row == [ttl : Nat, probeResults : Seq(ProbeResult)]
  <1>1. a \in Nat /\ b \in Nat /\ a <= b /\ args.retries \in Nat
    BY DEF TypeOK
  <1>2. TtlsOf(s) = a .. b
    BY TtlsOfAsked
  <1>3. ReachedOf(s) \subseteq a .. b
    <2>1. ReachedOf(s) \subseteq TtlsOf(s)
      BY DEF ReachedOf, TtlsOf
    <2>2. QED
      BY <2>1, <1>2
  <1>4. rows = Rows({t \in a .. b : \A u \in ReachedOf(s) : t <= u}, s)
    <2>1. rows = Rows({t \in TtlsOf(s) : \A u \in ReachedOf(s) : t <= u}, s)
      BY DEF Report, TtlsOf, ReachedOf
    <2>2. QED
      BY <2>1, <1>2
  <1> HIDE DEF a, b
  <1>5. PICK m \in a .. b :
           /\ {t \in a .. b : \A u \in ReachedOf(s) : t <= u} = a .. m
           /\ m = b \/ m \in ReachedOf(s)
           /\ \A t \in a .. m : t # m => t \notin ReachedOf(s)
    BY <1>1, <1>3, CutInterval
  <1> DEFINE n == m - a + 1
  <1>6. m \in Nat /\ a <= m /\ n \in Nat \ {0}
    BY <1>1, <1>5
  <1>7. Cardinality(a .. m) = n /\ InOrder(a .. m) = [k \in 1 .. n |-> a + k - 1]
    <2>1. Cardinality(a .. m) = IF a > m THEN 0 ELSE m - a + 1
      BY <1>1, <1>6, FS_Interval, a \in Int, m \in Int
    <2>2. QED
      BY <2>1, <1>1, <1>6, InOrderOfInterval
  <1>8. rows = [k \in 1 .. n |-> row(k)]
    <2>1. rows = Rows(a .. m, s)
      BY <1>4, <1>5
    <2>2. \A k \in 1 .. n : InOrder(a .. m)[k] = a + k - 1
      BY <1>7
    <2> HIDE DEF n
    <2>3. QED
      BY <2>1, <2>2, <1>7 DEF Rows
  <1>9. \A k \in 1 .. n : a + k - 1 \in a .. m /\ a + k - 1 \in a .. b
    BY <1>1, <1>5, <1>6
  <1>10. ASSUME NEW k \in 1 .. n
         PROVE  /\ row(k) \in Row
                /\ Len(row(k).probeResults) = args.retries
                /\ AnsweredByTarget(row(k)) <=> a + k - 1 \in ReachedOf(s)
    <2> DEFINE t == a + k - 1
    <2>1. t \in a .. b /\ t \in Nat
      BY <1>1, <1>9
    <2> HIDE DEF t
    <2>2. /\ ResultsOf(t, s) \in Seq(ProbeResult)
          /\ Len(ResultsOf(t, s)) = args.retries
          /\ Range(ResultsOf(t, s)) = {r \in Range(s) : r.probe.ttl = t}
      BY <2>1, RetriesOfRow DEF a, b
    <2>3. (\E r \in Range(ResultsOf(t, s)) : r.responseSender = Target) <=> t \in ReachedOf(s)
      BY <2>2 DEF ReachedOf
    <2>4. row(k).ttl = t /\ row(k).probeResults = ResultsOf(t, s) /\ row(k) \in Row
      BY <2>1, <2>2 DEF t
    <2>5. QED
      BY <2>2, <2>3, <2>4 DEF t, AnsweredByTarget
  <1> HIDE DEF Row, n
  <1>11. Len(rows) = n /\ DOMAIN rows = 1 .. n /\ \A k \in 1 .. n : rows[k] = row(k)
    <2>1. \A k \in 1 .. n : row(k) \in Row
      BY <1>10
    <2> HIDE DEF row
    <2>2. rows \in Seq(Row) /\ DOMAIN rows = 1 .. n
      BY <2>1, <1>6, <1>8
    <2>3. QED
      BY <2>2, <1>6, <1>8, LenProperties
  <1>12. ASSUME NEW k \in 1 .. n
         PROVE  /\ rows[k].ttl = a + k - 1
                /\ Len(rows[k].probeResults) = args.retries
                /\ AnsweredByTarget(rows[k]) <=> a + k - 1 \in ReachedOf(s)
    <2>1. rows[k] = row(k) /\ row(k).ttl = a + k - 1
      BY <1>11
    <2> HIDE DEF row
    <2>2. QED
      BY <2>1, <1>10
  <1> HIDE DEF row
  <1>13. ASSUME NEW k \in 1 .. n, k < n
         PROVE  ~AnsweredByTarget(rows[k])
    <2>1. a + k - 1 \in a .. m /\ a + k - 1 # m
      BY <1>1, <1>6, <1>9, <1>13 DEF n
    <2>2. QED
      BY <2>1, <1>5, <1>12
  <1>14. Last(rows).ttl = b \/ AnsweredByTarget(Last(rows))
    <2>1. Last(rows) = rows[n] /\ n \in 1 .. n /\ a + n - 1 = m
      BY <1>1, <1>6, <1>11 DEF Last, n
    <2>2. rows[n].ttl = m /\ (AnsweredByTarget(rows[n]) <=> m \in ReachedOf(s))
      BY <2>1, <1>12
    <2>3. QED
      BY <2>1, <2>2, <1>5
  <1>15. rows # <<>>
    BY <1>6, <1>11
  <1>16. QED
    BY <1>11, <1>12, <1>13, <1>14, <1>15 DEF a, b

-------------------------------------------------------------------------------
(* The report stays what was recorded *)

(* What a call returns is the report of what it has recorded, also after   *)
(* the object is at rest again; a sender that has ended has sent all.      *)
Reported ==
    /\ outcome = "returned" => /\ rPc \in {"join", "idle"}
                               /\ results = Report(ttlToProbeResults)
    /\ sPc = "ended" => sTtl > args.ttlEnd \/ args.retries = 0

(* No call has returned yet.                                               *)
LEMMA ReportedInit == Init => Reported
  BY DEF Init, Reported

(* results is assigned once per call, by CollectResults, and cleared by    *)
(* the next beginProbing.                                                  *)
LEMMA ReportedStep ==
    ASSUME Reported, [Next]_vars
    PROVE  Reported'
  <1>1. CASE beginProbing
    BY <1>1 DEF beginProbing, Reported
  <1>2. CASE Sender
    BY <1>2 DEF Sender, SendPacket, SendFails, RegisterPacket, SendPacketsReturns, callVars,
                receiverVars, Reported
  <1>3. CASE CollectResults
    BY <1>3 DEF CollectResults, callVars, senderVars, Reported
  <1>4. CASE LockAndMatch \/ SweepGivesUp
    BY <1>4 DEF LockAndMatch, SweepGivesUp, callVars, senderVars, Reported
  <1>5. CASE \/ ReceiverBegins \/ CheckSize \/ ReceiveResponse \/ ReceiveNothing
             \/ ReceiveThrows \/ ValidationThrows \/ SweepKeeps \/ SweepEnds \/ JoinSender
    BY <1>5 DEF ReceiverBegins, CheckSize, ReceiveResponse, ReceiveNothing, ReceiveThrows,
                ValidationThrows, Throw, SweepKeeps, SweepEnds, JoinSender, callVars, senderVars,
                Reported
  <1>6. CASE Tick \/ World \/ UNCHANGED vars
    BY <1>6 DEF Tick, World, vars, callVars, senderVars, receiverVars, Reported
  <1>7. QED
    BY <1>1, <1>2, <1>3, <1>4, <1>5, <1>6 DEF Next, Receiver

(* When the sender has gone past everything and nothing is registered, the *)
(* probes recorded are those asked for.                                    *)
LEMMA AllRecorded ==
    ASSUME TypeOK, Accounting, carried = 0, mPacketsToBeValidated = <<>>,
           sTtl > args.ttlEnd
    PROVE  Recorded = Asked
  <1>1. Pending = {}
    BY DEF Pending, ProbesOf, Range
  <1>2. ASSUME NEW p \in Asked
        PROVE  p \in Recorded
    <2> DEFINE q == [call |-> call, ttl |-> p.ttl, retry |-> p.retry]
    <2>1. /\ p.ttl \in args.ttlBegin .. args.ttlEnd /\ p.retry \in 0 .. args.retries - 1
          /\ p = q
      BY DEF Asked
    <2>2. Passed(q)
      BY <2>1 DEF Passed, TypeOK
    <2>3. q \in Pending \cup Recorded
      BY <2>1, <2>2 DEF Accounting, NoProbeForgotten
    <2>4. QED
      BY <2>1, <2>3, <1>1
  <1>3. ASSUME NEW p \in Recorded
        PROVE  p \in Asked
    <2>1. p \in Probe
      <3>1. PICK k \in 1 .. Len(ttlToProbeResults) : p = ttlToProbeResults[k].probe
        BY LenProperties DEF TypeOK, Recorded, ProbesOf, Range
      <3>2. ttlToProbeResults[k] \in ProbeResult
        BY ElementOfSeq DEF TypeOK
      <3>3. QED
        BY <3>1, <3>2 DEF ProbeResult
    <2>2. p.call = call /\ Passed(p)
      BY DEF Accounting
    <2>3. QED
      BY <2>1, <2>2 DEF Passed, Asked, Probe
  <1>4. QED
    BY <1>2, <1>3

(* A call on an object without leftovers whose sender sent everything, and *)
(* after which nothing is registered, has returned the whole path: all     *)
(* retries of consecutive ttls, up to ttlEnd or to the first row in which  *)
(* the target answered.                                                    *)
THEOREM SettledIsWhole == Spec => []SettledReportIsWhole
  <1>1. Spec => []Reported
    BY ReportedInit, ReportedStep, PTL DEF Spec
  <1>2. ASSUME TypeOK, Accounting, Reported
        PROVE  SettledReportIsWhole
    <2>1. SUFFICES ASSUME outcome = "returned", sPc = "ended", carried = 0,
                          mPacketsToBeValidated = <<>>, args.retries > 0,
                          args.ttlBegin <= args.ttlEnd
                   PROVE  /\ results # <<>>
                          /\ \A k \in DOMAIN results :
                                /\ results[k].ttl = args.ttlBegin + k - 1
                                /\ Len(results[k].probeResults) = args.retries
                                /\ k < Len(results) => ~AnsweredByTarget(results[k])
                          /\ Last(results).ttl = args.ttlEnd \/ AnsweredByTarget(Last(results))
      BY DEF SettledReportIsWhole
    <2>2. sTtl > args.ttlEnd /\ results = Report(ttlToProbeResults)
      BY <1>2, <2>1 DEF Reported
    <2>3. Recorded = Asked
      BY <1>2, <2>1, <2>2, AllRecorded
    <2>4. EachProbeOnce(ttlToProbeResults)
      BY <1>2 DEF Accounting, NoProbeTwice
    <2>5. QED
      BY <1>2, <2>1, <2>2, <2>3, <2>4, WholeReport
  <1>3. QED
    BY <1>1, <1>2, Typing, AccountsAreKept, PTL

-------------------------------------------------------------------------------
(* The ledger *)

(* Ledger as a function of what it depends on.                             *)
LedgerOf(asked, recorded, pending) ==
    [p \in asked |->
        IF \E r \in recorded : r.probe = p
        THEN Verdict(CHOOSE r \in recorded : r.probe = p)
        ELSE IF p \in pending THEN "outstanding" ELSE "unsent"]

OneResultEach(recorded) ==
    \A r, s \in recorded : r.probe = s.probe => r = s

(* A probe with one result has its verdict, ...                            *)
LEMMA LedgerSettled ==
    ASSUME NEW asked, NEW recorded, NEW pending, OneResultEach(recorded),
           NEW r \in recorded, r.probe \in asked
    PROVE  LedgerOf(asked, recorded, pending)[r.probe] = Verdict(r)
  <1> DEFINE p == r.probe
             c == CHOOSE s \in recorded : s.probe = p
  <1>1. c \in recorded /\ c.probe = p
    OBVIOUS
  <1>2. c = r
    BY <1>1 DEF OneResultEach
  <1>3. LedgerOf(asked, recorded, pending)[p] = Verdict(c)
    BY DEF LedgerOf
  <1>4. QED
    BY <1>2, <1>3

(* ... and one without is outstanding or unsent.                           *)
LEMMA LedgerUnsettled ==
    ASSUME NEW asked, NEW recorded, NEW pending, NEW p \in asked,
           \A r \in recorded : r.probe # p
    PROVE  LedgerOf(asked, recorded, pending)[p]
               = IF p \in pending THEN "outstanding" ELSE "unsent"
  BY DEF LedgerOf

(* A probe registered becomes outstanding.                                 *)
LEMMA LedgerOfRegister ==
    ASSUME NEW asked, NEW recorded, NEW pending, NEW p \in asked,
           \A r \in recorded : r.probe # p
    PROVE  LedgerOf(asked, recorded, pending \cup {p}) =
               [LedgerOf(asked, recorded, pending) EXCEPT ![p] = "outstanding"]
  <1> DEFINE old == LedgerOf(asked, recorded, pending)
             new == LedgerOf(asked, recorded, pending \cup {p})
  <1>1. /\ old = [q \in asked |-> old[q]]
        /\ new = [q \in asked |-> new[q]]
    BY DEF LedgerOf
  <1>2. new[p] = "outstanding"
    BY LedgerUnsettled
  <1>3. \A q \in asked : q # p => new[q] = old[q]
    BY DEF LedgerOf
  <1> HIDE DEF old, new
  <1>4. QED
    BY <1>1, <1>2, <1>3 DEF old, new

(* A result recorded for a probe without one gives it its verdict.         *)
LEMMA LedgerOfRecord ==
    ASSUME NEW asked, NEW recorded, NEW pending, NEW result, NEW p \in asked,
           OneResultEach(recorded), result.probe = p, \A r \in recorded : r.probe # p
    PROVE  LedgerOf(asked, recorded \cup {result}, pending \ {p}) =
               [LedgerOf(asked, recorded, pending) EXCEPT ![p] = Verdict(result)]
  <1> DEFINE after == recorded \cup {result}
             left == pending \ {p}
             old == LedgerOf(asked, recorded, pending)
             new == LedgerOf(asked, after, left)
  <1>1. /\ old = [q \in asked |-> old[q]]
        /\ new = [q \in asked |-> new[q]]
    BY DEF LedgerOf
  <1>2. OneResultEach(after)
    BY DEF OneResultEach
  <1>3. /\ \A r \in recorded : r \in after
        /\ result \in after
        /\ \A r \in after : r \in recorded \/ r = result
        /\ \A q : q # p => (q \in left <=> q \in pending)
    OBVIOUS
  <1> HIDE DEF after, left
  <1>4. new[p] = Verdict(result)
    BY <1>2, <1>3, LedgerSettled
  <1>5. ASSUME NEW q \in asked, q # p
        PROVE  new[q] = old[q]
    <2>1. CASE \E r \in recorded : r.probe = q
      <3>1. PICK r \in recorded : r.probe = q
        BY <2>1
      <3>2. r \in after /\ r.probe \in asked
        BY <3>1, <1>3, <1>5
      <3>3. new[r.probe] = Verdict(r)
        BY <3>2, <1>2, LedgerSettled
      <3>4. old[r.probe] = Verdict(r)
        BY <3>2, LedgerSettled
      <3>5. QED
        BY <3>1, <3>3, <3>4
    <2>2. CASE \A r \in recorded : r.probe # q
      <3>1. \A r \in after : r.probe # q
        BY <2>2, <1>3, <1>5
      <3>2. new[q] = IF q \in left THEN "outstanding" ELSE "unsent"
        BY <3>1, <1>5, LedgerUnsettled
      <3>3. old[q] = IF q \in pending THEN "outstanding" ELSE "unsent"
        BY <2>2, <1>5, LedgerUnsettled
      <3>4. QED
        BY <3>2, <3>3, <1>3, <1>5
    <2>3. QED
      BY <2>1, <2>2
  <1> HIDE DEF old, new
  <1>6. QED
    BY <1>1, <1>4, <1>5 DEF old, new, after, left

(* Ledger is LedgerOf the variables, now ...                               *)
LEMMA LedgerNow == Ledger = LedgerOf(Known, Range(ttlToProbeResults), Pending)
  <1>1. \A p : p \in Recorded <=> \E r \in Range(ttlToProbeResults) : r.probe = p
    BY DEF Recorded, ProbesOf
  <1> HIDE DEF Recorded
  <1>2. QED
    BY <1>1 DEF Ledger, LedgerOf

(* ... and after a step.                                                   *)
LEMMA LedgerNext == Ledger' = LedgerOf(Known', Range(ttlToProbeResults'), Pending')
  <1>1. \A p : p \in Recorded' <=> \E r \in Range(ttlToProbeResults') : r.probe = p
    BY DEF Recorded, ProbesOf
  <1> HIDE DEF Recorded
  <1>2. QED
    BY <1>1 DEF Ledger, LedgerOf

-------------------------------------------------------------------------------
(* What a step shows the promise *)

(* A probe given up names no sender.                                       *)
OnlyRepliesName ==
    \A r \in Range(ttlToProbeResults) : r.responseSender = Target => r.success

(* What holds of a result before it is pushed back holds of the results.   *)
LEMMA RecordKeepsNames ==
    ASSUME TypeOK, OnlyRepliesName, NEW result \in ProbeResult,
           result.responseSender = Target => result.success,
           ttlToProbeResults' = Append(ttlToProbeResults, result)
    PROVE  OnlyRepliesName'
  <1>1. Range(ttlToProbeResults') = Range(ttlToProbeResults) \cup {result}
    BY RangeOfAppend DEF TypeOK
  <1>2. QED
    BY <1>1 DEF OnlyRepliesName

(* failedProbe is the only result without success, and it names nobody.    *)
LEMMA OnlyRepliesNameStep ==
    ASSUME TypeOK, OnlyRepliesName, [Next]_vars
    PROVE  OnlyRepliesName'
  <1>1. CASE ttlToProbeResults' \in {ttlToProbeResults, <<>>}
    BY <1>1 DEF OnlyRepliesName, Range
  <1>2. CASE LockAndMatch
    <2> DEFINE k == IF respInfo = nullopt THEN 0 ELSE ValidPacket(respInfo)
               result == successProbe(mPacketsToBeValidated[k].probe, respInfo)
    <2>1. \/ UNCHANGED ttlToProbeResults
          \/ k # 0 /\ ttlToProbeResults' = Append(ttlToProbeResults, result)
      BY <1>2 DEF LockAndMatch
    <2>2. CASE k # 0 /\ ttlToProbeResults' = Append(ttlToProbeResults, result)
      <3>1. /\ k \in 1 .. Len(mPacketsToBeValidated)
            /\ isValid(mPacketsToBeValidated[k], respInfo)
        BY <2>2, ValidPacketFound, LenProperties DEF TypeOK
      <3>2. result \in ProbeResult /\ result.success
        <4>1. mPacketsToBeValidated[k] \in PacketToValidate
          BY <3>1, ElementOfSeq DEF TypeOK
        <4> HIDE DEF k
        <4>2. result \in ProbeResult
          BY <3>1, <4>1, SuccessType DEF TypeOK
        <4>3. QED
          BY <4>2 DEF successProbe
      <3> HIDE DEF result
      <3>3. QED
        BY <2>2, <3>2, RecordKeepsNames
    <2>3. QED
      BY <1>1, <2>1, <2>2
  <1>3. CASE SweepGivesUp
    <2> DEFINE result == failedProbe(mPacketsToBeValidated[it].probe)
    <2>1. it \in 1 .. Len(mPacketsToBeValidated)
          /\ ttlToProbeResults' = Append(ttlToProbeResults, result)
      BY <1>3, GiveUpType DEF SweepGivesUp
    <2>2. result \in ProbeResult
      BY <2>1, ElementOfSeq, FailureType DEF TypeOK
    <2>3. result.responseSender # Target
      BY DEF failedProbe, Nobody, Target
    <2> HIDE DEF result
    <2>4. QED
      BY <2>1, <2>2, <2>3, RecordKeepsNames
  <1>4. QED
    BY <1>1, <1>2, <1>3
       DEF Next, beginProbing, Sender, SendPacket, SendFails, RegisterPacket, SendPacketsReturns,
           Receiver, ReceiverBegins, CheckSize, ReceiveResponse, ReceiveNothing, ReceiveThrows,
           ValidationThrows, Throw, SweepKeeps, SweepEnds, CollectResults, JoinSender, Tick, World,
           vars, receiverVars

(* Only a reply makes the target the sender of a result.                   *)
LEMMA OnlyRepliesAreNamed == Spec => []OnlyRepliesName
  <1>1. Init => OnlyRepliesName
    BY DEF Init, OnlyRepliesName, Range
  <1>2. QED
    BY <1>1, OnlyRepliesNameStep, Typing, PTL DEF Spec

(* No probe has two results.                                               *)
LEMMA OneResult ==
    ASSUME Accounting
    PROVE  OneResultEach(Range(ttlToProbeResults))
  BY DEF OneResultEach, Accounting, NoProbeTwice, EachProbeOnce, Range

(* What the promise is shown besides call, Known and Ledger.               *)
PhaseShown  == IF rPc = "idle" THEN "idle" ELSE IF rPc = "join" THEN "ending" ELSE "probing"
ReportShown == Verdicts(results)

(* A step that changes none of it is none of the promise.                  *)
LEMMA NothingHappens ==
    ASSUME UNCHANGED <<call, results>>, Known' = Known, Ledger' = Ledger,
           \/ UNCHANGED rPc
           \/ rPc \notin {"idle", "join"} /\ rPc' \notin {"idle", "join"}
    PROVE  UNCHANGED Promise!vars
  <1>1. PhaseShown' = PhaseShown
    BY DEF PhaseShown
  <1>2. ReportShown' = ReportShown
    BY DEF ReportShown, Verdicts
  <1>3. QED
    BY <1>1, <1>2 DEF Promise!vars, PhaseShown, ReportShown

(* A step that moves no probe leaves the ledger as it is.                  *)
LEMMA SameLedger ==
    ASSUME UNCHANGED <<call, args, ttlToProbeResults>>, Pending' = Pending
    PROVE  Known' = Known /\ Ledger' = Ledger
  <1>1. Known' = Known
    BY DEF Known, Asked, Recorded, ProbesOf
  <1>2. QED
    BY <1>1, LedgerNow, LedgerNext

(* What the next call may still settle is what is registered.              *)
LEMMA LeftOverIsPending ==
    ASSUME Accounting
    PROVE  Promise!LeftOver = Pending
  <1>1. Pending \cap Recorded = {}
    BY DEF Accounting, NoProbeTwice
  <1>2. \A p \in Known : Ledger[p] = "outstanding" <=> p \in Pending
    <2>1. \A p \in Known : p \in Recorded => Ledger[p] # "outstanding"
      BY DEF Ledger, Verdict, Target
    <2>2. \A p \in Known : p \notin Recorded =>
             Ledger[p] = IF p \in Pending THEN "outstanding" ELSE "unsent"
      BY DEF Ledger
    <2>3. QED
      BY <1>1, <2>1, <2>2
  <1>3. Pending \subseteq Known
    BY DEF Known
  <1> HIDE DEF Known, Ledger, Pending
  <1>4. QED
    BY <1>2, <1>3 DEF Promise!LeftOver

(* The probes asked for are those of the arguments, named by the call.     *)
LEMMA AskedIsNamed ==
    ASSUME NEW n, NEW a
    PROVE  Promise!Named(n, AskedByArgs(a)) =
              [call : {n}, ttl : a.ttlBegin .. a.ttlEnd, retry : 0 .. a.retries - 1]
  <1> DEFINE ttls == a.ttlBegin .. a.ttlEnd
             tries == 0 .. a.retries - 1
             all == [call : {n}, ttl : ttls, retry : tries]
             args1 == [ttl : ttls, retry : tries]
  <1> HIDE DEF ttls, tries
  <1>1. ASSUME NEW p \in args1
        PROVE  [call |-> n, ttl |-> p.ttl, retry |-> p.retry] \in all
    OBVIOUS
  <1>2. ASSUME NEW q \in all
        PROVE  \E p \in args1 : q = [call |-> n, ttl |-> p.ttl, retry |-> p.retry]
    <2>1. [ttl |-> q.ttl, retry |-> q.retry] \in args1
      OBVIOUS
    <2>2. q = [call |-> n, ttl |-> q.ttl, retry |-> q.retry]
      OBVIOUS
    <2>3. QED
      BY <2>1, <2>2
  <1>3. Promise!Named(n, AskedByArgs(a)) =
           {[call |-> n, ttl |-> p.ttl, retry |-> p.retry] : p \in args1}
    BY DEF Promise!Named, AskedByArgs, ttls, tries
  <1> HIDE DEF all, args1
  <1>4. {[call |-> n, ttl |-> p.ttl, retry |-> p.retry] : p \in args1} = all
    BY <1>1, <1>2
  <1>5. QED
    BY <1>3, <1>4 DEF all, ttls, tries

(* Beginning a call, on an object that may still hold packets of others.   *)
LEMMA BeginningIsBegin ==
    ASSUME TypeOK, Accounting, beginProbing
    PROVE  Promise!Begin
  <1>1. /\ rPc = "idle" /\ rPc' = "begin"
        /\ call' = call + 1
        /\ ttlToProbeResults' = <<>> /\ results' = <<>>
        /\ Pending' = Pending
    BY DEF beginProbing, Pending
  <1>2. PICK a \in Args : args' = a
    BY DEF beginProbing
  <1>3. Recorded' = {} /\ Range(ttlToProbeResults') = {}
    BY <1>1 DEF Recorded, ProbesOf, Range
  <1>4. Known' = Promise!Named(call', AskedByArgs(a)) \cup Pending
    <2>1. Asked' = Promise!Named(call', AskedByArgs(a))
      BY <1>2, AskedIsNamed DEF Asked
    <2> HIDE DEF Asked, Pending, Recorded
    <2>2. QED
      BY <2>1, <1>1, <1>3 DEF Known
  <1>5. Ledger' = [p \in Known' |-> IF p \in Pending THEN "outstanding" ELSE "unsent"]
    <2>1. Ledger' = LedgerOf(Known', {}, Pending)
      BY <1>1, <1>3, LedgerNext
    <2>2. QED
      BY <2>1 DEF LedgerOf
  <1>6. PhaseShown = "idle" /\ PhaseShown' = "probing"
    BY <1>1 DEF PhaseShown
  <1>7. ReportShown' = {}
    BY <1>1 DEF ReportShown, Verdicts, Range
  <1>8. /\ \E probes \in {AskedByArgs(b) : b \in Args} :
              Known' = Promise!Named(call', probes) \cup Promise!LeftOver
        /\ Ledger' = [p \in Known' |->
                          IF p \in Promise!LeftOver THEN "outstanding" ELSE "unsent"]
    BY <1>4, <1>5, LeftOverIsPending, AskedByArgs(a) \in {AskedByArgs(b) : b \in Args}
  <1>9. QED
    BY <1>1, <1>6, <1>7, <1>8 DEF Promise!Begin, PhaseShown, ReportShown

(* Registering a packet.                                                   *)
LEMMA RegisteringIsSend ==
    ASSUME TypeOK, Accounting, RegisterPacket
    PROVE  \E p \in Known : Promise!Send(p)
  <1> DEFINE p == sPacket.probe
             e == [probe |-> sPacket.probe, key |-> sPacket.key, age |-> 0]
  <1>1. /\ p = [call |-> call, ttl |-> sTtl, retry |-> sRetry]
        /\ sTtl <= args.ttlEnd /\ sRetry < args.retries /\ sTtl >= args.ttlBegin
        /\ sTtl \in Nat /\ sRetry \in Nat
        /\ rPc # "idle"
        /\ mPacketsToBeValidated' = Append(mPacketsToBeValidated, e)
        /\ UNCHANGED <<call, args, rPc, ttlToProbeResults, results>>
    BY DEF RegisterPacket, Accounting, TypeOK, callVars, receiverVars
  <1>2. p \in Asked /\ p.call = call /\ p.ttl = sTtl /\ p.retry = sRetry
    BY <1>1 DEF Asked, TypeOK
  <1>3. Pending' = Pending \cup {p}
    <2>1. mPacketsToBeValidated \in Seq(PacketToValidate) /\ sPacket \in Packet
      BY DEF TypeOK, RegisterPacket
    <2>2. e \in PacketToValidate /\ e.probe = p
      BY <2>1, TracerouteAssumption DEF Packet, PacketToValidate, Age, AgeCap
    <2> HIDE DEF e, p
    <2>3. QED
      BY <1>1, <2>1, <2>2, ProbesOfAppend DEF Pending
  <1>4. p \notin Pending \cup Recorded
    <2>1. SUFFICES ASSUME p \in Pending \cup Recorded
                   PROVE  FALSE
      OBVIOUS
    <2>2. Passed(p)
      BY <1>2, <2>1 DEF Accounting
    <2>3. QED
      BY <1>1, <1>2, <2>2 DEF Passed
  <1> HIDE DEF p
  <1>5. Known' = Known /\ p \in Known
    <2>1. Asked' = Asked /\ Recorded' = Recorded
      BY <1>1 DEF Asked, Recorded, ProbesOf
    <2> HIDE DEF Asked, Recorded, Pending
    <2>2. QED
      BY <2>1, <1>2, <1>3 DEF Known
  <1>6. \A r \in Range(ttlToProbeResults) : r.probe # p
    BY <1>4 DEF Recorded, ProbesOf
  <1>7. /\ Ledger = LedgerOf(Known, Range(ttlToProbeResults), Pending)
        /\ Ledger' = LedgerOf(Known, Range(ttlToProbeResults), Pending \cup {p})
    BY <1>1, <1>3, <1>5, LedgerNow, LedgerNext
  <1>8. Ledger' = [Ledger EXCEPT ![p] = "outstanding"]
    <2> DEFINE recorded == Range(ttlToProbeResults)
    <2>1. p \in Known /\ \A r \in recorded : r.probe # p
      BY <1>5, <1>6
    <2>2. /\ Ledger = LedgerOf(Known, recorded, Pending)
          /\ Ledger' = LedgerOf(Known, recorded, Pending \cup {p})
      BY <1>7
    <2> HIDE DEF recorded
    <2>3. LedgerOf(Known, recorded, Pending \cup {p}) =
             [LedgerOf(Known, recorded, Pending) EXCEPT ![p] = "outstanding"]
      BY <2>1, LedgerOfRegister
    <2>4. QED
      BY <2>2, <2>3
  <1>9. Ledger[p] = "unsent"
    BY <1>4, <1>5, <1>6, <1>7, LedgerUnsettled
  <1>10. ASSUME NEW q \in Known, Ledger[q] = "unsent"
         PROVE  ~Promise!Before(q, p)
    <2>1. q \notin Recorded
      <3>1. SUFFICES ASSUME NEW r \in Range(ttlToProbeResults), r.probe = q
                     PROVE  FALSE
        BY DEF Recorded, ProbesOf
      <3>2. Ledger[r.probe] = Verdict(r)
        BY <1>7, <3>1, OneResult, LedgerSettled
      <3>3. QED
        BY <3>1, <3>2, <1>10 DEF Verdict, Target
    <2>2. q \notin Pending
      BY <1>10, <2>1 DEF Ledger
    <2>3. q \in Asked
      BY <2>1, <2>2 DEF Known
    <2>4. /\ q = [call |-> call, ttl |-> q.ttl, retry |-> q.retry]
          /\ q.ttl \in args.ttlBegin .. args.ttlEnd /\ q.retry \in 0 .. args.retries - 1
      BY <2>3 DEF Asked
    <2>5. ~Passed(q)
      <3> DEFINE m == [call |-> call, ttl |-> q.ttl, retry |-> q.retry]
      <3>1. Passed(m) <=> m \in Pending \cup Recorded
        BY <2>4 DEF Accounting, NoProbeForgotten
      <3>2. q = m
        BY <2>4
      <3> HIDE DEF m
      <3>3. QED
        BY <3>1, <3>2, <2>1, <2>2
    <2>6. ~(q.ttl < sTtl \/ (q.ttl = sTtl /\ q.retry < sRetry))
      BY <2>3, <2>4, <2>5 DEF Passed, Asked
    <2>7. QED
      BY <2>6, <1>2 DEF Promise!Before
  <1>11. Promise!Send(p)
    <2>1. PhaseShown \in {"probing", "ending"} /\ PhaseShown' = PhaseShown
      BY <1>1 DEF PhaseShown
    <2>2. ReportShown' = ReportShown
      BY <1>1 DEF ReportShown, Verdicts
    <2>3. QED
      BY <2>1, <2>2, <1>1, <1>5, <1>8, <1>9, <1>10 DEF Promise!Send, PhaseShown, ReportShown
  <1>12. QED
    BY <1>5, <1>11

(* Recording the result of a registered packet, of this call or another.   *)
LEMMA RecordingIsSettle ==
    ASSUME TypeOK, Accounting,
           NEW k \in 1 .. Len(mPacketsToBeValidated),
           NEW result \in ProbeResult, result.probe = mPacketsToBeValidated[k].probe,
           mPacketsToBeValidated' = RemoveAt(mPacketsToBeValidated, k),
           ttlToProbeResults' = Append(ttlToProbeResults, result),
           rPc \notin {"idle", "join"}, rPc' \notin {"idle", "join"},
           UNCHANGED <<call, args, results>>
    PROVE  \E p \in Known, verdict \in Promise!Verdicts : Promise!Settle(p, verdict)
  <1> DEFINE p == mPacketsToBeValidated[k].probe
  <1>1. /\ mPacketsToBeValidated \in Seq(PacketToValidate)
        /\ ttlToProbeResults \in Seq(ProbeResult)
        /\ EachProbeOnce(mPacketsToBeValidated)
        /\ Pending \cap Recorded = {}
    BY DEF TypeOK, Accounting, NoProbeTwice
  <1>2. Pending' = Pending \ {p} /\ p \in Pending
    BY <1>1, ProbesOfRemoveAt DEF Pending
  <1>3. Range(ttlToProbeResults') = Range(ttlToProbeResults) \cup {result}
    BY <1>1, RangeOfAppend
  <1>4. result.probe = p
    OBVIOUS
  <1> HIDE DEF p
  <1>5. Recorded' = Recorded \cup {p}
    BY <1>3, <1>4 DEF Recorded, ProbesOf
  <1>6. \A r \in Range(ttlToProbeResults) : r.probe # p
    BY <1>1, <1>2 DEF Recorded, ProbesOf
  <1>7. Known' = Known /\ p \in Known
    <2>1. Asked' = Asked
      BY DEF Asked
    <2> HIDE DEF Asked, Recorded, Pending
    <2>2. QED
      BY <2>1, <1>2, <1>5 DEF Known
  <1>8. /\ Ledger = LedgerOf(Known, Range(ttlToProbeResults), Pending)
        /\ Ledger' = LedgerOf(Known, Range(ttlToProbeResults) \cup {result}, Pending \ {p})
    BY <1>2, <1>3, <1>7, LedgerNow, LedgerNext
  <1>9. Ledger' = [Ledger EXCEPT ![p] = Verdict(result)]
    <2> DEFINE known == Known
               recorded == Range(ttlToProbeResults)
               pending == Pending
    <2>1. OneResultEach(recorded)
      BY OneResult
    <2>2. p \in known /\ \A r \in recorded : r.probe # p
      BY <1>6, <1>7
    <2>3. /\ Ledger = LedgerOf(known, recorded, pending)
          /\ Ledger' = LedgerOf(known, recorded \cup {result}, pending \ {p})
      BY <1>8
    <2> HIDE DEF known, recorded, pending
    <2>4. LedgerOf(known, recorded \cup {result}, pending \ {p}) =
             [LedgerOf(known, recorded, pending) EXCEPT ![p] = Verdict(result)]
      BY <2>1, <2>2, <1>4, LedgerOfRecord
    <2>5. QED
      BY <2>3, <2>4
  <1>10. Ledger[p] = "outstanding"
    BY <1>2, <1>6, <1>7, <1>8, LedgerUnsettled
  <1>11. Verdict(result) \in Promise!Verdicts
    BY DEF Verdict, Promise!Verdicts
  <1>12. Promise!Settle(p, Verdict(result))
    <2>1. PhaseShown = "probing" /\ PhaseShown' = PhaseShown
      BY DEF PhaseShown
    <2>2. ReportShown' = ReportShown
      BY DEF ReportShown, Verdicts
    <2>3. QED
      BY <2>1, <2>2, <1>7, <1>9, <1>10 DEF Promise!Settle, PhaseShown, ReportShown
  <1>13. QED
    BY <1>7, <1>11, <1>12

(* Ending the call by an exception, ...                                    *)
LEMMA ThrowingIsAbort ==
    ASSUME rPc \notin {"idle", "join"}, Throw
    PROVE  Promise!Abort
  <1>1. /\ UNCHANGED <<call, args, results, ttlToProbeResults, mPacketsToBeValidated>>
        /\ rPc' = "join"
    BY DEF Throw, callVars
  <1>2. Known' = Known /\ Ledger' = Ledger
    BY <1>1, SameLedger DEF Pending
  <1>3. PhaseShown = "probing" /\ PhaseShown' = "ending"
    BY <1>1 DEF PhaseShown
  <1>4. ReportShown' = ReportShown
    BY <1>1 DEF ReportShown, Verdicts
  <1>5. QED
    BY <1>1, <1>2, <1>3, <1>4 DEF Promise!Abort, Promise!Ends, PhaseShown, ReportShown

(* ... and leaving it when the sender has ended.                           *)
LEMMA JoiningIsFinish ==
    ASSUME JoinSender
    PROVE  Promise!Finish
  <1>1. /\ UNCHANGED <<call, args, results, ttlToProbeResults, mPacketsToBeValidated>>
        /\ rPc = "join" /\ rPc' = "idle"
    BY DEF JoinSender, callVars
  <1>2. Known' = Known /\ Ledger' = Ledger
    BY <1>1, SameLedger DEF Pending
  <1>3. PhaseShown = "ending" /\ PhaseShown' = "idle"
    BY <1>1 DEF PhaseShown
  <1>4. ReportShown' = ReportShown
    BY <1>1 DEF ReportShown, Verdicts
  <1>5. QED
    BY <1>1, <1>2, <1>3, <1>4 DEF Promise!Finish, PhaseShown, ReportShown

(* The verdicts in a report: those of the results up to the nearest ttl    *)
(* from which the target answered.                                         *)
LEMMA VerdictsOfReport ==
    ASSUME NEW s \in Seq(ProbeResult)
    PROVE  Verdicts(Report(s)) =
              {[probe |-> r.probe, verdict |-> Verdict(r)] : r \in
                  {q \in Range(s) : \A u \in ReachedOf(s) : q.probe.ttl <= u}}
  <1> DEFINE Cut == {t \in TtlsOf(s) : \A u \in ReachedOf(s) : t <= u}
             n == Cardinality(Cut)
             rows == Report(s)
             shown == {q \in Range(s) : \A u \in ReachedOf(s) : q.probe.ttl <= u}
  <1>1. rows = Rows(Cut, s)
    BY DEF Report, TtlsOf, ReachedOf
  <1>2. TtlsOf(s) \in SUBSET Nat /\ IsFiniteSet(TtlsOf(s))
    <2> DEFINE m == Len(s)
               f == [k \in 1 .. m |-> s[k].probe.ttl]
    <2>1. m \in Nat /\ DOMAIN s = 1 .. m /\ \A k \in 1 .. m : s[k] \in ProbeResult
      BY LenProperties, ElementOfSeq
    <2> HIDE DEF m
    <2>2. TtlsOf(s) = {s[k].probe.ttl : k \in 1 .. m}
      BY <2>1 DEF TtlsOf, Range
    <2>3. \A k \in 1 .. m : s[k].probe.ttl \in Nat
      BY <2>1 DEF ProbeResult, Probe
    <2>4. f \in Surjection(1 .. m, TtlsOf(s))
      BY <2>2 DEF Surjection
    <2>5. IsFiniteSet(1 .. m)
      BY <2>1, FS_Interval
    <2>6. QED
      BY <2>2, <2>3, <2>4, <2>5, FS_Surjection
  <1>3. Cut \in SUBSET Nat /\ IsFiniteSet(Cut)
    BY <1>2, FS_Subset
  <1>4. /\ \A t \in Cut : t \in TtlsOf(s)
        /\ \A r \in shown : r \in Range(s) /\ r.probe.ttl \in Cut
        /\ \A r \in Range(s) : r.probe.ttl \in Cut => r \in shown
    BY DEF TtlsOf
  <1> HIDE DEF Cut, shown
  <1>5. /\ InOrder(Cut) \in [1 .. n -> Cut]
        /\ \A t \in Cut : \E k \in 1 .. n : InOrder(Cut)[k] = t
    BY <1>3, InOrderFacts
  <1>6. \A t : Range(ResultsOf(t, s)) = {r \in Range(s) : r.probe.ttl = t}
    <2>1. SUFFICES ASSUME NEW t
                   PROVE  Range(ResultsOf(t, s)) = {r \in Range(s) : r.probe.ttl = t}
      OBVIOUS
    <2> DEFINE P == {r \in Range(s) : r.probe.ttl = t}
    <2>2. Range(s) \cap P = P /\ ResultsOf(t, s) = Among(s, P)
      BY DEF ResultsOf
    <2> HIDE DEF P
    <2>3. Range(Among(s, P)) = Range(s) \cap P
      BY RangeOfAmong
    <2>4. QED
      BY <2>2, <2>3 DEF P
  <1>7. UNION {Range(row.probeResults) : row \in Range(rows)} = shown
    <2>1. /\ DOMAIN rows = 1 .. n
          /\ \A k \in 1 .. n : rows[k].probeResults = ResultsOf(InOrder(Cut)[k], s)
      BY <1>1 DEF Rows
    <2> HIDE DEF rows, n
    <2>2. ASSUME NEW r \in UNION {Range(row.probeResults) : row \in Range(rows)}
          PROVE  r \in shown
      <3>1. PICK k \in 1 .. n : r \in Range(rows[k].probeResults)
        BY <2>1 DEF Range
      <3>2. r \in Range(s) /\ r.probe.ttl = InOrder(Cut)[k]
        BY <3>1, <2>1, <1>6
      <3>3. InOrder(Cut)[k] \in Cut
        BY <1>5
      <3>4. QED
        BY <3>2, <3>3, <1>4
    <2>3. ASSUME NEW r \in shown
          PROVE  r \in UNION {Range(row.probeResults) : row \in Range(rows)}
      <3>1. r \in Range(s) /\ r.probe.ttl \in Cut
        BY <1>4
      <3>2. PICK k \in 1 .. n : InOrder(Cut)[k] = r.probe.ttl
        BY <3>1, <1>5
      <3>3. r \in Range(rows[k].probeResults)
        BY <3>1, <3>2, <2>1, <1>6
      <3>4. rows[k] \in Range(rows)
        BY <2>1 DEF Range
      <3>5. QED
        BY <3>3, <3>4
    <2>4. QED
      BY <2>2, <2>3
  <1> HIDE DEF rows
  <1>8. Verdicts(rows) = {[probe |-> r.probe, verdict |-> Verdict(r)] : r \in shown}
    BY <1>7 DEF Verdicts
  <1>9. QED
    BY <1>8 DEF rows, shown

(* Collecting the results.                                                 *)
LEMMA CollectingIsReturn ==
    ASSUME TypeOK, Accounting, OnlyRepliesName, CollectResults
    PROVE  Promise!Return
  <1> DEFINE s == ttlToProbeResults
             A == Known
             shown == {q \in Range(s) : \A u \in ReachedOf(s) : q.probe.ttl <= u}
             settled == {q \in A : /\ Ledger[q] \in Promise!Verdicts
                                   /\ \A r \in A : Ledger[r] = Target => q.ttl <= r.ttl}
             reported == {[probe |-> q, verdict |-> Ledger[q]] : q \in settled}
             listed == {[probe |-> r.probe, verdict |-> Verdict(r)] : r \in shown}
  <1>1. /\ UNCHANGED <<call, args, ttlToProbeResults, mPacketsToBeValidated>>
        /\ rPc = "collect" /\ rPc' = "join" /\ results' = Report(s)
    BY DEF CollectResults, callVars
  <1>2. s \in Seq(ProbeResult) /\ OneResultEach(Range(s))
    BY OneResult DEF TypeOK
  <1>3. Verdicts(Report(s)) = listed
    BY <1>2, VerdictsOfReport
  <1>4. Ledger = LedgerOf(A, Range(s), Pending)
    BY LedgerNow
  <1>5. \A r \in Range(s) : r.probe \in A /\ Ledger[r.probe] = Verdict(r)
    <2>1. SUFFICES ASSUME NEW r \in Range(s)
                   PROVE  r.probe \in A /\ Ledger[r.probe] = Verdict(r)
      OBVIOUS
    <2>2. r.probe \in A
      BY DEF Known, Recorded, ProbesOf
    <2>3. QED
      BY <2>2, <1>2, <1>4, LedgerSettled
  <1>6. \A q \in A : Ledger[q] \in Promise!Verdicts => \E r \in Range(s) : r.probe = q
    <2>1. \A q \in A : (\A r \in Range(s) : r.probe # q)
                          => Ledger[q] \in {"outstanding", "unsent"}
      BY <1>4, LedgerUnsettled
    <2>2. QED
      BY <2>1 DEF Promise!Verdicts, Target
  <1>7. \A r \in Range(s) : /\ Verdict(r) \in Promise!Verdicts
                            /\ Verdict(r) = Target => r.responseSender = Target
    BY DEF Verdict, Promise!Verdicts, Target
  <1>8. ASSUME NEW r \in Range(s), r.responseSender = Target
        PROVE  Verdict(r) = Target
    BY <1>8 DEF OnlyRepliesName, Verdict
  <1> HIDE DEF A
  <1>9. ASSUME NEW r \in shown
        PROVE  [probe |-> r.probe, verdict |-> Verdict(r)] \in reported
    <2>1. r \in Range(s) /\ \A u \in ReachedOf(s) : r.probe.ttl <= u
      OBVIOUS
    <2>2. ASSUME NEW q \in A, Ledger[q] = Target
          PROVE  r.probe.ttl <= q.ttl
      <3>1. PICK v \in Range(s) : v.probe = q
        BY <2>2, <1>6 DEF Promise!Verdicts
      <3>2. v.responseSender = Target
        BY <3>1, <2>2, <1>5, <1>7
      <3>3. v.probe.ttl \in ReachedOf(s)
        BY <3>2 DEF ReachedOf
      <3>4. QED
        BY <3>1, <3>3, <2>1
    <2>3. r.probe \in settled
      BY <2>1, <2>2, <1>5, <1>7
    <2>4. QED
      BY <2>1, <2>3, <1>5
  <1>10. ASSUME NEW q \in settled
         PROVE  [probe |-> q, verdict |-> Ledger[q]] \in listed
    <2>1. PICK r \in Range(s) : r.probe = q
      BY <1>6
    <2>2. ASSUME NEW u \in ReachedOf(s)
          PROVE  r.probe.ttl <= u
      <3>1. PICK v \in Range(s) : v.responseSender = Target /\ v.probe.ttl = u
        BY DEF ReachedOf
      <3>2. Ledger[v.probe] = Target /\ v.probe \in A
        BY <3>1, <1>5, <1>8
      <3>3. q.ttl <= v.probe.ttl
        BY <3>2
      <3>4. QED
        BY <3>1, <3>3, <2>1, <1>5
    <2>3. r \in shown
      BY <2>2
    <2>4. Ledger[q] = Verdict(r)
      BY <2>1, <1>5
    <2>5. QED
      BY <2>1, <2>3, <2>4
  <1>11. listed = reported
    <2>1. \A x \in listed : x \in reported
      BY <1>9
    <2>2. \A x \in reported : x \in listed
      BY <1>10
    <2> HIDE DEF listed, reported
    <2>3. QED
      BY <2>1, <2>2
  <1>12. Known' = Known /\ Ledger' = Ledger
    BY <1>1, SameLedger DEF Pending
  <1>13. PhaseShown = "probing" /\ PhaseShown' = "ending"
    BY <1>1 DEF PhaseShown
  <1>14. ReportShown' = reported
    <2>1. ReportShown' = Verdicts(Report(s))
      BY <1>1 DEF ReportShown, Verdicts
    <2> HIDE DEF listed, reported, s
    <2>2. QED
      BY <2>1, <1>3, <1>11
  <1>15. ReportShown' =
            {[probe |-> q, verdict |-> Ledger[q]] : q \in
                {q \in Known : /\ Ledger[q] \in Promise!Verdicts
                               /\ \A r \in Known : Ledger[r] = Target => q.ttl <= r.ttl}}
    BY <1>14 DEF A
  <1>16. QED
    BY <1>1, <1>12, <1>13, <1>15 DEF Promise!Return, Promise!Ends, PhaseShown, ReportShown

-------------------------------------------------------------------------------
(* The refinement *)

(* An engine at rest has promised nothing.                                 *)
LEMMA InitIsInit == Init => Promise!Init
  <1> SUFFICES ASSUME Init
               PROVE  Promise!Init
    OBVIOUS
  <1>1. Asked = {}
    <2>1. 0 .. args.retries - 1 = {}
      BY DEF Init
    <2>2. QED
      BY <2>1 DEF Asked
  <1>2. Pending = {} /\ Recorded = {}
    BY DEF Init, Pending, Recorded, ProbesOf, Range
  <1>3. Known = {}
    BY <1>1, <1>2 DEF Known
  <1>4. Ledger = <<>>
    BY <1>3 DEF Ledger
  <1>5. Verdicts(results) = {}
    BY DEF Init, Verdicts, Range
  <1>6. QED
    BY <1>3, <1>4, <1>5 DEF Init, Promise!Init

(* Every step of the receiving thread is one of the promise or none, ...   *)
LEMMA ReceiverKeepsPromise ==
    ASSUME TypeOK, Accounting, OnlyRepliesName, Receiver
    PROVE  [Promise!Next]_(Promise!vars)
  <1>1. CASE LockAndMatch
    <2> DEFINE k == IF respInfo = nullopt THEN 0 ELSE ValidPacket(respInfo)
               result == successProbe(mPacketsToBeValidated[k].probe, respInfo)
    <2>1. /\ rPc \notin {"idle", "join"} /\ rPc' \notin {"idle", "join"}
          /\ UNCHANGED <<call, args, results>>
      BY <1>1 DEF LockAndMatch, callVars
    <2>2. CASE k = 0
      <3>1. UNCHANGED <<ttlToProbeResults, mPacketsToBeValidated>>
        BY <1>1, <2>2 DEF LockAndMatch
      <3>2. Known' = Known /\ Ledger' = Ledger
        BY <3>1, <2>1, SameLedger DEF Pending
      <3>3. QED
        BY <2>1, <3>2, NothingHappens
    <2>3. CASE k # 0
      <3>1. /\ k \in 1 .. Len(mPacketsToBeValidated)
            /\ isValid(mPacketsToBeValidated[k], respInfo)
        BY <2>3, ValidPacketFound, LenProperties DEF TypeOK
      <3>2. /\ ttlToProbeResults' = Append(ttlToProbeResults, result)
            /\ mPacketsToBeValidated' = RemoveAt(mPacketsToBeValidated, k)
        BY <1>1, <2>3 DEF LockAndMatch, ErasePacket
      <3> HIDE DEF k
      <3>3. mPacketsToBeValidated[k] \in PacketToValidate
        BY <3>1, ElementOfSeq DEF TypeOK
      <3>4. result \in ProbeResult /\ result.probe = mPacketsToBeValidated[k].probe
        BY <3>1, <3>3, SuccessType DEF TypeOK, successProbe
      <3> HIDE DEF result
      <3>5. \E p \in Known, verdict \in Promise!Verdicts : Promise!Settle(p, verdict)
        BY <2>1, <3>1, <3>2, <3>4, RecordingIsSettle
      <3>6. QED
        BY <3>5 DEF Promise!Next
    <2>4. QED
      BY <2>2, <2>3
  <1>2. CASE SweepGivesUp
    <2> DEFINE result == failedProbe(mPacketsToBeValidated[it].probe)
    <2>1. /\ it \in 1 .. Len(mPacketsToBeValidated)
          /\ ttlToProbeResults' = Append(ttlToProbeResults, result)
          /\ mPacketsToBeValidated' = RemoveAt(mPacketsToBeValidated, it)
          /\ rPc \notin {"idle", "join"} /\ rPc' \notin {"idle", "join"}
          /\ UNCHANGED <<call, args, results>>
      BY <1>2, GiveUpType DEF SweepGivesUp, ErasePacket, callVars
    <2>2. result \in ProbeResult /\ result.probe = mPacketsToBeValidated[it].probe
      BY <2>1, ElementOfSeq, FailureType DEF TypeOK, failedProbe
    <2> HIDE DEF result
    <2>3. \E p \in Known, verdict \in Promise!Verdicts : Promise!Settle(p, verdict)
      BY <2>1, <2>2, RecordingIsSettle
    <2>4. QED
      BY <2>3 DEF Promise!Next
  <1>3. CASE ReceiveThrows \/ ValidationThrows
    <2>1. rPc \notin {"idle", "join"} /\ Throw
      BY <1>3 DEF ReceiveThrows, ValidationThrows
    <2>2. QED
      BY <2>1, ThrowingIsAbort DEF Promise!Next
  <1>4. CASE CollectResults
    BY <1>4, CollectingIsReturn DEF Promise!Next
  <1>5. CASE JoinSender
    BY <1>5, JoiningIsFinish DEF Promise!Next
  <1>6. CASE ReceiverBegins \/ CheckSize \/ ReceiveResponse \/ ReceiveNothing
             \/ SweepKeeps \/ SweepEnds
    <2>1. /\ rPc \notin {"idle", "join"} /\ rPc' \notin {"idle", "join"}
          /\ UNCHANGED <<call, args, results, ttlToProbeResults, mPacketsToBeValidated>>
      BY <1>6 DEF ReceiverBegins, CheckSize, ReceiveResponse, ReceiveNothing, SweepKeeps,
                  SweepEnds, callVars
    <2>2. Known' = Known /\ Ledger' = Ledger
      BY <2>1, SameLedger DEF Pending
    <2>3. QED
      BY <2>1, <2>2, NothingHappens
  <1>7. QED
    BY <1>1, <1>2, <1>3, <1>4, <1>5, <1>6 DEF Receiver

(* ... and so are those of the sender, the clock and the network.          *)
LEMMA OtherStepsKeepPromise ==
    ASSUME TypeOK, Accounting, Sender \/ Tick \/ World \/ UNCHANGED vars
    PROVE  [Promise!Next]_(Promise!vars)
  <1>1. CASE RegisterPacket
    <2>1. \E p \in Known : Promise!Send(p)
      BY <1>1, RegisteringIsSend
    <2>2. QED
      BY <2>1 DEF Promise!Next
  <1>2. CASE \/ SendPacket \/ SendFails \/ SendPacketsReturns \/ Tick \/ World
             \/ UNCHANGED vars
    <2>1. UNCHANGED <<call, args, rPc, results, ttlToProbeResults>>
      BY <1>2 DEF SendPacket, SendFails, SendPacketsReturns, Tick, World, vars, callVars,
                  receiverVars
    <2>2. Pending' = Pending
      <3>1. CASE Tick
        BY <3>1, TickKeepsPackets DEF TypeOK
      <3>2. CASE ~Tick
        BY <1>2, <3>2 DEF SendPacket, SendFails, SendPacketsReturns, World, vars, Pending
      <3>3. QED
        BY <3>1, <3>2
    <2>3. QED
      BY <2>1, <2>2, SameLedger, NothingHappens
  <1>3. QED
    BY <1>1, <1>2 DEF Sender

(* Every call on a FastTraceroute does what Probing promises, however its  *)
(* two threads, the clock and the network interleave: probes are           *)
(* registered in ascending order, each settles at most once, in its call   *)
(* or a later one, and a call returns the verdicts of exactly the probes   *)
(* that have one by then, cut after the nearest ttl from which the target  *)
(* answered.                                                               *)
THEOREM FastKeepsPromise == Spec => KeepsPromise
  <1>1. ASSUME TypeOK, Accounting, OnlyRepliesName, [Next]_vars
        PROVE  [Promise!Next]_(Promise!vars)
    <2>1. CASE beginProbing
      BY <1>1, <2>1, BeginningIsBegin DEF Promise!Next
    <2>2. CASE Receiver
      BY <1>1, <2>2, ReceiverKeepsPromise
    <2>3. CASE Sender \/ Tick \/ World \/ UNCHANGED vars
      BY <1>1, <2>3, OtherStepsKeepPromise
    <2>4. QED
      BY <1>1, <2>1, <2>2, <2>3 DEF Next
  <1>2. QED
    BY InitIsInit, Typing, AccountsAreKept, OnlyRepliesAreNamed, <1>1, PTL
       DEF Spec, KeepsPromise, Promise!Spec

===============================================================================
