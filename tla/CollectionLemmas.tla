--------------------------- MODULE CollectionLemmas ---------------------------
(***************************************************************************)
(* Lemmas about sets of numbers and about sequences that the proofs about  *)
(* several components rest on.                                             *)
(***************************************************************************)
EXTENDS Collections, Integers, SequencesExt, SequenceTheorems, FiniteSetTheorems, WellFoundedInduction, TLAPS

-------------------------------------------------------------------------------
(* Minima and vectors *)

(* A nonempty set of naturals has a minimum, and Min finds it.             *)
LEMMA MinOfNaturals ==
    ASSUME NEW I \in SUBSET Nat, I # {}
    PROVE  /\ Min(I) \in I
           /\ \A n \in I : Min(I) <= n
  <1>1. PICK x \in I : \A y \in I : ~ (<<y, x>> \in OpToRel(<, Nat))
    BY NatLessThanWellFounded, WFMin, Zenon
  <1>2. ASSUME NEW y \in I
        PROVE  x <= y
    <2>1. SUFFICES ASSUME y < x
                   PROVE  FALSE
      OBVIOUS
    <2>2. <<y, x>> \in {ss \in Nat \X Nat : ss[1] < ss[2]}
      BY <2>1
    <2>3. OpToRel(<, Nat) = {ss \in Nat \X Nat : ss[1] < ss[2]}
      BY Zenon DEF OpToRel
    <2>4. QED
      BY <1>1, <2>2, <2>3
  <1>3. QED
    BY <1>2 DEF Min

(* What vector::erase(it) leaves behind.                                   *)
LEMMA RemoveAtProperties ==
    ASSUME NEW S, NEW s \in Seq(S), NEW k \in 1 .. Len(s)
    PROVE  /\ RemoveAt(s, k) \in Seq(S)
           /\ Len(RemoveAt(s, k)) = Len(s) - 1
           /\ \A j \in 1 .. Len(s) - 1 : RemoveAt(s, k)[j] = IF j < k THEN s[j] ELSE s[j + 1]
  <1> DEFINE a == SubSeq(s, 1, k - 1)
             b == SubSeq(s, k + 1, Len(s))
  <1>1. \A j \in 1 .. Len(s) : s[j] \in S
    BY ElementOfSeq
  <1>2. /\ a \in Seq(S)
        /\ Len(a) = k - 1
        /\ \A j \in 1 .. k - 1 : a[j] = s[j]
    <2>1. \A j \in 1 .. k - 1 : s[j] \in S
      BY <1>1, LenProperties
    <2>2. Len(s) \in Nat
      BY LenProperties
    <2>3. QED
      BY <2>1, <2>2, SubSeqProperties
  <1>3. /\ b \in Seq(S)
        /\ Len(b) = Len(s) - k
        /\ \A j \in 1 .. Len(s) - k : b[j] = s[k + j]
    <2>1. Len(s) \in Nat
      BY LenProperties
    <2>2. \A j \in k + 1 .. Len(s) : s[j] \in S
      BY <1>1, <2>1
    <2>3. /\ b \in Seq(S)
          /\ Len(b) = IF k + 1 <= Len(s) THEN Len(s) - (k + 1) + 1 ELSE 0
          /\ \A j \in 1 .. Len(s) - (k + 1) + 1 : b[j] = s[(k + 1) + j - 1]
      BY <2>1, <2>2, SubSeqProperties, k + 1 \in Int, Len(s) \in Int
    <2>4. QED
      BY <2>1, <2>3
  <1>4. RemoveAt(s, k) = a \o b
    BY DEF RemoveAt
  <1>5. Len(s) \in Nat
    BY LenProperties
  <1> HIDE DEF a, b
  <1>6. /\ a \o b \in Seq(S)
        /\ Len(a \o b) = Len(a) + Len(b)
        /\ \A j \in 1 .. Len(a) + Len(b) :
              (a \o b)[j] = IF j <= Len(a) THEN a[j] ELSE b[j - Len(a)]
    BY <1>2, <1>3, ConcatProperties
  <1>. QED
    <2>1. Len(a) + Len(b) = Len(s) - 1
      BY <1>2, <1>3, <1>5
    <2>2. ASSUME NEW j \in 1 .. Len(s) - 1
          PROVE  (a \o b)[j] = IF j < k THEN s[j] ELSE s[j + 1]
      <3>1. CASE j < k
        BY <3>1, <2>1, <1>2, <1>6, <1>5
      <3>2. CASE ~(j < k)
        <4>1. j - (k - 1) \in 1 .. Len(s) - k
          BY <3>2, <1>5
        <4>2. b[j - (k - 1)] = s[k + (j - (k - 1))]
          BY <4>1, <1>3
        <4>3. k + (j - (k - 1)) = j + 1
          OBVIOUS
        <4>4. QED
          BY <3>2, <4>2, <4>3, <2>1, <1>2, <1>6, <1>5
      <3>3. QED
        BY <3>1, <3>2
    <2>3. QED
      BY <1>6, <1>4, <2>1, <2>2

(* A function on the first numbers is a sequence.                          *)
LEMMA FunctionIsSeq ==
    ASSUME NEW S, NEW n \in Nat, NEW f \in [1 .. n -> S]
    PROVE  f \in Seq(S) /\ Len(f) = n
  <1>1. f \in Seq(S) /\ DOMAIN f = 1 .. n
    OBVIOUS
  <1>2. Len(f) \in Nat /\ DOMAIN f = 1 .. Len(f)
    BY <1>1, LenProperties
  <1>3. QED
    BY <1>1, <1>2

(* What vector::push_back leaves behind.                                   *)
LEMMA AppendFacts ==
    ASSUME NEW S, NEW s \in Seq(S), NEW e \in S
    PROVE  /\ Append(s, e) \in Seq(S)
           /\ Len(Append(s, e)) = Len(s) + 1
           /\ \A j \in 1 .. Len(s) + 1 :
                 Append(s, e)[j] = IF j <= Len(s) THEN s[j] ELSE e
  OBVIOUS

(* push_back adds one element to the elements of a vector.                 *)
LEMMA RangeOfAppend ==
    ASSUME NEW S, NEW s \in Seq(S), NEW e \in S
    PROVE  Range(Append(s, e)) = Range(s) \cup {e}
  <1> DEFINE t == Append(s, e)
  <1>1. /\ Len(s) \in Nat
        /\ DOMAIN s = 1 .. Len(s)
        /\ DOMAIN t = 1 .. Len(s) + 1
        /\ \A j \in 1 .. Len(s) + 1 : t[j] = IF j <= Len(s) THEN s[j] ELSE e
    BY LenProperties, AppendFacts
  <1> HIDE DEF t
  <1>2. ASSUME NEW x \in Range(t)
        PROVE  x \in Range(s) \cup {e}
    BY <1>1 DEF Range
  <1>3. ASSUME NEW x \in Range(s)
        PROVE  x \in Range(t)
    BY <1>1 DEF Range
  <1>4. e \in Range(t)
    <2>1. Len(s) + 1 \in DOMAIN t /\ t[Len(s) + 1] = e
      BY <1>1
    <2>2. QED
      BY <2>1 DEF Range
  <1>5. QED
    BY <1>2, <1>3, <1>4 DEF t

(* erase adds none.                                                        *)
LEMMA RangeOfRemoveAt ==
    ASSUME NEW S, NEW s \in Seq(S), NEW k \in 1 .. Len(s), NEW x \in Range(RemoveAt(s, k))
    PROVE  x \in Range(s)
  <1>1. /\ Len(s) \in Nat
        /\ DOMAIN s = 1 .. Len(s)
        /\ DOMAIN RemoveAt(s, k) = 1 .. Len(s) - 1
        /\ \A j \in 1 .. Len(s) - 1 : RemoveAt(s, k)[j] = IF j < k THEN s[j] ELSE s[j + 1]
    BY LenProperties, RemoveAtProperties
  <1>2. PICK j \in 1 .. Len(s) - 1 : x = RemoveAt(s, k)[j]
    BY <1>1 DEF Range
  <1>3. CASE j < k
    BY <1>1, <1>2, <1>3 DEF Range
  <1>4. CASE ~(j < k)
    <2>1. j + 1 \in 1 .. Len(s) /\ x = s[j + 1]
      BY <1>1, <1>2, <1>4
    <2>2. QED
      BY <2>1, <1>1 DEF Range
  <1>5. QED
    BY <1>3, <1>4

-------------------------------------------------------------------------------
(* Induction.  The induction theorems of the library have an operator as a *)
(* parameter; over a set of naturals the principle is one of first order.  *)
LEMMA InductiveSetIsNat ==
    ASSUME NEW Q \in SUBSET Nat, 0 \in Q, \A n \in Q : n + 1 \in Q
    PROVE  Q = Nat
  <1> SUFFICES ASSUME Nat \ Q # {}
               PROVE  FALSE
    OBVIOUS
  <1> DEFINE m == Min(Nat \ Q)
  <1>1. m \in Nat \ Q /\ \A n \in Nat \ Q : m <= n
    BY MinOfNaturals
  <1> HIDE DEF m
  <1>2. m # 0
    BY <1>1
  <1>3. m - 1 \in Nat /\ m - 1 \notin Nat \ Q
    BY <1>1, <1>2
  <1>4. QED
    BY <1>1, <1>3

(* Induction up to a bound.                                                *)
LEMMA InductionUpTo ==
    ASSUME NEW N \in Nat, NEW Q, 0 \in Q, \A n \in 0 .. N - 1 : n \in Q => n + 1 \in Q
    PROVE  \A n \in 0 .. N : n \in Q
  <1> DEFINE R == {n \in Nat : n <= N => n \in Q}
  <1>1. 0 \in R
    OBVIOUS
  <1>2. ASSUME NEW n \in R
        PROVE  n + 1 \in R
    <2>1. n \in Nat /\ (n + 1 <= N => n \in 0 .. N - 1 /\ n \in Q)
      OBVIOUS
    <2>2. QED
      BY <2>1
  <1>3. R = Nat
    <2> HIDE DEF R
    <2>1. R \in SUBSET Nat
      BY DEF R
    <2>2. QED
      BY <1>1, <1>2, <2>1, InductiveSetIsNat
  <1>4. QED
    BY <1>3

(* A set that has a number whenever it has all smaller ones has them all.  *)
LEMMA StrongInduction ==
    ASSUME NEW Q, \A n \in Nat : (\A m \in Nat : m < n => m \in Q) => n \in Q
    PROVE  Nat \subseteq Q
  <1> SUFFICES ASSUME Nat \ Q # {}
               PROVE  FALSE
    OBVIOUS
  <1>1. Nat \ Q \in SUBSET Nat
    OBVIOUS
  <1> DEFINE n == Min(Nat \ Q)
  <1>2. n \in Nat \ Q /\ \A m \in Nat \ Q : n <= m
    BY <1>1, MinOfNaturals
  <1> HIDE DEF n
  <1>3. \A m \in Nat : m < n => m \in Q
    BY <1>2
  <1>4. QED
    BY <1>2, <1>3

(* The function that Among recurses over exists.                           *)
LEMMA AmongRecursion ==
    ASSUME NEW S, NEW s \in Seq(S), NEW P
    PROVE  \E kept :
              /\ Among(s, P) = kept[Len(s)]
              /\ kept[0] = <<>>
              /\ \A k \in 1 .. Len(s) :
                    kept[k] = IF s[k] \in P THEN Append(kept[k - 1], s[k]) ELSE kept[k - 1]
  <1> DEFINE Unfolds(g, n) ==
                 g = [k \in 0 .. n |->
                         IF k = 0 THEN <<>>
                         ELSE IF s[k] \in P THEN Append(g[k - 1], s[k]) ELSE g[k - 1]]
             Q == {n \in Nat : \E g : Unfolds(g, n)}
  <1>1. 0 \in Q
    <2>1. Unfolds([k \in 0 .. 0 |-> <<>>], 0)
      OBVIOUS
    <2>2. QED
      BY <2>1
  <1>2. ASSUME NEW n \in Q
        PROVE  n + 1 \in Q
    <2>1. n \in Nat
      OBVIOUS
    <2>2. PICK g : Unfolds(g, n)
      OBVIOUS
    <2> DEFINE e == IF s[n + 1] \in P THEN Append(g[n], s[n + 1]) ELSE g[n]
               h == [k \in 0 .. n + 1 |-> IF k = n + 1 THEN e ELSE g[k]]
    <2>3. \A k \in 0 .. n : k \in 0 .. n + 1 /\ h[k] = g[k]
      BY <2>1
    <2>4. ASSUME NEW k \in 0 .. n + 1
          PROVE  h[k] = IF k = 0 THEN <<>>
                        ELSE IF s[k] \in P THEN Append(h[k - 1], s[k]) ELSE h[k - 1]
      <3>1. CASE k = n + 1
        <4>1. h[k] = e /\ h[k - 1] = g[n] /\ k # 0
          BY <2>1, <2>3, <3>1
        <4>2. QED
          BY <4>1, <3>1
      <3>2. CASE k # n + 1
        <4>1. k \in 0 .. n /\ h[k] = g[k]
          BY <2>1, <2>3, <3>2
        <4>2. k # 0 => h[k - 1] = g[k - 1]
          BY <2>1, <2>3, <4>1
        <4>3. g[k] = IF k = 0 THEN <<>>
                     ELSE IF s[k] \in P THEN Append(g[k - 1], s[k]) ELSE g[k - 1]
          BY <2>2, <4>1
        <4>4. QED
          BY <4>1, <4>2, <4>3
      <3>3. QED
        BY <3>1, <3>2
    <2> HIDE DEF e
    <2>5. Unfolds(h, n + 1)
      BY <2>4
    <2> HIDE DEF Unfolds, h
    <2>6. QED
      BY <2>1, <2>5
  <1>3. Q = Nat
    <2> HIDE DEF Q
    <2>1. Q \in SUBSET Nat
      BY DEF Q
    <2>2. QED
      BY <1>1, <1>2, <2>1, InductiveSetIsNat
  <1>4. Len(s) \in Nat
    BY LenProperties
  <1>5. \E g : Unfolds(g, Len(s))
    BY <1>3, <1>4
  <1> DEFINE kept == CHOOSE g : Unfolds(g, Len(s))
  <1>6. Unfolds(kept, Len(s))
    BY <1>5
  <1>7. Among(s, P) = kept[Len(s)]
    BY DEF Among
  <1> HIDE DEF kept
  <1>8. /\ kept[0] = <<>>
        /\ \A k \in 1 .. Len(s) :
              kept[k] = IF s[k] \in P THEN Append(kept[k - 1], s[k]) ELSE kept[k - 1]
    <2>1. 0 \in 0 .. Len(s) /\ \A k \in 1 .. Len(s) : k \in 0 .. Len(s) /\ k # 0
      BY <1>4
    <2>2. \A k \in 0 .. Len(s) :
             kept[k] = IF k = 0 THEN <<>>
                       ELSE IF s[k] \in P THEN Append(kept[k - 1], s[k]) ELSE kept[k - 1]
      BY <1>6
    <2>3. QED
      BY <2>1, <2>2
  <1>9. QED
    BY <1>7, <1>8

(* What Among keeps: the elements of s that are in P, in their order.      *)
LEMMA AmongFacts ==
    ASSUME NEW S, NEW s \in Seq(S), NEW P
    PROVE  /\ Among(s, P) \in Seq(S)
           /\ \E f \in [1 .. Len(Among(s, P)) -> 1 .. Len(s)] :
                 /\ \A j \in DOMAIN f : Among(s, P)[j] = s[f[j]]
                 /\ \A i, j \in DOMAIN f : i < j => f[i] < f[j]
                 /\ \A k \in 1 .. Len(s) : s[k] \in P <=> \E j \in DOMAIN f : f[j] = k
  <1>1. PICK kept :
           /\ Among(s, P) = kept[Len(s)]
           /\ kept[0] = <<>>
           /\ \A k \in 1 .. Len(s) :
                 kept[k] = IF s[k] \in P THEN Append(kept[k - 1], s[k]) ELSE kept[k - 1]
    BY AmongRecursion
  <1>2. Len(s) \in Nat /\ \A k \in 1 .. Len(s) : s[k] \in S
    BY LenProperties, ElementOfSeq
  <1> DEFINE Picks(r, n, f) ==
                 /\ r \in Seq(S)
                 /\ f \in [1 .. Len(r) -> 1 .. n]
                 /\ \A j \in 1 .. Len(r) : r[j] = s[f[j]]
                 /\ \A i, j \in 1 .. Len(r) : i < j => f[i] < f[j]
                 /\ \A k \in 1 .. n : s[k] \in P <=> \E j \in 1 .. Len(r) : f[j] = k
             Q == {n \in Nat : n <= Len(s) => \E f : Picks(kept[n], n, f)}
  <1>3. 0 \in Q
    <2>1. Picks(<<>>, 0, <<>>)
      BY EmptySeq
    <2> HIDE DEF Picks
    <2>2. QED
      BY <1>1, <2>1
  <1>4. ASSUME NEW n \in Q
        PROVE  n + 1 \in Q
    <2> HIDE DEF Picks
    <2>1. SUFFICES ASSUME n \in Nat, n + 1 <= Len(s)
                   PROVE  \E f : Picks(kept[n + 1], n + 1, f)
      OBVIOUS
    <2>2. PICK f : Picks(kept[n], n, f)
      BY <2>1, <1>2
    <2> USE DEF Picks
    <2> DEFINE r == kept[n]
               m == Len(r)
    <2>3. n + 1 \in 1 .. Len(s) /\ s[n + 1] \in S /\ m \in Nat
      BY <2>1, <2>2, <1>2, LenProperties
    <2>4. kept[n + 1] = IF s[n + 1] \in P THEN Append(r, s[n + 1]) ELSE r
      BY <2>3, <1>1, (n + 1) - 1 = n
    <2> HIDE DEF r, m
    <2>5. CASE s[n + 1] \notin P
      <3>1. Picks(r, n + 1, f)
        <4>1. /\ r \in Seq(S) /\ f \in [1 .. Len(r) -> 1 .. n]
              /\ \A j \in 1 .. Len(r) : f[j] \in 1 .. n
              /\ \A k \in 1 .. n : s[k] \in P <=> \E j \in 1 .. Len(r) : f[j] = k
          BY <2>2 DEF r
        <4>2. f \in [1 .. Len(r) -> 1 .. n + 1]
          BY <4>1, <2>1
        <4>3. ASSUME NEW k \in 1 .. n + 1
              PROVE  s[k] \in P <=> \E j \in 1 .. Len(r) : f[j] = k
          <5>1. CASE k = n + 1
            BY <5>1, <4>1, <2>1, <2>5
          <5>2. CASE k # n + 1
            BY <5>2, <4>1, <2>1
          <5>3. QED
            BY <5>1, <5>2
        <4>4. QED
          BY <2>2, <4>1, <4>2, <4>3 DEF r
      <3>2. QED
        BY <3>1, <2>4, <2>5
    <2>6. CASE s[n + 1] \in P
      <3> DEFINE t == Append(r, s[n + 1])
                 g == [j \in 1 .. m + 1 |-> IF j = m + 1 THEN n + 1 ELSE f[j]]
      <3>1. /\ t \in Seq(S) /\ Len(t) = m + 1
            /\ \A j \in 1 .. m : t[j] = r[j]
            /\ t[m + 1] = s[n + 1]
        BY <2>2, <2>3, AppendFacts DEF r, m
      <3>2. /\ \A j \in 1 .. m : g[j] = f[j] /\ f[j] \in 1 .. n /\ r[j] = s[f[j]]
            /\ g[m + 1] = n + 1
        BY <2>2, <2>3 DEF r, m
      <3>3. /\ \A i, j \in 1 .. m : i < j => f[i] < f[j]
            /\ \A k \in 1 .. n : s[k] \in P <=> \E j \in 1 .. m : f[j] = k
        BY <2>2 DEF r, m
      <3> HIDE DEF t
      <3>4. g \in [1 .. m + 1 -> 1 .. n + 1]
        <4>1. ASSUME NEW j \in 1 .. m + 1
              PROVE  g[j] \in 1 .. n + 1
          <5>1. CASE j = m + 1
            BY <5>1, <3>2, <2>1
          <5>2. CASE j # m + 1
            <6>1. j \in 1 .. m
              BY <5>2, <2>3
            <6>2. g[j] \in 1 .. n
              BY <6>1, <3>2
            <6>3. QED
              BY <6>2, <2>1
          <5>3. QED
            BY <5>1, <5>2
        <4>2. QED
          BY <4>1
      <3> HIDE DEF g
      <3>5. ASSUME NEW j \in 1 .. m + 1
            PROVE  t[j] = s[g[j]]
        <4>1. CASE j = m + 1
          BY <4>1, <3>1, <3>2, Zenon
        <4>2. CASE j # m + 1
          <5>1. j \in 1 .. m
            BY <4>2, <2>3
          <5>2. t[j] = r[j] /\ r[j] = s[f[j]] /\ g[j] = f[j]
            BY <5>1, <3>1, <3>2, Zenon
          <5>3. QED
            BY <5>2, Zenon
        <4>3. QED
          BY <4>1, <4>2
      <3>6. ASSUME NEW i \in 1 .. m + 1, NEW j \in 1 .. m + 1, i < j
            PROVE  g[i] < g[j]
        <4>1. i \in 1 .. m
          BY <2>3, <3>6
        <4>2. CASE j = m + 1
          BY <4>1, <4>2, <3>2, <2>1
        <4>3. CASE j # m + 1
          <5>1. j \in 1 .. m
            BY <4>3, <2>3
          <5>2. QED
            BY <4>1, <5>1, <3>2, <3>3, <3>6
        <4>4. QED
          BY <4>2, <4>3
      <3>7. ASSUME NEW k \in 1 .. n + 1
            PROVE  s[k] \in P <=> \E j \in 1 .. m + 1 : g[j] = k
        <4>1. CASE k = n + 1
          BY <4>1, <2>3, <2>6, <3>2
        <4>2. CASE k # n + 1
          <5>1. k \in 1 .. n
            BY <4>2, <2>1
          <5>2. \A j \in 1 .. m : j \in 1 .. m + 1
            BY <2>3
          <5>3. \A j \in 1 .. m + 1 : j \notin 1 .. m => j = m + 1
            BY <2>3
          <5>4. (\E j \in 1 .. m + 1 : g[j] = k) <=> (\E j \in 1 .. m : f[j] = k)
            BY <5>2, <5>3, <3>2, <4>2
          <5>5. QED
            BY <5>1, <5>4, <3>3
        <4>3. QED
          BY <4>1, <4>2
      <3>8. Picks(t, n + 1, g)
        BY <3>1, <3>4, <3>5, <3>6, <3>7
      <3> HIDE DEF Picks
      <3>9. QED
        BY <3>8, <2>4, <2>6 DEF t
    <2>7. QED
      BY <2>5, <2>6
  <1>5. Len(s) \in Q
    <2> HIDE DEF Q
    <2>1. Q \in SUBSET Nat
      BY DEF Q
    <2>2. QED
      BY <1>2, <1>3, <1>4, <2>1, InductiveSetIsNat
  <1>6. PICK f : Picks(kept[Len(s)], Len(s), f)
    BY <1>2, <1>5
  <1>7. DOMAIN f = 1 .. Len(Among(s, P))
    BY <1>1, <1>6
  <1>8. /\ Among(s, P) \in Seq(S)
        /\ f \in [1 .. Len(Among(s, P)) -> 1 .. Len(s)]
        /\ \A j \in DOMAIN f : Among(s, P)[j] = s[f[j]]
        /\ \A i, j \in DOMAIN f : i < j => f[i] < f[j]
        /\ \A k \in 1 .. Len(s) : s[k] \in P <=> \E j \in DOMAIN f : f[j] = k
    BY <1>1, <1>6, <1>7
  <1>9. QED
    BY <1>8

(* Among(s, P) holds what is both in s and in P, ...                       *)
LEMMA RangeOfAmong ==
    ASSUME NEW S, NEW s \in Seq(S), NEW P
    PROVE  Range(Among(s, P)) = Range(s) \cap P
  <1> DEFINE r == Among(s, P)
  <1>1. /\ r \in Seq(S) /\ DOMAIN r = 1 .. Len(r) /\ DOMAIN s = 1 .. Len(s)
    BY AmongFacts, LenProperties
  <1>2. PICK f \in [1 .. Len(r) -> 1 .. Len(s)] :
           /\ \A j \in DOMAIN f : r[j] = s[f[j]]
           /\ \A k \in 1 .. Len(s) : s[k] \in P <=> \E j \in DOMAIN f : f[j] = k
    BY AmongFacts
  <1>3. DOMAIN f = 1 .. Len(r) /\ \A j \in DOMAIN f : f[j] \in 1 .. Len(s)
    OBVIOUS
  <1> HIDE DEF r
  <1>4. ASSUME NEW x \in Range(r)
        PROVE  x \in Range(s) \cap P
    <2>1. PICK j \in 1 .. Len(r) : x = r[j]
      BY <1>1 DEF Range
    <2>2. x = s[f[j]] /\ f[j] \in 1 .. Len(s) /\ s[f[j]] \in P
      BY <2>1, <1>2, <1>3
    <2>3. QED
      BY <2>2, <1>1 DEF Range
  <1>5. ASSUME NEW x \in Range(s) \cap P
        PROVE  x \in Range(r)
    <2>1. PICK k \in 1 .. Len(s) : x = s[k]
      BY <1>1 DEF Range
    <2>2. PICK j \in DOMAIN f : f[j] = k
      BY <2>1, <1>2
    <2>3. x = r[j] /\ j \in 1 .. Len(r)
      BY <2>1, <2>2, <1>2, <1>3
    <2>4. QED
      BY <2>3, <1>1 DEF Range
  <1>6. QED
    BY <1>4, <1>5 DEF r

(* ... and holds nothing twice if s does not.                              *)
LEMMA LenOfAmong ==
    ASSUME NEW S, NEW s \in Seq(S), NEW P,
           \A j, k \in 1 .. Len(s) : s[j] = s[k] => j = k
    PROVE  /\ IsFiniteSet(Range(s) \cap P)
           /\ Len(Among(s, P)) = Cardinality(Range(s) \cap P)
  <1> DEFINE r == Among(s, P)
             n == Len(r)
  <1>1. /\ r \in Seq(S) /\ n \in Nat /\ DOMAIN r = 1 .. n
    BY AmongFacts, LenProperties
  <1>2. PICK f \in [1 .. n -> 1 .. Len(s)] :
           /\ \A j \in DOMAIN f : r[j] = s[f[j]]
           /\ \A i, j \in DOMAIN f : i < j => f[i] < f[j]
    BY AmongFacts
  <1>3. Range(r) = Range(s) \cap P
    BY RangeOfAmong
  <1>4. Len(s) \in Nat
    BY LenProperties
  <1> HIDE DEF r, n
  <1>5. \A j \in 1 .. n : f[j] \in 1 .. Len(s) /\ r[j] = s[f[j]]
    BY <1>2
  <1>6. ASSUME NEW i \in 1 .. n, NEW j \in 1 .. n, r[i] = r[j]
        PROVE  i = j
    <2>1. f[i] = f[j]
      BY <1>5, <1>6
    <2>2. ~ (i < j) /\ ~ (j < i)
      BY <2>1, <1>1, <1>2, <1>4, <1>5
    <2>3. QED
      BY <2>2, <1>1
  <1>7. r \in Bijection(1 .. n, Range(r))
    <2>1. r = [k \in 1 .. n |-> r[k]]
      BY <1>1
    <2>2. r \in [1 .. n -> Range(r)]
      BY <2>1, <1>1 DEF Range
    <2>3. \A x \in Range(r) : \E k \in 1 .. n : r[k] = x
      BY <1>1 DEF Range
    <2>4. QED
      BY <2>2, <2>3, <1>6 DEF Bijection, Injection, Surjection, IsInjective
  <1>8. ExistsBijection(1 .. n, Range(r))
    BY <1>7 DEF ExistsBijection
  <1>9. IsFiniteSet(1 .. n) /\ Cardinality(1 .. n) = n
    BY <1>1, FS_Interval
  <1>10. IsFiniteSet(Range(r)) /\ Cardinality(Range(r)) = n
    BY <1>8, <1>9, FS_Bijection
  <1>11. QED
    BY <1>3, <1>10 DEF n, r

-------------------------------------------------------------------------------
(* Sets of numbers in ascending order *)

Ascends(f, n) == \A j, k \in 1 .. n : j < k => f[j] < f[k]

(* A finite set of naturals can be put in order: its minimum, then the     *)
(* rest.                                                                   *)
LEMMA OrderExists ==
    ASSUME NEW I \in SUBSET Nat, IsFiniteSet(I)
    PROVE  \E f \in [1 .. Cardinality(I) -> I] : Ascends(f, Cardinality(I))
  <1> DEFINE Ordered(J, n) == \E f \in [1 .. n -> J] : Ascends(f, n)
             Q == {n \in Nat : \A J \in SUBSET Nat :
                                  IsFiniteSet(J) /\ Cardinality(J) = n => Ordered(J, n)}
  <1>1. 0 \in Q
    <2>1. ASSUME NEW J
          PROVE  Ordered(J, 0)
      <3>1. <<>> \in [1 .. 0 -> J] /\ Ascends(<<>>, 0)
        BY DEF Ascends
      <3>2. QED
        BY <3>1
    <2> HIDE DEF Ordered
    <2>2. QED
      BY <2>1
  <1>2. ASSUME NEW n \in Q
        PROVE  n + 1 \in Q
    <2> HIDE DEF Ordered
    <2>1. SUFFICES ASSUME n \in Nat, NEW J \in SUBSET Nat, IsFiniteSet(J), Cardinality(J) = n + 1
                   PROVE  Ordered(J, n + 1)
      OBVIOUS
    <2>2. J # {}
      BY <2>1, FS_EmptySet
    <2>3. \A K \in SUBSET Nat : IsFiniteSet(K) /\ Cardinality(K) = n => Ordered(K, n)
      OBVIOUS
    <2> HIDE DEF Q
    <2> DEFINE m == Min(J)
               K == J \ {m}
    <2>4. m \in J /\ \A k \in J : m <= k
      BY <2>2, MinOfNaturals
    <2> HIDE DEF m
    <2>5. K \in SUBSET Nat /\ IsFiniteSet(K) /\ Cardinality(K) = n
      <3>1. IsFiniteSet(K) /\ Cardinality(K) = Cardinality(J) - 1
        BY <2>1, <2>4, FS_RemoveElement
      <3>2. Cardinality(K) = n
        BY <3>1, <2>1
      <3>3. K \in SUBSET Nat
        OBVIOUS
      <3>4. QED
        BY <3>1, <3>2, <3>3
    <2>6. Ordered(K, n)
      BY <2>5, <2>3
    <2>7. PICK g \in [1 .. n -> K] : Ascends(g, n)
      BY <2>6 DEF Ordered
    <2> DEFINE f == [k \in 1 .. n + 1 |-> IF k = 1 THEN m ELSE g[k - 1]]
    <2>8. \A k \in 1 .. n : g[k] \in Nat /\ g[k] \in J /\ m < g[k]
      <3>1. ASSUME NEW k \in 1 .. n
            PROVE  g[k] \in Nat /\ g[k] \in J /\ m < g[k]
        <4>1. g[k] \in K
          BY <2>7
        <4>2. g[k] \in J /\ g[k] # m /\ g[k] \in Nat /\ m \in Nat
          BY <4>1, <2>4
        <4>3. QED
          BY <4>2, <2>4
      <3>2. QED
        BY <3>1
    <2>9. /\ 1 \in 1 .. n + 1 /\ f[1] = m
          /\ \A k \in 1 .. n + 1 : k # 1 => k - 1 \in 1 .. n /\ f[k] = g[k - 1]
      BY <2>1
    <2>10. f \in [1 .. n + 1 -> J]
      BY <2>4, <2>8, <2>9
    <2> HIDE DEF f
    <2>11. ASSUME NEW j \in 1 .. n + 1, NEW k \in 1 .. n + 1, j < k
           PROVE  f[j] < f[k]
      <3>1. k # 1
        BY <2>11
      <3>2. CASE j = 1
        BY <3>1, <3>2, <2>8, <2>9
      <3>3. CASE j # 1
        <4>1. j - 1 \in 1 .. n /\ k - 1 \in 1 .. n /\ j - 1 < k - 1
          BY <3>1, <3>3, <2>9, <2>11
        <4>2. g[j - 1] < g[k - 1]
          BY <4>1, <2>7 DEF Ascends
        <4>3. QED
          BY <4>2, <3>1, <3>3, <2>9
      <3>4. QED
        BY <3>2, <3>3
    <2>12. QED
      BY <2>10, <2>11 DEF Ordered, Ascends
  <1>3. Q = Nat
    <2> HIDE DEF Q
    <2>1. Q \in SUBSET Nat
      BY DEF Q
    <2>2. QED
      BY <1>1, <1>2, <2>1, InductiveSetIsNat
  <1>4. Cardinality(I) \in Nat
    BY FS_CardinalityType
  <1>5. Ordered(I, Cardinality(I))
    <2> HIDE DEF Ordered
    <2>1. QED
      BY <1>3, <1>4
  <1>6. QED
    BY <1>5

(* InOrder lists a finite set, all of it.                                  *)
LEMMA InOrderFacts ==
    ASSUME NEW I \in SUBSET Nat, IsFiniteSet(I)
    PROVE  /\ InOrder(I) \in [1 .. Cardinality(I) -> I]
           /\ \A j, k \in 1 .. Cardinality(I) : j < k => InOrder(I)[j] < InOrder(I)[k]
           /\ \A i \in I : \E k \in 1 .. Cardinality(I) : InOrder(I)[k] = i
  <1> DEFINE n == Cardinality(I)
             f == InOrder(I)
  <1>1. /\ f \in [1 .. n -> I]
        /\ \A j, k \in 1 .. n : j < k => f[j] < f[k]
    BY OrderExists DEF InOrder, Ascends
  <1>2. n \in Nat
    BY FS_CardinalityType
  <1> HIDE DEF n, f
  <1>3. \A k \in 1 .. n : f[k] \in Nat
    BY <1>1
  <1>4. ASSUME NEW j \in 1 .. n, NEW k \in 1 .. n, f[j] = f[k]
        PROVE  j = k
    <2>1. ~ (j < k) /\ ~ (k < j)
      BY <1>1, <1>3, <1>4
    <2>2. QED
      BY <2>1, <1>2
  <1>5. f \in Injection(1 .. n, I)
    BY <1>1, <1>4 DEF Injection, IsInjective
  <1>6. IsFiniteSet(1 .. n) /\ Cardinality(1 .. n) = n
    BY <1>2, FS_Interval
  <1>7. f \in Surjection(1 .. n, I)
    BY <1>5, <1>6, FS_Injection DEF n
  <1>8. QED
    BY <1>1, <1>7 DEF Surjection, n, f

(* An interval is listed one after the other.                              *)
LEMMA InOrderOfInterval ==
    ASSUME NEW a \in Nat, NEW b \in Nat, a <= b
    PROVE  InOrder(a .. b) = [k \in 1 .. b - a + 1 |-> a + k - 1]
  <1> DEFINE n == b - a + 1
             f == InOrder(a .. b)
             Q == {k \in Nat : k + 1 <= n => f[k + 1] >= a + k}
             R == {k \in Nat : k + 1 <= n => f[n - k] <= b - k}
  <1>1. IsFiniteSet(a .. b) /\ Cardinality(a .. b) = n /\ a .. b \in SUBSET Nat
    BY FS_Interval
  <1>2. f \in [1 .. n -> a .. b] /\ \A j, k \in 1 .. n : j < k => f[j] < f[k]
    BY <1>1, InOrderFacts
  <1>3. n \in Nat \ {0} /\ \A k \in 1 .. n : f[k] \in Nat /\ a <= f[k] /\ f[k] <= b
    BY <1>2
  <1> HIDE DEF f
  <1>4. Q = Nat
    <2>1. 0 \in Q
      BY <1>3
    <2>2. ASSUME NEW k \in Q
          PROVE  k + 1 \in Q
      <3>1. SUFFICES ASSUME k \in Nat, k + 2 <= n
                     PROVE  f[k + 2] >= a + k + 1
        OBVIOUS
      <3>2. f[k + 1] >= a + k
        BY <3>1
      <3>3. k + 1 \in 1 .. n /\ k + 2 \in 1 .. n /\ k + 1 < k + 2
        BY <3>1
      <3>4. f[k + 1] < f[k + 2]
        BY <3>3, <1>2
      <3>5. QED
        BY <3>1, <3>2, <3>3, <3>4, <1>3
    <2> HIDE DEF Q
    <2>3. Q \in SUBSET Nat
      BY DEF Q
    <2>4. QED
      BY <2>1, <2>2, <2>3, InductiveSetIsNat
  <1>5. R = Nat
    <2>1. 0 \in R
      BY <1>3
    <2>2. ASSUME NEW k \in R
          PROVE  k + 1 \in R
      <3>1. SUFFICES ASSUME k \in Nat, k + 2 <= n
                     PROVE  f[n - (k + 1)] <= b - (k + 1)
        OBVIOUS
      <3>2. f[n - k] <= b - k
        BY <3>1
      <3>3. n - (k + 1) \in 1 .. n /\ n - k \in 1 .. n /\ n - (k + 1) < n - k
        BY <3>1
      <3>4. f[n - (k + 1)] < f[n - k]
        BY <3>3, <1>2
      <3>5. QED
        BY <3>1, <3>2, <3>3, <3>4, <1>3
    <2> HIDE DEF R
    <2>3. R \in SUBSET Nat
      BY DEF R
    <2>4. QED
      BY <2>1, <2>2, <2>3, InductiveSetIsNat
  <1>6. ASSUME NEW k \in 1 .. n
        PROVE  f[k] = a + k - 1
    <2>1. k - 1 \in Q /\ n - k \in R
      <3>1. k - 1 \in Nat /\ n - k \in Nat
        BY <1>3
      <3> HIDE DEF Q, R
      <3>2. QED
        BY <3>1, <1>4, <1>5
    <2>2. (k - 1) + 1 = k /\ n - (n - k) = k /\ (n - k) + 1 <= n /\ b - (n - k) = a + k - 1
      BY <1>3
    <2>3. f[k] >= a + (k - 1) /\ f[k] <= a + k - 1
      BY <2>1, <2>2, <1>3
    <2>4. QED
      BY <2>3, <1>3
  <1>7. f = [k \in 1 .. n |-> a + k - 1]
    BY <1>2, <1>6
  <1>8. QED
    BY <1>7 DEF f

-------------------------------------------------------------------------------
(* Sums *)

(* The function that Total recurses over exists, and its values are the    *)
(* sums of the beginnings of the sequence.                                 *)
LEMMA TotalRecursion ==
    ASSUME NEW s \in Seq(Int)
    PROVE  \E sum :
              /\ Total(s) = sum[Len(s)]
              /\ sum[0] = 0
              /\ \A k \in 1 .. Len(s) : sum[k] = sum[k - 1] + s[k]
              /\ \A k \in 0 .. Len(s) : sum[k] \in Int
  <1> DEFINE Sums(g, n) == g = [k \in 0 .. n |-> IF k = 0 THEN 0 ELSE g[k - 1] + s[k]]
             Q == {n \in Nat : \E g : Sums(g, n)}
  <1>1. 0 \in Q
    <2>1. Sums([k \in 0 .. 0 |-> 0], 0)
      OBVIOUS
    <2>2. QED
      BY <2>1
  <1>2. ASSUME NEW n \in Q
        PROVE  n + 1 \in Q
    <2>1. n \in Nat
      OBVIOUS
    <2>2. PICK g : Sums(g, n)
      OBVIOUS
    <2> DEFINE e == g[n] + s[n + 1]
               h == [k \in 0 .. n + 1 |-> IF k = n + 1 THEN e ELSE g[k]]
    <2>3. \A k \in 0 .. n : k \in 0 .. n + 1 /\ h[k] = g[k]
      BY <2>1
    <2>4. ASSUME NEW k \in 0 .. n + 1
          PROVE  h[k] = IF k = 0 THEN 0 ELSE h[k - 1] + s[k]
      <3>1. CASE k = n + 1
        <4>1. h[k] = e /\ h[k - 1] = g[n] /\ k # 0
          BY <2>1, <2>3, <3>1
        <4>2. QED
          BY <4>1, <3>1
      <3>2. CASE k # n + 1
        <4>1. k \in 0 .. n /\ h[k] = g[k]
          BY <2>1, <2>3, <3>2
        <4>2. k # 0 => h[k - 1] = g[k - 1]
          BY <2>1, <2>3, <4>1
        <4>3. g[k] = IF k = 0 THEN 0 ELSE g[k - 1] + s[k]
          BY <2>2, <4>1
        <4>4. QED
          BY <4>1, <4>2, <4>3
      <3>3. QED
        BY <3>1, <3>2
    <2> HIDE DEF e
    <2>5. Sums(h, n + 1)
      BY <2>4
    <2> HIDE DEF Sums, h
    <2>6. QED
      BY <2>1, <2>5
  <1>3. Len(s) \in Nat /\ \A k \in 1 .. Len(s) : s[k] \in Int
    BY LenProperties, ElementOfSeq
  <1>4. \E g : Sums(g, Len(s))
    <2>1. Q = Nat
      <3> HIDE DEF Q
      <3>1. Q \in SUBSET Nat
        BY DEF Q
      <3>2. QED
        BY <1>1, <1>2, <3>1, InductiveSetIsNat
    <2>2. QED
      BY <2>1, <1>3
  <1> DEFINE sum == CHOOSE g : Sums(g, Len(s))
  <1>5. Sums(sum, Len(s))
    BY <1>4
  <1>6. Total(s) = sum[Len(s)]
    BY DEF Total
  <1> HIDE DEF sum
  <1>7. /\ sum[0] = 0
        /\ \A k \in 1 .. Len(s) : sum[k] = sum[k - 1] + s[k]
    <2>1. 0 \in 0 .. Len(s) /\ \A k \in 1 .. Len(s) : k \in 0 .. Len(s) /\ k # 0
      BY <1>3
    <2>2. \A k \in 0 .. Len(s) : sum[k] = IF k = 0 THEN 0 ELSE sum[k - 1] + s[k]
      BY <1>5
    <2>3. QED
      BY <2>1, <2>2
  <1>8. \A k \in 0 .. Len(s) : sum[k] \in Int
    <2> DEFINE R == {k \in Nat : sum[k] \in Int}
    <2>1. 0 \in R
      BY <1>7
    <2>2. ASSUME NEW k \in 0 .. Len(s) - 1, k \in R
          PROVE  k + 1 \in R
      <3>1. k + 1 \in 1 .. Len(s) /\ (k + 1) - 1 = k /\ k + 1 \in Nat
        BY <1>3
      <3>2. sum[k + 1] = sum[k] + s[k + 1] /\ s[k + 1] \in Int
        BY <3>1, <1>3, <1>7
      <3>3. QED
        BY <2>2, <3>1, <3>2
    <2> HIDE DEF R
    <2>3. \A k \in 0 .. Len(s) : k \in R
      BY <2>1, <2>2, <1>3, InductionUpTo
    <2>4. QED
      BY <2>3 DEF R
  <1>9. QED
    BY <1>6, <1>7, <1>8

(* A sum is a number, ...                                                  *)
LEMMA TotalType ==
    ASSUME NEW s \in Seq(Int)
    PROVE  Total(s) \in Int
  <1>1. Len(s) \in 0 .. Len(s)
    BY LenProperties
  <1>2. QED
    BY <1>1, TotalRecursion

(* ... that of two sequences, one behind the other, the sum of their sums, *)
LEMMA TotalOfConcat ==
    ASSUME NEW s \in Seq(Int), NEW t \in Seq(Int)
    PROVE  Total(s \o t) = Total(s) + Total(t)
  <1> DEFINE u == s \o t
             m == Len(s)
             n == Len(t)
  <1>1. /\ m \in Nat /\ n \in Nat /\ u \in Seq(Int) /\ Len(u) = m + n
        /\ \A k \in 1 .. m : u[k] = s[k]
        /\ \A k \in 1 .. n : u[m + k] = t[k]
    <2>1. /\ m \in Nat /\ n \in Nat /\ u \in Seq(Int) /\ Len(u) = m + n
          /\ \A k \in 1 .. m + n : u[k] = IF k <= m THEN s[k] ELSE t[k - m]
      BY LenProperties, ConcatProperties
    <2> HIDE DEF u, m, n
    <2>2. \A k \in 1 .. n : m + k \in 1 .. m + n /\ ~(m + k <= m) /\ (m + k) - m = k
      BY <2>1
    <2>3. \A k \in 1 .. m : k \in 1 .. m + n /\ k <= m
      BY <2>1
    <2>4. QED
      BY <2>1, <2>2, <2>3
  <1> HIDE DEF u
  <1>2. PICK f : /\ Total(s) = f[m] /\ f[0] = 0
                 /\ \A k \in 1 .. m : f[k] = f[k - 1] + s[k]
                 /\ \A k \in 0 .. m : f[k] \in Int
    BY TotalRecursion
  <1>3. PICK g : /\ Total(t) = g[n] /\ g[0] = 0
                 /\ \A k \in 1 .. n : g[k] = g[k - 1] + t[k]
                 /\ \A k \in 0 .. n : g[k] \in Int
    BY TotalRecursion
  <1> HIDE DEF m, n
  <1>4. PICK h : /\ Total(u) = h[m + n] /\ h[0] = 0
                 /\ \A k \in 1 .. m + n : h[k] = h[k - 1] + u[k]
    <2>1. u \in Seq(Int) /\ Len(u) = m + n
      BY <1>1
    <2>2. PICK h : /\ Total(u) = h[Len(u)] /\ h[0] = 0
                   /\ \A k \in 1 .. Len(u) : h[k] = h[k - 1] + u[k]
      BY <2>1, TotalRecursion
    <2>3. QED
      BY <2>1, <2>2
  <1>5. h[m] = f[m]
    <2> DEFINE Q == {k \in Nat : h[k] = f[k]}
    <2>1. 0 \in Q
      BY <1>2, <1>4
    <2>2. ASSUME NEW k \in 0 .. m - 1, k \in Q
          PROVE  k + 1 \in Q
      <3>1. /\ k + 1 \in 1 .. m /\ k + 1 \in 1 .. m + n /\ (k + 1) - 1 = k
            /\ k + 1 \in Nat
        BY <1>1
      <3>2. h[k + 1] = h[k] + u[k + 1] /\ f[k + 1] = f[k] + s[k + 1] /\ u[k + 1] = s[k + 1]
        BY <3>1, <1>1, <1>2, <1>4
      <3>3. QED
        BY <2>2, <3>1, <3>2
    <2> HIDE DEF Q
    <2>3. m \in Q
      BY <2>1, <2>2, <1>1, InductionUpTo, m \in 0 .. m
    <2>4. QED
      BY <2>3 DEF Q
  <1>6. h[m + n] = f[m] + g[n]
    <2> DEFINE Q == {k \in Nat : h[m + k] = f[m] + g[k]}
    <2>1. 0 \in Q
      <3>1. m + 0 = m /\ f[m] \in Int
        BY <1>1, <1>2
      <3>2. QED
        BY <3>1, <1>3, <1>5
    <2>2. ASSUME NEW k \in 0 .. n - 1, k \in Q
          PROVE  k + 1 \in Q
      <3>1. /\ k + 1 \in 1 .. n /\ m + (k + 1) \in 1 .. m + n /\ (m + (k + 1)) - 1 = m + k
            /\ (k + 1) - 1 = k /\ k + 1 \in Nat /\ k \in 0 .. n
        BY <1>1
      <3>2. /\ h[m + (k + 1)] = h[m + k] + u[m + (k + 1)] /\ u[m + (k + 1)] = t[k + 1]
            /\ g[k + 1] = g[k] + t[k + 1]
        BY <3>1, <1>1, <1>3, <1>4
      <3>3. f[m] \in Int /\ g[k] \in Int /\ t[k + 1] \in Int
        BY <3>1, <1>1, <1>2, <1>3, ElementOfSeq DEF n
      <3>4. QED
        BY <2>2, <3>1, <3>2, <3>3
    <2> HIDE DEF Q
    <2>3. n \in Q
      BY <2>1, <2>2, <1>1, InductionUpTo, n \in 0 .. n
    <2>4. QED
      BY <2>3 DEF Q
  <1>7. QED
    BY <1>2, <1>3, <1>4, <1>6 DEF u

(* ... and if one element changes, it changes by as much.                  *)
LEMMA TotalOfChange ==
    ASSUME NEW s \in Seq(Int), NEW t \in Seq(Int), Len(s) = Len(t), NEW p \in 1 .. Len(s),
           \A k \in 1 .. Len(s) : k # p => t[k] = s[k]
    PROVE  Total(t) = Total(s) + t[p] - s[p]
  <1> DEFINE n == Len(s)
  <1>1. /\ n \in Nat /\ p \in 1 .. n /\ s[p] \in Int /\ t[p] \in Int
        /\ \A k \in 1 .. n : s[k] \in Int /\ t[k] \in Int /\ (k # p => t[k] = s[k])
    BY LenProperties, ElementOfSeq
  <1>2. PICK f : /\ Total(s) = f[n] /\ f[0] = 0
                 /\ \A k \in 1 .. n : f[k] = f[k - 1] + s[k]
                 /\ \A k \in 0 .. n : f[k] \in Int
    BY TotalRecursion
  <1>3. PICK g : /\ Total(t) = g[n] /\ g[0] = 0
                 /\ \A k \in 1 .. n : g[k] = g[k - 1] + t[k]
                 /\ \A k \in 0 .. n : g[k] \in Int
    BY TotalRecursion
  <1> HIDE DEF n
  <1> DEFINE Q == {k \in Nat : g[k] = IF k < p THEN f[k] ELSE f[k] + t[p] - s[p]}
  <1>4. 0 \in Q
    BY <1>1, <1>2, <1>3
  <1>5. ASSUME NEW k \in 0 .. n - 1, k \in Q
        PROVE  k + 1 \in Q
    <2>1. /\ k + 1 \in 1 .. n /\ (k + 1) - 1 = k /\ k + 1 \in Nat /\ k \in 0 .. n
          /\ k + 1 \in 0 .. n
      BY <1>1
    <2>2. g[k + 1] = g[k] + t[k + 1] /\ f[k + 1] = f[k] + s[k + 1]
      BY <2>1, <1>2, <1>3
    <2>3. /\ f[k] \in Int /\ g[k] \in Int /\ s[k + 1] \in Int /\ t[k + 1] \in Int
          /\ (k + 1 # p => t[k + 1] = s[k + 1])
      BY <2>1, <1>1, <1>2, <1>3
    <2>4. g[k] = IF k < p THEN f[k] ELSE f[k] + t[p] - s[p]
      BY <1>5
    <2>5. g[k + 1] = IF k + 1 < p THEN f[k + 1] ELSE f[k + 1] + t[p] - s[p]
      <3>1. CASE k + 1 = p
        BY <3>1, <1>1, <2>2, <2>3, <2>4
      <3>2. CASE k + 1 # p
        <4>1. t[k + 1] = s[k + 1] /\ (k + 1 < p <=> k < p)
          BY <3>2, <1>1, <2>1, <2>3
        <4>2. CASE k < p
          <5>1. g[k + 1] = f[k + 1]
            BY <4>1, <4>2, <2>2, <2>3, <2>4
          <5>2. QED
            BY <4>1, <4>2, <5>1
        <4>3. CASE ~(k < p)
          <5>1. g[k] = f[k] + t[p] - s[p]
            BY <4>3, <2>4
          <5>2. /\ g[k + 1] = g[k] + s[k + 1] /\ f[k + 1] = f[k] + s[k + 1]
                /\ f[k] \in Int /\ s[k + 1] \in Int /\ t[p] \in Int /\ s[p] \in Int
            BY <4>1, <1>1, <2>2, <2>3
          <5>3. g[k + 1] = f[k + 1] + t[p] - s[p]
            BY <5>1, <5>2
          <5>4. QED
            BY <4>1, <4>3, <5>3
        <4>4. QED
          BY <4>2, <4>3
      <3>3. QED
        BY <3>1, <3>2
    <2>6. QED
      BY <2>1, <2>5
  <1>6. n \in Q
    <2> HIDE DEF Q
    <2>1. QED
      BY <1>1, <1>4, <1>5, InductionUpTo, n \in 0 .. n
  <1>7. QED
    BY <1>1, <1>2, <1>3, <1>6

===============================================================================
