------------------------------ MODULE Collections ------------------------------
(***************************************************************************)
(* Three loops over containers, in a form that proofs can unfold: tlapm    *)
(* sees neither into SelectSeq and SortSeq nor into the folds.             *)
(***************************************************************************)
EXTENDS Naturals, Sequences, FiniteSets

(* The elements of s that are in P, in the order of s: a loop that pushes  *)
(* back what passes a test.                                                *)
Among(s, P) ==
    LET kept[k \in 0 .. Len(s)] ==
            IF k = 0 THEN <<>>
            ELSE IF s[k] \in P THEN Append(kept[k - 1], s[k]) ELSE kept[k - 1]
    IN  kept[Len(s)]

(* The elements of a finite set of numbers in ascending order: how an      *)
(* iteration over a std::map meets its keys.                               *)
InOrder(I) ==
    CHOOSE f \in [1 .. Cardinality(I) -> I] :
        \A j, k \in 1 .. Cardinality(I) : j < k => f[j] < f[k]

(* The sum of a sequence of numbers, added up from its front.              *)
Total(s) ==
    LET sum[k \in 0 .. Len(s)] == IF k = 0 THEN 0 ELSE sum[k - 1] + s[k]
    IN  sum[Len(s)]

===============================================================================
