---------------------------- MODULE OrderedMap ----------------------------
(***************************************************************************)
(* What the packages omap and osmap promise: a map whose keys are visited  *)
(* in order, that counts its pairs, and whose operations say whether a key *)
(* was new or was there.                                                   *)
(***************************************************************************)
EXTENDS Integers, FiniteSets, Sequences

CONSTANTS Keys, Values

VARIABLES
    pairs,  \* what Find finds: a function from the keys present to values
    visit,  \* the pairs in the order in which Do visits them
    length, \* what Len returns
    answer  \* what the last operation returned

vars == <<pairs, visit, length, answer>>

\* The pairs of a map, in the order of their keys.
InOrder(f) ==
    LET n == Cardinality(DOMAIN f)
        rank(k) == Cardinality({j \in DOMAIN f : j <= k})
    IN [i \in 1..n |-> LET k == CHOOSE k \in DOMAIN f : rank(k) = i IN <<k, f[k]>>]

Become(f) ==
    /\ pairs' = f
    /\ visit' = InOrder(f)
    /\ length' = Cardinality(DOMAIN f)

Init == pairs = <<>> /\ visit = <<>> /\ length = 0 /\ answer = FALSE

Insert(k, v) ==
    /\ Become([j \in DOMAIN pairs \union {k} |-> IF j = k THEN v ELSE pairs[j]])
    /\ answer' = (k \notin DOMAIN pairs)

Delete(k) ==
    /\ Become([j \in DOMAIN pairs \ {k} |-> pairs[j]])
    /\ answer' = (k \in DOMAIN pairs)

Next == \E k \in Keys : Delete(k) \/ \E v \in Values : Insert(k, v)
Spec == Init /\ [][Next]_vars
=============================================================================
