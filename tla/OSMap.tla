------------------------------- MODULE OSMap -------------------------------
(***************************************************************************)
(* Package osmaps: the tree of package omap, with several pairs per node.  *)
(* The pairs of a node stand in the order of their arrival; a linked list  *)
(* of indexes tells the order of their keys, and min and max lead the      *)
(* search.  A full node is split in two; the linked list is not touched.   *)
(***************************************************************************)
EXTENDS Integers, FiniteSets, Sequences, SequencesExt

CONSTANTS Keys,      \* integers
          Values, Nil,
          Fanout,    \* a node is split when it has that many pairs
          Prealloc   \* slices of pairs allocated with the map, two for each split

VARIABLES
    root,      \* the tree
    length,    \* the number of pairs, counted
    allocCntr, \* slices taken
    answer,    \* what the last operation returned
    panicked   \* an index was out of range; this map is not used any more

vars == <<root, length, allocCntr, answer, panicked>>

noSuccessor == 0
OutOfRange == -1

----------------------------------------------------------------------------
(* The linked list of a node.                                              *)

\* The entries that sortedIter passes, which gives up after Fanout + 1 of them;
\* an index out of range ends the list.
RECURSIVE Listed(_, _, _)
Listed(kv, i, ec) ==
    IF ec > Fanout + 1 THEN <<>>
    ELSE IF i \notin DOMAIN kv THEN <<OutOfRange>>
    ELSE <<i>> \o IF kv[i].succ = noSuccessor THEN <<>> ELSE Listed(kv, kv[i].succ, ec + 1)

SortedIter(nd) == Listed(nd.kv, nd.minIdx, 1)

\* Where the walk of insertLinkedList ends, and after which entry.
RECURSIVE Walk(_, _, _, _, _)
Walk(kv, k, prev, i, ec) ==
    IF ec > Fanout + 1 THEN [end |-> "overflow"]
    ELSE IF i \notin DOMAIN kv THEN [end |-> "panic"]
    ELSE IF kv[prev].key < k /\ k < kv[i].key THEN [end |-> "between", at |-> prev]
    ELSE IF kv[i].succ = noSuccessor THEN [end |-> "max", at |-> i]
    ELSE Walk(kv, k, i, kv[i].succ, ec + 1)

\* An outcome: the new subtree, whether a pair was added, slices taken, a panic.
Done(n, b) == [node |-> n, done |-> b, taken |-> 0, panic |-> FALSE]

InsertLinkedList(nd, k, v) ==
    LET last == Len(nd.kv) + 1
        kv   == Append(nd.kv, [key |-> k, value |-> v, succ |-> noSuccessor])
        w    == Walk(kv, k, nd.minIdx, nd.minIdx, 1)
        n    == CASE k < nd.min ->
                       [nd EXCEPT !.kv = [kv EXCEPT ![last].succ = nd.minIdx],
                                  !.min = k, !.minIdx = last]
                  [] k >= nd.min /\ w.end = "between" ->
                       [nd EXCEPT !.kv = [kv EXCEPT ![w.at].succ = last,
                                                    ![last].succ = kv[w.at].succ]]
                  [] k >= nd.min /\ w.end = "max" ->
                       [nd EXCEPT !.kv = [kv EXCEPT ![w.at].succ = last], !.max = k]
                  [] OTHER -> [nd EXCEPT !.kv = kv]
    IN [Done(n, k < nd.min \/ w.end \in {"between", "max"}) EXCEPT
           !.panic = (k >= nd.min /\ w.end = "panic") \/ OutOfRange \in ToSet(SortedIter(n))]

----------------------------------------------------------------------------
(* The tree: colours and rotations are those of package omap.              *)

IsRed(n) == n # Nil /\ n.red
Flip(n) == IF n = Nil THEN Nil ELSE [n EXCEPT !.red = ~@]
ColorFlip(n) == [n EXCEPT !.red = ~@, !.left = Flip(@), !.right = Flip(@)]
RotateLeft(n) ==
    [n.right EXCEPT !.left = [n EXCEPT !.right = n.right.left, !.red = TRUE], !.red = n.red]
RotateRight(n) ==
    [n.left EXCEPT !.right = [n EXCEPT !.left = n.left.right, !.red = TRUE], !.red = n.red]
When(cond, f(_), n) == IF cond THEN f(n) ELSE n
RotateRed(n) == When(IsRed(n.left) /\ IsRed(n.left.left), RotateRight, n)
FixUp(n) ==
    LET m == RotateRed(When(IsRed(n.right), RotateLeft, n))
    IN When(IsRed(m.left) /\ IsRed(m.right), ColorFlip, m)
Black(n) == IF n = Nil THEN Nil ELSE [n EXCEPT !.red = FALSE]

KeysOf(kv) == {kv[i].key : i \in DOMAIN kv}
InOrder(ks) ==
    [i \in 1..Cardinality(ks) |-> CHOOSE k \in ks : Cardinality({j \in ks : j <= k}) = i]

\* Mutant: the pair in the middle goes to neither node.
Split_loseMiddle(nd) ==
    LET sortedK == InOrder(KeysOf(nd.kv))
        half == Len(sortedK) \div 2
    IN [nd EXCEPT !.kv = SelectSeq(nd.kv, LAMBDA p : p.key < sortedK[half + 1]),
                  !.right = [red |-> TRUE, min |-> sortedK[half], max |-> Last(sortedK),
                             minIdx |-> 1, left |-> Nil, right |-> nd.right,
                             kv |-> SelectSeq(nd.kv, LAMBDA p : p.key > sortedK[half + 1])]]

Split(nd) ==
    LET sortedK == InOrder(KeysOf(nd.kv))
        half == Len(sortedK) \div 2
        kv1 == SelectSeq(nd.kv, LAMBDA p : p.key < sortedK[half + 1])
        kv2 == SelectSeq(nd.kv, LAMBDA p : p.key >= sortedK[half + 1])
        newNd == [red |-> TRUE, min |-> sortedK[half + 1], max |-> Last(sortedK),
                  minIdx |-> 1, kv |-> kv2, left |-> Nil, right |-> nd.right]
    IN [nd EXCEPT !.min = sortedK[1], !.max = sortedK[half], !.kv = kv1, !.right = newNd]

\* On the way up, full nodes are split, and red links turned to the left.
Settled(r) ==
    LET full == Len(r.node.kv) > Fanout - 1
        n == When(full, Split, r.node)
    IN [r EXCEPT !.node = RotateRed(When(IsRed(n.right) /\ ~IsRed(n.left), RotateLeft, n)),
                 !.taken = @ + IF full THEN 2 ELSE 0]

Stays(n, k) ==
    IF \E i \in DOMAIN n.kv : n.kv[i].key = k THEN "update" ELSE "add"
Branch(n, k) ==
    CASE k < n.min /\ n.left # Nil -> "left"
      [] n.max < k /\ n.right # Nil -> "right"
      [] OTHER -> "stay"

\* Mutant: a pair that is there keeps its value.
Update_keep(n, k, v) == n

Update(n, k, v) ==
    [n EXCEPT !.kv = [i \in DOMAIN n.kv |->
        IF n.kv[i].key = k THEN [n.kv[i] EXCEPT !.value = v] ELSE n.kv[i]]]

RECURSIVE InsertIn(_, _, _)
InsertIn(n, k, v) ==
    IF n = Nil
    THEN Done([min |-> k, max |-> k, minIdx |-> 1, red |-> TRUE, left |-> Nil, right |-> Nil,
               kv |-> <<[key |-> k, value |-> v, succ |-> noSuccessor]>>], TRUE)
    ELSE LET m == When(IsRed(n.left) /\ IsRed(n.right), ColorFlip, n)
             l == InsertIn(m.left, k, v)
             r == InsertIn(m.right, k, v)
         IN CASE Branch(m, k) = "left"  -> Settled([l EXCEPT !.node = [m EXCEPT !.left = l.node]])
              [] Branch(m, k) = "right" -> Settled([r EXCEPT !.node = [m EXCEPT !.right = r.node]])
              [] Branch(m, k) = "stay"  ->
                   Settled(IF Stays(m, k) = "add" THEN InsertLinkedList(m, k, v)
                           ELSE Done(Update(m, k, v), FALSE))

----------------------------------------------------------------------------
Init == root = Nil /\ length = 0 /\ allocCntr = 0 /\ answer = FALSE /\ panicked = FALSE

Insert(k, v) ==
    LET r == InsertIn(root, k, v) IN
    /\ ~panicked
    /\ IF r.panic \/ allocCntr + r.taken > Prealloc
       THEN panicked' = TRUE /\ UNCHANGED <<root, length, allocCntr, answer>>
       ELSE /\ root' = Black(r.node)
            /\ length' = IF r.done THEN length + 1 ELSE length
            /\ allocCntr' = allocCntr + r.taken
            /\ answer' = r.done
            /\ UNCHANGED panicked

\* Removal is a stub: it may turn the tree, and removes nothing.
Delete ==
    /\ ~panicked /\ root # Nil
    /\ root' = Black(FixUp(root))
    /\ answer' = FALSE
    /\ UNCHANGED <<length, allocCntr, panicked>>

Next == Delete \/ \E k \in Keys, v \in Values : Insert(k, v)
Spec == Init /\ [][Next]_vars

----------------------------------------------------------------------------
RECURSIVE FindIn(_, _)
FindIn(n, k) ==
    CASE n = Nil -> {}
      [] n # Nil /\ Branch(n, k) = "left" -> FindIn(n.left, k)
      [] n # Nil /\ Branch(n, k) = "right" -> FindIn(n.right, k)
      [] n # Nil /\ Branch(n, k) = "stay" -> {p \in ToSet(n.kv) : p.key = k}
Pairs == [k \in {k \in Keys : FindIn(root, k) # {}} |-> (CHOOSE p \in FindIn(root, k) : TRUE).value]

RECURSIVE DoIn(_)
DoIn(n) ==
    IF n = Nil THEN <<>>
    ELSE DoIn(n.left) \o [i \in DOMAIN n.kv |-> <<n.kv[i].key, n.kv[i].value>>] \o DoIn(n.right)

Visited == ToSet(DoIn(root))
Of(k) == {k} \X Values

(* Every insert that returns has Do visit its pair, and keeps all pairs of *)
(* other keys, however broken the lists of split nodes are: a split moves  *)
(* pairs and leaves their indexes of successors as they were               *)
(* (osmaps.go:233).  As long as no node has been split before, nothing     *)
(* panics, and the map is the map it should be, the first split included:  *)
(* Find finds each pair with its latest value, and no other; Do visits     *)
(* just these, each once; Len counts them; and Insert tells new keys from  *)
(* old ones (osmaps.go:69).  In order, as is said in osmaps.go:120, Do     *)
(* does not visit them.  Delete removes nothing.                           *)
KeepsPairs ==
    [][/\ allocCntr = 0 => ~panicked'
       /\ Delete => Visited' = Visited /\ (allocCntr = 0 => UNCHANGED <<Pairs, length>>)
       /\ \A k \in Keys, v \in Values : Insert(k, v) /\ ~panicked' =>
             /\ Visited' \ Of(k) = Visited \ Of(k) /\ <<k, v>> \in Visited'
             /\ allocCntr = 0 =>
                   /\ Pairs' = [j \in DOMAIN Pairs \union {k} |-> IF j = k THEN v ELSE Pairs[j]]
                   /\ Visited' = {<<j, Pairs'[j]>> : j \in DOMAIN Pairs'}
                   /\ Len(DoIn(root)') = length' /\ length' = Cardinality(Visited')
                   /\ answer' = (k \notin DOMAIN Pairs)]_vars

=============================================================================
