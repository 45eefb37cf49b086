------------------------------- MODULE OMap -------------------------------
(***************************************************************************)
(* The left-leaning red-black tree of packages omap and osmap, which have  *)
(* the same code for different types of keys and values.                   *)
(*                                                                         *)
(* A node is a record; the code changes nodes in place, but no node is in  *)
(* two trees, so that a changed node and a new one are the same.  The      *)
(* recursive operations are recursive functions of the subtree.            *)
(***************************************************************************)
EXTENDS Integers, FiniteSets, Sequences

CONSTANTS Keys, Values,
          MaxLength,  \* bound: of Len()
          Uses   \* of a map: "grows" if nothing is ever deleted, or "all"

ASSUME OMapAssumption == Keys \subseteq Int /\ Uses \subseteq {"grows", "all"} /\ MaxLength \in Nat

VARIABLES
    root,   \* the tree
    length, \* the number of pairs, counted
    answer, \* what the last operation returned
    use     \* the use of this map

vars == <<root, length, answer, use>>

----------------------------------------------------------------------------
Nil == <<>>    \* the nil pointer has no fields

\* The trees of at most h levels, and those of at most MaxLength pairs.
Trees[h \in Nat] ==
    LET below == Trees[h - 1]
    IN IF h = 0 THEN {Nil}
       ELSE {Nil} \union [key : Keys, value : Values, red : BOOLEAN, left : below, right : below]
Size[n \in Trees[MaxLength]] == IF n = Nil THEN 0 ELSE Size[n.left] + 1 + Size[n.right]
Tree == {n \in Trees[MaxLength] : Size[n] <= MaxLength}
Node == Tree \ {Nil}

IsRed(n) == n # Nil /\ n.red
Flip(n) == IF n = Nil THEN Nil ELSE [n EXCEPT !.red = ~@]
ColorFlip(n) == [n EXCEPT !.red = ~@, !.left = Flip(@), !.right = Flip(@)]
RotateLeft(n) ==
    [n.right EXCEPT !.left = [n EXCEPT !.right = n.right.left, !.red = TRUE], !.red = n.red]
RotateRight(n) ==
    [n.left EXCEPT !.right = [n EXCEPT !.left = n.left.right, !.red = TRUE], !.red = n.red]

When(cond, f(_), n) == IF cond THEN f(n) ELSE n
RotateRed(n) == When(IsRed(n.left) /\ IsRed(n.left.left), RotateRight, n)

\* What insert does to a node on the way up; a fix after a removal differs in
\* when it rotates left, and splits a node with two red children.
Settle(n) == RotateRed(When(IsRed(n.right) /\ ~IsRed(n.left), RotateLeft, n))
FixUp(n) ==
    LET m == RotateRed(When(IsRed(n.right), RotateLeft, n))
    IN When(IsRed(m.left) /\ IsRed(m.right), ColorFlip, m)

\* Recursive operations yield the new subtree and whether they did something.
Done(n, b) == [node |-> n, done |-> b]
Black(n) == IF n = Nil THEN Nil ELSE [n EXCEPT !.red = FALSE]

\* Mutant: a pair that is there keeps its value.
Overwrite_keep(n, v) == n

Overwrite(n, v) == [n EXCEPT !.value = v]

InsertIn(k, v) ==
    LET into[n \in Tree] ==
            IF n = Nil
            THEN Done([key |-> k, value |-> v, red |-> TRUE, left |-> Nil, right |-> Nil], TRUE)
            ELSE LET m == When(IsRed(n.left) /\ IsRed(n.right), ColorFlip, n)
                     l == into[m.left]
                     r == into[m.right]
                 IN CASE k < m.key -> Done(Settle([m EXCEPT !.left = l.node]), l.done)
                      [] k > m.key -> Done(Settle([m EXCEPT !.right = r.node]), r.done)
                      [] k = m.key -> Done(Settle(Overwrite(m, v)), FALSE)
    IN into

----------------------------------------------------------------------------
(* Removal borrows red links on the way down.                              *)

Borrows(n) == ~IsRed(n) /\ ~IsRed(n.left)

MoveRedLeft(n) ==
    LET m == ColorFlip(n)
    IN IF m.right # Nil /\ IsRed(m.right.left)
       THEN ColorFlip(RotateLeft([m EXCEPT !.right = RotateRight(@)]))
       ELSE m

MoveRedRight(n) ==
    LET m == ColorFlip(n)
    IN IF m.left # Nil /\ IsRed(m.left.left) THEN ColorFlip(RotateRight(m)) ELSE m

First[n \in Node] == IF n.left = Nil THEN n ELSE First[n.left]

DeleteMinimum[n \in Node] ==
    IF n.left = Nil THEN Nil
    ELSE LET m == When(Borrows(n.left), MoveRedLeft, n)
         IN FixUp([m EXCEPT !.left = DeleteMinimum[@]])

\* Mutant: the successor takes the place of the removed pair and stays where it was.
Replace_keepMinimum(n) ==
    LET smallest == First[n.right]
    IN [n EXCEPT !.key = smallest.key, !.value = smallest.value]

\* Mutant: the successor brings its key and leaves its value.
Replace_keepValue(n) ==
    [n EXCEPT !.key = First[n.right].key, !.right = DeleteMinimum[@]]

\* The pair of n gives way to the next one, which is the first of its right subtree.
Replace(n) ==
    LET smallest == First[n.right]
    IN [n EXCEPT !.key = smallest.key, !.value = smallest.value, !.right = DeleteMinimum[@]]

RemoveFrom(k) ==
    LET from[n \in Node] ==
            IF k < n.key
            THEN IF n.left = Nil THEN Done(FixUp(n), FALSE)
                 ELSE LET m == When(Borrows(n.left), MoveRedLeft, n)
                          l == from[m.left]
                      IN Done(FixUp([m EXCEPT !.left = l.node]), l.done)
            ELSE LET o == When(IsRed(n.left), RotateRight, n)
                     m == When(o.right # Nil /\ Borrows(o.right), MoveRedRight, o)
                     r == from[m.right]
                 IN CASE o.right = Nil /\ k = o.key -> Done(Nil, TRUE)
                      [] o.right = Nil /\ k # o.key -> Done(FixUp(o), FALSE)
                      [] o.right # Nil /\ k = m.key -> Done(FixUp(Replace(m)), TRUE)
                      [] o.right # Nil /\ k # m.key -> Done(FixUp([m EXCEPT !.right = r.node]), r.done)
    IN from

----------------------------------------------------------------------------
Init == root = Nil /\ length = 0 /\ answer = FALSE /\ use \in Uses

Insert(k, v) ==
    LET r == InsertIn(k, v)[root] IN
    /\ length < MaxLength
    /\ root' = Black(r.node)
    /\ length' = IF r.done THEN length + 1 ELSE length
    /\ answer' = r.done
    /\ UNCHANGED use

Delete(k) ==
    LET r == IF root = Nil THEN Done(Nil, FALSE) ELSE RemoveFrom(k)[root] IN
    /\ use = "all"
    /\ root' = Black(r.node)
    /\ length' = IF r.done THEN length - 1 ELSE length
    /\ answer' = r.done
    /\ UNCHANGED use

Next == \E k \in Keys : Delete(k) \/ \E v \in Values : Insert(k, v)
Spec == Init /\ [][Next]_vars

----------------------------------------------------------------------------
(* Find descends from the root; Do visits the subtrees in turn.            *)

FindIn(k) ==
    LET under[n \in Tree] ==
            IF n = Nil \/ k = n.key THEN n
            ELSE IF k < n.key THEN under[n.left] ELSE under[n.right]
    IN under
Pairs == [k \in {k \in Keys : FindIn(k)[root] # Nil} |-> FindIn(k)[root].value]

DoIn[n \in Tree] == IF n = Nil THEN <<>> ELSE DoIn[n.left] \o <<<<n.key, n.value>>>> \o DoIn[n.right]

Map == INSTANCE OrderedMap WITH pairs <- Pairs, visit <- DoIn[root]

(* Whatever splits and rotations its inserts have been through, a map that *)
(* only grows is the map it should be: inserting a pair adds this pair,    *)
(* with its value for the old one, to what Find finds, and leaves all else *)
(* as it was; Do visits just these pairs, in order; Len counts them; and   *)
(* Insert tells new keys from old ones.                                    *)
GrowsAsAMap ==
    [][use = "grows" => \A k \in Keys, v \in Values : Insert(k, v) => Map!Insert(k, v)]_vars

\* The number of black nodes on each path down, if it is the same on all; or -1.
BlackHeight[n \in Tree] ==
    IF n = Nil THEN 0
    ELSE LET l == BlackHeight[n.left] IN
         IF l = -1 \/ l # BlackHeight[n.right] THEN -1
         ELSE IF n.red THEN l ELSE l + 1

NoRedPairs[n \in Tree] ==
    \/ n = Nil
    \/ /\ n.red => ~IsRed(n.left) /\ ~IsRed(n.right)
       /\ IsRed(n.right) => IsRed(n.left)
       /\ NoRedPairs[n.left] /\ NoRedPairs[n.right]

(* In all uses, with deletes that rotate subtrees this way and that, Find  *)
(* and Do agree about the map: what Do visits is in order and is what Find *)
(* finds, so that no pair hides where a search does not pass by.  A map    *)
(* that only grows "is a left-leaning red-black tree" (omap.go:15): all    *)
(* paths have the same number of black nodes, no red node follows a red    *)
(* one, and a red link to the right is accompanied by one to the left.     *)
(* Insert relies on it on its way down, and restores it on its way up; the *)
(* depth of a search is bounded by it.                                     *)
SearchTree ==
    /\ LET found == Pairs IN DoIn[root] = Map!InOrder(found)
    /\ use = "grows" => BlackHeight[root] # -1 /\ NoRedPairs[root] /\ ~IsRed(root)

(* Delete puts no pair into the map, and leaves none behind under its key; *)
(* it reports what it found there.                                         *)
DeleteRemoves ==
    [][LET before == Pairs
           after == Pairs'
       IN \A k \in Keys : Delete(k) =>
             /\ DOMAIN after \subseteq DOMAIN before \ {k}
             /\ \A j \in DOMAIN after : after[j] = before[j]
             /\ answer' = (k \in DOMAIN before)]_vars

=============================================================================
