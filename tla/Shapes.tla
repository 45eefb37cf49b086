------------------------------- MODULE Shapes -------------------------------
(***************************************************************************)
(* Amorphs, areas that may take many shapes, and the shapes they can take  *)
(* (src/transposablematrix/20-amorph.go, 22-edges-permutated.go).  A       *)
(* reservoir indexes its amorphs by number of elements (MElements), by the *)
(* rectangles they fill (EdgesSlackless) and by the stairs their lower     *)
(* edge can have (Edge3).  The indexes are functions of the amorphs they   *)
(* hold: adding or removing an amorph adds or removes its number under     *)
(* each key that PermutateShapes computes from its number of elements.     *)
(***************************************************************************)
EXTENDS Integers, FiniteSets, FiniteSetsExt

RootCeiling(n) == CHOOSE r \in 0 .. n : r * r >= n /\ \A s \in 0 .. r - 1 : s * s < n

(* OtherSide: the rows that n elements need in so many columns. *)
OtherSide(n, cols) == IF n % cols = 0 THEN n \div cols ELSE (n \div cols) + 1
SlackOf(n, cols, rows) == cols * rows - n

Factorize(n) == {i \in 2 .. n - 1 : n % i = 0}

(* Enc: a stair going down to the east is stored as its mirror image. *)
Enc(e) == IF e[2] < 0 THEN <<e[3], -e[2], e[1]>> ELSE e

(***************************************************************************)
(* PermutateEdges: a slack is cut out of a corner of the rectangle as a    *)
(* bar or as any other rectangle, lying or standing.                       *)
(***************************************************************************)
PermutateEdges_factorsNotTurned(cols, rows, slack) ==
    IF slack <= 0 THEN {}
    ELSE UNION {LET y == slack \div x
                IN  (IF rows > x /\ cols > y THEN {<<rows - x, y, x>>, <<cols - y, x, y>>} ELSE {})
                    \cup
                    (IF rows > y /\ cols > x THEN {<<rows - x, x, y>>, <<cols - x, y, x>>} ELSE {}) :
                x \in {1} \cup Factorize(slack)}

PermutateEdges(cols, rows, slack) ==
    IF slack <= 0 THEN {}
    ELSE UNION {LET y == slack \div x
                IN  (IF rows > x /\ cols > y THEN {<<rows - x, y, x>>, <<cols - y, x, y>>} ELSE {})
                    \cup
                    (IF rows > y /\ cols > x THEN {<<rows - y, x, y>>, <<cols - x, y, x>>} ELSE {}) :
                x \in {1} \cup Factorize(slack)}

(***************************************************************************)
(* PermutateShapes: every width from the root to the whole area, and the   *)
(* larger rectangles up to half the area ("superedges").                   *)
(***************************************************************************)
PlainRectangles(n) == {<<c, OtherSide(n, c)>> : c \in RootCeiling(n) .. n}

SuperRectangles(n) ==
    LET e1 == (n \div 2) + 1
        e2 == IF n % 2 = 0 THEN n \div 2 ELSE e1
    IN  {q \in (RootCeiling(n) .. e2) \X (RootCeiling(n) .. e1) : q[1] <= q[2]}

Stairs(n) ==
    {Enc(e) : e \in UNION {PermutateEdges(q[1], q[2], SlackOf(n, q[1], q[2])) :
                           q \in PlainRectangles(n) \cup SuperRectangles(n)}}

Rectangles(n) ==
    UNION {{q, <<q[2], q[1]>>} : q \in {r \in PlainRectangles(n) : SlackOf(n, r[1], r[2]) = 0}}

(***************************************************************************)
(* What the tests of the package say of the shapes                         *)
(* (22-edges-permutated_test.go:17, :76).                                  *)
(***************************************************************************)
TestedShapes ==
    /\ Stairs(5) = {<<1,1,1>>, <<1,1,3>>, <<1,2,2>>, <<1,3,1>>, <<2,1,1>>}
    /\ Stairs(6) = {<<1,1,4>>, <<1,2,1>>, <<1,2,3>>, <<1,3,2>>, <<1,4,1>>, <<2,1,2>>}
    /\ Factorize(4) = {2} /\ Factorize(5) = {} /\ Factorize(12) = {2, 3, 4, 6}
=============================================================================
