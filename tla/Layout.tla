------------------------------- MODULE Layout -------------------------------
(***************************************************************************)
(* Laying out amorphs (src/transposablematrix/48-fnd-lvl3-stairy.go,       *)
(* 49-fnd-lvl3-straight.go, 50-matching-fusions-amorphs.go) as the         *)
(* programs of the package do it: some amorphs are cast by hand and taken  *)
(* from the indexes, the viewport is restricted, and HeuristicsApply       *)
(* places one amorph a time into the gap where it is wanted most.          *)
(***************************************************************************)
EXTENDS Fusion

CONSTANTS Sizes,          \* numbers of elements of the amorphs added
          MaxAmorphs      \* bounds the reservoir

VARIABLES sums,           \* [w, h]: the columns and rows of all amorphs as added
          err             \* what the last HeuristicsApply returned

layoutVars == <<slot, limits, outmost, centre, persp, viewport, elements, stock, desirable, sums, err>>

WideGapMin == 2
WideGapCap == 3
WidestStatStair == 5
WidestDynStair == 4
NarrowestStair == 1
MinPossibleHeight == 1

LayoutInit ==
    /\ GridInit
    /\ viewport = <<>>
    /\ elements = <<>>
    /\ stock = {}
    /\ desirable = [w |-> 0, h |-> 0]
    /\ sums = [w |-> 0, h |-> 0]
    /\ err = ""

(***************************************************************************)
(* AddAmorphs: the new amorphs enter the indexes, the desirable gap is     *)
(* computed again from the averages of width and height.                   *)
(***************************************************************************)
DesirableGap(sum, count) == IF 9 * sum < 10 * count THEN 1 ELSE 2

AddAmorph(n, cols, rows) ==
    LET k == Len(elements) + 1
        s == [w |-> sums.w + cols, h |-> sums.h + rows]
    IN  /\ k <= MaxAmorphs
        /\ elements' = Append(elements, [n |-> n, padded |-> 0])
        /\ sums' = s
        /\ desirable' = [w |-> DesirableGap(s.w, k), h |-> DesirableGap(s.h, k)]

GenerateSpecificAmorph(n) ==
    /\ AddAmorph(n, RootCeiling(n), OtherSide(n, RootCeiling(n)))
    /\ stock' = stock \cup {Len(elements) + 1}
    /\ UNCHANGED <<gridVars, viewport, err>>

(* A program casts an amorph by hand and calls RemoveSpentEdges itself. *)
SeedAmorph(base, cols, rows, leftwise) ==
    LET c == [id |-> Len(elements) + 1, n |-> cols * rows, cols |-> cols, rows |-> rows,
              slack |-> 0, edge |-> <<>>]
    IN  /\ AddAmorph(cols * rows, cols, rows)
        /\ IF leftwise THEN SnapLeftwise(base, c) ELSE SnapRightwise(base, c)
        /\ UNCHANGED <<viewport, stock, err>>

(* The programs set the desirable gap by hand, after amorphs are added. *)
SetDesirable(w, h) ==
    /\ desirable' = [w |-> w, h |-> h]
    /\ UNCHANGED <<gridVars, viewport, elements, stock, sums, err>>

(***************************************************************************)
(* The heuristics.  Each returns a set of [cast, shift].                   *)
(***************************************************************************)
ReverseEdge(c) == [c EXCEPT !.edge = <<@[3], -@[2], @[1]>>]

ByStairyEdge(f, blocks, stepdown) ==
    {IF stepdown THEN ReverseEdge(c) ELSE c : c \in Filter(f, blocks)}

StairyPerfect(f) ==
    LET down == f.y < 0
        e == IF down THEN <<f.x2, -f.y, f.x1>> ELSE <<f.x1, f.y, f.x2>>
    IN  {[cast |-> c, shift |-> 0] :
            c \in ByStairyEdge(f, <<ExactStairyEdge(e[1], e[2], e[3])>>, down)}

(***************************************************************************)
(* AdapterStepdownAndDirection: one limb of the stair shrinks, from what   *)
(* leaves a desirable gap down to the narrowest.                           *)
(***************************************************************************)
ShrunkFrom(x) ==
    LET d == x - desirable.w IN IF d > WidestDynStair + 1 THEN WidestDynStair ELSE d
Capped(x) == IF x > WidestStatStair + 1 THEN WidestStatStair ELSE x

Stepdown(f, westw) ==
    LET down == f.y < 0
        e    == IF down THEN <<f.x2, -f.y, f.x1>> ELSE <<f.x1, f.y, f.x2>>
        west == westw # down          \* the direction is switched with the stair
        dyn  == IF west THEN e[1] ELSE e[3]
        from == ShrunkFrom(dyn)
        blocks == [i \in 1 .. from - NarrowestStair + 1 |->
                      IF west THEN ExactStairyEdge(from - i + 1, e[2], Capped(e[3]))
                      ELSE ExactStairyEdge(Capped(e[1]), e[2], from - i + 1)]
    IN  IF dyn < WideGapMin * desirable.w THEN {}
        ELSE {[cast |-> c, shift |-> f.x1 - c.edge[1]] : c \in ByStairyEdge(f, blocks, down)}

FirstNonEmpty(a, b) == IF a # {} THEN a ELSE b

StairyShrinky(f) ==
    CASE f.curve = "cncave" /\ f.y > 0 -> FirstNonEmpty(Stepdown(f, TRUE), Stepdown(f, FALSE))
      [] f.curve = "cncave" /\ f.y <= 0 -> FirstNonEmpty(Stepdown(f, FALSE), Stepdown(f, TRUE))
      [] f.curve \in {"stairW", "stairE"} -> Stepdown(f, FALSE)
      [] f.curve = "convex" -> {}

(***************************************************************************)
(* The straight heuristics fill the lower of the two sections only.        *)
(***************************************************************************)
LowerFlank_notShifted(f) == IF f.y < 0 THEN [x |-> f.x2, shift |-> 0] ELSE [x |-> f.x1, shift |-> 0]

LowerFlank(f) == IF f.y < 0 THEN [x |-> f.x2, shift |-> f.x1] ELSE [x |-> f.x1, shift |-> 0]

StraightOf(f, x) ==
    {[cast |-> c, shift |-> LowerFlank(f).shift] : c \in Filter(f, ExactStraightEdge(x))}

StraightPerfect(f) == StraightOf(f, LowerFlank(f).x)

(* A gap that is too wide is first cut to what the later heuristic takes. *)
CutGap(f) ==
    LET x == LowerFlank(f).x IN IF x > WideGapCap * desirable.w THEN desirable.w ELSE x

StraightShrinky(f) ==
    LET x == CutGap(f)
        hits == {i \in desirable.w .. x - desirable.w : StraightOf(f, i) # {}}
    IN  IF x < WideGapMin * desirable.w \/ hits = {} THEN {} ELSE StraightOf(f, Max(hits))

(* ByNumElementsWrap: any amorph large enough, wrapped and padded to fit. *)
Padded(k, x) ==
    LET rows == OtherSide(elements[k].n, x)
        pad  == SlackOf(elements[k].n, x, rows)
    IN  [id |-> k, n |-> elements[k].n + pad, cols |-> x, rows |-> rows, slack |-> 0, edge |-> <<>>]

ByNumElementsWrap(f) ==
    LET x == CutGap(f)
        Least(i) == IF i = 0 THEN x * desirable.h ELSE x * MinPossibleHeight - (i - 1)
        tries == {i \in 0 .. x : MoreThanXElements(Least(i)) # {}}
        first == CHOOSE i \in tries : \A j \in tries : i <= j
    IN  IF tries = {} THEN {}
        ELSE {[cast |-> Padded(k, x), shift |-> LowerFlank(f).shift] : k \in MoreThanXElements(Least(first))}

Heuristics == {"StairyPerfect", "StairyShrinky", "StraightPerfect", "StraightShrinky", "ByNumElementsWrap"}

Tried(h, f) ==
    CASE h = "StairyPerfect" -> StairyPerfect(f)
      [] h = "StairyShrinky" -> StairyShrinky(f)
      [] h = "StraightPerfect" -> StraightPerfect(f)
      [] h = "StraightShrinky" -> StraightShrinky(f)
      [] h = "ByNumElementsWrap" -> ByNumElementsWrap(f)

(* restrictHeuristicsByIndex leaves some of them out. *)
InOrder(allowed) ==
    SelectSeq(<<"StairyPerfect", "StairyShrinky", "StraightPerfect", "StraightShrinky", "ByNumElementsWrap">>,
              LAMBDA h : h \in allowed)

(***************************************************************************)
(* IterateFusedSections: the first heuristic that finds an amorph for the  *)
(* first fusion for which one does.                                        *)
(***************************************************************************)
Earliest(ps) == {p \in ps : \A q \in ps : p[1] < q[1] \/ (p[1] = q[1] /\ p[2] <= q[2])}

FirstHit(fs, order) ==
    LET hits == [p \in (DOMAIN fs) \X (DOMAIN order) |-> Tried(order[p[2]], fs[p[1]])]
        first == Earliest({p \in DOMAIN hits : hits[p] # {}})
    IN  UNION {{[cast |-> r.cast, shift |-> r.shift, base |-> fs[p[1]].base] : r \in hits[p]} : p \in first}

Place(r) ==
    /\ SnapRightwise(<<r.base[1] + r.shift, r.base[2]>>, r.cast)
    /\ elements' = [elements EXCEPT ![r.cast.id] =
                       [n |-> r.cast.n, padded |-> @.padded + (r.cast.n - @.n)]]
    /\ stock' = stock \ {r.cast.id}

Applied(o, fs, hits) ==
    /\ err' = CASE ~o.ok -> "outline"
                [] o.ok /\ stock = {} -> "exhausted"
                [] o.ok /\ stock # {} /\ ~fs.ok -> "neighbour"
                [] o.ok /\ stock # {} /\ fs.ok -> ""
    /\ IF err' = "" /\ hits # {} THEN \E r \in hits : Place(r)
       ELSE UNCHANGED <<gridVars, elements, stock>>
    /\ UNCHANGED <<viewport, desirable, sums>>

HeuristicsApply(allowed) ==
    \E o \in {PartialOutline} : \E fs \in {Fusions(o.line, Clns(o.line))} :
        Applied(o, fs, FirstHit(fs.list, InOrder(allowed)))

RestrictView(x1, y1, x2, y2) ==
    /\ ViewportRestriction(x1, y1, x2, y2)
    /\ UNCHANGED <<elements, stock, desirable, sums, err>>

Turn(p) == SetPerspective(p) /\ UNCHANGED <<viewport, elements, stock, desirable, sums, err>>

Centre(x, y) == SetCenter(x, y) /\ UNCHANGED <<viewport, elements, stock, desirable, sums, err>>

-----------------------------------------------------------------------------
(***************************************************************************)
(* The outline is trusted: an amorph is painted over no other and, unless  *)
(* it reaches out of the matrix, whole, although Set (10-matrix.go:460)    *)
(* overwrites and drops slots silently.  The exception: while all amorphs  *)
(* stand in one column, PartialOutline (30-outline.go:38) takes the matrix *)
(* for empty and puts the floor behind them.                               *)
(***************************************************************************)
TakenForEmpty == Filled # {} /\ FilledMinMax(persp)[NWW] = FilledMinMax(persp)[NEE]

SlotsOf(s, k) == {b \in Base : s[b].am = k}
AtBorder(bs) == \E b \in bs : b[1] \in {0, Nx - 1} \/ b[2] \in {0, Ny - 1}

PlacedWhole ==
    [][LET placed == {k \in DOMAIN elements' : k \notin stock' /\ (k \in stock \/ k \notin DOMAIN elements)}
       IN  \/ TakenForEmpty
           \/ /\ \A b \in Filled : slot'[b] = slot[b]
              /\ \A k \in placed : LET bs == SlotsOf(slot', k)
                                   IN  AtBorder(bs) \/ Cardinality(bs) = elements'[k].n]_slot

(***************************************************************************)
(* Every edge that an amorph is found by is the lower edge of a shape of   *)
(* exactly its elements (PermutateShapes, 22-edges-permutated.go:40), so   *)
(* that exactStairyEdge, which asks for no more than the room, leaves      *)
(* nothing open below it.                                                  *)
(***************************************************************************)
StairsFillExactly ==
    /\ TestedShapes
    /\ \A k \in DOMAIN elements : \A e \in Stairs(OwnElements(k)) :
           \E rows \in e[2] + 1 .. OwnElements(k) :
               SlackOf(OwnElements(k), e[1] + e[3], rows) = e[2] * e[3]
=============================================================================
