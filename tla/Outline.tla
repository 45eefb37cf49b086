------------------------------- MODULE Outline -------------------------------
(***************************************************************************)
(* The upper outline of the filled slots as seen from a perspective, and   *)
(* its horizontal sections, sorted by where an amorph is wanted most:      *)
(* concave, low, narrow (src/transposablematrix/30-outline.go,             *)
(* 31-outline-enhance.go).  Indexes into an outline count from 0 as in the *)
(* code; At(l, i) reads a point.                                           *)
(***************************************************************************)
EXTENDS Grid, Sequences, SequencesExt, FiniteSetsExt

VARIABLE viewport      \* <<>> or the two base corners of the restriction

ViewportRestriction(x1, y1, x2, y2) ==
    /\ viewport' = <<Mapped2Base(persp, <<x1, y1>>), Mapped2Base(persp, <<x2, y2>>)>>
    /\ UNCHANGED gridVars

FictSegLen == 6

At(l, i) == l[i + 1]
X(q) == q[1]
Y(q) == q[2]

(***************************************************************************)
(* PartialOutline.  The walk starts at NWW and looks at the slot ahead and *)
(* the one above it: up, right or down; a point is noted at every turn.    *)
(***************************************************************************)
Up == 0
Right == 1
Down == 2

Direction(x, y) ==
    CASE ~IsEmpty(x, y - 1) /\ ~IsEmpty(x, y) -> Up
      [] IsEmpty(x, y - 1) /\ IsEmpty(x, y) -> Down
      [] OTHER -> Right

Turned(w, d) ==
    CASE d = Down \/ (d = Right /\ w.dir = Down) -> Append(w.line, <<w.x - 1, w.y>>)
      [] OTHER -> Append(w.line, <<w.x, w.y>>)

(***************************************************************************)
(* The walk ends at q2, noted at a turn; it fails where it gets beyond q2, *)
(* or never there.                                                         *)
(***************************************************************************)
Walk(q1, q2) ==
    LET Step(w, k) ==
            LET d    == Direction(w.x, w.y)
                line == IF d = w.dir THEN w.line ELSE Turned(w, d)
            IN  CASE w.arrived \/ w.x > X(q2) + 1 -> w
                  [] ~w.arrived /\ w.x <= X(q2) + 1 /\ d # w.dir /\ Last(line) = q2 ->
                         [w EXCEPT !.line = line, !.arrived = TRUE]
                  [] OTHER -> [x |-> IF d = Right THEN w.x + 1 ELSE w.x,
                               y |-> CASE d = Up -> w.y - 1 [] d = Right -> w.y [] d = Down -> w.y + 1,
                               dir |-> d, line |-> line, arrived |-> FALSE]
    IN  FoldLeft(Step, [x |-> X(q1), y |-> Y(q1), dir |-> Up, line |-> <<q1>>, arrived |-> FALSE],
                 [k \in 1 .. Nx + Ny |-> k])

(***************************************************************************)
(* enhanceLine: the outline goes on to the limits of the viewport, west on *)
(* its own height, east on the floor, and ends in fictitious walls.        *)
(***************************************************************************)
Limits ==
    LET a == Base2Mapped(persp, viewport[1])
        b == Base2Mapped(persp, viewport[2])
    IN  IF persp % 2 = 1
        THEN [west |-> X(a), east |-> X(b), floor |-> GreatestOf(Y(a), Y(b))]
        ELSE [west |-> Y(a), east |-> Y(b), floor |-> GreatestOf(X(a), X(b))]

WestEnd(line, v) ==
    LET y == Y(line[1]) - FictSegLen
    IN  <<<<v.west - FictSegLen, y>>, <<v.west, y>>, <<v.west, Y(line[1])>>>> \o Tail(line)

(* floored: the pit down to the floor is left out; first: the first point. *)
EastEnd(line, v, xm2) ==
    LET end  == Last(line)
        y    == IF xm2 = v.east - 1 \/ v.floor = Y(line[1]) THEN Y(end) ELSE v.floor
        flat == IF xm2 = v.east - 1 \/ v.floor = Y(line[1])
                THEN Append(Front(line), <<v.east, Y(end)>>)
                ELSE line \o <<<<X(end), v.floor>>, <<v.east, v.floor>>>>
    IN  flat \o <<<<v.east, y - FictSegLen>>, <<v.east + FictSegLen, y - FictSegLen>>>>

EnhanceLine(stillEmpty, line, xm1, xm2) ==
    IF viewport = <<>> THEN line
    ELSE LET v  == Limits
             l0 == IF stillEmpty THEN <<<<v.west, v.floor>>, <<v.east, v.floor>>>> ELSE line
             x1 == IF stillEmpty THEN v.west + 1 ELSE xm1
             x2 == IF stillEmpty THEN v.east - 1 ELSE xm2
             l1 == IF v.west < x1 THEN WestEnd(l0, v) ELSE l0
         IN  IF v.east > x2 THEN EastEnd(l1, v, x2) ELSE l1

WithoutRepetition(line) == IF Len(line) > 1 /\ line[1] = line[2] THEN Tail(line) ELSE line

Between(q1, q2) ==
    LET walk == Walk(q1, q2)
        Failed   == [ok |-> FALSE, line |-> <<>>]
        Enhanced(line) == [ok |-> TRUE, line |-> EnhanceLine(line = <<>>, line, X(q1), X(q2))]
    IN  IF q1 = q2 THEN Enhanced(<<>>)
        ELSE IF walk.arrived THEN Enhanced(WithoutRepetition(walk.line))
        ELSE Failed

PartialOutline ==
    LET ends == FilledMinMax(persp)
    IN  Between(Base2Mapped(persp, ends[NWW]), Base2Mapped(persp, ends[NEE]))

(***************************************************************************)
(* ConcaveSections: floors between a way down and a way up, however short. *)
(* The scan keeps the last point before the way down, the end of the way   *)
(* down and the end of the floor; an upward step forgets them.             *)
(***************************************************************************)
Scan(l) ==
    LET None == <<>>
        Step(s, i) ==
            LET q == At(l, i)
            IN  CASE s.top = None -> [s EXCEPT !.top = q]
                  [] s.top # None /\ s.pit = None /\ Y(q) <= Y(s.top) -> [s EXCEPT !.top = q]
                  [] s.top # None /\ s.pit = None /\ Y(q) > Y(s.top) -> [s EXCEPT !.pit = q, !.from = i]
                  [] s.top # None /\ s.pit # None /\ Y(q) > Y(s.pit) ->
                         [s EXCEPT !.top = s.pit, !.pit = q, !.from = i]
                  [] s.top # None /\ s.pit # None /\ Y(q) = Y(s.pit) -> [s EXCEPT !.floor = q, !.to = i]
                  [] s.top # None /\ s.pit # None /\ s.floor # None /\ Y(q) < Y(s.pit) /\ Y(q) < Y(s.floor) ->
                         [top |-> None, pit |-> None, floor |-> None, from |-> -1, to |-> -1,
                          found |-> Append(s.found, <<s.from, s.to>>)]
                  [] OTHER -> s
    IN  FoldLeft(Step, [top |-> None, pit |-> None, floor |-> None, from |-> -1, to |-> -1, found |-> <<>>],
                 [k \in 1 .. Len(l) - 1 |-> k])

ConcaveSections(l) == IF Len(l) < 2 THEN <<>> ELSE Scan(l).found

(***************************************************************************)
(* sortFactor: concave before others, low before high, narrow before wide; *)
(* a key that is taken already gives way to the next.                      *)
(***************************************************************************)
SortFactor(isConcave, q1, q2, taken) ==
    LET key == (IF isConcave THEN 0 ELSE 1000000) - 1000 * Y(q1)
               - (IF Y(q1) = 0 THEN 800 ELSE 0) + X(q2) - X(q1)
    IN  CHOOSE k \in key .. key + Cardinality(taken) :
            k \notin taken /\ \A j \in key .. k - 1 : j \in taken

(* Sections in the order of their keys, as pairs of indexes. *)
Sorted(l) ==
    LET conc  == ConcaveSections(l)
        floor == SelectSeq([k \in 1 .. Len(l) - 1 |-> <<k - 1, k>>],
                           LAMBDA s : /\ Y(At(l, s[1])) = Y(At(l, s[2]))
                                      /\ \A i \in DOMAIN conc : conc[i] # s)
        Put(m, s, isConcave) ==
            m \cup {<<SortFactor(isConcave, At(l, s[1]), At(l, s[2]), {e[1] : e \in m}), s>>}
        keyed == FoldLeft(LAMBDA m, s : Put(m, s, FALSE),
                          FoldLeft(LAMBDA m, s : Put(m, s, TRUE), {}, conc), floor)
        order == SetToSortSeq(keyed, LAMBDA a, b : a[1] < b[1])
    IN  [i \in DOMAIN order |-> order[i][2]]

(***************************************************************************)
(* decorateClns: the width of a section and the lengths of the next three  *)
(* lines to the west and to the east, corrected for concave corners.       *)
(***************************************************************************)
Decorated(l, s) ==
    LET Dy(i, j) == IF i \in DOMAIN l /\ j \in DOMAIN l THEN Y(l[i]) - Y(l[j]) ELSE 0
        Dx(i, j) == IF i \in DOMAIN l /\ j \in DOMAIN l THEN X(l[i]) - X(l[j]) ELSE 0
        a == s[1] + 1    b == s[2] + 1
        yw == Dy(a, a - 1)   yw2 == Dy(a - 2, a - 3)
        ye == Dy(b, b + 1)   ye2 == Dy(b + 2, b + 3)
        Corner(y, y2) == IF y > 0 /\ y2 <= 0 THEN 1 ELSE IF y < 0 /\ y2 > 0 THEN -1 ELSE 0
    IN  [p1 |-> s[1], p2 |-> s[2],
         dx |-> Dx(b, a) + (IF yw <= 0 /\ ye <= 0 THEN 1 ELSE IF yw > 0 /\ ye > 0 THEN -1 ELSE 0),
         yw |-> yw, xw |-> Dx(a - 1, a - 2) + Corner(yw, yw2), yw2 |-> yw2,
         ye |-> ye, xe |-> Dx(b + 2, b + 1) + Corner(ye, ye2), ye2 |-> ye2]

(* ConcavestLowestNarrowestSections *)
Clns(l) == LET s == Sorted(l) IN [i \in DOMAIN s |-> Decorated(l, s[i])]
=============================================================================
