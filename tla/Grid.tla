-------------------------------- MODULE Grid --------------------------------
(***************************************************************************)
(* The matrix of slots (src/transposablematrix/10-matrix.go): a            *)
(* two-dimensional slice that is viewed, read and painted from four        *)
(* perspectives.  Coordinates of the slice are "base" coordinates, those   *)
(* of a perspective, counted from a movable centre, are "mapped".          *)
(* Points are pairs <<x, y>>; amorphs are known by number, 0 is no amorph. *)
(* Labels, which only serve the display, are left out.                     *)
(***************************************************************************)
EXTENDS Integers, FiniteSets

CONSTANTS Nx, Ny                \* the lengths of the slices

ASSUME GridAssumption == Nx \in Nat \ {0} /\ Ny \in Nat \ {0}

VARIABLES slot,       \* base point -> [am, ax, ay]: the amorph and the place in it
          limits,     \* [xmif, ymif, xmaf, ymaf]: grown by Set, never shrunk
          outmost,    \* the eight points NNW, NWW, ... NNE, counter clockwise
          centre,     \* <<cx, cy>>
          persp       \* 0 north, 1 west, 2 south, 3 east

gridVars == <<slot, limits, outmost, centre, persp>>

Perspectives == 0 .. 3
Base == (0 .. Nx - 1) \X (0 .. Ny - 1)
EmptySlot == [am |-> 0, ax |-> 0, ay |-> 0]

(***************************************************************************)
(* The eight outmost points, in the order of the slice sOutmost.           *)
(***************************************************************************)
NNW == 1
NWW == 2
SWW == 3
SSW == 4
SSE == 5
SEE == 6
NEE == 7
NNE == 8

GridInit ==
    /\ slot = [b \in Base |-> EmptySlot]
    /\ limits = [xmif |-> Nx - 1, ymif |-> Ny - 1, xmaf |-> 0, ymaf |-> 0]
    /\ outmost = [i \in 1 .. 8 |-> <<0, 0>>]
    /\ centre = <<Nx \div 2, Ny \div 2>>

SetPerspective(p) == persp' = p /\ UNCHANGED <<slot, limits, outmost, centre>>

SetCenter(x, y) ==
    /\ centre' = <<(Nx \div 2) + x, (Ny \div 2) + y>>
    /\ UNCHANGED <<slot, limits, outmost, persp>>

(***************************************************************************)
(* The two translations.  The code answers -1 for a point outside; here it *)
(* is a point that is not in Base.                                         *)
(***************************************************************************)
Mapped2Base(p, q) ==
    LET cx == centre[1]    cy == centre[2]
    IN  CASE p = 0 -> <<q[1] + cx, q[2] + cy>>
          [] p = 1 -> <<q[2] + cx, cy - q[1]>>
          [] p = 2 -> <<cx - q[1], cy - q[2]>>
          [] p = 3 -> <<cx - q[2], q[1] + cy>>

Base2Mapped(p, b) ==
    LET cx == centre[1]    cy == centre[2]
    IN  CASE p = 0 -> <<b[1] - cx, b[2] - cy>>
          [] p = 1 -> <<cy - b[2], b[1] - cx>>
          [] p = 2 -> <<cx - b[1], cy - b[2]>>
          [] p = 3 -> <<b[2] - cy, cx - b[1]>>

(* A slot outside the matrix is reported as empty. *)
IsEmpty(x, y) ==
    LET b == Mapped2Base(persp, <<x, y>>) IN b \in Base => slot[b].am = 0

(***************************************************************************)
(* The outmost points, turned so that the first is the NNW of the          *)
(* perspective, and the corners of the box around the filled slots.        *)
(***************************************************************************)
FilledMinMax_turnedTheOtherWay(p) == [i \in 1 .. 8 |-> outmost[((i + 7 - 2 * p) % 8) + 1]]

FilledMinMax(p) == [i \in 1 .. 8 |-> outmost[((i - 1 + 2 * p) % 8) + 1]]

TotalMinMax(p) ==
    LET m0 == Base2Mapped(p, <<limits.xmif, limits.ymif>>)
        m1 == Base2Mapped(p, <<limits.xmaf, limits.ymaf>>)
    IN  CASE p = 0 -> <<m0[1], m0[2], m1[1], m1[2]>>
          [] p = 1 -> <<m1[1], m0[2], m0[1], m1[2]>>
          [] p = 2 -> <<m1[1], m1[2], m0[1], m0[2]>>
          [] p = 3 -> <<m0[1], m1[2], m1[1], m0[2]>>

(***************************************************************************)
(* updateLimits: after each Set of an amorph's slot.  A point with the     *)
(* least or greatest coordinate replaces an outmost point if it reaches    *)
(* farther along that line, or if the line is a new one.                   *)
(***************************************************************************)
LeastOf(a, b) == IF a < b THEN a ELSE b
GreatestOf(a, b) == IF a > b THEN a ELSE b

GrownLimits(l, b) ==
    [xmif |-> LeastOf(l.xmif, b[1]), xmaf |-> GreatestOf(l.xmaf, b[1]),
     ymif |-> LeastOf(l.ymif, b[2]), ymaf |-> GreatestOf(l.ymaf, b[2])]

(* axis 1: the line of least or greatest x; axis 2: of y. *)
Farther(old, b, axis, bound, less) ==
    IF /\ b[axis] = bound
       /\ \/ b[axis] # old[axis]
          \/ less /\ b[3 - axis] < old[3 - axis]
          \/ ~less /\ b[3 - axis] > old[3 - axis]
    THEN b
    ELSE old

UpdateLimits(st, b) ==
    LET l == GrownLimits(st.limits, b)
        o == st.outmost
    IN  [limits |-> l,
         outmost |-> [o EXCEPT ![NWW] = Farther(@, b, 1, l.xmif, TRUE),
                               ![NEE] = Farther(@, b, 1, l.xmaf, TRUE),
                               ![SWW] = Farther(@, b, 1, l.xmif, FALSE),
                               ![SEE] = Farther(@, b, 1, l.xmaf, FALSE),
                               ![NNW] = Farther(@, b, 2, l.ymif, TRUE),
                               ![NNE] = Farther(@, b, 2, l.ymif, FALSE),
                               ![SSW] = Farther(@, b, 2, l.ymaf, TRUE),
                               ![SSE] = Farther(@, b, 2, l.ymaf, FALSE)]]

(***************************************************************************)
(* CastStitch.  A cast is a record [id, n, cols, rows, slack, edge]; an    *)
(* edge is <<x1, y, x2>> or <<>>.  The part of the rectangle below the     *)
(* shorter limb is kerfed; columns are painted from the west, each from    *)
(* the top, until cols * rows - slack slots are painted.                   *)
(***************************************************************************)
RightKerf(c) == IF c.edge # <<>> /\ c.edge[2] > 0 THEN <<c.edge[3], c.edge[2]>> ELSE <<0, 0>>
LeftKerf(c) == IF c.edge # <<>> /\ c.edge[2] < 0 THEN <<c.edge[1], -c.edge[2]>> ELSE <<0, 0>>

LimRow(c, i) ==
    IF i > c.cols - RightKerf(c)[1] - 1 THEN c.rows - RightKerf(c)[2]
    ELSE IF i < LeftKerf(c)[1] THEN c.rows - LeftKerf(c)[2]
    ELSE c.rows

(* The places in the rectangle, column after column, and whether one is painted. *)
PlaceOf(c, k) == <<(k - 1) \div c.rows, (k - 1) % c.rows>>
Uncut(c, k) == PlaceOf(c, k)[2] < LimRow(c, PlaceOf(c, k)[1])
IsPainted(c, k) ==
    LET before == Cardinality({j \in 1 .. k - 1 : Uncut(c, j)})
    IN  Uncut(c, k) /\ before < GreatestOf(1, c.cols * c.rows - c.slack)

(* Amorph.transpose: the place in the amorph, seen from north. *)
InnerPlace(c, t) ==
    CASE persp = 0 -> t
      [] persp = 1 -> <<t[2], c.cols - t[1] - 1>>
      [] persp = 2 -> <<c.cols - t[1] - 1, c.rows - t[2] - 1>>
      [] persp = 3 -> <<c.rows - t[2] - 1, t[1]>>

SetSlot(st, base, c, t) ==
    LET b == Mapped2Base(persp, <<base[1] + t[1], base[2] + t[2]>>)
        i == InnerPlace(c, t)
        u == UpdateLimits(st, b)
    IN  IF b \notin Base THEN st
        ELSE [slot |-> [st.slot EXCEPT ![b] = [am |-> c.id, ax |-> i[1], ay |-> i[2]]],
              limits |-> u.limits, outmost |-> u.outmost]

(* The matrix after the first k places. *)
Painting(base, c) ==
    LET after[k \in 0 .. c.cols * c.rows] ==
            IF k = 0 THEN [slot |-> slot, limits |-> limits, outmost |-> outmost]
            ELSE IF IsPainted(c, k) THEN SetSlot(after[k - 1], base, c, PlaceOf(c, k))
            ELSE after[k - 1]
    IN  after

CastStitch(base, c) ==
    LET st == Painting(base, c)[c.cols * c.rows]
    IN  /\ slot' = st.slot
        /\ limits' = st.limits
        /\ outmost' = st.outmost
        /\ UNCHANGED <<centre, persp>>

SnapLeftwise(base, c) == CastStitch(<<base[1] - c.cols, base[2] - c.rows>>, c)
SnapRightwise(base, c) == CastStitch(<<base[1], base[2] - c.rows>>, c)

-----------------------------------------------------------------------------
Filled == {b \in Base : slot[b].am # 0}

(***************************************************************************)
(* What a program sees does not depend on the side it looks from, nor on   *)
(* the sides the amorphs were cast from.  From each perspective            *)
(*  - the box that TotalMinMax (10-matrix.go:285) returns is the box       *)
(*    around the filled slots as they are seen from there;                 *)
(*  - FilledMinMax (10-matrix.go:322) returns the ends of their top, left, *)
(*    bottom and right line;                                               *)
(* and the places within an amorph (transpose, 20-amorph.go:206) differ    *)
(* between two of its slots as the base coordinates do.  The extremes are  *)
(* kept in base coordinates, one Set at a time, and change their roles     *)
(* with the perspective.                                                   *)
(***************************************************************************)
IsBox(t, seen) ==
    /\ \A q \in seen : q[1] \in t[1] .. t[3] /\ q[2] \in t[2] .. t[4]
    /\ \A i \in {1, 3} : \E q \in seen : q[1] = t[i]
    /\ \A i \in {2, 4} : \E q \in seen : q[2] = t[i]

(* No seen point lies farther in direction d1, nor in d2 on that line. *)
IsEnd(e, seen, d1, d2) ==
    LET Along(d, q) == d[1] * q[1] + d[2] * q[2]
    IN  /\ e \in seen
        /\ \A q \in seen : \/ Along(d1, q) < Along(d1, e)
                           \/ Along(d1, q) = Along(d1, e) /\ Along(d2, q) <= Along(d2, e)

SameFromEverySide ==
    LET N == <<0, -1>>   W == <<-1, 0>>   S == <<0, 1>>   E == <<1, 0>>
        ways == <<<<N, W>>, <<W, N>>, <<W, S>>, <<S, W>>, <<S, E>>, <<E, S>>, <<E, N>>, <<N, E>>>>
    IN  /\ \A p \in Perspectives :
              LET seen == {Base2Mapped(p, b) : b \in Filled}
              IN  Filled # {} =>
                    /\ IsBox(TotalMinMax(p), seen)
                    /\ \A i \in 1 .. 8 :
                          IsEnd(Base2Mapped(p, FilledMinMax(p)[i]), seen, ways[i][1], ways[i][2])
        /\ \A b, c \in Filled : slot[b].am = slot[c].am =>
              /\ slot[b].ax - slot[c].ax = b[1] - c[1]
              /\ slot[b].ay - slot[c].ay = b[2] - c[2]
=============================================================================
