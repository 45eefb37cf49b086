------------------------------- MODULE Fusion -------------------------------
(***************************************************************************)
(* Two neighbouring sections of an outline are fused to a gap with a step  *)
(* in it (src/transposablematrix/33-fuse-sections.go), for which five      *)
(* heuristics look for an amorph (44-res-filter.go to 49-...-straight.go). *)
(* A heuristic returns the set of the results it may have: the amorphs     *)
(* under a key of an index come in any order.                              *)
(***************************************************************************)
EXTENDS Outline, Shapes

VARIABLES elements,    \* amorph -> [n, padded]: the reservoir, in the order added
          stock,       \* the amorphs that the indexes hold
          desirable    \* [w, h]: SmallestDesirableWidth, ...Height

NoFusion == [ok |-> FALSE, list |-> <<>>]

(***************************************************************************)
(* findYourNeighbor: the sections that begin two points before and after.  *)
(***************************************************************************)
Neighbours(clns, s) ==
    LET succ == IF (s.p1 + 2) \div 2 > Len(clns) - 1 THEN -1 ELSE s.p1 + 2
        At0(p) == LET at == {i \in DOMAIN clns : p >= 0 /\ clns[i].p1 = p}
                  IN  IF at = {} THEN 0 ELSE Max(at)
    IN  [west |-> At0(s.p1 - 2), east |-> At0(succ)]

(***************************************************************************)
(* Permissiveness: how far an amorph may grow over the ends of the gap.    *)
(***************************************************************************)
PermissivenessEastOrWest(y, x1, y1) ==
    CASE y > 0 -> -10
      [] y = 0 -> 99
      [] y < 0 /\ y1 > 0 -> -11
      [] y < 0 /\ y1 <= 0 -> IF -y < desirable.w /\ x1 >= desirable.w THEN desirable.w ELSE 5

PermissivenessNorth(x1, y1) ==
    CASE y1 <= 0 -> 99
      [] y1 > 0 /\ x1 >= desirable.h -> 50
      [] y1 > 0 /\ x1 < desirable.h -> IF y1 <= desirable.h THEN 2 ELSE desirable.h

(***************************************************************************)
(* FuseTwoSections: with the neighbour over the lower flank, if there is a *)
(* choice; the lack of that neighbour is an error.                         *)
(***************************************************************************)
Abs(i) == IF i < 0 THEN -i ELSE i

Fused(l, w, e) ==
    LET north == LeastOf(PermissivenessNorth(w.xw, w.yw2), PermissivenessNorth(e.xe, e.ye2) + w.ye)
        pw == PermissivenessEastOrWest(w.yw, w.xw, w.yw2)
        pe == PermissivenessEastOrWest(e.ye, e.xe, e.ye2)
    IN  [ok |-> TRUE, x1 |-> w.dx, y |-> w.ye, x2 |-> e.dx, pN |-> north,
         curve |-> CASE pw < 0 /\ pe < 0 -> "cncave" [] pw > 0 /\ pe < 0 -> "stairW"
                     [] pw < 0 /\ pe > 0 -> "stairE" [] pw > 0 /\ pe > 0 -> "convex",
         base |-> <<X(At(l, w.p1)) + (IF w.yw > 0 THEN 1 ELSE 0),
                    GreatestOf(Y(At(l, w.p1)), Y(At(l, e.p2)))>>,
         fill |-> IF w.ye > 0 THEN GreatestOf(w.ye, w.yw) ELSE GreatestOf(-w.ye, e.ye),
         idxL |-> <<w.p1, w.p2, e.p1, e.p2>>]

FuseTwoSections(l, clns, s) ==
    LET nb == Neighbours(clns, s)
        westwards == \/ s.p2 = Len(l) - 1
                     \/ s.p2 # 0 /\ Abs(s.yw) > 0 /\ Abs(s.yw) < Abs(s.ye)
    IN  CASE westwards /\ nb.west # 0 -> Fused(l, clns[nb.west], s)
          [] ~westwards /\ nb.east # 0 -> Fused(l, s, clns[nb.east])
          [] OTHER -> NoFusion

(* FuseAllSections: an error drops all; equal pairs are kept once. *)
Fusions(l, clns) ==
    LET all == [i \in DOMAIN clns |-> FuseTwoSections(l, clns, clns[i])]
    IN  IF \A i \in DOMAIN all : all[i].ok
        THEN [ok |-> TRUE,
              list |-> FoldLeft(LAMBDA fs, f : IF \E i \in DOMAIN fs : fs[i].idxL = f.idxL THEN fs ELSE Append(fs, f),
                                <<>>, all)]
        ELSE NoFusion

(***************************************************************************)
(* The finders of level 1.  A block is the set of casts that one search    *)
(* returns.                                                                *)
(***************************************************************************)
CastOf(k, cols, rows, edge) ==
    [id |-> k, n |-> elements[k].n, cols |-> cols, rows |-> rows,
     slack |-> SlackOf(elements[k].n, cols, rows), edge |-> edge]

(* PermutateShapes keys an amorph by its elements without those padded. *)
OwnElements(k) == elements[k].n - elements[k].padded

CMaxHeight == 8
CMaxDiff == 20

ExactStraightEdge(x1) ==
    [i \in 1 .. CMaxHeight |->
        {CastOf(k, x1, OtherSide(elements[k].n, x1), <<>>) :
             k \in {j \in stock : <<x1, desirable.h - 2 + i>> \in Rectangles(OwnElements(j))}}]

ExactStairyEdge(x1, y, x2) ==
    LET Rows(k) ==
            LET r0 == OtherSide(elements[k].n, x1 + x2)
            IN  CHOOSE r \in r0 .. r0 + 100 :
                    LET Fits(q) == q > Abs(y) /\ SlackOf(elements[k].n, x1 + x2, q) >= Abs(x2 * y)
                    IN  Fits(r) /\ \A q \in r0 .. r - 1 : ~Fits(q)
    IN  {CastOf(k, x1 + x2, Rows(k), <<x1, y, x2>>) :
             k \in {j \in stock : Enc(<<x1, y, x2>>) \in Stairs(OwnElements(j))}}

MoreThanXElements(min) ==
    LET fits == {k \in stock : OwnElements(k) \in min .. min + CMaxDiff - 1}
    IN  {k \in fits : \A j \in fits : OwnElements(k) <= OwnElements(j)}

(***************************************************************************)
(* MostAbundantInProximity.Filter: of the amorphs that are not too high,   *)
(* one of the most frequent height within two of the wanted height, or     *)
(* else the first of the closest height.                                   *)
(***************************************************************************)
FirstOf(blocks, Good(_)) ==
    LET at == {i \in DOMAIN blocks : \E c \in blocks[i] : Good(c)}
    IN  IF at = {} THEN {} ELSE {c \in blocks[Min(at)] : Good(c)}

Filter(f, blocks) ==
    LET Low(c)   == c.rows <= f.pN
        Dist(c)  == c.rows - f.fill
        low      == UNION {{c \in blocks[i] : Low(c)} : i \in DOMAIN blocks}
        Count(d) == FoldLeft(LAMBDA s, b : s + Cardinality({c \in b : Low(c) /\ Dist(c) = d}), 0, blocks)
        most     == Max({Count(d) : d \in -2 .. 2})
        first    == SelectSeq(<<0, -1, 1, -2, 2>>, LAMBDA d : Count(d) = most)[1]
    IN  IF low = {} THEN {}
        ELSE IF most > 0 THEN FirstOf(blocks, LAMBDA c : Low(c) /\ Dist(c) = first)
        ELSE LET near == Min({Abs(Dist(c)) : c \in low})
             IN  FirstOf(blocks, LAMBDA c : Low(c) /\ Abs(Dist(c)) = near)
=============================================================================
