-------------------------- MODULE AlgorithmProofs --------------------------
(***************************************************************************)
(* What sequential algorithms compute, whatever the size: the matrix of    *)
(* slots by itself, under any sequence of casts, turns and moves of the    *)
(* centre; the shapes that the amorphs of a reservoir are found by; the    *)
(* edit script of any two slices of tokens; and the left-leaning red-black *)
(* tree under any sequence of inserts and deletes.                         *)
(***************************************************************************)
EXTENDS Layout, EditDistance, OMap,
        FiniteSetTheorems, FunctionTheorems, SequenceTheorems, WellFoundedInduction, TLAPS

(***************************************************************************)
(* The extremes in base coordinates.  Directions are numbered like         *)
(* perspectives: 1 north, 2 west, 3 south, 4 east.  Outmost point i lies   *)
(* on the line farthest to Side[i], and on it farthest to Toward[i].       *)
(***************************************************************************)
Points == Int \X Int
Reach(d, q) == CASE d = 1 -> -q[2] [] d = 2 -> -q[1] [] d = 3 -> q[2] [] d = 4 -> q[1]
Limit(l, d) == CASE d = 1 -> -l.ymif [] d = 2 -> -l.xmif [] d = 3 -> l.ymaf [] d = 4 -> l.xmaf

Side == <<1, 2, 2, 3, 3, 4, 4, 1>>
Toward == <<2, 1, 3, 2, 4, 3, 1, 4>>

EndOf(e, F, d1, d2) ==
    /\ e \in F
    /\ \A b \in F : \/ Reach(d1, b) < Reach(d1, e)
                    \/ Reach(d1, b) = Reach(d1, e) /\ Reach(d2, b) <= Reach(d2, e)

ExtremesTyped(l, o) ==
    /\ l = [xmif |-> l.xmif, ymif |-> l.ymif, xmaf |-> l.xmaf, ymaf |-> l.ymaf]
    /\ l.xmif \in Int /\ l.ymif \in Int /\ l.xmaf \in Int /\ l.ymaf \in Int
    /\ o = [i \in 1 .. 8 |-> o[i]] /\ \A i \in 1 .. 8 : o[i] \in Points

AtFirst(l, o) ==
    /\ l.xmif = Nx - 1 /\ l.ymif = Ny - 1 /\ l.xmaf = 0 /\ l.ymaf = 0
    /\ \A i \in 1 .. 8 : o[i] = <<0, 0>>

Exact(F, l, o) ==
    /\ F = {} => AtFirst(l, o)
    /\ F # {} => \A i \in 1 .. 8 : /\ EndOf(o[i], F, Side[i], Toward[i])
                                   /\ Limit(l, Side[i]) = Reach(Side[i], o[i])

\* Outmost points begin at <<0, 0>>, on lines of the first row and column.
Within == {b \in Base : b[1] > 0 /\ b[2] > 0}

LEMMA ReachIsInt == \A d \in 1 .. 4, q \in Points : Reach(d, q) \in Int
BY DEF Reach, Points

LEMMA Ways == \A i \in 1 .. 8 : Side[i] \in 1 .. 4 /\ Toward[i] \in 1 .. 4
<1> SUFFICES ASSUME NEW i \in 1 .. 8 PROVE Side[i] \in 1 .. 4 /\ Toward[i] \in 1 .. 4
    OBVIOUS
<1>1. i \in {1, 2, 3, 4, 5, 6, 7, 8}
    OBVIOUS
<1> QED BY <1>1 DEF Side, Toward

\* A point takes the place of an outmost point.
Better(e, b, m, d1, d2) ==
    IF Reach(d1, b) = m /\ (Reach(d1, b) # Reach(d1, e) \/ Reach(d2, b) > Reach(d2, e)) THEN b ELSE e

Outdoes(b, e, F, m, d1, d2) ==
    /\ F = {} => Reach(d1, b) = m /\ Reach(d1, b) # Reach(d1, e)
    /\ F # {} => /\ EndOf(e, F, d1, d2)
                 /\ m = IF Reach(d1, e) < Reach(d1, b) THEN Reach(d1, b) ELSE Reach(d1, e)

EndAfter(b, e, F, m, d1, d2) ==
    /\ EndOf(Better(e, b, m, d1, d2), F \cup {b}, d1, d2)
    /\ m = Reach(d1, Better(e, b, m, d1, d2))

LEMMA EndGrows ==
    \A F \in SUBSET Points, d1 \in 1 .. 4, d2 \in 1 .. 4, b \in Points, e \in Points :
    \A m : Outdoes(b, e, F, m, d1, d2) => EndAfter(b, e, F, m, d1, d2)
<1> SUFFICES ASSUME NEW F \in SUBSET Points, NEW d1 \in 1 .. 4, NEW d2 \in 1 .. 4, NEW b \in Points,
                    NEW e \in Points, NEW m, Outdoes(b, e, F, m, d1, d2)
             PROVE  EndAfter(b, e, F, m, d1, d2)
    OBVIOUS
<1>1. \A q \in F \cup {b, e} : Reach(d1, q) \in Int /\ Reach(d2, q) \in Int
    BY ReachIsInt
<1>2. CASE F = {}
    BY <1>1, <1>2 DEF Better, EndOf, Outdoes, EndAfter
<1>3. CASE F # {}
    BY <1>1, <1>3 DEF Better, EndOf, Outdoes, EndAfter
<1> QED BY <1>2, <1>3

LEMMA LimitsGrow ==
    ASSUME NEW l, NEW o, ExtremesTyped(l, o), NEW b \in Points, NEW g, g = GrownLimits(l, b)
    PROVE  /\ g = [xmif |-> g.xmif, ymif |-> g.ymif, xmaf |-> g.xmaf, ymaf |-> g.ymaf]
           /\ g.xmif \in Int /\ g.ymif \in Int /\ g.xmaf \in Int /\ g.ymaf \in Int
           /\ \A d \in 1 .. 4 :
                 Limit(g, d) = IF Limit(l, d) < Reach(d, b) THEN Reach(d, b) ELSE Limit(l, d)
<1>1. /\ g.xmif = IF l.xmif < b[1] THEN l.xmif ELSE b[1]
      /\ g.xmaf = IF l.xmaf > b[1] THEN l.xmaf ELSE b[1]
      /\ g.ymif = IF l.ymif < b[2] THEN l.ymif ELSE b[2]
      /\ g.ymaf = IF l.ymaf > b[2] THEN l.ymaf ELSE b[2]
    BY DEF GrownLimits, LeastOf, GreatestOf
<1>2. b[1] \in Int /\ b[2] \in Int
    BY DEF Points
<1>3. g.xmif \in Int /\ g.ymif \in Int /\ g.xmaf \in Int /\ g.ymaf \in Int
    BY <1>1, <1>2 DEF ExtremesTyped
<1>4. g = [xmif |-> g.xmif, ymif |-> g.ymif, xmaf |-> g.xmaf, ymaf |-> g.ymaf]
    BY DEF GrownLimits
<1>5. ASSUME NEW d \in 1 .. 4
      PROVE  Limit(g, d) = IF Limit(l, d) < Reach(d, b) THEN Reach(d, b) ELSE Limit(l, d)
    <2>1. d \in {1, 2, 3, 4}
        OBVIOUS
    <2> QED BY <1>1, <1>2, <2>1 DEF Limit, Reach, ExtremesTyped
<1> QED BY <1>3, <1>4, <1>5

FartherMeans(e, b, l) ==
    /\ Farther(e, b, 1, l.xmif, TRUE) = Better(e, b, Limit(l, 2), 2, 1)
    /\ Farther(e, b, 1, l.xmif, FALSE) = Better(e, b, Limit(l, 2), 2, 3)
    /\ Farther(e, b, 1, l.xmaf, TRUE) = Better(e, b, Limit(l, 4), 4, 1)
    /\ Farther(e, b, 1, l.xmaf, FALSE) = Better(e, b, Limit(l, 4), 4, 3)
    /\ Farther(e, b, 2, l.ymif, TRUE) = Better(e, b, Limit(l, 1), 1, 2)
    /\ Farther(e, b, 2, l.ymif, FALSE) = Better(e, b, Limit(l, 1), 1, 4)
    /\ Farther(e, b, 2, l.ymaf, TRUE) = Better(e, b, Limit(l, 3), 3, 2)
    /\ Farther(e, b, 2, l.ymaf, FALSE) = Better(e, b, Limit(l, 3), 3, 4)

LEMMA FartherIsBetter ==
    ASSUME NEW e \in Points, NEW b \in Points, NEW l, NEW o, ExtremesTyped(l, o)
    PROVE  FartherMeans(e, b, l)
<1>1. /\ 3 - 1 = 2 /\ 3 - 2 = 1
      /\ e[1] \in Int /\ e[2] \in Int /\ b[1] \in Int /\ b[2] \in Int
    BY DEF Points
<1>2. l.xmif \in Int /\ l.ymif \in Int /\ l.xmaf \in Int /\ l.ymaf \in Int
    BY DEF ExtremesTyped
<1> QED BY <1>1, <1>2 DEF FartherMeans, Farther, Better, Limit, Reach

\* One more slot of an amorph: updateLimits.
LEMMA PointPainted ==
    ASSUME NEW st, ExtremesTyped(st.limits, st.outmost), NEW F \in SUBSET Base,
           Exact(F, st.limits, st.outmost), NEW b \in Base, F = {} => b \in Within,
           NEW u, u = UpdateLimits(st, b)
    PROVE  ExtremesTyped(u.limits, u.outmost) /\ Exact(F \cup {b}, u.limits, u.outmost)
<1>1. PICK l, o, g : l = st.limits /\ o = st.outmost /\ g = GrownLimits(l, b)
    OBVIOUS
<1>2. /\ b \in Points /\ F \in SUBSET Points
      /\ F = {} => b[1] \in 1 .. Nx - 1 /\ b[2] \in 1 .. Ny - 1
    BY GridAssumption DEF Within, Base, Points
<1>3. /\ g = [xmif |-> g.xmif, ymif |-> g.ymif, xmaf |-> g.xmaf, ymaf |-> g.ymaf]
      /\ g.xmif \in Int /\ g.ymif \in Int /\ g.xmaf \in Int /\ g.ymaf \in Int
      /\ \A d \in 1 .. 4 :
            Limit(g, d) = IF Limit(l, d) < Reach(d, b) THEN Reach(d, b) ELSE Limit(l, d)
    BY <1>1, <1>2, LimitsGrow
<1>4. PICK w, x, y, z, s, t, v, r :
         /\ w = Farther(o[2], b, 1, g.xmif, TRUE) /\ x = Farther(o[7], b, 1, g.xmaf, TRUE)
         /\ y = Farther(o[3], b, 1, g.xmif, FALSE) /\ z = Farther(o[6], b, 1, g.xmaf, FALSE)
         /\ s = Farther(o[1], b, 2, g.ymif, TRUE) /\ t = Farther(o[8], b, 2, g.ymif, FALSE)
         /\ v = Farther(o[4], b, 2, g.ymaf, TRUE) /\ r = Farther(o[5], b, 2, g.ymaf, FALSE)
    OBVIOUS
<1>5. PICK p : p = [o EXCEPT ![2] = w, ![7] = x, ![3] = y, ![6] = z,
                             ![1] = s, ![8] = t, ![4] = v, ![5] = r]
    OBVIOUS
<1>6. u.limits = g /\ u.outmost = p
    BY <1>1, <1>4, <1>5 DEF UpdateLimits, NWW, NEE, SWW, SEE, NNW, NNE, SSW, SSE
<1>7. /\ p = [i \in 1 .. 8 |-> p[i]]
      /\ p[1] = s /\ p[2] = w /\ p[3] = y /\ p[4] = v /\ p[5] = r /\ p[6] = z /\ p[7] = x /\ p[8] = t
    <2>1. o = [i \in 1 .. 8 |-> o[i]]
        BY <1>1 DEF ExtremesTyped
    <2>2. DOMAIN p = 1 .. 8 /\ p = [i \in 1 .. 8 |-> p[i]]
        BY <1>5, <2>1
    <2>3. p[1] = s /\ p[2] = w /\ p[3] = y /\ p[4] = v
        BY <1>5, <2>1
    <2>4. p[5] = r /\ p[6] = z /\ p[7] = x /\ p[8] = t
        BY <1>5, <2>1
    <2> QED BY <2>2, <2>3, <2>4
<1>8. ASSUME NEW i \in 1 .. 8
      PROVE  p[i] = Better(o[i], b, Limit(g, Side[i]), Side[i], Toward[i])
    <2>1. i \in {1, 2, 3, 4, 5, 6, 7, 8}
        OBVIOUS
    <2>2. \A j \in 1 .. 8 : o[j] \in Points
        BY <1>1 DEF ExtremesTyped
    <2>3. ExtremesTyped(g, o)
        BY <1>1, <1>3 DEF ExtremesTyped
    <2>4. /\ s = Better(o[1], b, Limit(g, 1), 1, 2) /\ t = Better(o[8], b, Limit(g, 1), 1, 4)
          /\ w = Better(o[2], b, Limit(g, 2), 2, 1) /\ y = Better(o[3], b, Limit(g, 2), 2, 3)
          /\ v = Better(o[4], b, Limit(g, 3), 3, 2) /\ r = Better(o[5], b, Limit(g, 3), 3, 4)
          /\ x = Better(o[7], b, Limit(g, 4), 4, 1) /\ z = Better(o[6], b, Limit(g, 4), 4, 3)
        <3>1. \A j \in 1 .. 8 : FartherMeans(o[j], b, g)
            BY <1>2, <2>2, <2>3, FartherIsBetter
        <3>2. /\ FartherMeans(o[1], b, g) /\ FartherMeans(o[2], b, g) /\ FartherMeans(o[3], b, g)
              /\ FartherMeans(o[4], b, g) /\ FartherMeans(o[5], b, g) /\ FartherMeans(o[6], b, g)
              /\ FartherMeans(o[7], b, g) /\ FartherMeans(o[8], b, g)
            BY <3>1
        <3>3. s = Better(o[1], b, Limit(g, 1), 1, 2) /\ t = Better(o[8], b, Limit(g, 1), 1, 4)
            BY <1>4, <3>2, Zenon DEF FartherMeans
        <3>4. w = Better(o[2], b, Limit(g, 2), 2, 1) /\ y = Better(o[3], b, Limit(g, 2), 2, 3)
            BY <1>4, <3>2, Zenon DEF FartherMeans
        <3>5. v = Better(o[4], b, Limit(g, 3), 3, 2) /\ r = Better(o[5], b, Limit(g, 3), 3, 4)
            BY <1>4, <3>2, Zenon DEF FartherMeans
        <3>6. x = Better(o[7], b, Limit(g, 4), 4, 1) /\ z = Better(o[6], b, Limit(g, 4), 4, 3)
            BY <1>4, <3>2, Zenon DEF FartherMeans
        <3> QED BY <3>3, <3>4, <3>5, <3>6
    <2>5. /\ Side[1] = 1 /\ Side[2] = 2 /\ Side[3] = 2 /\ Side[4] = 3
          /\ Side[5] = 3 /\ Side[6] = 4 /\ Side[7] = 4 /\ Side[8] = 1
          /\ Toward[1] = 2 /\ Toward[2] = 1 /\ Toward[3] = 3 /\ Toward[4] = 2
          /\ Toward[5] = 4 /\ Toward[6] = 3 /\ Toward[7] = 1 /\ Toward[8] = 4
        BY DEF Side, Toward
    <2> QED BY <1>7, <2>1, <2>4, <2>5
<1>9. \A i \in 1 .. 8 : p[i] \in Points
    BY <1>1, <1>2, <1>8 DEF Better, ExtremesTyped
<1>10. ASSUME NEW i \in 1 .. 8
       PROVE  EndOf(p[i], F \cup {b}, Side[i], Toward[i]) /\ Limit(g, Side[i]) = Reach(Side[i], p[i])
    <2>1. Side[i] \in 1 .. 4 /\ Toward[i] \in 1 .. 4 /\ o[i] \in Points
        BY <1>1, Ways DEF ExtremesTyped
    <2>2. PICK d, m : d = Side[i] /\ m = Limit(g, d)
        OBVIOUS
    <2>3. m = IF Limit(l, d) < Reach(d, b) THEN Reach(d, b) ELSE Limit(l, d)
        BY <1>3, <2>1, <2>2
    <2>4. F = {} => Reach(d, b) = m /\ Reach(d, b) # Reach(d, o[i])
        <3> HAVE F = {}
        <3>1. AtFirst(l, o)
            BY <1>1 DEF Exact
        <3>2. d \in {1, 2, 3, 4}
            BY <2>1, <2>2
        <3>3. Reach(d, o[i]) = 0 /\ Reach(d, b) # 0
            BY <1>2, <3>1, <3>2 DEF Reach, AtFirst
        <3>4. Limit(l, d) <= Reach(d, b)
            BY <1>2, <3>1, <3>2, GridAssumption DEF Reach, Limit, AtFirst
        <3>5. Limit(l, d) \in Int /\ Reach(d, b) \in Int
            BY <1>2, <3>1, <3>2, GridAssumption DEF Reach, Limit, AtFirst
        <3> QED BY <2>3, <3>3, <3>4, <3>5
    <2>5. F # {} => /\ EndOf(o[i], F, d, Toward[i])
                    /\ m = IF Reach(d, o[i]) < Reach(d, b) THEN Reach(d, b) ELSE Reach(d, o[i])
        BY <1>1, <2>2, <2>3 DEF Exact
    <2>6. p[i] = Better(o[i], b, m, d, Toward[i])
        BY <1>8, <2>2
    <2>7. Outdoes(b, o[i], F, m, d, Toward[i])
        BY <2>4, <2>5 DEF Outdoes
    <2>8. EndOf(p[i], F \cup {b}, d, Toward[i]) /\ m = Reach(d, p[i])
        <3>1. PICK e, h, q : e = o[i] /\ h = Toward[i] /\ q = p[i]
            OBVIOUS
        <3>2. d \in 1 .. 4 /\ h \in 1 .. 4 /\ e \in Points /\ q = Better(e, b, m, d, h)
              /\ Outdoes(b, e, F, m, d, h)
            BY <2>1, <2>2, <2>6, <2>7, <3>1
        <3>3. EndAfter(b, e, F, m, d, h)
            <4>1. F \in SUBSET Points /\ b \in Points
                BY <1>2
            <4> QED BY <3>2, <4>1, EndGrows
        <3>4. EndOf(q, F \cup {b}, d, h) /\ m = Reach(d, q)
            BY <3>2, <3>3 DEF EndAfter
        <3> QED BY <3>1, <3>4
    <2> QED BY <2>2, <2>8
<1>11. ExtremesTyped(g, p)
    BY <1>3, <1>7, <1>9 DEF ExtremesTyped
<1>12. Exact(F \cup {b}, g, p)
    BY <1>10 DEF Exact
<1> QED BY <1>6, <1>11, <1>12

(***************************************************************************)
(* A picture: the slots, the extremes of those that are filled, and the    *)
(* places within an amorph.  One that is being painted lies at an offset.  *)
(***************************************************************************)
Slots == [Base -> [am : Nat, ax : Int, ay : Int]]
FilledIn(s) == {b \in Base : s[b].am # 0}

AlikeIn(s) ==
    \A b, c \in FilledIn(s) : s[b].am = s[c].am =>
        /\ s[b].ax - s[c].ax = b[1] - c[1]
        /\ s[b].ay - s[c].ay = b[2] - c[2]

Picture(st) ==
    /\ st.slot \in Slots
    /\ ExtremesTyped(st.limits, st.outmost)
    /\ Exact(FilledIn(st.slot), st.limits, st.outmost)
    /\ AlikeIn(st.slot)

Shows(s, b, id, f) == s[b].am = id => s[b].ax = b[1] + f[1] /\ s[b].ay = b[2] + f[2]
PaintedAt(st, id, f) == Picture(st) /\ \A b \in Base : Shows(st.slot, b, id, f)

LEMMA SlotPainted ==
    ASSUME NEW st, NEW id \in Nat \ {0}, NEW f \in Points, PaintedAt(st, id, f),
           NEW b \in Base, FilledIn(st.slot) = {} => b \in Within,
           NEW e, e = [am |-> id, ax |-> b[1] + f[1], ay |-> b[2] + f[2]],
           NEW s, s = [st.slot EXCEPT ![b] = e], NEW u, u = UpdateLimits(st, b),
           NEW r, r = [slot |-> s, limits |-> u.limits, outmost |-> u.outmost]
    PROVE  PaintedAt(r, id, f) /\ FilledIn(r.slot) # {}
<1>1. /\ b \in Base /\ \A c \in Base : c[1] \in Int /\ c[2] \in Int
      /\ f[1] \in Int /\ f[2] \in Int
    BY GridAssumption DEF Within, Base, Points
<1>2. e \in [am : Nat, ax : Int, ay : Int] /\ e.am = id /\ e.ax = b[1] + f[1] /\ e.ay = b[2] + f[2]
    BY <1>1
<1>3. st.slot \in Slots
    BY DEF PaintedAt, Picture
<1>4. s \in Slots
    BY <1>1, <1>2, <1>3 DEF Slots
<1>5. s[b] = e /\ \A c \in Base : c # b => s[c] = st.slot[c]
    BY <1>1, <1>3 DEF Slots
<1>6. FilledIn(s) = FilledIn(st.slot) \cup {b}
    BY <1>1, <1>2, <1>5 DEF FilledIn
<1>7. ExtremesTyped(u.limits, u.outmost) /\ Exact(FilledIn(st.slot) \cup {b}, u.limits, u.outmost)
    BY PointPainted DEF PaintedAt, Picture, FilledIn
<1>8. ASSUME NEW c \in Base PROVE Shows(s, c, id, f)
    BY <1>1, <1>2, <1>5 DEF PaintedAt, Shows
<1>9. AlikeIn(s)
    <2> SUFFICES ASSUME NEW c \in FilledIn(s), NEW d \in FilledIn(s), s[c].am = s[d].am
                 PROVE  s[c].ax - s[d].ax = c[1] - d[1] /\ s[c].ay - s[d].ay = c[2] - d[2]
        BY DEF AlikeIn
    <2>1. c \in Base /\ d \in Base
        BY DEF FilledIn
    <2>2. c[1] \in Int /\ c[2] \in Int /\ d[1] \in Int /\ d[2] \in Int
        BY <1>1, <2>1
    <2>3. CASE s[c].am = id
        <3>1. Shows(s, c, id, f) /\ Shows(s, d, id, f)
            BY <1>8, <2>1
        <3> QED BY <1>1, <2>2, <2>3, <3>1 DEF Shows
    <2>4. CASE s[c].am # id
        <3>1. s[c] = st.slot[c] /\ s[d] = st.slot[d]
            BY <1>2, <1>5, <2>1, <2>4
        <3>2. c \in FilledIn(st.slot) /\ d \in FilledIn(st.slot)
            BY <2>1, <3>1 DEF FilledIn
        <3>3. AlikeIn(st.slot)
            BY DEF PaintedAt, Picture
        <3> QED BY <3>1, <3>2, <3>3 DEF AlikeIn
    <2> QED BY <2>3, <2>4
<1>10. r.slot = s /\ r.limits = u.limits /\ r.outmost = u.outmost
    OBVIOUS
<1>11. FilledIn(s) # {}
    BY <1>6
<1>12. Picture(r)
    BY <1>4, <1>6, <1>7, <1>9, <1>10 DEF Picture
<1> QED BY <1>8, <1>10, <1>11, <1>12 DEF PaintedAt

(***************************************************************************)
(* A cast: the offset between base coordinates and places in the amorph is *)
(* the same for all its slots, from each perspective.                      *)
(***************************************************************************)
Casts == [id : Nat \ {0}, n : Nat, cols : Nat, rows : Nat \ {0}, slack : Int,
          edge : {<<>>} \cup (Int \X Int \X Int)]

Offset(base, c) ==
    CASE persp = 0 -> <<-base[1] - centre[1], -base[2] - centre[2]>>
      [] persp = 1 -> <<-base[2] - centre[1], c.cols - 1 - centre[2] + base[1]>>
      [] persp = 2 -> <<c.cols - 1 - centre[1] + base[1], c.rows - 1 - centre[2] + base[2]>>
      [] persp = 3 -> <<c.rows - 1 - centre[1] + base[2], -base[1] - centre[2]>>

SlotAt(base, t) == Mapped2Base(persp, <<base[1] + t[1], base[2] + t[2]>>)

\* The first slot that is ever painted is not one of the first row or column.
Lands(base, c, k) == IsPainted(c, k) /\ SlotAt(base, PlaceOf(c, k)) \in Base

OffTheRim(base, c) ==
    Filled = {} =>
        \A k \in 1 .. c.cols * c.rows :
            Lands(base, c, k) /\ (\A j \in 1 .. k - 1 : ~Lands(base, c, j))
            => SlotAt(base, PlaceOf(c, k)) \in Within

View == persp \in Perspectives /\ centre \in Points

LEMMA InnerMoved ==
    ASSUME View, NEW c \in Casts, NEW base \in Points, NEW t \in Points,
           NEW b, b = SlotAt(base, t), NEW i, i = InnerPlace(c, t), NEW f, f = Offset(base, c)
    PROVE  f \in Points /\ i[1] = b[1] + f[1] /\ i[2] = b[2] + f[2]
<1>1. /\ base[1] \in Int /\ base[2] \in Int /\ t[1] \in Int /\ t[2] \in Int
      /\ centre[1] \in Int /\ centre[2] \in Int
    BY DEF Points, View
<1>2. c.cols \in Int /\ c.rows \in Int
    BY DEF Casts
<1>3. persp \in {0, 1, 2, 3}
    BY DEF View, Perspectives
<1>4. CASE persp = 0
    BY <1>1, <1>2, <1>4 DEF SlotAt, Mapped2Base, InnerPlace, Offset, Points
<1>5. CASE persp = 1
    BY <1>1, <1>2, <1>5 DEF SlotAt, Mapped2Base, InnerPlace, Offset, Points
<1>6. CASE persp = 2
    BY <1>1, <1>2, <1>6 DEF SlotAt, Mapped2Base, InnerPlace, Offset, Points
<1>7. CASE persp = 3
    BY <1>1, <1>2, <1>7 DEF SlotAt, Mapped2Base, InnerPlace, Offset, Points
<1> QED BY <1>3, <1>4, <1>5, <1>6, <1>7

LEMMA PlaceIsPoint ==
    ASSUME NEW c \in Casts, NEW k \in 1 .. c.cols * c.rows PROVE PlaceOf(c, k) \in Points
<1>1. c.rows \in Nat \ {0} /\ c.cols \in Nat
    BY DEF Casts
<1>2. c.cols * c.rows \in Nat
    BY <1>1
<1>3. k - 1 \in Int
    BY <1>2
<1>4. (k - 1) \div c.rows \in Int /\ (k - 1) % c.rows \in Int
    BY <1>1, <1>3
<1> QED BY <1>4 DEF PlaceOf, Points

(***************************************************************************)
(* Painting is a recursive function: it is there, and an induction over    *)
(* the places painted goes by the least place where it would fail.         *)
(***************************************************************************)
LEMMA LeastPlace ==
    ASSUME NEW T \in SUBSET Nat, T # {}
    PROVE  \E n \in T : \A m \in T : n <= m
<1>1. PICK n \in T : \A m \in T : ~(<<m, n>> \in OpToRel(<, Nat))
    BY NatLessThanWellFounded, WFMin
<1>2. \A m \in T : ~(m < n)
    BY <1>1 DEF OpToRel
<1> QED BY <1>2

Matrix == [slot |-> slot, limits |-> limits, outmost |-> outmost]
Brushed(st, base, c, k) == IF IsPainted(c, k) THEN SetSlot(st, base, c, PlaceOf(c, k)) ELSE st
Paints(f, base, c, n) == f = [k \in 0 .. n |-> IF k = 0 THEN Matrix ELSE Brushed(f[k - 1], base, c, k)]

\* The first k places of a cast are painted.
Progress(st, base, c, k) ==
    /\ PaintedAt(st, c.id, Offset(base, c))
    /\ FilledIn(st.slot) = {} => Filled = {} /\ \A j \in 1 .. k : ~Lands(base, c, j)

LEMMA PlacePainted ==
    ASSUME View, NEW c \in Casts, NEW base \in Points, OffTheRim(base, c),
           NEW k \in 1 .. c.cols * c.rows, NEW st, Progress(st, base, c, k - 1)
    PROVE  Progress(Brushed(st, base, c, k), base, c, k)
<1>1. PICK t, f, id : t = PlaceOf(c, k) /\ f = Offset(base, c) /\ id = c.id
    OBVIOUS
<1>2. PICK b, i, u : b = SlotAt(base, t) /\ i = InnerPlace(c, t) /\ u = UpdateLimits(st, b)
    OBVIOUS
<1>3. t \in Points
    BY <1>1, PlaceIsPoint
<1>4. f \in Points /\ i[1] = b[1] + f[1] /\ i[2] = b[2] + f[2]
    BY <1>1, <1>2, <1>3, InnerMoved
<1>5. PICK e : e = [am |-> id, ax |-> b[1] + f[1], ay |-> b[2] + f[2]]
    OBVIOUS
<1>6. PICK s : s = [st.slot EXCEPT ![b] = e]
    OBVIOUS
<1>7. PICK r : r = [slot |-> s, limits |-> u.limits, outmost |-> u.outmost]
    OBVIOUS
<1>8. SetSlot(st, base, c, t) = IF b \notin Base THEN st ELSE r
    BY <1>1, <1>2, <1>4, <1>5, <1>6, <1>7 DEF SetSlot, SlotAt
<1>9. CASE Lands(base, c, k)
    <2>1. b \in Base /\ IsPainted(c, k)
        BY <1>1, <1>2, <1>9 DEF Lands
    <2>2. FilledIn(st.slot) = {} => b \in Within
        BY <1>1, <1>2, <1>9 DEF Progress, OffTheRim
    <2>3. id \in Nat \ {0}
        BY <1>1 DEF Casts
    <2>4. PaintedAt(st, id, f)
        BY <1>1 DEF Progress
    <2>5. PaintedAt(r, id, f) /\ FilledIn(r.slot) # {}
        BY <1>2, <1>4, <1>5, <1>6, <1>7, <2>1, <2>2, <2>3, <2>4, SlotPainted
    <2>6. Brushed(st, base, c, k) = r
        BY <1>1, <1>8, <2>1 DEF Brushed
    <2> QED BY <1>1, <2>5, <2>6 DEF Progress
<1>10. CASE ~Lands(base, c, k)
    <2>1. Brushed(st, base, c, k) = st
        BY <1>1, <1>2, <1>8, <1>10 DEF Brushed, Lands
    <2>2. \A j \in 1 .. k : j = k \/ j \in 1 .. k - 1
        BY DEF Casts
    <2> QED BY <1>10, <2>1, <2>2 DEF Progress
<1> QED BY <1>9, <1>10

LEMMA PaintsSome == \A base, c : \A n \in Nat : \E f : Paints(f, base, c, n)
<1> SUFFICES ASSUME NEW base, NEW c PROVE \A n \in Nat : \E f : Paints(f, base, c, n)
    OBVIOUS
<1> DEFINE T == {n \in Nat : ~\E f : Paints(f, base, c, n)}
<1>1. SUFFICES ASSUME T # {} PROVE FALSE
    OBVIOUS
<1>2. PICK n \in T : \A m \in T : n <= m
    <2>1. T \in SUBSET Nat
        OBVIOUS
    <2> HIDE DEF T
    <2> QED BY <1>1, <2>1, LeastPlace
<1>3. n # 0
    <2>1. PICK m : m = Matrix
        OBVIOUS
    <2>2. PICK f : f = [k \in 0 .. 0 |-> m]
        OBVIOUS
    <2>3. f = [k \in 0 .. 0 |-> IF k = 0 THEN m ELSE Brushed(f[k - 1], base, c, k)]
        BY <2>2
    <2>4. Paints(f, base, c, 0)
        BY <2>1, <2>3 DEF Paints
    <2> QED BY <2>4
<1>4. n - 1 \in Nat /\ n - 1 \notin T
    BY <1>2, <1>3
<1>5. PICK f : Paints(f, base, c, n - 1)
    BY <1>4
<1>6. PICK m : m = Matrix
    OBVIOUS
<1>7. f = [k \in 0 .. n - 1 |-> IF k = 0 THEN m ELSE Brushed(f[k - 1], base, c, k)]
    BY <1>5, <1>6 DEF Paints
<1>8. PICK g : g = [k \in 0 .. n |-> IF k = n THEN Brushed(f[n - 1], base, c, n) ELSE f[k]]
    OBVIOUS
<1>9. g = [k \in 0 .. n |-> IF k = 0 THEN m ELSE Brushed(g[k - 1], base, c, k)]
    <2> SUFFICES ASSUME NEW k \in 0 .. n
                 PROVE  g[k] = IF k = 0 THEN m ELSE Brushed(g[k - 1], base, c, k)
        <3> PICK h : h = [k \in 0 .. n |-> IF k = 0 THEN m ELSE Brushed(g[k - 1], base, c, k)]
            OBVIOUS
        <3> QED BY <1>8
    <2>1. n \in Nat
        BY <1>2
    <2>2. CASE k = 0
        BY <1>3, <1>7, <1>8, <2>1, <2>2
    <2>3. CASE k \in 1 .. n - 1
        <3>1. k \in 0 .. n /\ k - 1 \in 0 .. n /\ k # n /\ k - 1 # n /\ k \in 0 .. n - 1 /\ k # 0
            BY <2>1, <2>3
        <3>2. g[k] = f[k] /\ g[k - 1] = f[k - 1]
            BY <1>8, <3>1
        <3> QED BY <1>7, <3>1, <3>2
    <2>4. CASE k = n
        <3>1. n \in 0 .. n /\ n - 1 \in 0 .. n /\ n - 1 # n
            BY <1>4, <2>1
        <3>2. g[n] = Brushed(f[n - 1], base, c, n) /\ g[n - 1] = f[n - 1]
            BY <1>8, <3>1
        <3> QED BY <1>3, <2>4, <3>2
    <2> QED BY <2>1, <2>2, <2>3, <2>4
<1>10. Paints(g, base, c, n)
    BY <1>6, <1>9 DEF Paints
<1> QED BY <1>2, <1>10

LEMMA PaintingPaints ==
    ASSUME NEW c \in Casts, NEW base PROVE Paints(Painting(base, c), base, c, c.cols * c.rows)
<1>1. c.cols * c.rows \in Nat
    BY DEF Casts
<1>2. PICK f : Paints(f, base, c, c.cols * c.rows)
    BY <1>1, PaintsSome
<1> QED BY <1>2 DEF Painting, Paints, Brushed, Matrix

LEMMA PaintingKeeps ==
    ASSUME View, NEW c \in Casts, NEW base \in Points, OffTheRim(base, c),
           PaintedAt(Matrix, c.id, Offset(base, c))
    PROVE  PaintedAt(Painting(base, c)[c.cols * c.rows], c.id, Offset(base, c))
<1> DEFINE N == c.cols * c.rows
           Good(st, k) == Progress(st, base, c, k)
<1>1. N \in Nat
    BY DEF Casts
<1>2. PICK f : f = Painting(base, c)
    OBVIOUS
<1>3. Paints(f, base, c, N)
    BY <1>2, PaintingPaints
<1>4. f[0] = Matrix /\ \A k \in 1 .. N : f[k] = Brushed(f[k - 1], base, c, k)
    <2>1. PICK m : m = Matrix
        OBVIOUS
    <2>2. f = [k \in 0 .. N |-> IF k = 0 THEN m ELSE Brushed(f[k - 1], base, c, k)]
        BY <1>3, <2>1 DEF Paints
    <2> HIDE DEF N
    <2>3. 0 \in 0 .. N /\ \A k \in 1 .. N : k \in 0 .. N /\ k # 0
        BY <1>1
    <2> QED BY <2>1, <2>2, <2>3
<1>5. \A k \in 1 .. N : Good(f[k - 1], k - 1) => Good(f[k], k)
    BY <1>4, PlacePainted
<1>6. Good(f[0], 0)
    <2>1. FilledIn(Matrix.slot) = Filled
        BY DEF Matrix, FilledIn, Filled
    <2> QED BY <1>4, <2>1 DEF Progress
<1> HIDE DEF N, Good
<1>7. \A k \in 0 .. N : Good(f[k], k)
    <2> DEFINE T == {k \in 0 .. N : ~Good(f[k], k)}
    <2>1. SUFFICES ASSUME T # {} PROVE FALSE
        OBVIOUS
    <2>2. T \in SUBSET Nat
        BY <1>1
    <2>3. PICK k \in T : \A j \in T : k <= j
        <3> HIDE DEF T
        <3> QED BY <2>1, <2>2, LeastPlace
    <2>4. k \in 1 .. N
        BY <1>1, <1>6, <2>3
    <2>5. k - 1 \in 0 .. N /\ k - 1 \notin T
        BY <1>1, <2>3, <2>4
    <2> QED BY <1>5, <2>3, <2>4, <2>5
<1>8. Good(f[N], N)
    BY <1>1, <1>7
<1> QED BY <1>2, <1>8 DEF Good, N, Progress

(***************************************************************************)
(* The matrix under any turns, moves of the centre and casts.  A cast has  *)
(* a number of its own; a snap to the left or right is a cast from another *)
(* base.                                                                   *)
(***************************************************************************)
Fresh(id) == \A b \in Base : slot[b].am # id

GridNext ==
    \/ \E p \in Perspectives : SetPerspective(p)
    \/ \E x, y \in Int : SetCenter(x, y)
    \/ \E base \in Points, c \in Casts : Fresh(c.id) /\ OffTheRim(base, c) /\ CastStitch(base, c)

GridSpec == GridInit /\ persp \in Perspectives /\ [][GridNext]_gridVars

GridInv == View /\ Picture(Matrix)

LEMMA PictureAtFirst == GridInit /\ persp \in Perspectives => GridInv
<1> SUFFICES ASSUME GridInit, persp \in Perspectives PROVE GridInv
    OBVIOUS
<1>1. /\ Matrix.slot = slot /\ Matrix.limits = limits /\ Matrix.outmost = outmost
      /\ Nx \in Nat \ {0} /\ Ny \in Nat \ {0}
    BY GridAssumption DEF Matrix
<1>2. View
    BY <1>1 DEF GridInit, View, Points
<1>3. EmptySlot \in [am : Nat, ax : Int, ay : Int] /\ EmptySlot.am = 0
    BY DEF EmptySlot
<1>4. slot \in Slots
    BY <1>3 DEF GridInit, Slots
<1>5. FilledIn(slot) = {}
    BY <1>3 DEF GridInit, FilledIn
<1>6. ExtremesTyped(limits, outmost)
    BY <1>1 DEF GridInit, ExtremesTyped, Points
<1>7. AtFirst(limits, outmost)
    BY DEF GridInit, AtFirst
<1>8. AlikeIn(slot) /\ Exact(FilledIn(slot), limits, outmost)
    BY <1>5, <1>7 DEF AlikeIn, Exact
<1> QED BY <1>1, <1>2, <1>4, <1>5, <1>6, <1>8 DEF GridInv, Picture

LEMMA PictureStays == GridInv /\ [GridNext]_gridVars => GridInv'
<1> SUFFICES ASSUME GridInv, [GridNext]_gridVars PROVE GridInv'
    OBVIOUS
<1>1. Nx \div 2 \in Int /\ Ny \div 2 \in Int
    BY GridAssumption
<1>2. CASE UNCHANGED gridVars
    BY <1>2 DEF gridVars, GridInv, View, Matrix
<1>3. ASSUME NEW p \in Perspectives, SetPerspective(p) PROVE GridInv'
    BY <1>3 DEF SetPerspective, GridInv, View, Matrix
<1>4. ASSUME NEW x \in Int, NEW y \in Int, SetCenter(x, y) PROVE GridInv'
    <2>1. centre' \in Points
        BY <1>1, <1>4 DEF SetCenter, Points
    <2> QED BY <1>4, <2>1 DEF SetCenter, GridInv, View, Matrix
<1>5. ASSUME NEW base \in Points, NEW c \in Casts, Fresh(c.id), OffTheRim(base, c), CastStitch(base, c)
      PROVE  GridInv'
    <2>1. PICK st : st = Painting(base, c)[c.cols * c.rows]
        OBVIOUS
    <2>2. PaintedAt(Matrix, c.id, Offset(base, c))
        BY <1>5 DEF GridInv, PaintedAt, Fresh, Shows, Matrix
    <2>3. PaintedAt(st, c.id, Offset(base, c))
        BY <1>5, <2>1, <2>2, PaintingKeeps DEF GridInv
    <2>4. Picture(st)
        BY <2>3 DEF PaintedAt
    <2>5. slot' = st.slot /\ limits' = st.limits /\ outmost' = st.outmost /\ UNCHANGED <<centre, persp>>
        BY <1>5, <2>1 DEF CastStitch
    <2>6. Matrix'.slot = st.slot /\ Matrix'.limits = st.limits /\ Matrix'.outmost = st.outmost
        BY <2>5 DEF Matrix
    <2>7. Picture(Matrix')
        BY <2>4, <2>6 DEF Picture
    <2>8. Picture(Matrix)'
        BY <2>7 DEF Picture, FilledIn, Within, Slots, Base
    <2>9. View'
        BY <2>5 DEF GridInv, View
    <2> QED BY <2>8, <2>9 DEF GridInv
<1> QED BY <1>2, <1>3, <1>4, <1>5 DEF GridNext

(***************************************************************************)
(* From a perspective, a direction is another one in base coordinates, and *)
(* all that lies in that direction is shifted by the same distance.        *)
(***************************************************************************)
SeenAs(p, d) == ((d - 1 + p) % 4) + 1
TurnedPoint(p, i) == ((i - 1 + 2 * p) % 8) + 1
Vector == <<<<0, -1>>, <<-1, 0>>, <<0, 1>>, <<1, 0>>>>
BoxReach(d, t) == CASE d = 1 -> -t[2] [] d = 2 -> -t[1] [] d = 3 -> t[4] [] d = 4 -> t[3]

ShiftedBy(h, p, d) ==
    /\ \A b \in Points : Reach(d, Base2Mapped(p, b)) = Reach(SeenAs(p, d), b) + h
    /\ BoxReach(d, TotalMinMax(p)) = Limit(limits, SeenAs(p, d)) + h

LEMMA Turning ==
    \A p \in Perspectives, d \in 1 .. 4, i \in 1 .. 8 :
        /\ SeenAs(p, d) \in 1 .. 4 /\ TurnedPoint(p, i) \in 1 .. 8
        /\ Side[TurnedPoint(p, i)] = SeenAs(p, Side[i])
        /\ Toward[TurnedPoint(p, i)] = SeenAs(p, Toward[i])
<1> SUFFICES ASSUME NEW p \in Perspectives, NEW d \in 1 .. 4, NEW i \in 1 .. 8
             PROVE  /\ SeenAs(p, d) \in 1 .. 4 /\ TurnedPoint(p, i) \in 1 .. 8
                    /\ Side[TurnedPoint(p, i)] = SeenAs(p, Side[i])
                    /\ Toward[TurnedPoint(p, i)] = SeenAs(p, Toward[i])
    OBVIOUS
<1>1. p \in {0, 1, 2, 3} /\ i \in {1, 2, 3, 4, 5, 6, 7, 8}
    BY DEF Perspectives
<1>2. SeenAs(p, d) \in 1 .. 4 /\ TurnedPoint(p, i) \in 1 .. 8
    BY <1>1 DEF SeenAs, TurnedPoint
<1>3. Side[TurnedPoint(p, i)] = SeenAs(p, Side[i])
    BY <1>1 DEF SeenAs, TurnedPoint, Side
<1>4. Toward[TurnedPoint(p, i)] = SeenAs(p, Toward[i])
    BY <1>1 DEF SeenAs, TurnedPoint, Toward
<1> QED BY <1>2, <1>3, <1>4

LEMMA Shifted ==
    ASSUME View, NEW o, ExtremesTyped(limits, o), NEW p \in Perspectives, NEW d \in 1 .. 4
    PROVE  \E h \in Int : ShiftedBy(h, p, d)
<1>1. /\ centre[1] \in Int /\ centre[2] \in Int
      /\ limits.xmif \in Int /\ limits.ymif \in Int /\ limits.xmaf \in Int /\ limits.ymaf \in Int
      /\ \A b \in Points : b[1] \in Int /\ b[2] \in Int
    BY DEF View, ExtremesTyped, Points
<1>2. p \in {0, 1, 2, 3} /\ d \in {1, 2, 3, 4}
    BY DEF Perspectives
<1> DEFINE h == Reach(d, Base2Mapped(p, <<0, 0>>))
<1>3. h \in Int
    BY <1>1, <1>2 DEF Reach, Base2Mapped
<1>4. p = 0 => ShiftedBy(h, p, d)
    BY <1>1, <1>2 DEF ShiftedBy, Reach, Base2Mapped, SeenAs, BoxReach, TotalMinMax, Limit
<1>5. p = 1 => ShiftedBy(h, p, d)
    BY <1>1, <1>2 DEF ShiftedBy, Reach, Base2Mapped, SeenAs, BoxReach, TotalMinMax, Limit
<1>6. p = 2 => ShiftedBy(h, p, d)
    BY <1>1, <1>2 DEF ShiftedBy, Reach, Base2Mapped, SeenAs, BoxReach, TotalMinMax, Limit
<1>7. p = 3 => ShiftedBy(h, p, d)
    BY <1>1, <1>2 DEF ShiftedBy, Reach, Base2Mapped, SeenAs, BoxReach, TotalMinMax, Limit
<1> QED BY <1>2, <1>3, <1>4, <1>5, <1>6, <1>7

LEMMA EndSeen ==
    ASSUME NEW seen \in SUBSET Points, NEW a \in 1 .. 4, NEW b \in 1 .. 4, NEW e, EndOf(e, seen, a, b)
    PROVE  IsEnd(e, seen, Vector[a], Vector[b])
<1>1. \A d \in 1 .. 4 : \A q \in Points : Vector[d][1] * q[1] + Vector[d][2] * q[2] = Reach(d, q)
    <2> SUFFICES ASSUME NEW d \in 1 .. 4, NEW q \in Points
                 PROVE  Vector[d][1] * q[1] + Vector[d][2] * q[2] = Reach(d, q)
        OBVIOUS
    <2>1. d \in {1, 2, 3, 4} /\ q[1] \in Int /\ q[2] \in Int
        BY DEF Points
    <2> QED BY <2>1 DEF Vector, Reach
<1>2. PICK v, w : v = Vector[a] /\ w = Vector[b]
    OBVIOUS
<1>3. \A q \in Points : v[1] * q[1] + v[2] * q[2] = Reach(a, q) /\ w[1] * q[1] + w[2] * q[2] = Reach(b, q)
    BY <1>1, <1>2
<1>4. IsEnd(e, seen, v, w)
    BY <1>3 DEF IsEnd, EndOf
<1> QED BY <1>2, <1>4

LEMMA BoxSeen ==
    ASSUME NEW seen \in SUBSET Points, NEW t, \A i \in 1 .. 4 : t[i] \in Int,
           \A d \in 1 .. 4 : /\ \A q \in seen : Reach(d, q) <= BoxReach(d, t)
                             /\ \E q \in seen : Reach(d, q) = BoxReach(d, t)
    PROVE  IsBox(t, seen)
<1>1. \A q \in seen : q[1] \in Int /\ q[2] \in Int
    BY DEF Points
<1>2. \A q \in seen : -q[2] <= -t[2] /\ -q[1] <= -t[1] /\ q[2] <= t[4] /\ q[1] <= t[3]
    BY DEF Reach, BoxReach
<1>3. /\ \E q \in seen : -q[2] = -t[2]
      /\ \E q \in seen : -q[1] = -t[1]
      /\ \E q \in seen : q[2] = t[4]
      /\ \E q \in seen : q[1] = t[3]
    BY DEF Reach, BoxReach
<1>4. \A q \in seen : q[1] \in t[1] .. t[3] /\ q[2] \in t[2] .. t[4]
    BY <1>1, <1>2
<1>5. \A i \in {1, 3} : \E q \in seen : q[1] = t[i]
    BY <1>1, <1>3
<1>6. \A i \in {2, 4} : \E q \in seen : q[2] = t[i]
    BY <1>1, <1>3
<1> QED BY <1>4, <1>5, <1>6 DEF IsBox

Ways8 ==
    LET N == <<0, -1>>   W == <<-1, 0>>   S == <<0, 1>>   E == <<1, 0>>
    IN  <<<<N, W>>, <<W, N>>, <<W, S>>, <<S, W>>, <<S, E>>, <<E, S>>, <<E, N>>, <<N, E>>>>

LEMMA WaysAreVectors == \A i \in 1 .. 8 : Ways8[i][1] = Vector[Side[i]] /\ Ways8[i][2] = Vector[Toward[i]]
<1> SUFFICES ASSUME NEW i \in 1 .. 8 PROVE Ways8[i][1] = Vector[Side[i]] /\ Ways8[i][2] = Vector[Toward[i]]
    OBVIOUS
<1>1. i \in {1, 2, 3, 4, 5, 6, 7, 8}
    OBVIOUS
<1> QED BY <1>1 DEF Ways8, Vector, Side, Toward

\* What the invariant says of the extremes, seen from a perspective.
SeenRight(p, seen) ==
    /\ IsBox(TotalMinMax(p), seen)
    /\ \A i \in 1 .. 8 : IsEnd(Base2Mapped(p, FilledMinMax(p)[i]), seen, Ways8[i][1], Ways8[i][2])

LEMMA ExtremesSeen ==
    ASSUME GridInv, Filled # {}, NEW p \in Perspectives, NEW seen, seen = {Base2Mapped(p, b) : b \in Filled}
    PROVE  SeenRight(p, seen)
<1>1. /\ View /\ ExtremesTyped(limits, outmost)
      /\ Exact(Filled, limits, outmost) /\ Filled \subseteq Points
    <2>1. Matrix.slot = slot /\ Matrix.limits = limits /\ Matrix.outmost = outmost
        BY DEF Matrix
    <2>2. FilledIn(slot) = Filled
        BY DEF FilledIn, Filled
    <2> QED BY <2>1, <2>2, GridAssumption DEF GridInv, Picture, Filled, Base, Points
<1>2. /\ centre[1] \in Int /\ centre[2] \in Int
      /\ limits.xmif \in Int /\ limits.ymif \in Int /\ limits.xmaf \in Int /\ limits.ymaf \in Int
      /\ \A b \in Points : b[1] \in Int /\ b[2] \in Int
      /\ p \in {0, 1, 2, 3}
    BY <1>1 DEF View, ExtremesTyped, Points, Perspectives
<1>3. \A b \in Points : Base2Mapped(p, b) \in Points
    BY <1>2 DEF Base2Mapped, Points
<1>4. seen \in SUBSET Points
    BY <1>1, <1>3
<1>5. \A d \in 1 .. 4 : \A b \in Points : Reach(d, b) \in Int
    BY ReachIsInt
<1>6. \A i \in 1 .. 8 : /\ EndOf(outmost[i], Filled, Side[i], Toward[i])
                        /\ Limit(limits, Side[i]) = Reach(Side[i], outmost[i])
    BY <1>1 DEF Exact
<1>7. ASSUME NEW i \in 1 .. 8
      PROVE  EndOf(Base2Mapped(p, outmost[TurnedPoint(p, i)]), seen, Side[i], Toward[i])
    <2>1. PICK o, a, b : o = outmost[TurnedPoint(p, i)] /\ a = SeenAs(p, Side[i]) /\ b = SeenAs(p, Toward[i])
        OBVIOUS
    <2>2. Side[i] \in 1 .. 4 /\ Toward[i] \in 1 .. 4
        BY Ways
    <2>3. a \in 1 .. 4 /\ b \in 1 .. 4 /\ EndOf(o, Filled, a, b)
        BY <1>6, <2>1, <2>2, Turning
    <2>4. PICK h \in Int : ShiftedBy(h, p, Side[i])
        BY <1>1, <2>2, Shifted
    <2>5. PICK g \in Int : ShiftedBy(g, p, Toward[i])
        BY <1>1, <2>2, Shifted
    <2>6. PICK s, t : s = Side[i] /\ t = Toward[i]
        OBVIOUS
    <2>7. \A q \in Points : /\ Reach(s, Base2Mapped(p, q)) = Reach(a, q) + h
                            /\ Reach(t, Base2Mapped(p, q)) = Reach(b, q) + g
                            /\ Reach(a, q) \in Int /\ Reach(b, q) \in Int
        BY <1>5, <2>1, <2>3, <2>4, <2>5, <2>6 DEF ShiftedBy
    <2>8. o \in Points /\ o \in Filled
        BY <1>1, <2>3 DEF EndOf
    <2>9. EndOf(Base2Mapped(p, o), seen, s, t)
        <3>1. Base2Mapped(p, o) \in seen
            BY <2>8
        <3>2. ASSUME NEW c \in Filled
              PROVE  \/ Reach(s, Base2Mapped(p, c)) < Reach(s, Base2Mapped(p, o))
                     \/ /\ Reach(s, Base2Mapped(p, c)) = Reach(s, Base2Mapped(p, o))
                        /\ Reach(t, Base2Mapped(p, c)) <= Reach(t, Base2Mapped(p, o))
            <4>1. c \in Points
                BY <1>1
            <4>2. \/ Reach(a, c) < Reach(a, o)
                  \/ Reach(a, c) = Reach(a, o) /\ Reach(b, c) <= Reach(b, o)
                BY <2>3 DEF EndOf
            <4> QED BY <2>7, <2>8, <4>1, <4>2
        <3> QED BY <3>1, <3>2 DEF EndOf
    <2> QED BY <2>1, <2>6, <2>9
<1>8. ASSUME NEW i \in 1 .. 8
      PROVE  IsEnd(Base2Mapped(p, FilledMinMax(p)[i]), seen, Ways8[i][1], Ways8[i][2])
    <2>1. FilledMinMax(p)[i] = outmost[TurnedPoint(p, i)]
        BY DEF FilledMinMax, TurnedPoint
    <2>2. Side[i] \in 1 .. 4 /\ Toward[i] \in 1 .. 4
        BY Ways
    <2>3. PICK e : e = Base2Mapped(p, FilledMinMax(p)[i])
        OBVIOUS
    <2>4. EndOf(e, seen, Side[i], Toward[i])
        BY <1>7, <2>1, <2>3
    <2>5. IsEnd(e, seen, Vector[Side[i]], Vector[Toward[i]])
        BY <1>4, <2>2, <2>4, EndSeen
    <2>6. Ways8[i][1] = Vector[Side[i]] /\ Ways8[i][2] = Vector[Toward[i]]
        BY WaysAreVectors
    <2> QED BY <2>3, <2>5, <2>6
<1>9. IsBox(TotalMinMax(p), seen)
    <2>1. ASSUME NEW d \in 1 .. 4
          PROVE  /\ \A q \in seen : Reach(d, q) <= BoxReach(d, TotalMinMax(p))
                 /\ \E q \in seen : Reach(d, q) = BoxReach(d, TotalMinMax(p))
        <3>1. PICK i \in 1 .. 8 : Side[i] = SeenAs(p, d)
            <4>1. SeenAs(p, d) \in {1, 2, 3, 4}
                BY Turning
            <4> QED BY <4>1 DEF Side
        <3>2. PICK h \in Int : ShiftedBy(h, p, d)
            BY <1>1, Shifted
        <3>3. PICK o, a : o = outmost[i] /\ a = SeenAs(p, d)
            OBVIOUS
        <3>4. PICK m : m = BoxReach(d, TotalMinMax(p))
            OBVIOUS
        <3>5. \A q \in Points : Reach(d, Base2Mapped(p, q)) = Reach(a, q) + h
            BY <3>2, <3>3 DEF ShiftedBy
        <3>6. EndOf(o, Filled, a, Toward[i]) /\ Limit(limits, a) = Reach(a, o)
            BY <1>6, <3>1, <3>3
        <3>7. m = Reach(a, o) + h
            BY <3>2, <3>3, <3>4, <3>6 DEF ShiftedBy
        <3>8. a \in 1 .. 4 /\ o \in Filled /\ o \in Points
            BY <1>1, <3>3, <3>6, Turning DEF EndOf
        <3>9. \A q \in seen : Reach(d, q) <= m
            <4> SUFFICES ASSUME NEW c \in Filled PROVE Reach(d, Base2Mapped(p, c)) <= m
                OBVIOUS
            <4>1. c \in Points
                BY <1>1
            <4>2. Reach(a, c) \in Int /\ Reach(a, o) \in Int
                BY <1>5, <3>8, <4>1
            <4>3. Reach(a, c) <= Reach(a, o)
                BY <3>6, <4>2 DEF EndOf
            <4> QED BY <3>5, <3>7, <4>1, <4>2, <4>3
        <3>10. Base2Mapped(p, o) \in seen /\ Reach(d, Base2Mapped(p, o)) = m
            BY <3>5, <3>7, <3>8
        <3> QED BY <3>4, <3>9, <3>10
    <2>2. \A i \in 1 .. 4 : TotalMinMax(p)[i] \in Int
        BY <1>2 DEF TotalMinMax, Base2Mapped
    <2>3. PICK t : t = TotalMinMax(p)
        OBVIOUS
    <2>4. /\ \A i \in 1 .. 4 : t[i] \in Int
          /\ \A d \in 1 .. 4 : /\ \A q \in seen : Reach(d, q) <= BoxReach(d, t)
                               /\ \E q \in seen : Reach(d, q) = BoxReach(d, t)
        BY <2>1, <2>2, <2>3
    <2>5. IsBox(t, seen)
        BY <1>4, <2>4, BoxSeen
    <2> QED BY <2>3, <2>5
<1> QED BY <1>8, <1>9 DEF SeenRight

(***************************************************************************)
(* The boxes and the outmost points are right from each of the four        *)
(* perspectives, and the places in an amorph do not depend on the side     *)
(* from which it was cast, however often the matrix is turned, its centre  *)
(* moved and amorphs cast over others or beyond the border: TotalMinMax    *)
(* (10-matrix.go:285), FilledMinMax (10-matrix.go:322), updateLimits       *)
(* (10-matrix.go:364), transpose (20-amorph.go:206).  If the first slot of *)
(* all is one of row or column 0, updateLimits misses it: see OffTheRim.   *)
(***************************************************************************)
THEOREM SameFromAnySide == GridSpec => []SameFromEverySide
<1>1. GridInv => SameFromEverySide
    <2> SUFFICES ASSUME GridInv PROVE SameFromEverySide
        OBVIOUS
    <2>1. ASSUME NEW p \in Perspectives, Filled # {}
          PROVE  SeenRight(p, {Base2Mapped(p, b) : b \in Filled})
        BY <2>1, ExtremesSeen
    <2>2. AlikeIn(slot) /\ FilledIn(slot) = Filled
        BY DEF GridInv, Picture, Matrix, FilledIn, Filled
    <2> QED BY <2>1, <2>2 DEF SameFromEverySide, SeenRight, Ways8, AlikeIn
<1> QED BY <1>1, PictureAtFirst, PictureStays, PTL DEF GridSpec

-----------------------------------------------------------------------------
(***************************************************************************)
(* The shapes of the amorphs of a reservoir.                               *)
(***************************************************************************)

\* The root of an area of at least one element lies between 1 and the area.
LEMMA RootWithin ==
    ASSUME NEW n \in Nat \ {0}
    PROVE  /\ RootCeiling(n) \in 1 .. n
           /\ RootCeiling(n) * RootCeiling(n) >= n
           /\ \A s \in 0 .. RootCeiling(n) - 1 : s * s < n
<1> DEFINE T == {r \in Nat : r * r >= n}
           IsRoot(r) == r * r >= n /\ \A s \in 0 .. r - 1 : s * s < n
<1>1. \A r \in Nat : r * r \in Nat
    OBVIOUS
<1>2. n * n >= n
    <2>1. n * n >= n * 1
        OBVIOUS
    <2> QED BY <2>1
<1>3. PICK r \in T : \A m \in T : r <= m
    <2>1. n \in T /\ T \in SUBSET Nat
        BY <1>2
    <2> HIDE DEF T
    <2> QED BY <2>1, LeastPlace
<1>4. r \in 0 .. n /\ IsRoot(r)
    <2>1. r <= n
        BY <1>2, <1>3
    <2>2. ASSUME NEW s \in 0 .. r - 1 PROVE s * s < n
        <3>1. s \in Nat /\ s \notin T
            BY <1>3
        <3>2. s * s \in Nat /\ ~(s * s >= n)
            BY <1>1, <3>1
        <3> QED BY <3>2
    <2> QED BY <1>3, <2>1, <2>2
<1>5. RootCeiling(n) = CHOOSE q \in 0 .. n : IsRoot(q)
    BY DEF RootCeiling
<1> HIDE DEF IsRoot
<1>6. RootCeiling(n) \in 0 .. n /\ IsRoot(RootCeiling(n))
    BY <1>4, <1>5
<1> USE DEF IsRoot
<1>7. RootCeiling(n) # 0
    BY <1>6
<1> QED BY <1>6, <1>7

\* In no more columns than elements there are no more rows than elements.
LEMMA RowsWithin == \A n \in Nat \ {0} : \A c \in 1 .. n : OtherSide(n, c) \in 1 .. n
<1> SUFFICES ASSUME NEW n \in Nat \ {0}, NEW c \in 1 .. n PROVE OtherSide(n, c) \in 1 .. n
    OBVIOUS
<1> DEFINE q == n \div c
           r == n % c
<1>1. q \in Nat /\ r \in 0 .. c - 1 /\ n = c * q + r
    OBVIOUS
<1>2. OtherSide(n, c) = IF r = 0 THEN q ELSE q + 1
    BY DEF OtherSide
<1> HIDE DEF q, r
<1>3. q >= 1
    <2>1. q = 0 => c * q = 0
        OBVIOUS
    <2> QED BY <1>1, <2>1
<1>4. c * q >= q
    BY <1>1
<1>5. CASE r = 0
    BY <1>1, <1>2, <1>3, <1>4, <1>5
<1>6. CASE r # 0
    BY <1>1, <1>2, <1>3, <1>4, <1>6
<1> QED BY <1>5, <1>6

(***************************************************************************)
(* What an amorph of n elements leaves open below the stair e, in some     *)
(* number of rows, is as large as the step of the stair.                   *)
(***************************************************************************)
FilledBelow(n, e) == \E r \in e[2] + 1 .. n : SlackOf(n, e[1] + e[3], r) = e[2] * e[3]

\* The stairs that a slack of x times y cuts out of r rows and c columns.
CutOut(c, r, x, y) ==
    (IF r > x /\ c > y THEN {<<r - x, y, x>>, <<c - y, x, y>>} ELSE {})
    \cup
    (IF r > y /\ c > x THEN {<<r - y, x, y>>, <<c - x, y, x>>} ELSE {})

LEMMA EdgesFill ==
    ASSUME NEW n \in Nat \ {0}, NEW c \in 1 .. n, NEW r \in 1 .. n,
           NEW e \in PermutateEdges(c, r, SlackOf(n, c, r))
    PROVE  Enc(e) = e /\ FilledBelow(n, e)
<1> DEFINE s == SlackOf(n, c, r)
<1>1. s = c * r - n /\ s \in Int /\ c * r = r * c /\ c * r \in Int
    BY DEF SlackOf
<1>2. PermutateEdges(c, r, s) =
          IF s <= 0 THEN {} ELSE UNION {CutOut(c, r, x, s \div x) : x \in {1} \cup Factorize(s)}
    BY DEF PermutateEdges, CutOut
<1>3. s > 0
    BY <1>1, <1>2
<1>4. PICK x \in {1} \cup Factorize(s) : e \in CutOut(c, r, x, s \div x)
    <2> HIDE DEF s
    <2>1. e \in UNION {CutOut(c, r, x, s \div x) : x \in {1} \cup Factorize(s)}
        <3>1. e \in PermutateEdges(c, r, s)
            BY DEF s
        <3> QED BY <1>1, <1>2, <1>3, <3>1
    <2> QED BY <2>1
<1>5. PICK y : y = s \div x
    OBVIOUS
<1>6. x \in Nat \ {0} /\ y \in Nat \ {0} /\ x * y = s /\ y * x = s
    <2>1. x \in Nat \ {0} /\ s % x = 0
        BY <1>1, <1>3, <1>4 DEF Factorize
    <2>2. y \in Int /\ s = (x * y) + (s % x)
        BY <1>1, <1>3, <1>5, <2>1
    <2>3. s = x * y
        BY <2>1, <2>2
    <2>4. y > 0
        BY <1>3, <2>1, <2>2, <2>3
    <2> QED BY <2>1, <2>2, <2>3, <2>4
<1>7. e \in CutOut(c, r, x, y)
    BY <1>4, <1>5
<1> HIDE DEF s
<1>8. ASSUME NEW a \in Nat \ {0}, NEW b \in Nat \ {0}, a * b = s, NEW g \in 1 .. n, NEW h \in 1 .. n,
             g * h = c * r, g > a, h > b, e = <<g - a, b, a>>
      PROVE  Enc(e) = e /\ FilledBelow(n, e)
    <2>1. e[1] + e[3] = g /\ e[2] = b /\ e[3] = a /\ h \in b + 1 .. n
        BY <1>8
    <2>2. SlackOf(n, g, h) = b * a
        BY <1>1, <1>8 DEF SlackOf
    <2>3. FilledBelow(n, e)
        BY <2>1, <2>2 DEF FilledBelow
    <2> QED BY <2>1, <2>3 DEF Enc
<1>9. CASE e = <<r - x, y, x>> /\ r > x /\ c > y
    BY <1>1, <1>6, <1>8, <1>9
<1>10. CASE e = <<c - y, x, y>> /\ r > x /\ c > y
    BY <1>1, <1>6, <1>8, <1>10
<1>11. CASE e = <<r - y, x, y>> /\ r > y /\ c > x
    BY <1>1, <1>6, <1>8, <1>11
<1>12. CASE e = <<c - x, y, x>> /\ r > y /\ c > x
    BY <1>1, <1>6, <1>8, <1>12
<1> QED BY <1>7, <1>9, <1>10, <1>11, <1>12 DEF CutOut

LEMMA StairsFill == \A n \in Nat \ {0} : \A e \in Stairs(n) : FilledBelow(n, e)
<1> SUFFICES ASSUME NEW n \in Nat \ {0}, NEW e \in Stairs(n) PROVE FilledBelow(n, e)
    OBVIOUS
<1>1. PICK q \in PlainRectangles(n) \cup SuperRectangles(n) :
          \E d \in PermutateEdges(q[1], q[2], SlackOf(n, q[1], q[2])) : e = Enc(d)
    BY DEF Stairs
<1>2. RootCeiling(n) \in 1 .. n
    BY RootWithin
<1>3. q[1] \in 1 .. n /\ q[2] \in 1 .. n
    <2>1. CASE q \in PlainRectangles(n)
        <3>1. PICK c \in RootCeiling(n) .. n : q = <<c, OtherSide(n, c)>>
            BY <2>1 DEF PlainRectangles
        <3>2. c \in 1 .. n
            BY <1>2, <3>1
        <3> QED BY <3>1, <3>2, RowsWithin
    <2>2. CASE q \in SuperRectangles(n)
        <3>1. PICK h \in Nat : h = n \div 2
            OBVIOUS
        <3>2. h + 1 <= n \/ (n = 1 /\ h = 0)
            BY <3>1
        <3>3. /\ q[1] \in RootCeiling(n) .. (IF n % 2 = 0 THEN h ELSE h + 1)
              /\ q[2] \in RootCeiling(n) .. h + 1
            BY <2>2, <3>1 DEF SuperRectangles
        <3> QED BY <1>2, <3>2, <3>3
    <2> QED BY <2>1, <2>2
<1> QED BY <1>1, <1>3, EdgesFill

\* The shapes that the tests of the package expect.
LEMMA EdgesOf ==
    ASSUME NEW c \in Nat, NEW r \in Nat, NEW s \in Nat \ {0}, NEW F, Factorize(s) = F
    PROVE  PermutateEdges(c, r, s) = UNION {CutOut(c, r, x, s \div x) : x \in {1} \cup F}
BY DEF PermutateEdges, CutOut

LEMMA SmallFactors ==
    /\ Factorize(1) = {} /\ Factorize(2) = {} /\ Factorize(3) = {} /\ Factorize(4) = {2}
    /\ Factorize(5) = {} /\ Factorize(6) = {2, 3} /\ Factorize(12) = {2, 3, 4, 6}
<1>1. Factorize(1) = {} /\ Factorize(2) = {} /\ Factorize(3) = {}
    BY DEF Factorize
<1>2. Factorize(4) = {2}
    BY DEF Factorize
<1>3. Factorize(5) = {}
    BY DEF Factorize
<1>4. Factorize(6) = {2, 3}
    BY DEF Factorize
<1>5. Factorize(12) = {2, 3, 4, 6}
    <2>1. \A i \in {2, 3, 4, 5, 6, 7, 8, 9, 10, 11} : 12 % i = 0 <=> i \in {2, 3, 4, 6}
        OBVIOUS
    <2>2. 2 .. 12 - 1 = {2, 3, 4, 5, 6, 7, 8, 9, 10, 11}
        OBVIOUS
    <2> QED BY <2>1, <2>2 DEF Factorize
<1> QED BY <1>1, <1>2, <1>3, <1>4, <1>5

Rects(n) == PlainRectangles(n) \cup SuperRectangles(n)
EdgesIn(n, c, r) == PermutateEdges(c, r, SlackOf(n, c, r))

AllEdges(n) == UNION {EdgesIn(n, q[1], q[2]) : q \in Rects(n)}

LEMMA EdgesAmong ==
    ASSUME NEW n, NEW c, NEW r, <<c, r>> \in Rects(n) PROVE EdgesIn(n, c, r) \subseteq AllEdges(n)
<1>1. PICK q \in Rects(n) : q = <<c, r>>
    OBVIOUS
<1>2. q[1] = c /\ q[2] = r
    BY <1>1
<1> QED BY <1>2 DEF AllEdges

LEMMA StairsOf ==
    ASSUME NEW n, NEW E, AllEdges(n) = E, \A e \in E : Enc(e) = e
    PROVE  Stairs(n) = E
<1>1. Stairs(n) = {Enc(e) : e \in AllEdges(n)}
    BY DEF Stairs, AllEdges, EdgesIn, Rects
<1> QED BY <1>1

LEMMA ShapesOfFive == Stairs(5) = {<<1,1,1>>, <<1,1,3>>, <<1,2,2>>, <<1,3,1>>, <<2,1,1>>}
<1>1. RootCeiling(5) = 3
    BY RootWithin
<1>2. OtherSide(5, 3) = 2 /\ OtherSide(5, 4) = 2 /\ OtherSide(5, 5) = 1
    BY DEF OtherSide
<1>3. PlainRectangles(5) = {<<3, 2>>, <<4, 2>>, <<5, 1>>}
    <2>1. 3 .. 5 = {3, 4, 5}
        OBVIOUS
    <2> QED BY <1>1, <1>2, <2>1 DEF PlainRectangles
<1>4. SuperRectangles(5) = {<<3, 3>>}
    <2>1. 5 \div 2 + 1 = 3 /\ 5 % 2 # 0 /\ 3 .. 3 = {3}
        OBVIOUS
    <2> QED BY <1>1, <2>1 DEF SuperRectangles
<1>5. EdgesIn(5, 3, 2) = {<<1, 1, 1>>, <<2, 1, 1>>}
    <2>1. SlackOf(5, 3, 2) = 1 /\ 1 \div 1 = 1
        BY DEF SlackOf
    <2> QED BY <2>1, SmallFactors, EdgesOf DEF EdgesIn, CutOut
<1>6. EdgesIn(5, 4, 2) = {<<1, 3, 1>>, <<1, 1, 3>>}
    <2>1. SlackOf(5, 4, 2) = 3 /\ 3 \div 1 = 3
        BY DEF SlackOf
    <2> QED BY <2>1, SmallFactors, EdgesOf DEF EdgesIn, CutOut
<1>7. EdgesIn(5, 5, 1) = {}
    BY DEF EdgesIn, PermutateEdges, SlackOf
<1>8. EdgesIn(5, 3, 3) = {<<1, 2, 2>>}
    <2>1. SlackOf(5, 3, 3) = 4 /\ 4 \div 1 = 4 /\ 4 \div 2 = 2
        BY DEF SlackOf
    <2> QED BY <2>1, SmallFactors, EdgesOf DEF EdgesIn, CutOut
<1>9. Rects(5) = {<<3, 2>>, <<4, 2>>, <<5, 1>>, <<3, 3>>}
    BY <1>3, <1>4 DEF Rects
<1>10. AllEdges(5) = {<<1,1,1>>, <<1,1,3>>, <<1,2,2>>, <<1,3,1>>, <<2,1,1>>}
    <2>1. \A q \in Rects(5) :
              \/ q[1] = 3 /\ q[2] = 2
              \/ q[1] = 4 /\ q[2] = 2
              \/ q[1] = 5 /\ q[2] = 1
              \/ q[1] = 3 /\ q[2] = 3
        BY <1>9
    <2>2. ASSUME NEW e \in AllEdges(5) PROVE e \in {<<1,1,1>>, <<1,1,3>>, <<1,2,2>>, <<1,3,1>>, <<2,1,1>>}
        <3>1. PICK q \in Rects(5) : e \in EdgesIn(5, q[1], q[2])
            BY DEF AllEdges
        <3> QED BY <1>5, <1>6, <1>7, <1>8, <2>1, <3>1
    <2>3. {<<1,1,1>>, <<1,1,3>>, <<1,2,2>>, <<1,3,1>>, <<2,1,1>>} \subseteq AllEdges(5)
        BY <1>5, <1>6, <1>7, <1>8, <1>9, EdgesAmong
    <2> QED BY <2>2, <2>3
<1>11. \A e \in {<<1,1,1>>, <<1,1,3>>, <<1,2,2>>, <<1,3,1>>, <<2,1,1>>} : Enc(e) = e
    BY DEF Enc
<1> QED BY <1>10, <1>11, StairsOf

LEMMA ShapesOfSix ==
    Stairs(6) = {<<1,1,4>>, <<1,2,1>>, <<1,2,3>>, <<1,3,2>>, <<1,4,1>>, <<2,1,2>>}
<1>1. RootCeiling(6) = 3
    BY RootWithin
<1>2. /\ OtherSide(6, 3) = 2 /\ OtherSide(6, 4) = 2 /\ OtherSide(6, 5) = 2
      /\ OtherSide(6, 6) = 1
    BY DEF OtherSide
<1>3. PlainRectangles(6) = {<<3, 2>>, <<4, 2>>, <<5, 2>>, <<6, 1>>}
    <2>1. 3 .. 6 = {3, 4, 5, 6}
        OBVIOUS
    <2> QED BY <1>1, <1>2, <2>1 DEF PlainRectangles
<1>4. SuperRectangles(6) = {<<3, 3>>, <<3, 4>>}
    <2>1. 6 \div 2 = 3 /\ 6 % 2 = 0 /\ 3 .. 3 = {3} /\ 3 .. 3 + 1 = {3, 4}
        OBVIOUS
    <2> QED BY <1>1, <2>1 DEF SuperRectangles
<1>5. EdgesIn(6, 3, 2) = {} /\ EdgesIn(6, 6, 1) = {}
    BY DEF EdgesIn, PermutateEdges, SlackOf
<1>6. EdgesIn(6, 4, 2) = {<<1, 2, 1>>, <<2, 1, 2>>}
    <2>1. SlackOf(6, 4, 2) = 2 /\ 2 \div 1 = 2
        BY DEF SlackOf
    <2> QED BY <2>1, SmallFactors, EdgesOf DEF EdgesIn, CutOut
<1>7. EdgesIn(6, 5, 2) = {<<1, 4, 1>>, <<1, 1, 4>>}
    <2>1. SlackOf(6, 5, 2) = 4 /\ 4 \div 1 = 4 /\ 4 \div 2 = 2
        BY DEF SlackOf
    <2> QED BY <2>1, SmallFactors, EdgesOf DEF EdgesIn, CutOut
<1>8. EdgesIn(6, 3, 3) = {}
    <2>1. SlackOf(6, 3, 3) = 3 /\ 3 \div 1 = 3
        BY DEF SlackOf
    <2> QED BY <2>1, SmallFactors, EdgesOf DEF EdgesIn, CutOut
<1>9. EdgesIn(6, 3, 4) = {<<1, 2, 3>>, <<1, 3, 2>>}
    <2>1. SlackOf(6, 3, 4) = 6 /\ 6 \div 1 = 6 /\ 6 \div 2 = 3 /\ 6 \div 3 = 2
        BY DEF SlackOf
    <2> QED BY <2>1, SmallFactors, EdgesOf DEF EdgesIn, CutOut
<1>10. Rects(6) = {<<3, 2>>, <<4, 2>>, <<5, 2>>, <<6, 1>>, <<3, 3>>, <<3, 4>>}
    BY <1>3, <1>4 DEF Rects
<1>11. AllEdges(6) = {<<1,1,4>>, <<1,2,1>>, <<1,2,3>>, <<1,3,2>>, <<1,4,1>>, <<2,1,2>>}
    <2>1. \A q \in Rects(6) :
              \/ q[1] = 3 /\ q[2] = 2
              \/ q[1] = 4 /\ q[2] = 2
              \/ q[1] = 5 /\ q[2] = 2
              \/ q[1] = 6 /\ q[2] = 1
              \/ q[1] = 3 /\ q[2] = 3
              \/ q[1] = 3 /\ q[2] = 4
        BY <1>10
    <2>2. ASSUME NEW e \in AllEdges(6) PROVE e \in {<<1,1,4>>, <<1,2,1>>, <<1,2,3>>, <<1,3,2>>, <<1,4,1>>, <<2,1,2>>}
        <3>1. PICK q \in Rects(6) : e \in EdgesIn(6, q[1], q[2])
            BY DEF AllEdges
        <3> QED BY <1>5, <1>6, <1>7, <1>8, <1>9, <2>1, <3>1
    <2>3. {<<1,1,4>>, <<1,2,1>>, <<1,2,3>>, <<1,3,2>>, <<1,4,1>>, <<2,1,2>>} \subseteq AllEdges(6)
        BY <1>5, <1>6, <1>7, <1>8, <1>9, <1>10, EdgesAmong
    <2> QED BY <2>2, <2>3
<1>12. \A e \in {<<1,1,4>>, <<1,2,1>>, <<1,2,3>>, <<1,3,2>>, <<1,4,1>>, <<2,1,2>>} : Enc(e) = e
    BY DEF Enc
<1> QED BY <1>11, <1>12, StairsOf


(***************************************************************************)
(* The reservoir under any use: amorphs of any size, any seeds, any        *)
(* desirable gap, viewport, centre and perspective, any choice of          *)
(* heuristics.  The numbers of elements are integers, as in the code.      *)
(***************************************************************************)
Counted(els) == \A k \in DOMAIN els : els[k].n \in Int

ReservoirNext ==
    \/ \E n \in Nat \ {0} : GenerateSpecificAmorph(n)
    \/ \E base \in Points, w, h \in Nat \ {0}, leftwise \in BOOLEAN : SeedAmorph(base, w, h, leftwise)
    \/ \E w, h \in Int : SetDesirable(w, h)
    \/ \E x1, y1, x2, y2 \in Int : RestrictView(x1, y1, x2, y2)
    \/ \E p \in Perspectives : Turn(p)
    \/ \E x, y \in Int : Centre(x, y)
    \/ \E allowed \in SUBSET Heuristics : HeuristicsApply(allowed) /\ Counted(elements')

ReservoirSpec == LayoutInit /\ [][ReservoirNext]_(layoutVars)

ReservoirInv ==
    /\ elements \in Seq([n : Int, padded : Int])
    /\ \A k \in DOMAIN elements : OwnElements(k) \in Nat \ {0}

\* Placing an amorph may pad it; what it is indexed by stays.
LEMMA PlacedKeepsOwn ==
    ASSUME ReservoirInv, NEW r, Place(r), Counted(elements')
    PROVE  ReservoirInv'
<1> DEFINE id == r.cast.id
           new == [n |-> r.cast.n, padded |-> elements[id].padded + (r.cast.n - elements[id].n)]
<1>1. elements' = [elements EXCEPT ![id] = new]
    BY DEF Place
<1> HIDE DEF id, new
<1>2. /\ elements \in Seq([n : Int, padded : Int])
      /\ Len(elements) \in Nat /\ DOMAIN elements = 1 .. Len(elements)
    BY DEF ReservoirInv
<1>3. CASE id \notin DOMAIN elements
    <2>1. elements' = elements
        BY <1>1, <1>2, <1>3
    <2> QED BY <2>1 DEF ReservoirInv, OwnElements
<1>4. CASE id \in DOMAIN elements
    <2>1. elements'[id] = new /\ DOMAIN elements' = DOMAIN elements
        BY <1>1, <1>2, <1>4
    <2>2. /\ new = [n |-> new.n, padded |-> new.padded]
          /\ new.n = r.cast.n /\ new.padded = elements[id].padded + (r.cast.n - elements[id].n)
        BY DEF new
    <2>3. r.cast.n \in Int
        BY <1>4, <2>1, <2>2 DEF Counted
    <2>4. elements[id] \in [n : Int, padded : Int]
        BY <1>2, <1>4, ElementOfSeq
    <2>5. new \in [n : Int, padded : Int] /\ new.n - new.padded = elements[id].n - elements[id].padded
        BY <2>2, <2>3, <2>4 DEF new
    <2>6. elements' \in Seq([n : Int, padded : Int])
        BY <1>1, <1>2, <1>4, <2>5
    <2>7. ASSUME NEW k \in DOMAIN elements' PROVE elements'[k].n - elements'[k].padded \in Nat \ {0}
        <3>1. k \in DOMAIN elements /\ elements[k].n - elements[k].padded \in Nat \ {0}
            BY <2>1, <2>7 DEF ReservoirInv, OwnElements
        <3>2. CASE k = id
            BY <2>1, <2>5, <3>1, <3>2
        <3>3. CASE k # id
            <4>1. elements'[k] = elements[k]
                BY <1>1, <1>2, <3>1, <3>3
            <4> QED BY <3>1, <4>1
        <3> QED BY <3>2, <3>3
    <2> QED BY <2>6, <2>7 DEF ReservoirInv, OwnElements
<1> QED BY <1>3, <1>4

LEMMA AddedOwn ==
    ASSUME ReservoirInv, NEW n \in Nat \ {0}, NEW w, NEW h, AddAmorph(n, w, h)
    PROVE  ReservoirInv'
<1>1. PICK e : e = [n |-> n, padded |-> 0]
    OBVIOUS
<1>2. elements' = Append(elements, e) /\ e \in [n : Int, padded : Int] /\ e.n - e.padded \in Nat \ {0}
    BY <1>1 DEF AddAmorph
<1>3. elements \in Seq([n : Int, padded : Int]) /\ Len(elements) \in Nat
    BY DEF ReservoirInv
<1>4. elements' \in Seq([n : Int, padded : Int])
    BY <1>2, <1>3
<1>5. ASSUME NEW k \in DOMAIN elements' PROVE elements'[k].n - elements'[k].padded \in Nat \ {0}
    <2>1. k \in 1 .. Len(elements) + 1
        BY <1>2, <1>3, <1>5
    <2>2. CASE k = Len(elements) + 1
        <3>1. elements'[k] = e
            BY <1>2, <1>3, <2>2
        <3> QED BY <1>2, <3>1
    <2>3. CASE k # Len(elements) + 1
        <3>1. k \in DOMAIN elements /\ elements'[k] = elements[k]
            BY <1>2, <1>3, <2>1, <2>3
        <3> QED BY <3>1 DEF ReservoirInv, OwnElements
    <2> QED BY <2>2, <2>3
<1> QED BY <1>4, <1>5 DEF ReservoirInv, OwnElements

LEMMA ReservoirKept == ReservoirInv /\ [ReservoirNext]_(layoutVars) => ReservoirInv'
<1> SUFFICES ASSUME ReservoirInv, [ReservoirNext]_(layoutVars) PROVE ReservoirInv'
    OBVIOUS
<1>1. UNCHANGED elements => ReservoirInv'
    BY DEF ReservoirInv, OwnElements
<1>2. CASE UNCHANGED layoutVars
    BY <1>1, <1>2 DEF layoutVars
<1>3. ASSUME NEW n \in Nat \ {0}, GenerateSpecificAmorph(n) PROVE ReservoirInv'
    BY <1>3, AddedOwn DEF GenerateSpecificAmorph
<1>4. ASSUME NEW base \in Points, NEW w \in Nat \ {0}, NEW h \in Nat \ {0}, NEW leftwise \in BOOLEAN,
             SeedAmorph(base, w, h, leftwise)
      PROVE  ReservoirInv'
    <2>1. w * h \in Nat \ {0}
        OBVIOUS
    <2>2. AddAmorph(w * h, w, h)
        BY <1>4 DEF SeedAmorph
    <2> QED BY <2>1, <2>2, AddedOwn
<1>5. ASSUME NEW w \in Int, NEW h \in Int, SetDesirable(w, h) PROVE ReservoirInv'
    BY <1>1, <1>5 DEF SetDesirable
<1>6. ASSUME NEW x1 \in Int, NEW y1 \in Int, NEW x2 \in Int, NEW y2 \in Int, RestrictView(x1, y1, x2, y2)
      PROVE  ReservoirInv'
    BY <1>1, <1>6 DEF RestrictView
<1>7. ASSUME NEW p \in Perspectives, Turn(p) PROVE ReservoirInv'
    BY <1>1, <1>7 DEF Turn
<1>8. ASSUME NEW x \in Int, NEW y \in Int, Centre(x, y) PROVE ReservoirInv'
    BY <1>1, <1>8 DEF Centre
<1>9. ASSUME NEW allowed \in SUBSET Heuristics, HeuristicsApply(allowed), Counted(elements')
      PROVE  ReservoirInv'
    <2>1. PICK o, fs, hits : Applied(o, fs, hits)
        BY <1>9 DEF HeuristicsApply
    <2>2. CASE UNCHANGED elements
        BY <1>1, <2>2
    <2>3. CASE \E r \in hits : Place(r)
        BY <1>9, <2>3, PlacedKeepsOwn
    <2> QED BY <2>1, <2>2, <2>3 DEF Applied
<1> QED BY <1>2, <1>3, <1>4, <1>5, <1>6, <1>7, <1>8, <1>9 DEF ReservoirNext

(***************************************************************************)
(* Whatever amorphs a reservoir holds, of any size, padded or not: every   *)
(* edge that one is found by is the lower edge of a shape of exactly its   *)
(* elements (PermutateShapes and PermutateEdges, 22-edges-permutated.go:40 *)
(* and :252), because a slack is only cut out of a corner as a bar or as a *)
(* rectangle of factors of the slack that leaves both limbs.  What the     *)
(* tests expect of two sizes is among the shapes.                          *)
(***************************************************************************)
THEOREM StairsAreFilled == ReservoirSpec => []StairsFillExactly
<1>1. LayoutInit => ReservoirInv
    <2>1. <<>> \in Seq([n : Int, padded : Int]) /\ DOMAIN <<>> = {}
        OBVIOUS
    <2> QED BY <2>1 DEF LayoutInit, ReservoirInv
<1>2. ReservoirInv => StairsFillExactly
    <2>1. TestedShapes
        BY ShapesOfFive, ShapesOfSix, SmallFactors DEF TestedShapes
    <2>2. ASSUME ReservoirInv, NEW k \in DOMAIN elements, NEW e \in Stairs(OwnElements(k))
          PROVE  FilledBelow(OwnElements(k), e)
        BY <2>2, StairsFill DEF ReservoirInv
    <2> QED BY <2>1, <2>2 DEF StairsFillExactly, FilledBelow
<1> QED BY <1>1, <1>2, ReservoirKept, PTL DEF ReservoirSpec

-----------------------------------------------------------------------------
(***************************************************************************)
(* The Levenshtein matrix.  A row, and the matrix, are recursive functions *)
(* of what has been filled so far: they are there, and an induction over   *)
(* them goes by the least place where it would fail.                       *)
(***************************************************************************)
Priced(opt) == opt.InsCost = 1 /\ opt.DelCost = 1 /\ opt.SubCost \in Nat \ {0}
Compared(tokens) == rows \in Seq(tokens) /\ cols \in Seq(tokens)

Fills(f, above, i, opt, n) ==
    f = [j \in 0 .. n |-> IF j = 0 THEN <<i>> ELSE WithNextCell(f[j - 1], above, i, j, opt)]

LEMMA FillsSome == \A above, i, opt : \A n \in Nat : \E f : Fills(f, above, i, opt, n)
<1> SUFFICES ASSUME NEW above, NEW i, NEW opt PROVE \A n \in Nat : \E f : Fills(f, above, i, opt, n)
    OBVIOUS
<1> DEFINE T == {n \in Nat : ~\E f : Fills(f, above, i, opt, n)}
<1>1. SUFFICES ASSUME T # {} PROVE FALSE
    OBVIOUS
<1>2. PICK n \in T : \A m \in T : n <= m
    <2>1. T \in SUBSET Nat
        OBVIOUS
    <2> HIDE DEF T
    <2> QED BY <1>1, <2>1, LeastPlace
<1>3. PICK m : m = <<i>>
    OBVIOUS
<1>4. n # 0
    <2>1. PICK f : f = [j \in 0 .. 0 |-> m]
        OBVIOUS
    <2>2. f = [j \in 0 .. 0 |-> IF j = 0 THEN m ELSE WithNextCell(f[j - 1], above, i, j, opt)]
        BY <2>1
    <2>3. Fills(f, above, i, opt, 0)
        BY <1>3, <2>2 DEF Fills
    <2> QED BY <2>3
<1>5. n - 1 \in Nat /\ n - 1 \notin T
    BY <1>2, <1>4
<1>6. PICK f : Fills(f, above, i, opt, n - 1)
    BY <1>5
<1>7. f = [j \in 0 .. n - 1 |-> IF j = 0 THEN m ELSE WithNextCell(f[j - 1], above, i, j, opt)]
    BY <1>3, <1>6 DEF Fills
<1>8. PICK g : g = [j \in 0 .. n |-> IF j = n THEN WithNextCell(f[n - 1], above, i, n, opt) ELSE f[j]]
    OBVIOUS
<1>9. g = [j \in 0 .. n |-> IF j = 0 THEN m ELSE WithNextCell(g[j - 1], above, i, j, opt)]
    <2> SUFFICES ASSUME NEW j \in 0 .. n
                 PROVE  g[j] = IF j = 0 THEN m ELSE WithNextCell(g[j - 1], above, i, j, opt)
        <3> PICK h : h = [j \in 0 .. n |-> IF j = 0 THEN m ELSE WithNextCell(g[j - 1], above, i, j, opt)]
            OBVIOUS
        <3> QED BY <1>8
    <2>1. n \in Nat
        BY <1>2
    <2>2. CASE j = 0
        BY <1>4, <1>7, <1>8, <2>1, <2>2
    <2>3. CASE j \in 1 .. n - 1
        <3>1. j \in 0 .. n /\ j - 1 \in 0 .. n /\ j # n /\ j - 1 # n /\ j \in 0 .. n - 1 /\ j # 0
            BY <2>1, <2>3
        <3>2. g[j] = f[j] /\ g[j - 1] = f[j - 1]
            BY <1>8, <3>1
        <3> QED BY <1>7, <3>1, <3>2
    <2>4. CASE j = n
        <3>1. n \in 0 .. n /\ n - 1 \in 0 .. n /\ n - 1 # n
            BY <1>5, <2>1
        <3>2. g[n] = WithNextCell(f[n - 1], above, i, n, opt) /\ g[n - 1] = f[n - 1]
            BY <1>8, <3>1
        <3> QED BY <1>4, <2>4, <3>2
    <2> QED BY <2>1, <2>2, <2>3, <2>4
<1>10. Fills(g, above, i, opt, n)
    BY <1>3, <1>9 DEF Fills
<1> QED BY <1>2, <1>10

\* What is right of the first k cells of a row.
Border(i, j, opt) == IF rows[i] = cols[j] THEN 0 ELSE opt.SubCost
RowOf(row, above, i, opt, k) ==
    /\ row \in Seq(Int) /\ Len(row) = k + 1 /\ row[1] = i
    /\ \A j \in 1 .. k : row[j + 1] = Least(above[j + 1] + 1, Least(above[j] + Border(i, j, opt), row[j] + 1))

LEMMA LeastOfTwo ==
    \A a, b \in Int : Least(a, b) \in Int /\ Least(a, b) <= a /\ Least(a, b) <= b /\ Least(a, b) \in {a, b}
BY DEF Least

LEMMA CellFilled ==
    ASSUME NEW above \in Seq(Int), Len(above) = Len(cols) + 1, NEW i \in Nat, NEW opt, Priced(opt),
           NEW tokens, Compared(tokens), NEW k \in 1 .. Len(cols), NEW row, RowOf(row, above, i, opt, k - 1)
    PROVE  RowOf(WithNextCell(row, above, i, k, opt), above, i, opt, k)
<1>1. Len(cols) \in Nat
    BY DEF Compared
<1>2. Len(row) = k /\ row \in Seq(Int) /\ row[k] \in Int /\ above[k] \in Int /\ above[k + 1] \in Int
    BY <1>1 DEF RowOf
<1>3. PICK c : c = Cell(above, row[k], i, k, opt)
    OBVIOUS
<1>4. Border(i, k, opt) \in Int
    BY DEF Border, Priced
<1>5. c = Least(above[k + 1] + 1, Least(above[k] + Border(i, k, opt), row[k] + 1)) /\ c \in Int
    <2>1. PICK b : b = Border(i, k, opt)
        OBVIOUS
    <2>2. c = Least(above[k + 1] + opt.DelCost, Least(above[k] + b, row[k] + opt.InsCost))
        BY <1>3, <2>1 DEF Cell, Border
    <2>3. opt.DelCost = 1 /\ opt.InsCost = 1
        BY DEF Priced
    <2>4. c = Least(above[k + 1] + 1, Least(above[k] + b, row[k] + 1))
        BY <2>2, <2>3
    <2>5. b \in Int
        BY <1>4, <2>1
    <2>6. c \in Int
        <3>1. PICK x, y, z : x = above[k + 1] /\ y = above[k] /\ z = row[k]
            OBVIOUS
        <3>2. x \in Int /\ y \in Int /\ z \in Int
            BY <1>2, <3>1
        <3>3. x + 1 \in Int /\ y + b \in Int /\ z + 1 \in Int
            BY <2>5, <3>2
        <3>4. Least(y + b, z + 1) \in Int
            BY <3>3, LeastOfTwo
        <3>5. c = Least(x + 1, Least(y + b, z + 1))
            BY <2>4, <3>1
        <3> QED BY <3>3, <3>4, <3>5, LeastOfTwo
    <2> QED BY <2>1, <2>4, <2>6
<1>6. PICK r : r = Append(row, c)
    OBVIOUS
<1>7. r \in Seq(Int) /\ Len(r) = k + 1 /\ r[k + 1] = c /\ \A j \in 1 .. k : r[j] = row[j]
    <2>1. row \in Seq(Int) /\ c \in Int /\ Len(row) = k
        BY <1>2, <1>5
    <2>2. r \in Seq(Int) /\ Len(r) = Len(row) + 1
        BY <1>6, <2>1, AppendProperties
    <2>3. \A j \in 1 .. Len(row) : r[j] = row[j]
        BY <1>6, <2>1, AppendProperties
    <2>4. r[Len(row) + 1] = c
        BY <1>6, <2>1, AppendProperties
    <2> QED BY <2>1, <2>2, <2>3, <2>4
<1>8. \A j \in 1 .. k : r[j + 1] = Least(above[j + 1] + 1, Least(above[j] + Border(i, j, opt), r[j] + 1))
    <2> SUFFICES ASSUME NEW j \in 1 .. k
                 PROVE  r[j + 1] = Least(above[j + 1] + 1, Least(above[j] + Border(i, j, opt), r[j] + 1))
        OBVIOUS
    <2>1. CASE j = k
        BY <1>5, <1>7, <2>1
    <2>2. CASE j \in 1 .. k - 1
        <3>1. row[j + 1] = Least(above[j + 1] + 1, Least(above[j] + Border(i, j, opt), row[j] + 1))
            BY <2>2 DEF RowOf
        <3>2. j \in 1 .. k /\ j + 1 \in 1 .. k
            BY <1>1, <2>2
        <3> QED BY <1>7, <3>1, <3>2
    <2> QED BY <1>1, <2>1, <2>2
<1>9. r[1] = i
    BY <1>1, <1>7 DEF RowOf
<1> QED BY <1>3, <1>6, <1>7, <1>8, <1>9 DEF RowOf, WithNextCell

LEMMA RowFilled ==
    ASSUME NEW above \in Seq(Int), Len(above) = Len(cols) + 1, NEW i \in Nat, NEW opt, Priced(opt),
           NEW tokens, Compared(tokens)
    PROVE  RowOf(NextRow(above, i, opt), above, i, opt, Len(cols))
<1>1. PICK J : J = Len(cols)
    OBVIOUS
<1>2. J \in Nat
    BY <1>1 DEF Compared
<1>3. \E f : Fills(f, above, i, opt, J)
    BY <1>2, FillsSome
<1>4. PICK f : f = CHOOSE g : Fills(g, above, i, opt, J)
    OBVIOUS
<1>5. Fills(f, above, i, opt, J)
    BY <1>3, <1>4
<1>6. NextRow(above, i, opt) = f[J]
    BY <1>1, <1>4 DEF NextRow, Fills
<1>7. f[0] = <<i>> /\ \A j \in 1 .. J : f[j] = WithNextCell(f[j - 1], above, i, j, opt)
    <2>1. PICK m : m = <<i>>
        OBVIOUS
    <2>2. f = [j \in 0 .. J |-> IF j = 0 THEN m ELSE WithNextCell(f[j - 1], above, i, j, opt)]
        BY <1>5, <2>1 DEF Fills
    <2>3. 0 \in 0 .. J /\ \A j \in 1 .. J : j \in 0 .. J /\ j # 0
        BY <1>2
    <2> QED BY <2>1, <2>2, <2>3
<1>8. RowOf(f[0], above, i, opt, 0)
    BY <1>7 DEF RowOf
<1>9. \A j \in 1 .. J : RowOf(f[j - 1], above, i, opt, j - 1) => RowOf(f[j], above, i, opt, j)
    BY <1>1, <1>7, CellFilled
<1>10. \A j \in 0 .. J : RowOf(f[j], above, i, opt, j)
    <2> DEFINE T == {j \in 0 .. J : ~RowOf(f[j], above, i, opt, j)}
    <2>1. SUFFICES ASSUME T # {} PROVE FALSE
        OBVIOUS
    <2>2. T \in SUBSET Nat
        BY <1>2
    <2>3. PICK k \in T : \A j \in T : k <= j
        <3> HIDE DEF T
        <3> QED BY <2>1, <2>2, LeastPlace
    <2>4. k \in 1 .. J
        BY <1>2, <1>8, <2>3
    <2>5. k - 1 \in 0 .. J /\ k - 1 \notin T
        BY <1>2, <2>3, <2>4
    <2> QED BY <1>9, <2>3, <2>4, <2>5
<1> QED BY <1>1, <1>2, <1>6, <1>10

MatrixFills(f, opt, n) ==
    f = [i \in 0 .. n |-> IF i = 0 THEN <<[j \in 1 .. Len(cols) + 1 |-> j - 1]>> ELSE WithNextRow(f[i - 1], i, opt)]

LEMMA MatrixFillsSome == \A opt : \A n \in Nat : \E f : MatrixFills(f, opt, n)
<1> SUFFICES ASSUME NEW opt PROVE \A n \in Nat : \E f : MatrixFills(f, opt, n)
    OBVIOUS
<1> DEFINE T == {n \in Nat : ~\E f : MatrixFills(f, opt, n)}
<1>1. SUFFICES ASSUME T # {} PROVE FALSE
    OBVIOUS
<1>2. PICK n \in T : \A m \in T : n <= m
    <2>1. T \in SUBSET Nat
        OBVIOUS
    <2> HIDE DEF T
    <2> QED BY <1>1, <2>1, LeastPlace
<1>3. PICK m : m = <<[j \in 1 .. Len(cols) + 1 |-> j - 1]>>
    OBVIOUS
<1>4. n # 0
    <2>1. PICK f : f = [i \in 0 .. 0 |-> m]
        OBVIOUS
    <2>2. f = [i \in 0 .. 0 |-> IF i = 0 THEN m ELSE WithNextRow(f[i - 1], i, opt)]
        BY <2>1
    <2>3. MatrixFills(f, opt, 0)
        BY <1>3, <2>2 DEF MatrixFills
    <2> QED BY <2>3
<1>5. n - 1 \in Nat /\ n - 1 \notin T
    BY <1>2, <1>4
<1>6. PICK f : MatrixFills(f, opt, n - 1)
    BY <1>5
<1>7. f = [i \in 0 .. n - 1 |-> IF i = 0 THEN m ELSE WithNextRow(f[i - 1], i, opt)]
    BY <1>3, <1>6 DEF MatrixFills
<1>8. PICK g : g = [i \in 0 .. n |-> IF i = n THEN WithNextRow(f[n - 1], n, opt) ELSE f[i]]
    OBVIOUS
<1>9. g = [i \in 0 .. n |-> IF i = 0 THEN m ELSE WithNextRow(g[i - 1], i, opt)]
    <2> SUFFICES ASSUME NEW i \in 0 .. n
                 PROVE  g[i] = IF i = 0 THEN m ELSE WithNextRow(g[i - 1], i, opt)
        <3> PICK h : h = [i \in 0 .. n |-> IF i = 0 THEN m ELSE WithNextRow(g[i - 1], i, opt)]
            OBVIOUS
        <3> QED BY <1>8
    <2>1. n \in Nat
        BY <1>2
    <2>2. CASE i = 0
        BY <1>4, <1>7, <1>8, <2>1, <2>2
    <2>3. CASE i \in 1 .. n - 1
        <3>1. i \in 0 .. n /\ i - 1 \in 0 .. n /\ i # n /\ i - 1 # n /\ i \in 0 .. n - 1 /\ i # 0
            BY <2>1, <2>3
        <3>2. g[i] = f[i] /\ g[i - 1] = f[i - 1]
            BY <1>8, <3>1
        <3> QED BY <1>7, <3>1, <3>2
    <2>4. CASE i = n
        <3>1. n \in 0 .. n /\ n - 1 \in 0 .. n /\ n - 1 # n
            BY <1>5, <2>1
        <3>2. g[n] = WithNextRow(f[n - 1], n, opt) /\ g[n - 1] = f[n - 1]
            BY <1>8, <3>1
        <3> QED BY <1>4, <2>4, <3>2
    <2> QED BY <2>1, <2>2, <2>3, <2>4
<1>10. MatrixFills(g, opt, n)
    BY <1>3, <1>9 DEF MatrixFills
<1> QED BY <1>2, <1>10

\* What is right of the first k + 1 rows of a matrix.
FirstRow(row) == Len(row) = Len(cols) + 1 /\ \A j \in 1 .. Len(cols) + 1 : row[j] = j - 1
MatrixOf(mx, opt, k) ==
    /\ mx \in Seq(Seq(Int)) /\ Len(mx) = k + 1 /\ FirstRow(mx[1])
    /\ \A i \in 1 .. k : RowOf(mx[i + 1], mx[i], i, opt, Len(cols))

LEMMA RowAdded ==
    ASSUME NEW opt, Priced(opt), NEW tokens, Compared(tokens),
           NEW k \in Nat \ {0}, NEW mx, MatrixOf(mx, opt, k - 1)
    PROVE  MatrixOf(WithNextRow(mx, k, opt), opt, k)
<1>1. Len(cols) \in Nat
    BY DEF Compared
<1>2. Len(mx) = k /\ mx \in Seq(Seq(Int)) /\ mx[k] \in Seq(Int)
    BY DEF MatrixOf
<1>3. Len(mx[k]) = Len(cols) + 1
    <2>1. CASE k = 1
        BY <2>1 DEF MatrixOf, FirstRow
    <2>2. CASE k # 1
        <3>1. k - 1 \in 1 .. k - 1 /\ (k - 1) + 1 = k
            BY <2>2
        <3>2. RowOf(mx[k], mx[k - 1], k - 1, opt, Len(cols))
            BY <3>1 DEF MatrixOf
        <3> QED BY <3>2 DEF RowOf
    <2> QED BY <2>1, <2>2
<1>4. PICK r : r = NextRow(mx[k], k, opt)
    OBVIOUS
<1>5. RowOf(r, mx[k], k, opt, Len(cols))
    BY <1>2, <1>3, <1>4, RowFilled
<1>6. r \in Seq(Int)
    BY <1>5 DEF RowOf
<1>7. PICK m : m = Append(mx, r)
    OBVIOUS
<1>8. m \in Seq(Seq(Int)) /\ Len(m) = k + 1 /\ m[k + 1] = r /\ \A i \in 1 .. k : m[i] = mx[i]
    BY <1>2, <1>6, <1>7
<1>9. \A i \in 1 .. k : RowOf(m[i + 1], m[i], i, opt, Len(cols))
    <2> SUFFICES ASSUME NEW i \in 1 .. k PROVE RowOf(m[i + 1], m[i], i, opt, Len(cols))
        OBVIOUS
    <2>1. CASE i = k
        BY <1>5, <1>8, <2>1
    <2>2. CASE i \in 1 .. k - 1
        <3>1. RowOf(mx[i + 1], mx[i], i, opt, Len(cols))
            BY <2>2 DEF MatrixOf
        <3>2. i \in 1 .. k /\ i + 1 \in 1 .. k
            BY <2>2
        <3> QED BY <1>8, <3>1, <3>2
    <2> QED BY <2>1, <2>2
<1>10. FirstRow(m[1])
    <2>1. m[1] = mx[1]
        BY <1>8
    <2> QED BY <2>1 DEF MatrixOf
<1> QED BY <1>4, <1>7, <1>8, <1>9, <1>10 DEF MatrixOf, WithNextRow

LEMMA MatrixFilled ==
    ASSUME NEW opt, Priced(opt), NEW tokens, Compared(tokens)
    PROVE  MatrixOf(New(opt), opt, Len(rows))
<1>1. PICK I : I = Len(rows)
    OBVIOUS
<1>2. I \in Nat /\ Len(cols) \in Nat
    BY <1>1 DEF Compared
<1>3. \E f : MatrixFills(f, opt, I)
    BY <1>2, MatrixFillsSome
<1>4. PICK f : f = CHOOSE g : MatrixFills(g, opt, I)
    OBVIOUS
<1>5. MatrixFills(f, opt, I)
    BY <1>3, <1>4
<1>6. New(opt) = f[I]
    BY <1>1, <1>4 DEF New, MatrixFills
<1>7. PICK b : b = [j \in 1 .. Len(cols) + 1 |-> j - 1]
    OBVIOUS
<1>8. f[0] = <<b>> /\ \A i \in 1 .. I : f[i] = WithNextRow(f[i - 1], i, opt)
    <2>1. PICK m : m = <<b>>
        OBVIOUS
    <2>2. f = [i \in 0 .. I |-> IF i = 0 THEN m ELSE WithNextRow(f[i - 1], i, opt)]
        BY <1>5, <1>7, <2>1 DEF MatrixFills
    <2>3. 0 \in 0 .. I /\ \A i \in 1 .. I : i \in 0 .. I /\ i # 0
        BY <1>2
    <2> QED BY <2>1, <2>2, <2>3
<1>9. MatrixOf(f[0], opt, 0)
    <2>1. b \in Seq(Int) /\ Len(b) = Len(cols) + 1
        BY <1>2, <1>7
    <2>2. FirstRow(b)
        BY <1>2, <1>7, <2>1 DEF FirstRow
    <2>3. f[0] \in Seq(Seq(Int)) /\ Len(f[0]) = 0 + 1 /\ f[0][1] = b
        BY <1>8, <2>1
    <2> QED BY <2>2, <2>3 DEF MatrixOf
<1>10. \A i \in 1 .. I : MatrixOf(f[i - 1], opt, i - 1) => MatrixOf(f[i], opt, i)
    BY <1>8, RowAdded
<1>11. \A i \in 0 .. I : MatrixOf(f[i], opt, i)
    <2> DEFINE T == {i \in 0 .. I : ~MatrixOf(f[i], opt, i)}
    <2>1. SUFFICES ASSUME T # {} PROVE FALSE
        OBVIOUS
    <2>2. T \in SUBSET Nat
        BY <1>2
    <2>3. PICK k \in T : \A j \in T : k <= j
        <3> HIDE DEF T
        <3> QED BY <2>1, <2>2, LeastPlace
    <2>4. k \in 1 .. I
        BY <1>2, <1>9, <2>3
    <2>5. k - 1 \in 0 .. I /\ k - 1 \notin T
        BY <1>2, <2>3, <2>4
    <2> QED BY <1>10, <2>3, <2>4, <2>5
<1> QED BY <1>1, <1>2, <1>6, <1>11

(***************************************************************************)
(* The equations of the matrix, with both indices from 0.                  *)
(***************************************************************************)
MxAt(mx, i, j) == mx[i + 1][j + 1]
Solved(mx, opt) ==
    /\ \A i \in 0 .. Len(rows), j \in 0 .. Len(cols) : MxAt(mx, i, j) \in Int
    /\ \A j \in 0 .. Len(cols) : MxAt(mx, 0, j) = j
    /\ \A i \in 0 .. Len(rows) : MxAt(mx, i, 0) = i
    /\ \A i \in 1 .. Len(rows), j \in 1 .. Len(cols) :
           MxAt(mx, i, j) = Least(MxAt(mx, i - 1, j) + 1,
                                 Least(MxAt(mx, i - 1, j - 1) + Border(i, j, opt), MxAt(mx, i, j - 1) + 1))

LEMMA MatrixSolved ==
    ASSUME NEW opt, Priced(opt), NEW tokens, Compared(tokens)
    PROVE  Solved(New(opt), opt)
<1>1. PICK mx : mx = New(opt)
    OBVIOUS
<1>2. MatrixOf(mx, opt, Len(rows))
    BY <1>1, MatrixFilled
<1>3. Len(rows) \in Nat /\ Len(cols) \in Nat
    BY DEF Compared
<1>4. \A i \in 1 .. Len(rows) : RowOf(mx[i + 1], mx[i], i, opt, Len(cols))
    BY <1>2 DEF MatrixOf
<1>5. mx \in Seq(Seq(Int)) /\ Len(mx) = Len(rows) + 1 /\ FirstRow(mx[1])
    BY <1>2 DEF MatrixOf
<1>6. \A i \in 0 .. Len(rows), j \in 0 .. Len(cols) : MxAt(mx, i, j) \in Int
    <2> SUFFICES ASSUME NEW i \in 0 .. Len(rows), NEW j \in 0 .. Len(cols) PROVE mx[i + 1][j + 1] \in Int
        BY DEF MxAt
    <2>1. mx[i + 1] \in Seq(Int)
        BY <1>3, <1>5
    <2>2. Len(mx[i + 1]) = Len(cols) + 1
        <3>1. CASE i = 0
            BY <1>5, <3>1 DEF FirstRow
        <3>2. CASE i \in 1 .. Len(rows)
            BY <1>4, <3>2 DEF RowOf
        <3> QED BY <1>3, <3>1, <3>2
    <2> QED BY <1>3, <2>1, <2>2
<1>7. \A j \in 0 .. Len(cols) : MxAt(mx, 0, j) = j
    <2> SUFFICES ASSUME NEW j \in 0 .. Len(cols) PROVE mx[0 + 1][j + 1] = j
        BY DEF MxAt
    <2>1. j + 1 \in 1 .. Len(cols) + 1 /\ (j + 1) - 1 = j /\ 0 + 1 = 1
        BY <1>3
    <2> QED BY <1>5, <2>1 DEF FirstRow
<1>8. \A i \in 0 .. Len(rows) : MxAt(mx, i, 0) = i
    <2> SUFFICES ASSUME NEW i \in 0 .. Len(rows) PROVE mx[i + 1][1] = i
        BY DEF MxAt
    <2>1. CASE i = 0
        <3>1. 1 \in 1 .. Len(cols) + 1 /\ 0 + 1 = 1
            BY <1>3
        <3>2. mx[1][1] = 1 - 1
            BY <1>5, <3>1 DEF FirstRow
        <3> QED BY <2>1, <3>1, <3>2
    <2>2. CASE i \in 1 .. Len(rows)
        BY <1>4, <2>2 DEF RowOf
    <2> QED BY <1>3, <2>1, <2>2
<1>9. ASSUME NEW i \in 1 .. Len(rows), NEW j \in 1 .. Len(cols)
      PROVE  MxAt(mx, i, j) = Least(MxAt(mx, i - 1, j) + 1,
                                   Least(MxAt(mx, i - 1, j - 1) + Border(i, j, opt), MxAt(mx, i, j - 1) + 1))
    <2>1. RowOf(mx[i + 1], mx[i], i, opt, Len(cols))
        BY <1>4
    <2>2. mx[i + 1][j + 1] = Least(mx[i][j + 1] + 1, Least(mx[i][j] + Border(i, j, opt), mx[i + 1][j] + 1))
        BY <2>1 DEF RowOf
    <2>3. (i - 1) + 1 = i /\ (j - 1) + 1 = j
        BY <1>3
    <2> QED BY <2>2, <2>3 DEF MxAt
<1> QED BY <1>1, <1>6, <1>7, <1>8, <1>9 DEF Solved

(***************************************************************************)
(* backtrace takes a step from every cell but the first.                   *)
(***************************************************************************)
Moves(mx, opt, p, op) ==
    LET i == p[1]    j == p[2]
    IN  \/ op = "none" /\ i = 0 /\ j = 0
        \/ op = "Del" /\ i > 0 /\ MxAt(mx, i, j) = MxAt(mx, i - 1, j) + 1
        \/ op = "Ins" /\ j > 0 /\ MxAt(mx, i, j) = MxAt(mx, i, j - 1) + 1
        \/ op = "Sub" /\ i > 0 /\ j > 0 /\ MxAt(mx, i, j) = MxAt(mx, i - 1, j - 1) + opt.SubCost
        \/ op = "Match" /\ i > 0 /\ j > 0 /\ MxAt(mx, i, j) = MxAt(mx, i - 1, j - 1) /\ rows[i] = cols[j]

LEMMA StepMoves ==
    ASSUME NEW opt, Priced(opt), NEW tokens, Compared(tokens), NEW mx, Solved(mx, opt), NEW p \in Cells
    PROVE  Moves(mx, opt, p, Step(mx, opt, p[1], p[2]))
<1>1. PICK i, j : i = p[1] /\ j = p[2]
    OBVIOUS
<1>2. i \in 0 .. Len(rows) /\ j \in 0 .. Len(cols) /\ Len(rows) \in Nat /\ Len(cols) \in Nat
    BY <1>1 DEF Cells, Compared
<1>3. opt.DelCost = 1 /\ opt.InsCost = 1
    BY DEF Priced
<1>4. PICK op : op = Step(mx, opt, i, j)
    OBVIOUS
<1>5. PICK here, up, left, diag : /\ here = mx[i + 1][j + 1] /\ up = mx[i][j + 1]
                                  /\ left = mx[i + 1][j] /\ diag = mx[i][j]
    OBVIOUS
<1>6. op = IF i > 0 /\ up + 1 = here THEN "Del"
           ELSE IF j > 0 /\ left + 1 = here THEN "Ins"
           ELSE IF i > 0 /\ j > 0 /\ diag + opt.SubCost = here THEN "Sub"
           ELSE IF i > 0 /\ j > 0 /\ diag = here THEN "Match"
           ELSE "none"
    BY <1>3, <1>4, <1>5 DEF Step
<1>7. (i - 1) + 1 = i /\ (j - 1) + 1 = j
    BY <1>2
<1>8. /\ MxAt(mx, i, j) = here /\ MxAt(mx, i - 1, j) = up
      /\ MxAt(mx, i, j - 1) = left /\ MxAt(mx, i - 1, j - 1) = diag
    BY <1>5, <1>7 DEF MxAt
<1>9. i > 0 /\ j > 0 => here = Least(up + 1, Least(diag + Border(i, j, opt), left + 1))
    <2> SUFFICES ASSUME i > 0, j > 0
                 PROVE  here = Least(up + 1, Least(diag + Border(i, j, opt), left + 1))
        OBVIOUS
    <2>1. i \in 1 .. Len(rows) /\ j \in 1 .. Len(cols)
        BY <1>2
    <2> QED BY <1>8, <2>1 DEF Solved
<1>10. i > 0 /\ j > 0 => here \in {up + 1, diag + Border(i, j, opt), left + 1}
    BY <1>9 DEF Least
<1>11. i = 0 => here = j /\ (j > 0 => left = j - 1)
    <2>1. j > 0 => j - 1 \in 0 .. Len(cols)
        BY <1>2
    <2> QED BY <1>2, <1>8, <2>1 DEF Solved
<1>12. j = 0 => here = i /\ (i > 0 => up = i - 1)
    <2>1. i > 0 => i - 1 \in 0 .. Len(rows)
        BY <1>2
    <2> QED BY <1>2, <1>8, <2>1 DEF Solved
<1>13. here \in Int
    BY <1>2, <1>8 DEF Solved
<1>14. i > 0 /\ j > 0 => diag \in Int
    <2>1. i > 0 /\ j > 0 => i - 1 \in 0 .. Len(rows) /\ j - 1 \in 0 .. Len(cols)
        BY <1>2
    <2> QED BY <1>8, <2>1 DEF Solved
<1>15. CASE i > 0 /\ up + 1 = here
    <2>1. op = "Del"
        BY <1>6, <1>15
    <2> QED BY <1>1, <1>4, <1>8, <1>15, <2>1 DEF Moves
<1>16. CASE ~(i > 0 /\ up + 1 = here) /\ j > 0 /\ left + 1 = here
    <2>1. op = "Ins"
        BY <1>6, <1>16
    <2> QED BY <1>1, <1>4, <1>8, <1>16, <2>1 DEF Moves
<1>17. CASE ~(i > 0 /\ up + 1 = here) /\ ~(j > 0 /\ left + 1 = here) /\ i > 0 /\ j > 0
    <2>1. here = diag + Border(i, j, opt)
        BY <1>10, <1>17
    <2>2. CASE rows[i] = cols[j]
        <3>1. here = diag
            BY <1>13, <1>14, <1>17, <2>1, <2>2 DEF Border
        <3>2. diag + opt.SubCost # here
            BY <1>13, <3>1 DEF Priced
        <3>3. op = "Match"
            BY <1>6, <1>17, <3>1, <3>2
        <3> QED BY <1>1, <1>4, <1>8, <1>17, <2>2, <3>1, <3>3 DEF Moves
    <2>3. CASE rows[i] # cols[j]
        <3>1. here = diag + opt.SubCost
            BY <2>1, <2>3 DEF Border
        <3>2. op = "Sub"
            BY <1>6, <1>17, <3>1
        <3> QED BY <1>1, <1>4, <1>8, <1>17, <3>1, <3>2 DEF Moves
    <2> QED BY <2>2, <2>3
<1>18. CASE ~(i > 0 /\ up + 1 = here) /\ ~(j > 0 /\ left + 1 = here) /\ ~(i > 0 /\ j > 0)
    <2>1. i = 0 /\ j = 0
        BY <1>2, <1>11, <1>12, <1>18
    <2>2. op = "none"
        BY <1>6, <2>1
    <2> QED BY <1>1, <1>4, <2>1, <2>2 DEF Moves
<1> QED BY <1>15, <1>16, <1>17, <1>18

(***************************************************************************)
(* Where a script leads.  An edit more leads on from there.                *)
(***************************************************************************)
Edits == [op : {"Ins", "Del", "Sub", "Match"}, src : Int, dst : Int]
Begin == [toks |-> rows, shift |-> 0]
Applies(f, es) == f = [k \in 0 .. Len(es) |-> IF k = 0 THEN Begin ELSE Edited(f[k - 1], es[k])]
Leads(es, st) == (\E f : Applies(f, es)) /\ \A f : Applies(f, es) => f[Len(es)] = st

LEMMA LeadsFirst == \A es : es = <<>> => Leads(es, Begin)
<1> SUFFICES ASSUME NEW es, es = <<>> PROVE Leads(es, Begin)
    OBVIOUS
<1>1. Len(es) = 0
    OBVIOUS
<1>2. PICK b : b = Begin
    OBVIOUS
<1>3. PICK f : f = [k \in 0 .. 0 |-> b]
    OBVIOUS
<1>4. f = [k \in 0 .. 0 |-> IF k = 0 THEN b ELSE Edited(f[k - 1], es[k])]
    BY <1>3
<1>5. Applies(f, es)
    BY <1>1, <1>2, <1>4 DEF Applies
<1>6. ASSUME NEW g, Applies(g, es) PROVE g[Len(es)] = Begin
    <2>1. g = [k \in 0 .. 0 |-> IF k = 0 THEN b ELSE Edited(g[k - 1], es[k])]
        BY <1>1, <1>2, <1>6 DEF Applies
    <2> QED BY <1>1, <1>2, <2>1
<1> QED BY <1>5, <1>6 DEF Leads

LEMMA LeadsOn ==
    ASSUME NEW S, NEW es \in Seq(S), NEW e \in S, NEW st, Leads(es, st)
    PROVE  Leads(Append(es, e), Edited(st, e))
<1>1. PICK n : n = Len(es)
    OBVIOUS
<1>2. PICK more : more = Append(es, e)
    OBVIOUS
<1>3. n \in Nat /\ Len(more) = n + 1 /\ more[n + 1] = e /\ \A k \in 1 .. n : more[k] = es[k]
    BY <1>1, <1>2
<1>4. PICK b : b = Begin
    OBVIOUS
<1>5. PICK f : Applies(f, es)
    BY DEF Leads
<1>6. f = [k \in 0 .. n |-> IF k = 0 THEN b ELSE Edited(f[k - 1], es[k])]
    BY <1>1, <1>4, <1>5 DEF Applies
<1>7. PICK g : g = [k \in 0 .. n + 1 |-> IF k = n + 1 THEN Edited(f[n], e) ELSE f[k]]
    OBVIOUS
<1>8. g = [k \in 0 .. n + 1 |-> IF k = 0 THEN b ELSE Edited(g[k - 1], more[k])]
    <2> SUFFICES ASSUME NEW k \in 0 .. n + 1
                 PROVE  g[k] = IF k = 0 THEN b ELSE Edited(g[k - 1], more[k])
        <3> PICK h : h = [k \in 0 .. n + 1 |-> IF k = 0 THEN b ELSE Edited(g[k - 1], more[k])]
            OBVIOUS
        <3> QED BY <1>7
    <2>1. CASE k = 0
        BY <1>3, <1>6, <1>7, <2>1
    <2>2. CASE k \in 1 .. n
        <3>1. k - 1 \in 0 .. n + 1 /\ k # n + 1 /\ k - 1 # n + 1 /\ k \in 0 .. n /\ k # 0
            BY <1>3, <2>2
        <3>2. g[k] = f[k] /\ g[k - 1] = f[k - 1] /\ more[k] = es[k]
            BY <1>3, <1>7, <2>2, <3>1
        <3> QED BY <1>6, <3>1, <3>2
    <2>3. CASE k = n + 1
        <3>1. n + 1 \in 0 .. n + 1 /\ n \in 0 .. n + 1 /\ n # n + 1 /\ (n + 1) - 1 = n /\ n + 1 # 0
            BY <1>3
        <3>2. g[n + 1] = Edited(f[n], e) /\ g[n] = f[n]
            BY <1>7, <3>1
        <3> QED BY <1>3, <2>3, <3>1, <3>2
    <2> QED BY <1>3, <2>1, <2>2, <2>3
<1>9. Applies(g, more)
    BY <1>3, <1>4, <1>8 DEF Applies
<1>10. ASSUME NEW h, Applies(h, more) PROVE h[n + 1] = Edited(st, e)
    <2>1. h = [k \in 0 .. n + 1 |-> IF k = 0 THEN b ELSE Edited(h[k - 1], more[k])]
        BY <1>3, <1>4, <1>10 DEF Applies
    <2>2. n + 1 \in 0 .. n + 1 /\ n \in 0 .. n + 1 /\ (n + 1) - 1 = n /\ n + 1 # 0
        BY <1>3
    <2>3. h[n + 1] = Edited(h[n], e)
        BY <1>3, <2>1, <2>2
    <2>4. PICK q : q = [k \in 0 .. n |-> h[k]]
        OBVIOUS
    <2>5. q = [k \in 0 .. n |-> IF k = 0 THEN b ELSE Edited(q[k - 1], es[k])]
        <3> SUFFICES ASSUME NEW k \in 0 .. n
                     PROVE  q[k] = IF k = 0 THEN b ELSE Edited(q[k - 1], es[k])
            <4> PICK r : r = [k \in 0 .. n |-> IF k = 0 THEN b ELSE Edited(q[k - 1], es[k])]
                OBVIOUS
            <4> QED BY <2>4
        <3>1. CASE k = 0
            BY <1>3, <2>1, <2>4, <3>1
        <3>2. CASE k \in 1 .. n
            <4>1. k - 1 \in 0 .. n /\ k \in 0 .. n /\ k \in 0 .. n + 1 /\ k # 0
                BY <1>3, <3>2
            <4>2. q[k] = h[k] /\ q[k - 1] = h[k - 1] /\ more[k] = es[k]
                BY <1>3, <2>4, <3>2, <4>1
            <4> QED BY <2>1, <4>1, <4>2
        <3> QED BY <1>3, <3>1, <3>2
    <2>6. Applies(q, es)
        BY <1>1, <1>4, <2>5 DEF Applies
    <2>7. q[n] = st
        BY <1>1, <2>6 DEF Leads
    <2>8. q[n] = h[n]
        BY <1>3, <2>4
    <2> QED BY <2>3, <2>7, <2>8
<1>11. PICK to : to = Edited(st, e)
    OBVIOUS
<1>12. Leads(more, to)
    BY <1>3, <1>9, <1>10, <1>11 DEF Leads
<1> QED BY <1>2, <1>11, <1>12

LEMMA LeadsToRows ==
    ASSUME NEW es, NEW st, Leads(es, st) PROVE ApplyEditScript(es) = st.toks
<1>1. PICK f : f = CHOOSE g : Applies(g, es)
    OBVIOUS
<1>2. Applies(f, es)
    BY <1>1 DEF Leads
<1>3. f[Len(es)] = st
    BY <1>2 DEF Leads
<1>4. ApplyEditScript(es) = f[Len(es)].toks
    BY <1>1 DEF ApplyEditScript, Applies, Begin
<1> QED BY <1>3, <1>4

(***************************************************************************)
(* The insertion and the deletion of a token, place by place.              *)
(***************************************************************************)
IsInserted(t, T, s, idx, tok) ==
    /\ t \in Seq(T) /\ Len(t) = Len(s) + 1
    /\ \A k \in 1 .. Len(s) + 1 : t[k] = IF k <= idx THEN s[k] ELSE IF k = idx + 1 THEN tok ELSE s[k - 1]
IsDeleted(t, T, s, idx) ==
    /\ t \in Seq(T) /\ Len(t) = Len(s) - 1
    /\ \A k \in 1 .. Len(s) - 1 : t[k] = IF k < idx THEN s[k] ELSE s[k + 1]

LEMMA InsertedAt ==
    ASSUME NEW T, NEW s \in Seq(T), NEW idx \in 0 .. Len(s), NEW tok \in T
    PROVE  IsInserted(insertAfter(s, idx, tok), T, s, idx, tok)
<1>1. PICK a : a = SubSeq(s, 1, idx)
    OBVIOUS
<1>2. PICK c : c = SubSeq(s, idx + 1, Len(s))
    OBVIOUS
<1>3. PICK t : t = <<tok>>
    OBVIOUS
<1>4. Len(s) \in Nat /\ idx \in Nat /\ idx <= Len(s)
    OBVIOUS
<1>5. a \in Seq(T) /\ Len(a) = idx /\ \A k \in 1 .. idx : a[k] = s[k]
    BY <1>1, <1>4
<1>6. c \in Seq(T) /\ Len(c) = Len(s) - idx /\ \A k \in 1 .. Len(s) - idx : c[k] = s[k + idx]
    BY <1>2, <1>4
<1>7. t \in Seq(T) /\ Len(t) = 1 /\ t[1] = tok
    BY <1>3
<1>8. PICK b : b = a \o t
    OBVIOUS
<1>9. b \in Seq(T) /\ Len(b) = idx + 1 /\ b[idx + 1] = tok /\ \A k \in 1 .. idx : b[k] = s[k]
    <2>1. /\ b \in Seq(T) /\ Len(b) = Len(a) + Len(t)
          /\ \A k \in 1 .. Len(a) + Len(t) : b[k] = IF k <= Len(a) THEN a[k] ELSE t[k - Len(a)]
        BY <1>5, <1>7, <1>8, ConcatProperties
    <2>2. Len(b) = idx + 1 /\ Len(a) = idx /\ Len(t) = 1
        BY <1>5, <1>7, <2>1
    <2>3. \A k \in 1 .. idx : b[k] = a[k]
        BY <1>4, <2>1, <2>2
    <2>4. b[idx + 1] = t[1]
        BY <1>4, <2>1, <2>2
    <2> QED BY <1>5, <1>7, <2>1, <2>2, <2>3, <2>4
<1>10. PICK r : r = b \o c
    OBVIOUS
<1>11. r \in Seq(T) /\ Len(r) = Len(s) + 1
    BY <1>4, <1>6, <1>9, <1>10
<1>12. \A k \in 1 .. Len(s) + 1 : r[k] = IF k <= idx THEN s[k] ELSE IF k = idx + 1 THEN tok ELSE s[k - 1]
    <2> SUFFICES ASSUME NEW k \in 1 .. Len(s) + 1
                 PROVE  r[k] = IF k <= idx THEN s[k] ELSE IF k = idx + 1 THEN tok ELSE s[k - 1]
        OBVIOUS
    <2>1. CASE k <= idx + 1
        <3>1. r[k] = b[k]
            BY <1>4, <1>6, <1>9, <1>10, <2>1
        <3> QED BY <1>4, <1>9, <2>1, <3>1
    <2>2. CASE k > idx + 1
        <3>1. r[k] = c[k - (idx + 1)]
            BY <1>4, <1>6, <1>9, <1>10, <2>2
        <3>2. k - (idx + 1) \in 1 .. Len(s) - idx /\ (k - (idx + 1)) + idx = k - 1
            BY <1>4, <2>2
        <3>3. c[k - (idx + 1)] = s[k - 1]
            BY <1>6, <3>2
        <3> QED BY <1>4, <2>2, <3>1, <3>3
    <2> QED BY <1>4, <2>1, <2>2
<1> QED BY <1>1, <1>2, <1>3, <1>8, <1>10, <1>11, <1>12 DEF insertAfter, IsInserted

LEMMA DeletedAt ==
    ASSUME NEW T, NEW s \in Seq(T), NEW idx \in 1 .. Len(s)
    PROVE  IsDeleted(deleteAt(s, idx), T, s, idx)
<1>1. PICK a : a = SubSeq(s, 1, idx - 1)
    OBVIOUS
<1>2. PICK c : c = SubSeq(s, idx + 1, Len(s))
    OBVIOUS
<1>3. Len(s) \in Nat /\ idx \in Nat /\ 1 <= idx /\ idx <= Len(s)
    OBVIOUS
<1>4. a \in Seq(T) /\ Len(a) = idx - 1 /\ \A k \in 1 .. idx - 1 : a[k] = s[k]
    BY <1>1, <1>3
<1>5. c \in Seq(T) /\ Len(c) = Len(s) - idx /\ \A k \in 1 .. Len(s) - idx : c[k] = s[k + idx]
    BY <1>2, <1>3
<1>6. PICK r : r = a \o c
    OBVIOUS
<1>7. r \in Seq(T) /\ Len(r) = Len(s) - 1
    <2>1. r \in Seq(T) /\ Len(r) = Len(a) + Len(c)
        BY <1>4, <1>5, <1>6, ConcatProperties
    <2> QED BY <1>3, <1>4, <1>5, <2>1
<1>8. \A k \in 1 .. Len(s) - 1 : r[k] = IF k < idx THEN s[k] ELSE s[k + 1]
    <2> SUFFICES ASSUME NEW k \in 1 .. Len(s) - 1 PROVE r[k] = IF k < idx THEN s[k] ELSE s[k + 1]
        OBVIOUS
    <2>1. CASE k < idx
        <3>1. r[k] = a[k]
            BY <1>3, <1>4, <1>5, <1>6, <2>1
        <3> QED BY <1>3, <1>4, <2>1, <3>1
    <2>2. CASE ~(k < idx)
        <3>1. r[k] = c[k - (idx - 1)]
            BY <1>3, <1>4, <1>5, <1>6, <2>2
        <3>2. k - (idx - 1) \in 1 .. Len(s) - idx /\ (k - (idx - 1)) + idx = k + 1
            BY <1>3, <2>2
        <3>3. c[k - (idx - 1)] = s[k + 1]
            BY <1>5, <3>2
        <3> QED BY <2>2, <3>1, <3>3
    <2> QED BY <2>1, <2>2
<1> QED BY <1>1, <1>2, <1>6, <1>7, <1>8 DEF deleteAt, IsDeleted

(***************************************************************************)
(* Half way: the script of the first i rows and j columns leaves the first *)
(* j columns, followed by the other rows.                                  *)
(***************************************************************************)
HalfWay(p) ==
    [toks |-> [k \in 1 .. p[2] + (Len(rows) - p[1]) |-> IF k <= p[2] THEN cols[k] ELSE rows[(k - p[2]) + p[1]]],
     shift |-> p[2] - p[1]]

LEMMA HalfWayTyped ==
    ASSUME NEW tokens, Compared(tokens), NEW p \in Cells
    PROVE  /\ HalfWay(p).toks \in Seq(tokens)
           /\ Len(HalfWay(p).toks) = p[2] + (Len(rows) - p[1])
<1>1. PICK i, j, I, J : i = p[1] /\ j = p[2] /\ I = Len(rows) /\ J = Len(cols)
    OBVIOUS
<1>2. I \in Nat /\ J \in Nat /\ i \in 0 .. I /\ j \in 0 .. J
    BY <1>1 DEF Cells, Compared
<1>3. PICK n : n = j + (I - i)
    OBVIOUS
<1>4. n \in Nat
    BY <1>2, <1>3
<1>5. PICK t : t = [k \in 1 .. n |-> IF k <= j THEN cols[k] ELSE rows[(k - j) + i]]
    OBVIOUS
<1>6. HalfWay(p).toks = t
    BY <1>1, <1>3, <1>5 DEF HalfWay
<1>7. \A k \in 1 .. n : t[k] \in tokens
    <2> SUFFICES ASSUME NEW k \in 1 .. n PROVE t[k] \in tokens
        OBVIOUS
    <2>1. CASE k <= j
        <3>1. k \in 1 .. J
            BY <1>2, <2>1
        <3>2. cols[k] \in tokens
            BY <1>1, <3>1 DEF Compared
        <3> QED BY <1>5, <2>1, <3>2
    <2>2. CASE ~(k <= j)
        <3>1. (k - j) + i \in 1 .. I
            BY <1>2, <1>3, <2>2
        <3>2. rows[(k - j) + i] \in tokens
            BY <1>1, <3>1 DEF Compared
        <3> QED BY <1>5, <2>2, <3>2
    <2> QED BY <2>1, <2>2
<1>8. t \in [1 .. n -> tokens]
    BY <1>5, <1>7
<1>9. t \in Seq(tokens) /\ Len(t) = n
    BY <1>4, <1>8
<1> QED BY <1>1, <1>3, <1>6, <1>9

LEMMA HalfWayAt ==
    ASSUME NEW p, NEW k \in 1 .. p[2] + (Len(rows) - p[1])
    PROVE  HalfWay(p).toks[k] = IF k <= p[2] THEN cols[k] ELSE rows[(k - p[2]) + p[1]]
BY DEF HalfWay

LEMMA HalfWayIs ==
    ASSUME NEW tokens, Compared(tokens), NEW p \in Cells, NEW t \in Seq(tokens),
           Len(t) = p[2] + (Len(rows) - p[1]),
           \A k \in 1 .. Len(t) : t[k] = IF k <= p[2] THEN cols[k] ELSE rows[(k - p[2]) + p[1]]
    PROVE  t = HalfWay(p).toks
<1>1. PICK h : h = HalfWay(p).toks
    OBVIOUS
<1>2. h \in Seq(tokens) /\ Len(h) = Len(t)
    BY <1>1, HalfWayTyped
<1>3. \A k \in 1 .. Len(t) : h[k] = t[k]
    BY <1>1, HalfWayAt
<1>4. h = t
    BY <1>2, <1>3, SeqEqual
<1> QED BY <1>1, <1>4

LEMMA InsertsOn ==
    ASSUME NEW tokens, Compared(tokens), NEW p \in Cells, p[2] > 0
    PROVE  Edited(HalfWay(Before("Ins", p)), Edit("Ins", Before("Ins", p))) = HalfWay(p)
<1>1. PICK i, j, I, J : i = p[1] /\ j = p[2] /\ I = Len(rows) /\ J = Len(cols)
    OBVIOUS
<1>2. I \in Nat /\ J \in Nat /\ i \in 0 .. I /\ j \in 1 .. J /\ p = <<i, j>>
    BY <1>1 DEF Cells, Compared
<1>3. PICK q : q = Before("Ins", p)
    OBVIOUS
<1>4. q = <<i, j - 1>> /\ q \in Cells /\ q[1] = i /\ q[2] = j - 1
    BY <1>1, <1>2, <1>3 DEF Before, Cells
<1>5. PICK e : e = Edit("Ins", q)
    OBVIOUS
<1>6. e.op = "Ins" /\ e.src = i + 1 /\ e.dst = j
    BY <1>2, <1>4, <1>5 DEF Edit
<1>7. PICK acc : acc = HalfWay(q)
    OBVIOUS
<1>8. PICK s : s = acc.toks
    OBVIOUS
<1>9. s \in Seq(tokens) /\ Len(s) = (j - 1) + (I - i) /\ acc.shift = (j - 1) - i
    <2>1. s \in Seq(tokens) /\ Len(s) = q[2] + (Len(rows) - q[1])
        BY <1>4, <1>7, <1>8, HalfWayTyped
    <2>2. acc.shift = q[2] - q[1]
        BY <1>7 DEF HalfWay
    <2> QED BY <1>1, <1>4, <2>1, <2>2
<1>10. PICK tok : tok = cols[j]
    OBVIOUS
<1>11. tok \in tokens
    BY <1>1, <1>2, <1>10 DEF Compared
<1>12. e.src + acc.shift = j /\ j - 1 \in 0 .. Len(s)
    BY <1>2, <1>6, <1>9
<1>13. PICK t : t = insertAfter(s, j - 1, tok)
    OBVIOUS
<1>14. Edited(acc, e) = [toks |-> t, shift |-> acc.shift + 1]
    BY <1>6, <1>8, <1>10, <1>12, <1>13 DEF Edited
<1>15. IsInserted(t, tokens, s, j - 1, tok)
    BY <1>9, <1>11, <1>12, <1>13, InsertedAt
<1>16. t \in Seq(tokens) /\ Len(t) = Len(s) + 1
    BY <1>15 DEF IsInserted
<1>17. Len(t) = j + (I - i) /\ q[2] + (Len(rows) - q[1]) = Len(s)
    BY <1>1, <1>2, <1>4, <1>9, <1>16
<1>18. \A k \in 1 .. Len(t) : t[k] = IF k <= j THEN cols[k] ELSE rows[(k - j) + i]
    <2> SUFFICES ASSUME NEW k \in 1 .. Len(t)
                 PROVE  t[k] = IF k <= j THEN cols[k] ELSE rows[(k - j) + i]
        OBVIOUS
    <2>1. t[k] = IF k <= j - 1 THEN s[k] ELSE IF k = (j - 1) + 1 THEN tok ELSE s[k - 1]
        BY <1>15, <1>16 DEF IsInserted
    <2>2. CASE k <= j - 1
        <3>1. k \in 1 .. Len(s) /\ k <= q[2] /\ k <= j
            BY <1>2, <1>4, <1>9, <2>2
        <3>2. s[k] = cols[k]
            BY <1>7, <1>8, <1>17, <3>1, HalfWayAt
        <3> QED BY <2>1, <2>2, <3>1, <3>2
    <2>3. CASE k = j
        <3>1. ~(k <= j - 1) /\ k = (j - 1) + 1 /\ k <= j
            BY <1>2, <2>3
        <3> QED BY <1>10, <2>1, <2>3, <3>1
    <2>4. CASE k > j
        <3>1. ~(k <= j - 1) /\ k # (j - 1) + 1 /\ ~(k <= j)
            BY <1>2, <2>4
        <3>2. k - 1 \in 1 .. Len(s) /\ ~(k - 1 <= q[2])
            BY <1>2, <1>4, <1>16, <2>4
        <3>3. s[k - 1] = rows[((k - 1) - q[2]) + q[1]]
            BY <1>7, <1>8, <1>17, <3>2, HalfWayAt
        <3>4. PICK x, y : x = (k - j) + i /\ y = ((k - 1) - q[2]) + q[1]
            OBVIOUS
        <3>5. x = y
            BY <1>2, <1>4, <3>4
        <3> QED BY <2>1, <3>1, <3>3, <3>4, <3>5
    <2> QED BY <1>2, <2>2, <2>3, <2>4
<1>19. t = HalfWay(p).toks
    BY <1>1, <1>16, <1>17, <1>18, HalfWayIs
<1>20. acc.shift + 1 = HalfWay(p).shift
    <2>1. HalfWay(p).shift = p[2] - p[1]
        BY DEF HalfWay
    <2> QED BY <1>1, <1>2, <1>9, <2>1
<1>21. HalfWay(p) = [toks |-> HalfWay(p).toks, shift |-> HalfWay(p).shift]
    BY DEF HalfWay
<1> QED BY <1>3, <1>5, <1>7, <1>14, <1>19, <1>20, <1>21

LEMMA DeletesOn ==
    ASSUME NEW tokens, Compared(tokens), NEW p \in Cells, p[1] > 0
    PROVE  Edited(HalfWay(Before("Del", p)), Edit("Del", Before("Del", p))) = HalfWay(p)
<1>1. PICK i, j, I, J : i = p[1] /\ j = p[2] /\ I = Len(rows) /\ J = Len(cols)
    OBVIOUS
<1>2. I \in Nat /\ J \in Nat /\ i \in 1 .. I /\ j \in 0 .. J /\ p = <<i, j>>
    BY <1>1 DEF Cells, Compared
<1>3. PICK q : q = Before("Del", p)
    OBVIOUS
<1>4. q = <<i - 1, j>> /\ q \in Cells /\ q[1] = i - 1 /\ q[2] = j
    BY <1>1, <1>2, <1>3 DEF Before, Cells
<1>5. PICK e : e = Edit("Del", q)
    OBVIOUS
<1>6. e.op = "Del" /\ e.src = i
    BY <1>2, <1>4, <1>5 DEF Edit
<1>7. PICK acc : acc = HalfWay(q)
    OBVIOUS
<1>8. PICK s : s = acc.toks
    OBVIOUS
<1>9. s \in Seq(tokens) /\ Len(s) = j + (I - (i - 1)) /\ acc.shift = j - (i - 1)
    <2>1. s \in Seq(tokens) /\ Len(s) = q[2] + (Len(rows) - q[1])
        BY <1>4, <1>7, <1>8, HalfWayTyped
    <2>2. acc.shift = q[2] - q[1]
        BY <1>7 DEF HalfWay
    <2> QED BY <1>1, <1>4, <2>1, <2>2
<1>10. e.src + acc.shift = j + 1 /\ j + 1 \in 1 .. Len(s)
    BY <1>2, <1>6, <1>9
<1>11. PICK t : t = deleteAt(s, j + 1)
    OBVIOUS
<1>12. Edited(acc, e) = [toks |-> t, shift |-> acc.shift - 1]
    BY <1>6, <1>8, <1>10, <1>11 DEF Edited
<1>13. IsDeleted(t, tokens, s, j + 1)
    BY <1>9, <1>10, <1>11, DeletedAt
<1>14. t \in Seq(tokens) /\ Len(t) = Len(s) - 1
    BY <1>13 DEF IsDeleted
<1>15. Len(t) = j + (I - i) /\ q[2] + (Len(rows) - q[1]) = Len(s)
    <2>1. q[2] + (Len(rows) - q[1]) = j + (I - (i - 1))
        BY <1>1, <1>4
    <2>2. i \in Int /\ j \in Int /\ I \in Int
        BY <1>2
    <2> QED BY <1>9, <1>14, <2>1, <2>2
<1>16. \A k \in 1 .. Len(t) : t[k] = IF k <= j THEN cols[k] ELSE rows[(k - j) + i]
    <2> SUFFICES ASSUME NEW k \in 1 .. Len(t)
                 PROVE  t[k] = IF k <= j THEN cols[k] ELSE rows[(k - j) + i]
        OBVIOUS
    <2>1. t[k] = IF k < j + 1 THEN s[k] ELSE s[k + 1]
        BY <1>13, <1>14 DEF IsDeleted
    <2>2. CASE k <= j
        <3>1. k \in 1 .. Len(s) /\ k <= q[2] /\ k < j + 1
            BY <1>2, <1>4, <1>9, <2>2
        <3>2. s[k] = cols[k]
            BY <1>7, <1>8, <1>15, <3>1, HalfWayAt
        <3> QED BY <2>1, <2>2, <3>1, <3>2
    <2>3. CASE k > j
        <3>1. ~(k < j + 1) /\ ~(k <= j)
            BY <1>2, <2>3
        <3>2. k + 1 \in 1 .. Len(s) /\ ~(k + 1 <= q[2])
            BY <1>2, <1>4, <1>9, <1>14, <2>3
        <3>3. s[k + 1] = rows[((k + 1) - q[2]) + q[1]]
            BY <1>7, <1>8, <1>15, <3>2, HalfWayAt
        <3>4. PICK x, y : x = (k - j) + i /\ y = ((k + 1) - q[2]) + q[1]
            OBVIOUS
        <3>5. x = y
            BY <1>2, <1>4, <3>4
        <3> QED BY <2>1, <3>1, <3>3, <3>4, <3>5
    <2> QED BY <1>2, <2>2, <2>3
<1>17. t = HalfWay(p).toks
    BY <1>1, <1>14, <1>15, <1>16, HalfWayIs
<1>18. acc.shift - 1 = HalfWay(p).shift
    <2>1. HalfWay(p).shift = p[2] - p[1]
        BY DEF HalfWay
    <2>2. i \in Int /\ j \in Int
        BY <1>2
    <2>3. HalfWay(p).shift = j - i
        BY <1>1, <2>1
    <2> QED BY <1>9, <2>2, <2>3
<1>19. HalfWay(p) = [toks |-> HalfWay(p).toks, shift |-> HalfWay(p).shift]
    BY DEF HalfWay
<1> QED BY <1>3, <1>5, <1>7, <1>12, <1>17, <1>18, <1>19

\* A substitution and a match go diagonally; at a match there is nothing to substitute.
LEMMA GoesOn ==
    ASSUME NEW tokens, Compared(tokens), NEW p \in Cells, p[1] > 0, p[2] > 0,
           NEW op \in {"Sub", "Match"}, op = "Match" => rows[p[1]] = cols[p[2]]
    PROVE  Edited(HalfWay(Before(op, p)), Edit(op, Before(op, p))) = HalfWay(p)
<1>1. PICK i, j, I, J : i = p[1] /\ j = p[2] /\ I = Len(rows) /\ J = Len(cols)
    OBVIOUS
<1>2. I \in Nat /\ J \in Nat /\ i \in 1 .. I /\ j \in 1 .. J /\ p = <<i, j>>
    BY <1>1 DEF Cells, Compared
<1>3. PICK q : q = Before(op, p)
    OBVIOUS
<1>4. q = <<i - 1, j - 1>> /\ q \in Cells /\ q[1] = i - 1 /\ q[2] = j - 1
    BY <1>1, <1>2, <1>3 DEF Before, Cells
<1>5. PICK e : e = Edit(op, q)
    OBVIOUS
<1>6. e.op = op /\ e.src = i /\ e.dst = j
    BY <1>2, <1>4, <1>5 DEF Edit
<1>7. PICK acc : acc = HalfWay(q)
    OBVIOUS
<1>8. PICK s : s = acc.toks
    OBVIOUS
<1>9. s \in Seq(tokens) /\ Len(s) = (j - 1) + (I - (i - 1)) /\ acc.shift = (j - 1) - (i - 1)
    <2>1. s \in Seq(tokens) /\ Len(s) = q[2] + (Len(rows) - q[1])
        BY <1>4, <1>7, <1>8, HalfWayTyped
    <2>2. acc.shift = q[2] - q[1]
        BY <1>7 DEF HalfWay
    <2> QED BY <1>1, <1>4, <2>1, <2>2
<1>10. e.src + acc.shift = j /\ j \in 1 .. Len(s)
    BY <1>2, <1>6, <1>9
<1>11. PICK tok : tok = cols[j]
    OBVIOUS
<1>12. tok \in tokens
    BY <1>1, <1>2, <1>11 DEF Compared
<1>13. PICK t : t = [s EXCEPT ![j] = tok]
    OBVIOUS
<1>14. t \in Seq(tokens) /\ Len(t) = Len(s) /\ \A k \in 1 .. Len(s) : t[k] = IF k = j THEN tok ELSE s[k]
    BY <1>9, <1>10, <1>12, <1>13
<1>15. Len(t) = j + (I - i) /\ q[2] + (Len(rows) - q[1]) = Len(s)
    <2>1. q[2] + (Len(rows) - q[1]) = (j - 1) + (I - (i - 1))
        BY <1>1, <1>4
    <2>2. i \in Int /\ j \in Int /\ I \in Int
        BY <1>2
    <2> QED BY <1>9, <1>14, <2>1, <2>2
<1>16. \A k \in 1 .. Len(t) : t[k] = IF k <= j THEN cols[k] ELSE rows[(k - j) + i]
    <2> SUFFICES ASSUME NEW k \in 1 .. Len(t)
                 PROVE  t[k] = IF k <= j THEN cols[k] ELSE rows[(k - j) + i]
        OBVIOUS
    <2>1. t[k] = IF k = j THEN tok ELSE s[k]
        BY <1>14
    <2>2. CASE k <= j - 1
        <3>1. k \in 1 .. Len(s) /\ k <= q[2] /\ k <= j /\ k # j
            BY <1>2, <1>4, <1>9, <2>2
        <3>2. s[k] = cols[k]
            BY <1>7, <1>8, <1>15, <3>1, HalfWayAt
        <3> QED BY <2>1, <3>1, <3>2
    <2>3. CASE k = j
        <3>1. k <= j
            BY <1>2, <2>3
        <3> QED BY <1>11, <2>1, <2>3, <3>1
    <2>4. CASE k > j
        <3>1. k # j /\ ~(k <= j)
            BY <1>2, <2>4
        <3>2. k \in 1 .. Len(s) /\ ~(k <= q[2])
            BY <1>2, <1>4, <1>14, <2>4
        <3>3. s[k] = rows[(k - q[2]) + q[1]]
            BY <1>7, <1>8, <1>15, <3>2, HalfWayAt
        <3>4. PICK x, y : x = (k - j) + i /\ y = (k - q[2]) + q[1]
            OBVIOUS
        <3>5. x = y
            BY <1>2, <1>4, <3>4
        <3> QED BY <2>1, <3>1, <3>3, <3>4, <3>5
    <2> QED BY <1>2, <2>2, <2>3, <2>4
<1>17. t = HalfWay(p).toks
    BY <1>1, <1>14, <1>15, <1>16, HalfWayIs
<1>18. acc.shift = HalfWay(p).shift
    <2>1. HalfWay(p).shift = p[2] - p[1]
        BY DEF HalfWay
    <2>2. i \in Int /\ j \in Int
        BY <1>2
    <2>3. HalfWay(p).shift = j - i
        BY <1>1, <2>1
    <2> QED BY <1>9, <2>2, <2>3
<1>19. HalfWay(p) = [toks |-> HalfWay(p).toks, shift |-> HalfWay(p).shift]
    BY DEF HalfWay
<1>20. acc = [toks |-> s, shift |-> acc.shift]
    BY <1>7, <1>8 DEF HalfWay
<1>21. CASE op = "Sub"
    <2>1. Edited(acc, e) = [acc EXCEPT !.toks[j] = tok]
        BY <1>6, <1>10, <1>11, <1>21 DEF Edited
    <2>2. Edited(acc, e) = [toks |-> t, shift |-> acc.shift]
        <3>1. [acc EXCEPT !.toks[j] = tok] = [toks |-> [acc.toks EXCEPT ![j] = tok], shift |-> acc.shift]
            BY <1>20
        <3> QED BY <1>8, <1>13, <2>1, <3>1
    <2> QED BY <1>3, <1>5, <1>7, <1>17, <1>18, <1>19, <2>2
<1>22. CASE op = "Match"
    <2>1. Edited(acc, e) = acc
        BY <1>6, <1>22 DEF Edited
    <2>2. s[j] = tok
        <3>1. j \in 1 .. q[2] + (Len(rows) - q[1]) /\ ~(j <= q[2])
            BY <1>2, <1>4, <1>10, <1>15
        <3>2. s[j] = rows[(j - q[2]) + q[1]]
            BY <1>7, <1>8, <3>1, HalfWayAt
        <3>3. PICK x : x = (j - q[2]) + q[1]
            OBVIOUS
        <3>4. x = i
            BY <1>2, <1>4, <3>3
        <3> QED BY <1>1, <1>11, <1>22, <3>2, <3>3, <3>4
    <2>3. t = s
        <3>1. \A k \in 1 .. Len(s) : t[k] = s[k]
            BY <1>14, <2>2
        <3> QED BY <1>9, <1>14, <3>1, SeqEqual
    <2> QED BY <1>3, <1>5, <1>7, <1>17, <1>18, <1>19, <1>20, <2>1, <2>3
<1> QED BY <1>21, <1>22

(***************************************************************************)
(* What an edit adds to the cost of a script.                              *)
(***************************************************************************)
LEMMA ManyTyped ==
    ASSUME NEW es \in Seq(Edits), NEW op PROVE Many(es, op) \in Nat
<1>1. PICK A : A = {k \in DOMAIN es : es[k].op = op}
    OBVIOUS
<1>2. Len(es) \in Nat /\ A \subseteq 1 .. Len(es)
    BY <1>1
<1>3. IsFiniteSet(1 .. Len(es))
    BY <1>2, FS_Interval
<1>4. IsFiniteSet(A)
    BY <1>2, <1>3, FS_Subset
<1>5. Cardinality(A) \in Nat
    BY <1>4, FS_CardinalityType
<1> QED BY <1>1, <1>5 DEF Many

LEMMA ManyAdded ==
    ASSUME NEW es \in Seq(Edits), NEW e \in Edits, NEW op
    PROVE  Many(Append(es, e), op) = IF e.op = op THEN Many(es, op) + 1 ELSE Many(es, op)
<1>1. PICK n, more : n = Len(es) /\ more = Append(es, e)
    OBVIOUS
<1>2. /\ n \in Nat /\ DOMAIN es = 1 .. n /\ DOMAIN more = 1 .. n + 1
      /\ more[n + 1] = e /\ \A k \in 1 .. n : more[k] = es[k]
    BY <1>1
<1>3. PICK A : A = {k \in 1 .. n : es[k].op = op}
    OBVIOUS
<1>4. PICK B : B = {k \in 1 .. n + 1 : more[k].op = op}
    OBVIOUS
<1>5. Many(es, op) = Cardinality(A) /\ Many(more, op) = Cardinality(B)
    BY <1>2, <1>3, <1>4 DEF Many
<1>6. \A k : k \in 1 .. n + 1 <=> k \in 1 .. n \/ k = n + 1
    BY <1>2
<1>7. CASE e.op = op
    <2>1. B = A \cup {n + 1}
        BY <1>2, <1>3, <1>4, <1>6, <1>7
    <2>2. n + 1 \notin A
        BY <1>2, <1>3
    <2>3. IsFiniteSet(1 .. n)
        BY <1>2, FS_Interval
    <2>4. A \subseteq 1 .. n
        BY <1>3
    <2>5. IsFiniteSet(A)
        BY <2>3, <2>4, FS_Subset
    <2>6. Cardinality(B) = Cardinality(A) + 1
        BY <2>1, <2>2, <2>5, FS_AddElement
    <2> QED BY <1>1, <1>5, <1>7, <2>6
<1>8. CASE e.op # op
    <2>1. B = A
        BY <1>2, <1>3, <1>4, <1>6, <1>8
    <2> QED BY <1>1, <1>5, <1>8, <2>1
<1> QED BY <1>7, <1>8

Price(opt, op) == CASE op = "Ins" -> 1 [] op = "Del" -> 1 [] op = "Sub" -> opt.SubCost [] OTHER -> 0

LEMMA CostAdded ==
    ASSUME NEW opt, Priced(opt), NEW es \in Seq(Edits), NEW e \in Edits
    PROVE  Cost(Append(es, e), opt) = Cost(es, opt) + Price(opt, e.op)
<1>1. PICK more : more = Append(es, e)
    OBVIOUS
<1>2. more \in Seq(Edits)
    BY <1>1
<1>3. PICK i, d, s, c : i = Many(es, "Ins") /\ d = Many(es, "Del") /\ s = Many(es, "Sub") /\ c = opt.SubCost
    OBVIOUS
<1>4. i \in Nat /\ d \in Nat /\ s \in Nat /\ c \in Nat
    BY <1>3, ManyTyped DEF Priced
<1>5. opt.InsCost = 1 /\ opt.DelCost = 1
    BY DEF Priced
<1>6. Cost(es, opt) = i * 1 + d * 1 + s * c
    BY <1>3, <1>5 DEF Cost
<1>7. /\ Many(more, "Ins") = IF e.op = "Ins" THEN i + 1 ELSE i
      /\ Many(more, "Del") = IF e.op = "Del" THEN d + 1 ELSE d
      /\ Many(more, "Sub") = IF e.op = "Sub" THEN s + 1 ELSE s
    BY <1>1, <1>3, ManyAdded
<1>8. Cost(more, opt) = Many(more, "Ins") * 1 + Many(more, "Del") * 1 + Many(more, "Sub") * c
    BY <1>3, <1>5 DEF Cost
<1>9. (s + 1) * c = s * c + c /\ s * c \in Int
    BY <1>4
<1>10. e.op \in {"Ins", "Del", "Sub", "Match"}
    BY DEF Edits
<1>11. CASE e.op = "Ins"
    <2>1. Cost(more, opt) = (i + 1) * 1 + d * 1 + s * c /\ Price(opt, e.op) = 1
        BY <1>7, <1>8, <1>11 DEF Price
    <2> QED BY <1>1, <1>4, <1>6, <1>9, <2>1
<1>12. CASE e.op = "Del"
    <2>1. Cost(more, opt) = i * 1 + (d + 1) * 1 + s * c /\ Price(opt, e.op) = 1
        BY <1>7, <1>8, <1>12 DEF Price
    <2> QED BY <1>1, <1>4, <1>6, <1>9, <2>1
<1>13. CASE e.op = "Sub"
    <2>1. Cost(more, opt) = i * 1 + d * 1 + (s + 1) * c /\ Price(opt, e.op) = c
        BY <1>3, <1>7, <1>8, <1>13 DEF Price
    <2> QED BY <1>1, <1>4, <1>6, <1>9, <2>1
<1>14. CASE e.op = "Match"
    <2>1. Cost(more, opt) = i * 1 + d * 1 + s * c /\ Price(opt, e.op) = 0
        BY <1>7, <1>8, <1>14 DEF Price
    <2> QED BY <1>1, <1>4, <1>6, <1>9, <2>1
<1> QED BY <1>10, <1>11, <1>12, <1>13, <1>14

LEMMA CostAtFirst == \A es, opt : es = <<>> /\ Priced(opt) => Cost(es, opt) = 0
<1> SUFFICES ASSUME NEW es, NEW opt, es = <<>>, Priced(opt) PROVE Cost(es, opt) = 0
    OBVIOUS
<1>1. DOMAIN es = {}
    OBVIOUS
<1>2. \A op : {k \in DOMAIN es : es[k].op = op} = {}
    BY <1>1
<1>3. \A op : Many(es, op) = 0
    <2> TAKE op
    <2>1. PICK A : A = {k \in DOMAIN es : es[k].op = op}
        OBVIOUS
    <2>2. A = {}
        BY <1>2, <2>1
    <2>3. Cardinality(A) = 0
        BY <2>2, FS_EmptySet
    <2> QED BY <2>1, <2>3 DEF Many
<1>4. opt.InsCost \in Int /\ opt.DelCost \in Int /\ opt.SubCost \in Int
    BY DEF Priced
<1>5. Cost(es, opt) = 0 * opt.InsCost + 0 * opt.DelCost + 0 * opt.SubCost
    BY <1>3 DEF Cost
<1> QED BY <1>4, <1>5

(***************************************************************************)
(* backtrace is a recursive function on the cells; it calls itself for     *)
(* cells that are nearer to the first.                                     *)
(***************************************************************************)
Rank(p) == p[1] + p[2]
Traced(f, mx, opt, p) ==
    LET op == Step(mx, opt, p[1], p[2])
    IN  IF op = "none" THEN <<>> ELSE Append(f[Before(op, p)], Edit(op, Before(op, p)))
Traces(f, mx, opt) == f = [p \in Cells |-> Traced(f, mx, opt, p)]
TracesUpTo(f, mx, opt, n) ==
    f = [p \in Cells |-> f[p]] /\ \A p \in Cells : Rank(p) <= n => f[p] = Traced(f, mx, opt, p)

LEMMA NearerBefore ==
    ASSUME NEW opt, NEW tokens, Compared(tokens), NEW mx, NEW p \in Cells, NEW op,
           Moves(mx, opt, p, op), op # "none"
    PROVE  Before(op, p) \in Cells /\ Rank(Before(op, p)) < Rank(p)
<1>1. PICK i, j, I, J : i = p[1] /\ j = p[2] /\ I = Len(rows) /\ J = Len(cols)
    OBVIOUS
<1>2. I \in Nat /\ J \in Nat /\ i \in 0 .. I /\ j \in 0 .. J
    BY <1>1 DEF Cells, Compared
<1>3. \/ op = "Del" /\ i > 0
      \/ op = "Ins" /\ j > 0
      \/ op \in {"Sub", "Match"} /\ i > 0 /\ j > 0
    BY <1>1 DEF Moves
<1>4. PICK a, b : a = (IF op = "Ins" THEN i ELSE i - 1) /\ b = (IF op = "Del" THEN j ELSE j - 1)
    OBVIOUS
<1>5. Before(op, p) = <<a, b>>
    BY <1>1, <1>4 DEF Before
<1>6. a \in 0 .. I /\ b \in 0 .. J /\ a + b < i + j
    BY <1>2, <1>3, <1>4
<1> QED BY <1>1, <1>5, <1>6 DEF Cells, Rank

LEMMA TracesSome ==
    ASSUME NEW opt, Priced(opt), NEW tokens, Compared(tokens), NEW mx, Solved(mx, opt)
    PROVE  \A n \in Nat : \E f : TracesUpTo(f, mx, opt, n)
<1> DEFINE T == {n \in Nat : ~\E f : TracesUpTo(f, mx, opt, n)}
<1>1. SUFFICES ASSUME T # {} PROVE FALSE
    OBVIOUS
<1>2. PICK n \in T : \A m \in T : n <= m
    <2>1. T \in SUBSET Nat
        OBVIOUS
    <2> HIDE DEF T
    <2> QED BY <1>1, <2>1, LeastPlace
<1>3. \A p \in Cells : p[1] \in Nat /\ p[2] \in Nat /\ Rank(p) \in Nat
    BY DEF Cells, Rank
<1>4. n # 0
    <2>1. PICK e : e = <<>>
        OBVIOUS
    <2>2. PICK f : f = [p \in Cells |-> e]
        OBVIOUS
    <2>3. ASSUME NEW p \in Cells, Rank(p) <= 0 PROVE f[p] = Traced(f, mx, opt, p)
        <3>1. p[1] = 0 /\ p[2] = 0
            BY <1>3, <2>3 DEF Rank
        <3>2. PICK op : op = Step(mx, opt, p[1], p[2])
            OBVIOUS
        <3>3. Moves(mx, opt, p, op)
            BY <3>2, StepMoves
        <3>4. op = "none"
            BY <3>1, <3>3 DEF Moves
        <3>5. Traced(f, mx, opt, p) = e
            BY <2>1, <3>2, <3>4 DEF Traced
        <3> QED BY <2>2, <3>5
    <2>4. f = [p \in Cells |-> f[p]]
        BY <2>2
    <2>5. TracesUpTo(f, mx, opt, 0)
        BY <2>3, <2>4 DEF TracesUpTo
    <2> QED BY <2>5
<1>5. n \in Nat /\ n - 1 \in Nat /\ n - 1 \notin T
    BY <1>2, <1>4
<1>6. PICK f : TracesUpTo(f, mx, opt, n - 1)
    BY <1>5
<1>7. PICK g : g = [p \in Cells |-> IF Rank(p) = n THEN Traced(f, mx, opt, p) ELSE f[p]]
    OBVIOUS
<1>8. ASSUME NEW p \in Cells, Rank(p) <= n PROVE Traced(g, mx, opt, p) = Traced(f, mx, opt, p)
    <2>1. PICK op : op = Step(mx, opt, p[1], p[2])
        OBVIOUS
    <2>2. Moves(mx, opt, p, op)
        BY <2>1, StepMoves
    <2>3. CASE op = "none"
        BY <2>1, <2>3 DEF Traced
    <2>4. CASE op # "none"
        <3>1. PICK b : b = Before(op, p)
            OBVIOUS
        <3>2. b \in Cells /\ Rank(b) < Rank(p)
            BY <2>2, <2>4, <3>1, NearerBefore
        <3>3. Rank(b) # n
            BY <1>3, <1>5, <1>8, <3>2
        <3>4. g[b] = f[b]
            BY <1>7, <3>2, <3>3
        <3> QED BY <2>1, <2>4, <3>1, <3>4 DEF Traced
    <2> QED BY <2>3, <2>4
<1>9. ASSUME NEW p \in Cells, Rank(p) <= n PROVE g[p] = Traced(g, mx, opt, p)
    <2>1. CASE Rank(p) = n
        BY <1>7, <1>8, <1>9, <2>1
    <2>2. CASE Rank(p) # n
        <3>1. Rank(p) <= n - 1
            BY <1>3, <1>5, <1>9, <2>2
        <3>2. f[p] = Traced(f, mx, opt, p)
            BY <1>6, <3>1 DEF TracesUpTo
        <3> QED BY <1>7, <1>8, <1>9, <2>2, <3>2
    <2> QED BY <2>1, <2>2
<1>10. g = [p \in Cells |-> g[p]]
    BY <1>7
<1>11. TracesUpTo(g, mx, opt, n)
    BY <1>9, <1>10 DEF TracesUpTo
<1> QED BY <1>2, <1>11

LEMMA BacktraceTraces ==
    ASSUME NEW opt, Priced(opt), NEW tokens, Compared(tokens), NEW mx, Solved(mx, opt)
    PROVE  Traces(backtrace(mx, opt), mx, opt)
<1>1. PICK I, J : I = Len(rows) /\ J = Len(cols)
    OBVIOUS
<1>2. I \in Nat /\ J \in Nat
    BY <1>1 DEF Compared
<1>3. PICK f : TracesUpTo(f, mx, opt, I + J)
    BY <1>2, TracesSome
<1>4. \A p \in Cells : Rank(p) <= I + J
    BY <1>1, <1>2 DEF Cells, Rank
<1>5. \A p \in Cells : f[p] = Traced(f, mx, opt, p)
    BY <1>3, <1>4 DEF TracesUpTo
<1>6. PICK h : h = [p \in Cells |-> Traced(f, mx, opt, p)]
    OBVIOUS
<1>7. f = [p \in Cells |-> f[p]]
    BY <1>3 DEF TracesUpTo
<1>8. f = h
    BY <1>5, <1>6, <1>7
<1>9. Traces(f, mx, opt)
    BY <1>6, <1>8 DEF Traces
<1>10. PICK q : q = CHOOSE g : Traces(g, mx, opt)
    OBVIOUS
<1>11. Traces(q, mx, opt)
    BY <1>9, <1>10
<1>12. backtrace(mx, opt) = q
    BY <1>10 DEF backtrace, Traces, Traced
<1> QED BY <1>11, <1>12

\* The script of each cell leads half way, at the cost that the cell says.
ScriptRight(es, mx, opt, p) ==
    /\ es \in Seq(Edits)
    /\ Leads(es, HalfWay(p))
    /\ Cost(es, opt) = MxAt(mx, p[1], p[2])

LEMMA FirstRight ==
    ASSUME NEW opt, Priced(opt), NEW tokens, Compared(tokens), NEW mx, Solved(mx, opt),
           NEW p \in Cells, p[1] = 0, p[2] = 0, NEW es, es = <<>>
    PROVE  ScriptRight(es, mx, opt, p)
<1>1. Len(rows) \in Nat /\ Len(cols) \in Nat
    BY DEF Compared
<1>2. \A k \in 1 .. Len(rows) : rows[k] = IF k <= p[2] THEN cols[k] ELSE rows[(k - p[2]) + p[1]]
    BY <1>1
<1>3. rows \in Seq(tokens) /\ Len(rows) = p[2] + (Len(rows) - p[1])
    BY <1>1 DEF Compared
<1>4. rows = HalfWay(p).toks
    BY <1>2, <1>3, HalfWayIs
<1>5. HalfWay(p).shift = 0
    BY DEF HalfWay
<1>6. HalfWay(p) = [toks |-> HalfWay(p).toks, shift |-> HalfWay(p).shift]
    BY DEF HalfWay
<1>7. HalfWay(p) = Begin
    BY <1>4, <1>5, <1>6 DEF Begin
<1>8. Leads(es, HalfWay(p))
    BY <1>7, LeadsFirst
<1>9. Cost(es, opt) = 0
    BY CostAtFirst
<1>10. MxAt(mx, p[1], p[2]) = 0
    BY <1>1 DEF Solved
<1>11. es \in Seq(Edits)
    OBVIOUS
<1> QED BY <1>8, <1>9, <1>10, <1>11 DEF ScriptRight

LEMMA NextRight ==
    ASSUME NEW opt, Priced(opt), NEW tokens, Compared(tokens), NEW mx, Solved(mx, opt),
           NEW p \in Cells, NEW op, Moves(mx, opt, p, op), op # "none",
           NEW es, ScriptRight(es, mx, opt, Before(op, p))
    PROVE  ScriptRight(Append(es, Edit(op, Before(op, p))), mx, opt, p)
<1>1. PICK i, j, q, e : i = p[1] /\ j = p[2] /\ q = Before(op, p) /\ e = Edit(op, q)
    OBVIOUS
<1>2. q \in Cells
    BY <1>1, NearerBefore
<1>3. op \in {"Ins", "Del", "Sub", "Match"}
    BY DEF Moves
<1>4. e \in Edits /\ e.op = op
    <2>1. q[1] + 1 \in Int /\ q[2] + 1 \in Int
        BY <1>2 DEF Cells
    <2> QED BY <1>1, <1>3, <2>1 DEF Edit, Edits
<1>5. es \in Seq(Edits) /\ Leads(es, HalfWay(q)) /\ Cost(es, opt) = MxAt(mx, q[1], q[2])
    BY <1>1 DEF ScriptRight
<1>6. Edited(HalfWay(q), e) = HalfWay(p)
    <2>1. CASE op = "Ins"
        BY <1>1, <2>1, InsertsOn DEF Moves
    <2>2. CASE op = "Del"
        BY <1>1, <2>2, DeletesOn DEF Moves
    <2>3. CASE op \in {"Sub", "Match"}
        <3>1. p[1] > 0 /\ p[2] > 0 /\ (op = "Match" => rows[p[1]] = cols[p[2]])
            BY <2>3 DEF Moves
        <3> QED BY <1>1, <2>3, <3>1, GoesOn
    <2> QED BY <1>3, <2>1, <2>2, <2>3
<1>7. Leads(Append(es, e), HalfWay(p))
    <2>1. Leads(Append(es, e), Edited(HalfWay(q), e))
        BY <1>4, <1>5, LeadsOn
    <2> QED BY <1>6, <2>1
<1>8. Cost(Append(es, e), opt) = MxAt(mx, i, j)
    <2>1. Cost(Append(es, e), opt) = MxAt(mx, q[1], q[2]) + Price(opt, op)
        BY <1>4, <1>5, CostAdded
    <2>2. MxAt(mx, q[1], q[2]) \in Int
        BY <1>2 DEF Solved, Cells
    <2>3. MxAt(mx, i, j) = MxAt(mx, q[1], q[2]) + Price(opt, op)
        <3>1. CASE op = "Ins"
            <4>1. q[1] = i /\ q[2] = j - 1 /\ Price(opt, op) = 1
                BY <1>1, <3>1 DEF Before, Price
            <4> QED BY <1>1, <3>1, <4>1 DEF Moves
        <3>2. CASE op = "Del"
            <4>1. q[1] = i - 1 /\ q[2] = j /\ Price(opt, op) = 1
                BY <1>1, <3>2 DEF Before, Price
            <4> QED BY <1>1, <3>2, <4>1 DEF Moves
        <3>3. CASE op = "Sub"
            <4>1. q[1] = i - 1 /\ q[2] = j - 1 /\ Price(opt, op) = opt.SubCost
                BY <1>1, <3>3 DEF Before, Price
            <4> QED BY <1>1, <3>3, <4>1 DEF Moves
        <3>4. CASE op = "Match"
            <4>1. q[1] = i - 1 /\ q[2] = j - 1 /\ Price(opt, op) = 0
                BY <1>1, <3>4 DEF Before, Price
            <4>2. MxAt(mx, i, j) = MxAt(mx, q[1], q[2])
                BY <1>1, <3>4, <4>1 DEF Moves
            <4> QED BY <2>2, <4>1, <4>2
        <3> QED BY <1>3, <3>1, <3>2, <3>3, <3>4
    <2> QED BY <2>1, <2>3
<1>9. Append(es, e) \in Seq(Edits)
    BY <1>4, <1>5
<1> QED BY <1>1, <1>7, <1>8, <1>9 DEF ScriptRight

LEMMA AllRight ==
    ASSUME NEW opt, Priced(opt), NEW tokens, Compared(tokens), NEW mx, Solved(mx, opt),
           NEW f, Traces(f, mx, opt), NEW p \in Cells
    PROVE  ScriptRight(f[p], mx, opt, p)
<1> DEFINE T == {n \in Nat : \E q \in Cells : Rank(q) = n /\ ~ScriptRight(f[q], mx, opt, q)}
<1>1. \A q \in Cells : Rank(q) \in Nat
    BY DEF Cells, Rank
<1>2. SUFFICES ASSUME T # {} PROVE FALSE
    BY <1>1
<1>3. PICK n \in T : \A m \in T : n <= m
    <2>1. T \in SUBSET Nat
        OBVIOUS
    <2> HIDE DEF T
    <2> QED BY <1>2, <2>1, LeastPlace
<1>4. PICK q \in Cells : Rank(q) = n /\ ~ScriptRight(f[q], mx, opt, q)
    BY <1>3
<1>5. PICK op : op = Step(mx, opt, q[1], q[2])
    OBVIOUS
<1>6. Moves(mx, opt, q, op)
    BY <1>5, StepMoves
<1>7. f[q] = Traced(f, mx, opt, q)
    <2>1. PICK g : g = [c \in Cells |-> Traced(f, mx, opt, c)]
        OBVIOUS
    <2>2. f = g
        BY <2>1 DEF Traces
    <2> QED BY <2>1, <2>2
<1>8. CASE op = "none"
    <2>1. PICK es : es = <<>>
        OBVIOUS
    <2>2. f[q] = es
        BY <1>5, <1>7, <1>8, <2>1 DEF Traced
    <2>3. q[1] = 0 /\ q[2] = 0
        BY <1>6, <1>8 DEF Moves
    <2>4. ScriptRight(es, mx, opt, q)
        BY <2>1, <2>3, FirstRight
    <2> QED BY <1>4, <2>2, <2>4
<1>9. CASE op # "none"
    <2>1. PICK b : b = Before(op, q)
        OBVIOUS
    <2>2. b \in Cells /\ Rank(b) < Rank(q)
        BY <1>6, <1>9, <2>1, NearerBefore
    <2>3. Rank(b) \in Nat /\ ~(n <= Rank(b))
        BY <1>1, <1>3, <1>4, <2>2
    <2>4. Rank(b) \notin T
        <3> HIDE DEF T
        <3> QED BY <1>3, <2>3
    <2>5. ScriptRight(f[b], mx, opt, b)
        BY <2>2, <2>3, <2>4
    <2>6. f[q] = Append(f[b], Edit(op, b))
        BY <1>5, <1>7, <1>9, <2>1 DEF Traced
    <2>7. ScriptRight(Append(f[b], Edit(op, b)), mx, opt, q)
        BY <1>6, <1>9, <2>1, <2>5, NextRight
    <2> QED BY <1>4, <2>6, <2>7
<1> QED BY <1>8, <1>9

LEMMA OptionsPriced == \A opt \in UsedOptions : Priced(opt)
<1>1. PICK d : d = DefaultOptions
    OBVIOUS
<1>2. d = [InsCost |-> 1, DelCost |-> 1, SubCost |-> 2]
    BY <1>1 DEF DefaultOptions
<1>3. PICK c : c = [d EXCEPT !.SubCost = 1]
    OBVIOUS
<1>4. c = [InsCost |-> 1, DelCost |-> 1, SubCost |-> 1]
    BY <1>2, <1>3
<1>5. UsedOptions = {d, c}
    BY <1>1, <1>3 DEF UsedOptions
<1>6. Priced(d) /\ Priced(c)
    BY <1>2, <1>4 DEF Priced
<1> QED BY <1>5, <1>6

(***************************************************************************)
(* For any two slices, of any tokens: the edit script applied to the rows  *)
(* gives the columns, as the comment of ApplyEditScript promises           *)
(* (levenshtein.go:226-228), and costs what Distance says.                 *)
(***************************************************************************)
LEMMA ScriptsAreRight ==
    ASSUME NEW tokens, rows \in Seq(tokens), cols \in Seq(tokens) PROVE ScriptsLeadThere
<1>1. Compared(tokens)
    BY DEF Compared
<1>2. SUFFICES ASSUME NEW opt \in UsedOptions, NEW es, es = EditScript(opt)
      PROVE  /\ CompareToCol(ApplyEditScript(es)) /\ Len(ApplyEditScript(es)) = Len(cols)
             /\ Cost(es, opt) = Distance(opt).abs
    BY DEF ScriptsLeadThere
<1>3. Priced(opt)
    BY OptionsPriced
<1>4. PICK mx, f, p : mx = New(opt) /\ f = backtrace(mx, opt) /\ p = <<Len(rows), Len(cols)>>
    OBVIOUS
<1>5. Solved(mx, opt)
    BY <1>1, <1>3, <1>4, MatrixSolved
<1>6. Traces(f, mx, opt)
    BY <1>1, <1>3, <1>4, <1>5, BacktraceTraces
<1>7. Len(rows) \in Nat /\ Len(cols) \in Nat
    OBVIOUS
<1>8. p \in Cells /\ p[1] = Len(rows) /\ p[2] = Len(cols)
    BY <1>4, <1>7 DEF Cells
<1>9. es = f[p]
    BY <1>2, <1>4 DEF EditScript
<1>10. ScriptRight(es, mx, opt, p)
    BY <1>1, <1>3, <1>5, <1>6, <1>8, <1>9, AllRight
<1>11. Cost(es, opt) = Distance(opt).abs
    <2>1. Cost(es, opt) = mx[Len(rows) + 1][Len(cols) + 1]
        BY <1>8, <1>10 DEF ScriptRight, MxAt
    <2>2. Distance(opt).abs = New(opt)[Len(rows) + 1][Len(cols) + 1]
        BY DEF Distance
    <2> QED BY <1>4, <2>1, <2>2
<1>12. PICK a : a = ApplyEditScript(es)
    OBVIOUS
<1>13. a = HalfWay(p).toks
    BY <1>10, <1>12, LeadsToRows DEF ScriptRight
<1>14. a \in Seq(tokens) /\ Len(a) = Len(cols)
    <2>1. a \in Seq(tokens) /\ Len(a) = p[2] + (Len(rows) - p[1])
        BY <1>1, <1>8, <1>13, HalfWayTyped
    <2> QED BY <1>7, <1>8, <2>1
<1>15. \A k \in 1 .. Len(cols) : a[k] = cols[k]
    <2> SUFFICES ASSUME NEW k \in 1 .. Len(cols) PROVE a[k] = cols[k]
        OBVIOUS
    <2>1. k \in 1 .. p[2] + (Len(rows) - p[1]) /\ k <= p[2]
        BY <1>7, <1>8
    <2> QED BY <1>13, <2>1, HalfWayAt
<1>16. CompareToCol(a)
    BY <1>7, <1>14, <1>15 DEF CompareToCol
<1> QED BY <1>11, <1>12, <1>14, <1>16

(***************************************************************************)
(* No alignment of the first i rows with the first j columns is cheaper    *)
(* than the matrix says: its last pair, or a token without one, is a step  *)
(* to a cell that is nearer to the first.                                  *)
(***************************************************************************)
Aligned(m, p) ==
    /\ m \subseteq (1 .. p[1]) \X (1 .. p[2])
    /\ \A q, r \in m : q[1] < r[1] <=> q[2] < r[2]
Differing(m) == {q \in m : rows[q[1]] # cols[q[2]]}
Paid(m, opt, p) ==
    (p[1] - Cardinality(m)) * 1 + (p[2] - Cardinality(m)) * 1 + Cardinality(Differing(m)) * opt.SubCost
Bounds(mx, opt, p) == \A m : Aligned(m, p) => MxAt(mx, p[1], p[2]) <= Paid(m, opt, p)

LEMMA AlignedFinite ==
    ASSUME NEW tokens, Compared(tokens), NEW p \in Cells, NEW m, Aligned(m, p)
    PROVE  /\ IsFiniteSet(m) /\ Cardinality(m) \in Nat
           /\ IsFiniteSet(Differing(m)) /\ Cardinality(Differing(m)) \in Nat
<1>1. p[1] \in Int /\ p[2] \in Int
    BY DEF Cells
<1>2. IsFiniteSet(1 .. p[1]) /\ IsFiniteSet(1 .. p[2])
    BY <1>1, FS_Interval
<1>3. IsFiniteSet((1 .. p[1]) \X (1 .. p[2]))
    BY <1>2, FS_Product
<1>4. IsFiniteSet(m)
    BY <1>3, FS_Subset DEF Aligned
<1>5. Differing(m) \subseteq m
    BY DEF Differing
<1>6. IsFiniteSet(Differing(m))
    BY <1>4, <1>5, FS_Subset
<1> QED BY <1>4, <1>6, FS_CardinalityType

\* Without a pair for the last row, or the last column, that token is deleted, or inserted.
LEMMA UnpairedPaid ==
    ASSUME NEW opt, Priced(opt), NEW tokens, Compared(tokens), NEW mx, NEW p \in Cells, NEW q \in Cells,
           NEW m, Aligned(m, q), Bounds(mx, opt, q),
           p[1] + p[2] = q[1] + q[2] + 1, MxAt(mx, q[1], q[2]) \in Int,
           MxAt(mx, p[1], p[2]) \in Int, MxAt(mx, p[1], p[2]) <= MxAt(mx, q[1], q[2]) + 1
    PROVE  MxAt(mx, p[1], p[2]) <= Paid(m, opt, p)
<1>1. PICK c, d, s, x, y : /\ c = Cardinality(m) /\ d = Cardinality(Differing(m)) /\ s = opt.SubCost
                           /\ x = MxAt(mx, p[1], p[2]) /\ y = MxAt(mx, q[1], q[2])
    OBVIOUS
<1>2. c \in Nat /\ d \in Nat /\ s \in Nat
    BY <1>1, AlignedFinite DEF Priced
<1>3. d * s \in Int
    BY <1>2
<1>4. PICK i, j, a, b : i = p[1] /\ j = p[2] /\ a = q[1] /\ b = q[2]
    OBVIOUS
<1>5. i \in Int /\ j \in Int /\ a \in Int /\ b \in Int
    BY <1>4 DEF Cells
<1>6. y <= (a - c) * 1 + (b - c) * 1 + d * s
    BY <1>1, <1>4 DEF Bounds, Paid
<1>7. Paid(m, opt, p) = (i - c) * 1 + (j - c) * 1 + d * s
    BY <1>1, <1>4 DEF Paid
<1>8. i + j = a + b + 1 /\ x \in Int /\ y \in Int /\ x <= y + 1
    BY <1>1, <1>4
<1>9. x <= (i - c) * 1 + (j - c) * 1 + d * s
    BY <1>2, <1>3, <1>5, <1>6, <1>8
<1> QED BY <1>1, <1>7, <1>9

LEMMA PairedPaid ==
    ASSUME NEW opt, Priced(opt), NEW tokens, Compared(tokens), NEW mx, NEW p \in Cells, NEW q \in Cells,
           p[1] > 0, p[2] > 0, q[1] = p[1] - 1, q[2] = p[2] - 1,
           NEW m, Aligned(m, p), <<p[1], p[2]>> \in m, Bounds(mx, opt, q),
           MxAt(mx, q[1], q[2]) \in Int, MxAt(mx, p[1], p[2]) \in Int,
           MxAt(mx, p[1], p[2]) <= MxAt(mx, q[1], q[2]) + Border(p[1], p[2], opt)
    PROVE  MxAt(mx, p[1], p[2]) <= Paid(m, opt, p)
<1>1. PICK i, j, l : i = p[1] /\ j = p[2] /\ l = <<i, j>>
    OBVIOUS
<1>2. i \in Nat \ {0} /\ j \in Nat \ {0} /\ l \in m /\ l[1] = i /\ l[2] = j
    BY <1>1 DEF Cells
<1>3. PICK n : n = m \ {l}
    OBVIOUS
<1>4. \A r \in m : r = <<r[1], r[2]>> /\ r[1] \in 1 .. i /\ r[2] \in 1 .. j
    BY <1>1 DEF Aligned
<1>5. \A r \in n : r[1] < i /\ r[2] < j
    <2> SUFFICES ASSUME NEW r \in n PROVE r[1] < i /\ r[2] < j
        OBVIOUS
    <2>1. r \in m /\ r # l
        BY <1>3
    <2>2. r[1] \in 1 .. i /\ r[2] \in 1 .. j /\ r = <<r[1], r[2]>>
        BY <1>4, <2>1
    <2>3. (r[1] < l[1] <=> r[2] < l[2]) /\ (l[1] < r[1] <=> l[2] < r[2])
        BY <1>2, <2>1 DEF Aligned
    <2>4. ~(r[1] = i /\ r[2] = j)
        BY <1>1, <2>1, <2>2
    <2> QED BY <1>2, <2>2, <2>3, <2>4
<1>6. Aligned(n, q)
    <2>1. n \subseteq (1 .. q[1]) \X (1 .. q[2])
        <3> SUFFICES ASSUME NEW r \in n PROVE r \in (1 .. q[1]) \X (1 .. q[2])
            OBVIOUS
        <3>1. r = <<r[1], r[2]>> /\ r[1] \in 1 .. i /\ r[2] \in 1 .. j
            BY <1>3, <1>4
        <3>2. r[1] \in 1 .. q[1] /\ r[2] \in 1 .. q[2]
            BY <1>1, <1>2, <1>5, <3>1
        <3> QED BY <3>1, <3>2
    <2>2. \A r, t \in n : r[1] < t[1] <=> r[2] < t[2]
        BY <1>3 DEF Aligned
    <2> QED BY <2>1, <2>2 DEF Aligned
<1>7. PICK c, d, s, e : /\ c = Cardinality(m) /\ d = Cardinality(Differing(m)) /\ s = opt.SubCost
                        /\ e = Cardinality(Differing(n))
    OBVIOUS
<1>8. c \in Nat /\ d \in Nat /\ e \in Nat /\ s \in Nat /\ IsFiniteSet(m) /\ IsFiniteSet(Differing(n))
    BY <1>6, <1>7, AlignedFinite DEF Priced
<1>9. Cardinality(n) = c - 1
    BY <1>2, <1>3, <1>7, <1>8, FS_RemoveElement
<1>10. d * s = e * s + Border(i, j, opt) /\ Border(i, j, opt) \in Int
    <2>1. CASE rows[i] = cols[j]
        <3>1. Differing(m) = Differing(n)
            BY <1>2, <1>3, <2>1 DEF Differing
        <3> QED BY <1>7, <1>8, <2>1, <3>1 DEF Border
    <2>2. CASE rows[i] # cols[j]
        <3>1. Differing(m) = Differing(n) \cup {l}
            BY <1>2, <1>3, <2>2 DEF Differing
        <3>2. l \notin Differing(n)
            BY <1>3 DEF Differing
        <3>3. d = e + 1
            BY <1>7, <1>8, <3>1, <3>2, FS_AddElement
        <3>4. (e + 1) * s = e * s + s
            BY <1>8
        <3>5. Border(i, j, opt) = s
            BY <1>7, <2>2 DEF Border
        <3> QED BY <1>8, <3>3, <3>4, <3>5
    <2> QED BY <2>1, <2>2
<1>11. PICK x, y, b : x = MxAt(mx, p[1], p[2]) /\ y = MxAt(mx, q[1], q[2]) /\ b = Border(i, j, opt)
    OBVIOUS
<1>12. y <= ((i - 1) - (c - 1)) * 1 + ((j - 1) - (c - 1)) * 1 + e * s
    BY <1>1, <1>6, <1>7, <1>9, <1>11 DEF Bounds, Paid
<1>13. Paid(m, opt, p) = (i - c) * 1 + (j - c) * 1 + d * s
    BY <1>1, <1>7 DEF Paid
<1>14. x \in Int /\ y \in Int /\ b \in Int /\ x <= y + b /\ d * s = e * s + b
    BY <1>1, <1>10, <1>11
<1>15. e * s \in Int
    BY <1>8
<1>16. x <= (i - c) * 1 + (j - c) * 1 + d * s
    BY <1>2, <1>8, <1>12, <1>14, <1>15
<1> QED BY <1>11, <1>13, <1>16

LEMMA NearerBounds ==
    ASSUME NEW opt, Priced(opt), NEW tokens, Compared(tokens), NEW mx, Solved(mx, opt), NEW p \in Cells,
           \A q \in Cells : Rank(q) < Rank(p) => Bounds(mx, opt, q)
    PROVE  Bounds(mx, opt, p)
<1>1. SUFFICES ASSUME NEW m, Aligned(m, p) PROVE MxAt(mx, p[1], p[2]) <= Paid(m, opt, p)
    BY DEF Bounds
<1>2. PICK i, j, I, J : i = p[1] /\ j = p[2] /\ I = Len(rows) /\ J = Len(cols)
    OBVIOUS
<1>3. I \in Nat /\ J \in Nat /\ i \in 0 .. I /\ j \in 0 .. J
    BY <1>2 DEF Cells, Compared
<1>4. \A a \in 0 .. I, b \in 0 .. J : MxAt(mx, a, b) \in Int
    BY <1>2 DEF Solved
<1>5. \A r \in m : r = <<r[1], r[2]>> /\ r[1] \in 1 .. i /\ r[2] \in 1 .. j
    <2>1. m \subseteq (1 .. i) \X (1 .. j)
        BY <1>1, <1>2 DEF Aligned
    <2> QED BY <2>1
<1>6. CASE i = 0 \/ j = 0
    <2>1. m = {}
        <3>1. \A r \in m : r[1] \in 1 .. i /\ r[2] \in 1 .. j
            BY <1>5
        <3>2. 1 .. i = {} \/ 1 .. j = {}
            BY <1>6
        <3> QED BY <3>1, <3>2
    <2>2. Differing(m) = {}
        BY <2>1 DEF Differing
    <2>3. Cardinality(m) = 0 /\ Cardinality(Differing(m)) = 0
        BY <2>1, <2>2, FS_EmptySet
    <2>4. Paid(m, opt, p) = (i - 0) * 1 + (j - 0) * 1 + 0 * opt.SubCost
        BY <1>2, <2>3 DEF Paid
    <2>5. opt.SubCost \in Int
        BY DEF Priced
    <2>6. MxAt(mx, i, j) = i + j
        BY <1>2, <1>3, <1>6 DEF Solved
    <2> QED BY <1>2, <1>3, <2>4, <2>5, <2>6
<1>7. CASE i > 0 /\ j > 0
    <2>1. PICK u, l, g, b : /\ u = MxAt(mx, i - 1, j) /\ l = MxAt(mx, i, j - 1)
                            /\ g = MxAt(mx, i - 1, j - 1) /\ b = Border(i, j, opt)
        OBVIOUS
    <2>2. i - 1 \in 0 .. I /\ j - 1 \in 0 .. J /\ i \in 1 .. I /\ j \in 1 .. J
        BY <1>3, <1>7
    <2>3. u \in Int /\ l \in Int /\ g \in Int /\ b \in Int
        <3>1. b \in Int
            BY <2>1 DEF Border, Priced
        <3> QED BY <1>3, <1>4, <2>1, <2>2, <3>1
    <2>4. PICK x : x = MxAt(mx, i, j)
        OBVIOUS
    <2>5. x = Least(u + 1, Least(g + b, l + 1))
        BY <1>2, <2>1, <2>2, <2>4 DEF Solved
    <2>6. x \in Int /\ x <= u + 1 /\ x <= g + b /\ x <= l + 1
        <3>1. u + 1 \in Int /\ g + b \in Int /\ l + 1 \in Int
            BY <2>3
        <3>2. PICK y : y = Least(g + b, l + 1)
            OBVIOUS
        <3>3. y \in Int /\ y <= g + b /\ y <= l + 1
            BY <3>1, <3>2, LeastOfTwo
        <3>4. x \in Int /\ x <= u + 1 /\ x <= y
            BY <2>5, <3>1, <3>2, <3>3, LeastOfTwo
        <3> QED BY <3>1, <3>3, <3>4
    <2>7. CASE \A r \in m : r[1] # i
        <3>1. PICK q : q = <<i - 1, j>>
            OBVIOUS
        <3>2. q \in Cells /\ q[1] = i - 1 /\ q[2] = j
            BY <1>2, <1>3, <2>2, <3>1 DEF Cells
        <3>3. Rank(q) < Rank(p) /\ p[1] + p[2] = q[1] + q[2] + 1
            BY <1>2, <1>3, <3>2 DEF Rank
        <3>4. m \subseteq (1 .. q[1]) \X (1 .. q[2])
            <4> SUFFICES ASSUME NEW r \in m PROVE r \in (1 .. q[1]) \X (1 .. q[2])
                OBVIOUS
            <4>1. r[1] \in 1 .. q[1] /\ r[2] \in 1 .. q[2] /\ r = <<r[1], r[2]>>
                BY <1>3, <1>5, <2>7, <3>2
            <4> QED BY <4>1
        <3>5. Aligned(m, q)
            BY <1>1, <3>4 DEF Aligned
        <3>6. Bounds(mx, opt, q)
            BY <3>2, <3>3
        <3>7. /\ MxAt(mx, q[1], q[2]) \in Int /\ MxAt(mx, p[1], p[2]) \in Int
              /\ MxAt(mx, p[1], p[2]) <= MxAt(mx, q[1], q[2]) + 1
            BY <1>2, <2>1, <2>3, <2>4, <2>6, <3>2
        <3> QED BY <3>2, <3>3, <3>5, <3>6, <3>7, UnpairedPaid
    <2>8. CASE \A r \in m : r[2] # j
        <3>1. PICK q : q = <<i, j - 1>>
            OBVIOUS
        <3>2. q \in Cells /\ q[1] = i /\ q[2] = j - 1
            BY <1>2, <1>3, <2>2, <3>1 DEF Cells
        <3>3. Rank(q) < Rank(p) /\ p[1] + p[2] = q[1] + q[2] + 1
            BY <1>2, <1>3, <3>2 DEF Rank
        <3>4. m \subseteq (1 .. q[1]) \X (1 .. q[2])
            <4> SUFFICES ASSUME NEW r \in m PROVE r \in (1 .. q[1]) \X (1 .. q[2])
                OBVIOUS
            <4>1. r[1] \in 1 .. q[1] /\ r[2] \in 1 .. q[2] /\ r = <<r[1], r[2]>>
                BY <1>3, <1>5, <2>8, <3>2
            <4> QED BY <4>1
        <3>5. Aligned(m, q)
            BY <1>1, <3>4 DEF Aligned
        <3>6. Bounds(mx, opt, q)
            BY <3>2, <3>3
        <3>7. /\ MxAt(mx, q[1], q[2]) \in Int /\ MxAt(mx, p[1], p[2]) \in Int
              /\ MxAt(mx, p[1], p[2]) <= MxAt(mx, q[1], q[2]) + 1
            BY <1>2, <2>1, <2>3, <2>4, <2>6, <3>2
        <3> QED BY <3>2, <3>3, <3>5, <3>6, <3>7, UnpairedPaid
    <2>9. ASSUME NEW r \in m, NEW t \in m, r[1] = i, t[2] = j
           PROVE  MxAt(mx, p[1], p[2]) <= Paid(m, opt, p)
        <3>1. r[2] \in 1 .. j /\ t[1] \in 1 .. i
            BY <1>5
        <3>2. r[1] < t[1] <=> r[2] < t[2]
            BY <1>1 DEF Aligned
        <3>3. r[2] = j
            BY <1>3, <2>9, <3>1, <3>2
        <3>4. <<p[1], p[2]>> \in m
            BY <1>2, <1>5, <2>9, <3>3
        <3>5. PICK q : q = <<i - 1, j - 1>>
            OBVIOUS
        <3>6. q \in Cells /\ q[1] = p[1] - 1 /\ q[2] = p[2] - 1
            BY <1>2, <1>3, <2>2, <3>5 DEF Cells
        <3>7. Rank(q) < Rank(p)
            BY <1>2, <1>3, <3>6 DEF Rank
        <3>8. Bounds(mx, opt, q)
            BY <3>6, <3>7
        <3>9. /\ MxAt(mx, q[1], q[2]) \in Int /\ MxAt(mx, p[1], p[2]) \in Int
              /\ MxAt(mx, p[1], p[2]) <= MxAt(mx, q[1], q[2]) + Border(p[1], p[2], opt)
            BY <1>2, <2>1, <2>3, <2>4, <2>6, <3>6
        <3> QED BY <1>1, <1>2, <1>7, <3>4, <3>6, <3>8, <3>9, PairedPaid
    <2> QED BY <2>7, <2>8, <2>9
<1> QED BY <1>3, <1>6, <1>7

LEMMA AllBounded ==
    ASSUME NEW opt, Priced(opt), NEW tokens, Compared(tokens), NEW mx, Solved(mx, opt), NEW p \in Cells
    PROVE  Bounds(mx, opt, p)
<1> DEFINE T == {n \in Nat : \E q \in Cells : Rank(q) = n /\ ~Bounds(mx, opt, q)}
<1>1. \A q \in Cells : Rank(q) \in Nat
    BY DEF Cells, Rank
<1>2. SUFFICES ASSUME T # {} PROVE FALSE
    BY <1>1
<1>3. PICK n \in T : \A m \in T : n <= m
    <2>1. T \in SUBSET Nat
        OBVIOUS
    <2> HIDE DEF T
    <2> QED BY <1>2, <2>1, LeastPlace
<1>4. PICK q \in Cells : Rank(q) = n /\ ~Bounds(mx, opt, q)
    BY <1>3
<1>5. ASSUME NEW b \in Cells, Rank(b) < Rank(q) PROVE Bounds(mx, opt, b)
    <2>1. Rank(b) \in Nat /\ ~(n <= Rank(b))
        BY <1>1, <1>3, <1>4, <1>5
    <2>2. Rank(b) \notin T
        <3> HIDE DEF T
        <3> QED BY <1>3, <2>1
    <2> QED BY <2>1, <2>2
<1> QED BY <1>4, <1>5, NearerBounds

LEMMA NoneCheaper ==
    ASSUME NEW tokens, rows \in Seq(tokens), cols \in Seq(tokens) PROVE DistanceIsLeast
<1>1. Compared(tokens)
    BY DEF Compared
<1>2. SUFFICES ASSUME NEW opt \in UsedOptions, NEW m \in Alignments
      PROVE  Distance(opt).abs <= AlignedCost(m, opt)
    BY DEF DistanceIsLeast
<1>3. Priced(opt)
    BY OptionsPriced
<1>4. PICK mx, p : mx = New(opt) /\ p = <<Len(rows), Len(cols)>>
    OBVIOUS
<1>5. Solved(mx, opt)
    BY <1>1, <1>3, <1>4, MatrixSolved
<1>6. Len(rows) \in Nat /\ Len(cols) \in Nat
    OBVIOUS
<1>7. p \in Cells /\ p[1] = Len(rows) /\ p[2] = Len(cols)
    BY <1>4, <1>6 DEF Cells
<1>8. Bounds(mx, opt, p)
    BY <1>1, <1>3, <1>5, <1>7, AllBounded
<1>9. Aligned(m, p)
    BY <1>7 DEF Alignments, Aligned
<1>10. MxAt(mx, Len(rows), Len(cols)) <= Paid(m, opt, p)
    BY <1>7, <1>8, <1>9 DEF Bounds
<1>11. Distance(opt).abs = MxAt(mx, Len(rows), Len(cols))
    BY <1>4 DEF Distance, MxAt
<1>12. opt.DelCost = 1 /\ opt.InsCost = 1
    BY <1>3 DEF Priced
<1>13. AlignedCost(m, opt) = Paid(m, opt, p)
    BY <1>7, <1>12 DEF AlignedCost, Paid, Differing
<1> QED BY <1>10, <1>11, <1>13

(***************************************************************************)
(* For any two slices, of any tokens: the edit script leads from the rows  *)
(* to the columns, and no way of pairing their tokens in order is cheaper; *)
(* it is optimal, as the comment of EditScript says (levenshtein.go:143).  *)
(***************************************************************************)
THEOREM ScriptsAreOptimal ==
    ASSUME NEW tokens, rows \in Seq(tokens), cols \in Seq(tokens) PROVE OptimalScripts
BY ScriptsAreRight, NoneCheaper DEF OptimalScripts
-----------------------------------------------------------------------------
(***************************************************************************)
(* The tree of package omap.  Its operations are recursive functions of    *)
(* subtrees, and not all calls are on children: a rotation comes between.  *)
(*                                                                         *)
(* A recursive function exists if its body looks at nearer places only.    *)
(* B[<<f, n>>] is the body at n, with f for the function.                  *)
(***************************************************************************)
Nearer(D, rank, n) == {m \in D : rank[m] < rank[n]}
LooksNearer(D, V, rank, B) ==
    \A f, g \in [D -> V], n \in D :
        (\A m \in Nearer(D, rank, n) : f[m] = g[m]) => B[<<f, n>>] = B[<<g, n>>]
Solves(f, D, V, B) == f \in [D -> V] /\ \A n \in D : f[n] = B[<<f, n>>]
RightBelow(f, D, V, rank, B, d) ==
    f \in [D -> V] /\ \A n \in D : rank[n] < d => f[n] = B[<<f, n>>]

AgreeBelow(f, g, D, rank, d, e) == \A n \in D : rank[n] < d /\ rank[n] < e => f[n] = g[n]

LEMMA RightSome ==
    ASSUME NEW D, NEW V, V # {}, NEW rank \in [D -> Nat], NEW B \in [[D -> V] \X D -> V],
           LooksNearer(D, V, rank, B)
    PROVE  \A d \in Nat : \E f : RightBelow(f, D, V, rank, B, d)
<1> DEFINE T == {d \in Nat : ~\E f : RightBelow(f, D, V, rank, B, d)}
<1>1. SUFFICES ASSUME T # {} PROVE FALSE
    OBVIOUS
<1>2. PICK d \in T : \A e \in T : d <= e
    <2>1. T \in SUBSET Nat
        OBVIOUS
    <2> HIDE DEF T
    <2> QED BY <1>1, <2>1, LeastPlace
<1>3. d # 0
    <2>1. PICK v : v \in V
        OBVIOUS
    <2>2. [n \in D |-> v] \in [D -> V]
        BY <2>1
    <2>3. \A n \in D : ~(rank[n] < 0)
        OBVIOUS
    <2>4. RightBelow([n \in D |-> v], D, V, rank, B, 0)
        BY <2>2, <2>3 DEF RightBelow
    <2> QED BY <2>4
<1>4. d \in Nat /\ d - 1 \in Nat /\ d - 1 \notin T
    BY <1>2, <1>3
<1>5. PICK f : RightBelow(f, D, V, rank, B, d - 1)
    BY <1>4
<1>6. f \in [D -> V] /\ \A n \in D : rank[n] < d - 1 => f[n] = B[<<f, n>>]
    BY <1>5 DEF RightBelow
<1>7. PICK g : g = [n \in D |-> B[<<f, n>>]]
    OBVIOUS
<1>8. \A n \in D : B[<<f, n>>] \in V
    BY <1>6
<1>9. g \in [D -> V]
    BY <1>7, <1>8
<1>10. ASSUME NEW n \in D, rank[n] < d PROVE g[n] = B[<<g, n>>]
    <2>1. ASSUME NEW m \in Nearer(D, rank, n) PROVE f[m] = g[m]
        <3>1. m \in D /\ rank[m] < rank[n]
            BY <2>1 DEF Nearer
        <3>2. rank[m] \in Nat /\ rank[n] \in Nat
            BY <3>1
        <3>3. rank[m] < d - 1
            BY <1>4, <1>10, <3>1, <3>2
        <3> QED BY <1>6, <1>7, <3>1, <3>3
    <2>2. B[<<f, n>>] = B[<<g, n>>]
        BY <1>6, <1>9, <2>1 DEF LooksNearer
    <2> QED BY <1>7, <2>2
<1>11. RightBelow(g, D, V, rank, B, d)
    BY <1>9, <1>10 DEF RightBelow
<1> QED BY <1>2, <1>11

LEMMA RightAgree ==
    ASSUME NEW D, NEW V, NEW rank \in [D -> Nat], NEW B \in [[D -> V] \X D -> V],
           LooksNearer(D, V, rank, B)
    PROVE  \A f, g : \A d, e \in Nat :
               RightBelow(f, D, V, rank, B, d) /\ RightBelow(g, D, V, rank, B, e) => AgreeBelow(f, g, D, rank, d, e)
<1> SUFFICES ASSUME NEW f, NEW g, NEW d \in Nat, NEW e \in Nat,
                    RightBelow(f, D, V, rank, B, d), RightBelow(g, D, V, rank, B, e)
             PROVE  \A n \in D : rank[n] < d /\ rank[n] < e => f[n] = g[n]
    BY DEF AgreeBelow
<1> DEFINE T == {r \in Nat : \E n \in D : rank[n] = r /\ r < d /\ r < e /\ f[n] # g[n]}
<1>1. SUFFICES ASSUME T # {} PROVE FALSE
    OBVIOUS
<1>2. PICK r \in T : \A q \in T : r <= q
    <2>1. T \in SUBSET Nat
        OBVIOUS
    <2> HIDE DEF T
    <2> QED BY <1>1, <2>1, LeastPlace
<1>3. PICK n \in D : rank[n] = r /\ r < d /\ r < e /\ f[n] # g[n]
    BY <1>2
<1>4. f \in [D -> V] /\ g \in [D -> V] /\ f[n] = B[<<f, n>>] /\ g[n] = B[<<g, n>>]
    BY <1>3 DEF RightBelow
<1>5. ASSUME NEW m \in Nearer(D, rank, n) PROVE f[m] = g[m]
    <2>1. m \in D /\ rank[m] < r
        BY <1>3 DEF Nearer
    <2>2. rank[m] \in Nat /\ r \in Nat
        BY <1>2, <2>1
    <2>3. rank[m] \notin T
        <3>1. ~(r <= rank[m])
            BY <2>1, <2>2
        <3> HIDE DEF T
        <3> QED BY <1>2, <3>1
    <2> QED BY <1>3, <2>1, <2>2, <2>3
<1> QED BY <1>3, <1>4, <1>5 DEF LooksNearer

LEMMA RecursionExists ==
    ASSUME NEW D, NEW V, V # {}, NEW rank \in [D -> Nat], NEW B \in [[D -> V] \X D -> V],
           LooksNearer(D, V, rank, B)
    PROVE  \E f : Solves(f, D, V, B)
<1> DEFINE G(n) == CHOOSE g : RightBelow(g, D, V, rank, B, rank[n] + 1)
<1>1. ASSUME NEW n \in D PROVE RightBelow(G(n), D, V, rank, B, rank[n] + 1)
    <2>1. rank[n] + 1 \in Nat
        OBVIOUS
    <2>2. \E g : RightBelow(g, D, V, rank, B, rank[n] + 1)
        BY <2>1, RightSome
    <2> QED BY <2>2
<1> HIDE DEF G
<1>2. PICK f : f = [n \in D |-> G(n)[n]]
    OBVIOUS
<1>3. \A n \in D : G(n) \in [D -> V]
    BY <1>1 DEF RightBelow
<1>4. f \in [D -> V]
    BY <1>2, <1>3
<1>5. \A g, h : \A d, e \in Nat :
          RightBelow(g, D, V, rank, B, d) /\ RightBelow(h, D, V, rank, B, e) => AgreeBelow(g, h, D, rank, d, e)
    BY RightAgree
<1>6. ASSUME NEW n \in D PROVE f[n] = B[<<f, n>>]
    <2>1. G(n)[n] = B[<<G(n), n>>]
        <3>1. rank[n] < rank[n] + 1
            OBVIOUS
        <3> QED BY <1>1, <3>1 DEF RightBelow
    <2>2. ASSUME NEW m \in Nearer(D, rank, n) PROVE f[m] = G(n)[m]
        <3>1. m \in D /\ rank[m] < rank[n]
            BY DEF Nearer
        <3>2. rank[m] \in Nat /\ rank[n] \in Nat
            BY <3>1
        <3>3. rank[m] < rank[m] + 1 /\ rank[m] < rank[n] + 1 /\ rank[m] + 1 \in Nat /\ rank[n] + 1 \in Nat
            BY <3>1, <3>2
        <3>4. RightBelow(G(m), D, V, rank, B, rank[m] + 1) /\ RightBelow(G(n), D, V, rank, B, rank[n] + 1)
            BY <1>1, <3>1
        <3>5. PICK g, h, d, e : g = G(m) /\ h = G(n) /\ d = rank[m] + 1 /\ e = rank[n] + 1
            OBVIOUS
        <3>6. RightBelow(g, D, V, rank, B, d) /\ RightBelow(h, D, V, rank, B, e) /\ d \in Nat /\ e \in Nat
            BY <3>3, <3>4, <3>5
        <3>7. AgreeBelow(g, h, D, rank, d, e)
            BY <1>5, <3>6
        <3>8. g[m] = h[m]
            BY <3>1, <3>3, <3>5, <3>7 DEF AgreeBelow
        <3> QED BY <1>2, <3>1, <3>5, <3>8
    <2>3. B[<<f, n>>] = B[<<G(n), n>>]
        BY <1>3, <1>4, <2>2 DEF LooksNearer
    <2> QED BY <1>2, <2>1, <2>3
<1> QED BY <1>4, <1>6 DEF Solves

(***************************************************************************)
(* Trees, of any number of levels; each operation changes one node after   *)
(* the other, and a changed node is again a node.                          *)
(***************************************************************************)
\* The trees whose subtrees are in S.
Level(S) == {Nil} \union [key : Keys, value : Values, red : BOOLEAN, left : S, right : S]
Levels(f, n) == f = [h \in 0 .. n |-> IF h = 0 THEN {Nil} ELSE Level(f[h - 1])]

LEMMA LevelsSome == \A n \in Nat : \E f : Levels(f, n)
<1> DEFINE T == {n \in Nat : ~\E f : Levels(f, n)}
<1>1. SUFFICES ASSUME T # {} PROVE FALSE
    OBVIOUS
<1>2. PICK n \in T : \A m \in T : n <= m
    <2>1. T \in SUBSET Nat
        OBVIOUS
    <2> HIDE DEF T
    <2> QED BY <1>1, <2>1, LeastPlace
<1>3. n # 0
    <2>1. PICK f : f = [h \in 0 .. 0 |-> {Nil}]
        OBVIOUS
    <2>2. \A h \in 0 .. 0 : h = 0
        OBVIOUS
    <2>3. Levels(f, 0)
        BY <2>1, <2>2 DEF Levels
    <2> QED BY <2>3
<1>4. n \in Nat /\ n - 1 \in Nat /\ n - 1 \notin T
    BY <1>2, <1>3
<1>5. PICK f : Levels(f, n - 1)
    BY <1>4
<1>6. PICK g : g = [h \in 0 .. n |-> IF h = n THEN Level(f[n - 1]) ELSE f[h]]
    OBVIOUS
<1>7. ASSUME NEW h \in 0 .. n PROVE g[h] = IF h = 0 THEN {Nil} ELSE Level(g[h - 1])
    <2>1. CASE h = 0
        <3>1. f[0] = {Nil}
            BY <1>4, <1>5 DEF Levels
        <3> QED BY <1>3, <1>6, <2>1, <3>1
    <2>2. CASE h = n
        <3>1. n - 1 \in 0 .. n /\ n - 1 # n
            BY <1>4
        <3> QED BY <1>3, <1>6, <2>2, <3>1
    <2>3. CASE h # 0 /\ h # n
        <3>1. h \in 0 .. n - 1 /\ h - 1 \in 0 .. n /\ h - 1 # n
            BY <1>4, <2>3
        <3>2. f[h] = Level(f[h - 1])
            BY <1>5, <2>3, <3>1 DEF Levels
        <3> QED BY <1>6, <2>3, <3>1, <3>2
    <2> QED BY <2>1, <2>2, <2>3
<1>8. g = [h \in 0 .. n |-> g[h]]
    BY <1>6
<1>9. Levels(g, n)
    BY <1>7, <1>8 DEF Levels
<1> QED BY <1>2, <1>9

LEMMA LevelsAgree ==
    ASSUME NEW f, NEW g, NEW m \in Nat, NEW n \in Nat, Levels(f, m), Levels(g, n)
    PROVE  \A h \in Nat : h <= m /\ h <= n => f[h] = g[h]
<1> DEFINE T == {h \in Nat : h <= m /\ h <= n /\ f[h] # g[h]}
<1>1. SUFFICES ASSUME T # {} PROVE FALSE
    OBVIOUS
<1>2. PICK h \in T : \A j \in T : h <= j
    <2>1. T \in SUBSET Nat
        OBVIOUS
    <2> HIDE DEF T
    <2> QED BY <1>1, <2>1, LeastPlace
<1>3. h \in 0 .. m /\ h \in 0 .. n /\ f[h] # g[h]
    BY <1>2
<1>4. f[h] = (IF h = 0 THEN {Nil} ELSE Level(f[h - 1])) /\ g[h] = (IF h = 0 THEN {Nil} ELSE Level(g[h - 1]))
    BY <1>3 DEF Levels
<1>5. h # 0
    BY <1>3, <1>4
<1>6. h - 1 \in Nat /\ h - 1 <= m /\ h - 1 <= n /\ h - 1 \notin T
    BY <1>2, <1>3, <1>5
<1>7. f[h - 1] = g[h - 1]
    BY <1>6
<1> QED BY <1>3, <1>4, <1>7

LEMMA TreesAre == Trees[0] = {Nil} /\ \A h \in Nat : Trees[h + 1] = Level(Trees[h])
<1> DEFINE G(n) == CHOOSE f : Levels(f, n)
<1>1. \A n \in Nat : Levels(G(n), n)
    BY LevelsSome
<1> HIDE DEF G
<1>2. PICK f : f = [h \in Nat |-> G(h)[h]]
    OBVIOUS
<1>3. f[0] = {Nil}
    <2>1. Levels(G(0), 0)
        BY <1>1
    <2>2. G(0)[0] = {Nil}
        BY <2>1 DEF Levels
    <2> QED BY <1>2, <2>2
<1>4. ASSUME NEW h \in Nat, h # 0 PROVE f[h] = Level(f[h - 1])
    <2>1. PICK a, b : a = G(h - 1) /\ b = G(h)
        OBVIOUS
    <2>2. h - 1 \in Nat /\ Levels(a, h - 1) /\ Levels(b, h)
        BY <1>1, <1>4, <2>1
    <2>3. b[h] = Level(b[h - 1])
        <3>1. h \in 0 .. h
            OBVIOUS
        <3> QED BY <1>4, <2>2, <3>1 DEF Levels
    <2>4. a[h - 1] = b[h - 1]
        BY <2>2, LevelsAgree
    <2> QED BY <1>2, <2>1, <2>2, <2>3, <2>4
<1>5. f = [h \in Nat |-> IF h = 0 THEN {Nil} ELSE Level(f[h - 1])]
    <2>1. PICK g : g = [h \in Nat |-> IF h = 0 THEN {Nil} ELSE Level(f[h - 1])]
        OBVIOUS
    <2>2. f = [h \in Nat |-> f[h]]
        BY <1>2
    <2>3. \A h \in Nat : f[h] = g[h]
        BY <1>3, <1>4, <2>1
    <2>4. f = g
        BY <2>1, <2>2, <2>3
    <2> QED BY <2>1, <2>4
<1> DEFINE AreTrees(t) == t = [h \in Nat |-> IF h = 0 THEN {Nil} ELSE Level(t[h - 1])]
<1>6. PICK t : t = CHOOSE u : AreTrees(u)
    OBVIOUS
<1>7. AreTrees(t)
    BY <1>5, <1>6
<1>8. Trees = t
    BY <1>6 DEF Trees, Level
<1>9. \A h \in Nat : t[h] = IF h = 0 THEN {Nil} ELSE Level(t[h - 1])
    BY <1>7
<1>10. t[0] = {Nil}
    BY <1>9
<1>11. ASSUME NEW h \in Nat PROVE t[h + 1] = Level(t[h])
    <2>1. h + 1 \in Nat /\ h + 1 # 0 /\ (h + 1) - 1 = h
        OBVIOUS
    <2>2. t[h + 1] = Level(t[(h + 1) - 1])
        BY <1>9, <2>1
    <2> QED BY <2>1, <2>2
<1> QED BY <1>8, <1>10, <1>11

AnyTree == UNION {Trees[h] : h \in Nat}
NodeOf(k, v, c, l, r) == [key |-> k, value |-> v, red |-> c, left |-> l, right |-> r]
IsNode(n) ==
    /\ n = NodeOf(n.key, n.value, n.red, n.left, n.right)
    /\ n \in AnyTree /\ n # Nil
    /\ n.key \in Keys /\ n.key \in Int /\ n.value \in Values /\ n.red \in BOOLEAN
    /\ n.left \in AnyTree /\ n.right \in AnyTree

LEMMA NilIsNoNode == \A k, v, c, l, r : NodeOf(k, v, c, l, r) # Nil
<1> SUFFICES ASSUME NEW k, NEW v, NEW c, NEW l, NEW r, NodeOf(k, v, c, l, r) = Nil PROVE FALSE
    OBVIOUS
<1>1. DOMAIN NodeOf(k, v, c, l, r) = {"key", "value", "red", "left", "right"}
    BY DEF NodeOf
<1>2. DOMAIN Nil = {}
    BY DEF Nil
<1> QED BY <1>1, <1>2

LEMMA LevelHolds ==
    ASSUME NEW S, NEW n \in Level(S), n # Nil
    PROVE  /\ n = NodeOf(n.key, n.value, n.red, n.left, n.right)
           /\ n.key \in Keys /\ n.value \in Values /\ n.red \in BOOLEAN /\ n.left \in S /\ n.right \in S
BY DEF Level, NodeOf

LEMMA LevelGrows == ASSUME NEW S, NEW R, S \subseteq R PROVE Level(S) \subseteq Level(R)
BY DEF Level

LEMMA TreesGrow == \A h \in Nat : Trees[h] \subseteq Trees[h + 1]
<1> DEFINE T == {h \in Nat : ~(Trees[h] \subseteq Trees[h + 1])}
<1>1. SUFFICES ASSUME T # {} PROVE FALSE
    OBVIOUS
<1>2. PICK h \in T : \A j \in T : h <= j
    <2>1. T \in SUBSET Nat
        OBVIOUS
    <2> HIDE DEF T
    <2> QED BY <1>1, <2>1, LeastPlace
<1>3. h \in Nat /\ ~(Trees[h] \subseteq Trees[h + 1])
    BY <1>2
<1>4. Trees[h + 1] = Level(Trees[h])
    BY <1>3, TreesAre
<1>5. h # 0
    <2>1. Nil \in Level(Trees[h])
        BY DEF Level
    <2> QED BY <1>3, <1>4, <2>1, TreesAre
<1>6. PICK j \in Nat : h = j + 1
    <2>1. h - 1 \in Nat /\ h = (h - 1) + 1
        BY <1>3, <1>5
    <2> QED BY <2>1
<1>7. j \notin T
    BY <1>2, <1>6
<1>8. Trees[j] \subseteq Trees[h]
    BY <1>6, <1>7
<1>9. Trees[h] = Level(Trees[j])
    BY <1>6, TreesAre
<1> QED BY <1>3, <1>4, <1>8, <1>9, LevelGrows

LEMMA TreesNested == \A h, j \in Nat : h <= j => Trees[h] \subseteq Trees[j]
<1> SUFFICES ASSUME NEW h \in Nat PROVE \A j \in Nat : h <= j => Trees[h] \subseteq Trees[j]
    OBVIOUS
<1> DEFINE T == {j \in Nat : h <= j /\ ~(Trees[h] \subseteq Trees[j])}
<1>1. SUFFICES ASSUME T # {} PROVE FALSE
    OBVIOUS
<1>2. PICK j \in T : \A i \in T : j <= i
    <2>1. T \in SUBSET Nat
        OBVIOUS
    <2> HIDE DEF T
    <2> QED BY <1>1, <2>1, LeastPlace
<1>3. j \in Nat /\ h <= j /\ h # j /\ ~(Trees[h] \subseteq Trees[j])
    BY <1>2
<1>4. j - 1 \in Nat /\ h <= j - 1 /\ (j - 1) + 1 = j /\ j - 1 \notin T
    BY <1>2, <1>3
<1>5. Trees[h] \subseteq Trees[j - 1]
    BY <1>4
<1>6. Trees[j - 1] \subseteq Trees[j]
    BY <1>4, TreesGrow
<1> QED BY <1>3, <1>5, <1>6

LEMMA NilInTrees == \A h \in Nat : Nil \in Trees[h]
BY TreesAre, TreesNested

LEMMA NodeAbove ==
    ASSUME NEW h \in Nat, NEW n \in Trees[h], n # Nil
    PROVE  h - 1 \in Nat /\ n \in Level(Trees[h - 1])
<1>1. h # 0
    BY TreesAre
<1>2. h - 1 \in Nat /\ (h - 1) + 1 = h
    BY <1>1
<1> QED BY <1>2, TreesAre

LEMMA NodeHolds == ASSUME NEW n \in AnyTree, n # Nil PROVE IsNode(n)
<1>1. PICK h \in Nat : n \in Trees[h]
    BY DEF AnyTree
<1>2. h - 1 \in Nat /\ n \in Level(Trees[h - 1])
    BY <1>1, NodeAbove
<1>3. /\ n = NodeOf(n.key, n.value, n.red, n.left, n.right)
      /\ n.key \in Keys /\ n.value \in Values /\ n.red \in BOOLEAN
      /\ n.left \in Trees[h - 1] /\ n.right \in Trees[h - 1]
    BY <1>2, LevelHolds
<1>4. n.left \in AnyTree /\ n.right \in AnyTree
    BY <1>2, <1>3 DEF AnyTree
<1>5. n.key \in Int
    BY <1>3, OMapAssumption DEF OMapAssumption
<1> QED BY <1>3, <1>4, <1>5 DEF IsNode

LEMMA NilIsTree == Nil \in AnyTree
BY NilInTrees DEF AnyTree

LEMMA NodeMade ==
    ASSUME NEW k \in Keys, NEW v \in Values, NEW c \in BOOLEAN, NEW l \in AnyTree, NEW r \in AnyTree,
           NEW n, n = NodeOf(k, v, c, l, r)
    PROVE  IsNode(n) /\ n.key = k /\ n.value = v /\ n.red = c /\ n.left = l /\ n.right = r
<1>1. PICK i \in Nat : l \in Trees[i]
    BY DEF AnyTree
<1>2. PICK j \in Nat : r \in Trees[j]
    BY DEF AnyTree
<1>3. PICK h \in Nat : i <= h /\ j <= h
    <2>1. i <= i + j /\ j <= i + j /\ i + j \in Nat
        OBVIOUS
    <2> QED BY <2>1
<1>4. l \in Trees[h] /\ r \in Trees[h]
    BY <1>1, <1>2, <1>3, TreesNested
<1>5. n \in Level(Trees[h])
    BY <1>4 DEF Level, NodeOf
<1>6. n \in Trees[h + 1]
    BY <1>5, TreesAre
<1>7. n \in AnyTree
    <2>1. h + 1 \in Nat
        OBVIOUS
    <2> QED BY <1>6, <2>1 DEF AnyTree
<1>8. n # Nil
    BY NilIsNoNode
<1>9. n.key = k /\ n.value = v /\ n.red = c /\ n.left = l /\ n.right = r
    BY DEF NodeOf
<1> QED BY <1>7, <1>8, <1>9, NodeHolds

Height == [n \in AnyTree |-> CHOOSE h \in Nat : n \in Trees[h] /\ \A j \in Nat : n \in Trees[j] => h <= j]

LEMMA HeightIs ==
    ASSUME NEW n \in AnyTree
    PROVE  Height[n] \in Nat /\ n \in Trees[Height[n]] /\ \A j \in Nat : n \in Trees[j] => Height[n] <= j
<1> DEFINE T == {h \in Nat : n \in Trees[h]}
<1>1. T # {}
    BY DEF AnyTree
<1>2. PICK h \in T : \A j \in T : h <= j
    <2>1. T \in SUBSET Nat
        OBVIOUS
    <2> HIDE DEF T
    <2> QED BY <1>1, <2>1, LeastPlace
<1>3. h \in Nat /\ n \in Trees[h] /\ \A j \in Nat : n \in Trees[j] => h <= j
    BY <1>2
<1> QED BY <1>3 DEF Height

LEMMA HeightTyped == Height \in [AnyTree -> Nat]
<1>1. \A n \in AnyTree : Height[n] \in Nat
    BY HeightIs
<1> QED BY <1>1 DEF Height

LEMMA HeightFalls == ASSUME NEW n, IsNode(n) PROVE Height[n.left] < Height[n] /\ Height[n.right] < Height[n]
<1>1. n \in AnyTree /\ n # Nil /\ n.left \in AnyTree /\ n.right \in AnyTree
    BY DEF IsNode
<1>2. PICK h : h = Height[n]
    OBVIOUS
<1>3. h \in Nat /\ n \in Trees[h]
    BY <1>1, <1>2, HeightIs
<1>4. h - 1 \in Nat /\ n \in Level(Trees[h - 1])
    BY <1>1, <1>3, NodeAbove
<1>5. n.left \in Trees[h - 1] /\ n.right \in Trees[h - 1]
    BY <1>1, <1>4, LevelHolds
<1>6. Height[n.left] <= h - 1 /\ Height[n.right] <= h - 1 /\ Height[n.left] \in Nat /\ Height[n.right] \in Nat
    BY <1>1, <1>4, <1>5, HeightIs
<1> QED BY <1>2, <1>3, <1>6

LEMMA RankInduction ==
    ASSUME NEW D, NEW rank \in [D -> Nat], NEW S,
           \A n \in D : (\A m \in Nearer(D, rank, n) : m \in S) => n \in S
    PROVE  \A n \in D : n \in S
<1> DEFINE T == {r \in Nat : \E n \in D : rank[n] = r /\ n \notin S}
<1>1. SUFFICES ASSUME T # {} PROVE FALSE
    OBVIOUS
<1>2. PICK r \in T : \A q \in T : r <= q
    <2>1. T \in SUBSET Nat
        OBVIOUS
    <2> HIDE DEF T
    <2> QED BY <1>1, <2>1, LeastPlace
<1>3. PICK n \in D : rank[n] = r /\ n \notin S
    BY <1>2
<1>4. ASSUME NEW m \in Nearer(D, rank, n) PROVE m \in S
    <2>1. m \in D /\ rank[m] \in Nat /\ rank[m] < r
        BY <1>3 DEF Nearer
    <2>2. ~(r <= rank[m])
        BY <1>3, <2>1
    <2>3. rank[m] \notin T
        <3> HIDE DEF T
        <3> QED BY <1>2, <2>2
    <2> QED BY <2>1, <2>3
<1> QED BY <1>3, <1>4

LEMMA ChildrenNearer ==
    ASSUME NEW n, IsNode(n) PROVE n.left \in Nearer(AnyTree, Height, n) /\ n.right \in Nearer(AnyTree, Height, n)
BY HeightFalls DEF Nearer, IsNode

LEMMA TreeInduction ==
    ASSUME NEW D \in SUBSET AnyTree, NEW S, \A n \in D : n # Nil => n.left \in D /\ n.right \in D,
           \A n \in D : (n = Nil \/ (IsNode(n) /\ n.left \in S /\ n.right \in S)) => n \in S
    PROVE  \A n \in D : n \in S
<1>1. PICK rank : rank = [n \in D |-> Height[n]]
    OBVIOUS
<1>2. rank \in [D -> Nat]
    BY <1>1, HeightTyped
<1>3. ASSUME NEW n \in D, \A m \in Nearer(D, rank, n) : m \in S PROVE n \in S
    <2>1. CASE n = Nil
        BY <2>1
    <2>2. CASE n # Nil
        <3>1. IsNode(n)
            BY <2>2, NodeHolds
        <3>2. n.left \in D /\ n.right \in D
            BY <2>2
        <3>3. rank[n.left] < rank[n] /\ rank[n.right] < rank[n]
            BY <1>1, <3>1, <3>2, HeightFalls
        <3>4. n.left \in Nearer(D, rank, n) /\ n.right \in Nearer(D, rank, n)
            BY <3>2, <3>3 DEF Nearer
        <3> QED BY <1>3, <3>1, <3>4
    <2> QED BY <2>1, <2>2
<1> QED BY <1>2, <1>3, RankInduction

LEMMA LevelWithin == \A h \in Nat : \A n \in Trees[h] : n # Nil => n.left \in Trees[h] /\ n.right \in Trees[h]
<1> SUFFICES ASSUME NEW h \in Nat, NEW n \in Trees[h], n # Nil PROVE n.left \in Trees[h] /\ n.right \in Trees[h]
    OBVIOUS
<1>1. h - 1 \in Nat /\ n \in Level(Trees[h - 1])
    BY NodeAbove
<1>2. n.left \in Trees[h - 1] /\ n.right \in Trees[h - 1]
    BY <1>1, LevelHolds
<1>3. Trees[h - 1] \subseteq Trees[h]
    BY <1>1, TreesNested
<1> QED BY <1>2, <1>3

(***************************************************************************)
(* What Do visits (omap.go:202): the pairs of a tree in a sequence.  It says*)
(* all there is to say about a tree but its shape: a rotation or a colour  *)
(* flip leaves it as it was.                                               *)
(***************************************************************************)
Entry == Keys \X Values
Visited(f, n) == IF n = Nil THEN <<>> ELSE f[n.left] \o <<<<n.key, n.value>>>> \o f[n.right]
IsVisit(f) == f \in [AnyTree -> Seq(Entry)] /\ \A n \in AnyTree : f[n] = Visited(f, n)
Visit == CHOOSE f : IsVisit(f)

LEMMA VisitedTyped == ASSUME NEW f \in [AnyTree -> Seq(Entry)], NEW n \in AnyTree PROVE Visited(f, n) \in Seq(Entry)
<1>1. CASE n = Nil
    BY <1>1 DEF Visited
<1>2. CASE n # Nil
    <2>1. IsNode(n)
        BY <1>2, NodeHolds
    <2>2. f[n.left] \in Seq(Entry) /\ f[n.right] \in Seq(Entry)
        BY <2>1 DEF IsNode
    <2>3. PICK e : e = <<n.key, n.value>>
        OBVIOUS
    <2>4. e \in Entry
        BY <2>1, <2>3 DEF IsNode, Entry
    <2>5. <<e>> \in Seq(Entry)
        BY <2>4
    <2>6. f[n.left] \o <<e>> \in Seq(Entry)
        BY <2>2, <2>5, ConcatProperties
    <2>7. f[n.left] \o <<e>> \o f[n.right] \in Seq(Entry)
        BY <2>2, <2>6, ConcatProperties
    <2> QED BY <1>2, <2>3, <2>7 DEF Visited
<1> QED BY <1>1, <1>2

LEMMA VisitIs == IsVisit(Visit)
<1>1. PICK D, V, B : /\ D = AnyTree /\ V = Seq(Entry)
                     /\ B = [x \in [D -> V] \X D |-> Visited(x[1], x[2])]
    OBVIOUS
<1>2. \A f \in [D -> V], n \in D : B[<<f, n>>] = Visited(f, n)
    BY <1>1
<1>3. B \in [[D -> V] \X D -> V]
    <2>1. \A x \in [D -> V] \X D : Visited(x[1], x[2]) \in V
        BY <1>1, VisitedTyped
    <2> QED BY <1>1, <2>1
<1>4. LooksNearer(D, V, Height, B)
    <2> SUFFICES ASSUME NEW f \in [D -> V], NEW g \in [D -> V], NEW n \in D,
                        \A m \in Nearer(D, Height, n) : f[m] = g[m]
                 PROVE  B[<<f, n>>] = B[<<g, n>>]
        BY DEF LooksNearer
    <2>1. Visited(f, n) = Visited(g, n)
        <3>1. CASE n = Nil
            BY <3>1 DEF Visited
        <3>2. CASE n # Nil
            <4>1. f[n.left] = g[n.left] /\ f[n.right] = g[n.right]
                BY <1>1, <3>2, NodeHolds, ChildrenNearer
            <4> QED BY <4>1 DEF Visited
        <3> QED BY <3>1, <3>2
    <2> QED BY <1>2, <2>1
<1>5. V # {}
    <2>1. <<>> \in Seq(Entry)
        OBVIOUS
    <2> QED BY <1>1, <2>1
<1>6. Height \in [D -> Nat]
    BY <1>1, HeightTyped
<1>7. PICK f : Solves(f, D, V, B)
    BY <1>3, <1>4, <1>5, <1>6, RecursionExists
<1>8. IsVisit(f)
    BY <1>1, <1>2, <1>7 DEF IsVisit, Solves
<1>9. PICK g : g = CHOOSE h : IsVisit(h)
    OBVIOUS
<1>10. IsVisit(g)
    BY <1>8, <1>9
<1> QED BY <1>9, <1>10 DEF Visit

Rising(s) == \A i, j \in 1 .. Len(s) : i < j => s[i][1] < s[j][1]
Has(s) == {s[i] : i \in 1 .. Len(s)}
Joined(l, e, r) == l \o <<e>> \o r
JoinedAt(s, l, e, r) ==
    /\ s \in Seq(Entry) /\ Len(s) = Len(l) + 1 + Len(r)
    /\ \A i \in 1 .. Len(l) : s[i] = l[i]
    /\ s[Len(l) + 1] = e
    /\ \A i \in 1 .. Len(r) : s[Len(l) + 1 + i] = r[i]

LEMMA JoinedIs ==
    ASSUME NEW l \in Seq(Entry), NEW r \in Seq(Entry), NEW e \in Entry
    PROVE  JoinedAt(Joined(l, e, r), l, e, r)
<1>1. PICK o, t, s : o = <<e>> /\ t = l \o o /\ s = t \o r
    OBVIOUS
<1>2. o \in Seq(Entry) /\ Len(o) = 1 /\ o[1] = e
    BY <1>1
<1>3. t \in Seq(Entry) /\ Len(t) = Len(l) + 1
    BY <1>1, <1>2, ConcatProperties
<1>4. \A i \in 1 .. Len(l) + 1 : t[i] = IF i <= Len(l) THEN l[i] ELSE o[i - Len(l)]
    BY <1>1, <1>2, ConcatProperties
<1>5. s \in Seq(Entry) /\ Len(s) = Len(t) + Len(r)
    BY <1>1, <1>3, ConcatProperties
<1>6. \A i \in 1 .. Len(t) + Len(r) : s[i] = IF i <= Len(t) THEN t[i] ELSE r[i - Len(t)]
    BY <1>1, <1>3, ConcatProperties
<1>7. PICK m, n : m = Len(l) /\ n = Len(r)
    OBVIOUS
<1>8. m \in Nat /\ n \in Nat
    BY <1>7
<1>9. ASSUME NEW i \in 1 .. m PROVE s[i] = l[i]
    <2>1. i \in 1 .. m + 1 /\ i <= m /\ i \in 1 .. (m + 1) + n /\ i <= m + 1
        BY <1>8
    <2> QED BY <1>3, <1>4, <1>6, <1>7, <2>1
<1>10. s[m + 1] = e
    <2>1. m + 1 \in 1 .. m + 1 /\ ~(m + 1 <= m) /\ m + 1 \in 1 .. (m + 1) + n /\ m + 1 <= m + 1 /\ (m + 1) - m = 1
        BY <1>8
    <2> QED BY <1>2, <1>3, <1>4, <1>6, <1>7, <2>1
<1>11. ASSUME NEW i \in 1 .. n PROVE s[m + 1 + i] = r[i]
    <2>1. m + 1 + i \in 1 .. (m + 1) + n /\ ~(m + 1 + i <= m + 1) /\ (m + 1 + i) - (m + 1) = i
        BY <1>8
    <2> QED BY <1>3, <1>6, <1>7, <2>1
<1> QED BY <1>1, <1>3, <1>5, <1>7, <1>9, <1>10, <1>11 DEF Joined, JoinedAt

HasAround(s, l, e, r) == Has(s) = Has(l) \union {e} \union Has(r)

LEMMA JoinedHas ==
    ASSUME NEW s, NEW l \in Seq(Entry), NEW r \in Seq(Entry), NEW e \in Entry, JoinedAt(s, l, e, r)
    PROVE  HasAround(s, l, e, r)
<1>1. PICK m, n : m = Len(l) /\ n = Len(r)
    OBVIOUS
<1>2. m \in Nat /\ n \in Nat /\ Len(s) = m + 1 + n
    BY <1>1 DEF JoinedAt
<1>3. ASSUME NEW x \in Has(s) PROVE x \in Has(l) \union {e} \union Has(r)
    <2>1. PICK i \in 1 .. m + 1 + n : x = s[i]
        BY <1>2 DEF Has
    <2>2. CASE i <= m
        BY <1>1, <1>2, <2>1, <2>2 DEF JoinedAt, Has
    <2>3. CASE i = m + 1
        BY <1>1, <2>1, <2>3 DEF JoinedAt
    <2>4. CASE i > m + 1
        <3>1. PICK j \in 1 .. n : i = m + 1 + j
            <4>1. i - (m + 1) \in 1 .. n /\ i = m + 1 + (i - (m + 1))
                BY <1>2, <2>4
            <4> QED BY <4>1
        <3> QED BY <1>1, <2>1, <3>1 DEF JoinedAt, Has
    <2> QED BY <1>2, <2>2, <2>3, <2>4
<1>4. ASSUME NEW x \in Has(l) PROVE x \in Has(s)
    <2>1. PICK i \in 1 .. m : x = l[i]
        BY <1>1 DEF Has
    <2>2. i \in 1 .. m + 1 + n
        BY <1>2
    <2> QED BY <1>1, <1>2, <2>1, <2>2 DEF JoinedAt, Has
<1>5. e \in Has(s)
    <2>1. m + 1 \in 1 .. m + 1 + n
        BY <1>2
    <2> QED BY <1>1, <1>2, <2>1 DEF JoinedAt, Has
<1>6. ASSUME NEW x \in Has(r) PROVE x \in Has(s)
    <2>1. PICK i \in 1 .. n : x = r[i]
        BY <1>1 DEF Has
    <2>2. m + 1 + i \in 1 .. m + 1 + n
        BY <1>2
    <2> QED BY <1>1, <1>2, <2>1, <2>2 DEF JoinedAt, Has
<1> QED BY <1>3, <1>4, <1>5, <1>6 DEF HasAround

LEMMA HasTyped ==
    ASSUME NEW s \in Seq(Entry)
    PROVE  Has(s) \subseteq Entry /\ \A x \in Has(s) : x[1] \in Keys /\ x[1] \in Int /\ x[2] \in Values /\ x = <<x[1], x[2]>>
<1>1. Has(s) \subseteq Entry
    BY DEF Has
<1>2. ASSUME NEW x \in Entry
      PROVE  x[1] \in Keys /\ x[1] \in Int /\ x[2] \in Values /\ x = <<x[1], x[2]>>
    <2>1. PICK k \in Keys, v \in Values : x = <<k, v>>
        BY DEF Entry
    <2>2. x[1] = k /\ x[2] = v
        BY <2>1
    <2>3. k \in Int
        BY OMapAssumption DEF OMapAssumption
    <2> QED BY <2>1, <2>2, <2>3
<1> QED BY <1>1, <1>2

SortedAround(l, e, r) ==
    /\ Rising(l) /\ Rising(r)
    /\ \A x \in Has(l) : x[1] < e[1]
    /\ \A x \in Has(r) : e[1] < x[1]

LEMMA JoinedSorted ==
    ASSUME NEW s, NEW l \in Seq(Entry), NEW r \in Seq(Entry), NEW e \in Entry, JoinedAt(s, l, e, r)
    PROVE  Rising(s) <=> SortedAround(l, e, r)
<1>1. PICK m, n : m = Len(l) /\ n = Len(r)
    OBVIOUS
<1>2. m \in Nat /\ n \in Nat /\ Len(s) = m + 1 + n /\ s[m + 1] = e
    BY <1>1 DEF JoinedAt
<1>3. (\A i \in 1 .. m : s[i] = l[i]) /\ \A i \in 1 .. n : s[m + 1 + i] = r[i]
    BY <1>1 DEF JoinedAt
<1>4. ASSUME Rising(s) PROVE SortedAround(l, e, r)
    <2>1. \A i, j \in 1 .. m + 1 + n : i < j => s[i][1] < s[j][1]
        BY <1>2, <1>4 DEF Rising
    <2>2. ASSUME NEW i \in 1 .. m, NEW j \in 1 .. m, i < j PROVE l[i][1] < l[j][1]
        <3>1. i \in 1 .. m + 1 + n /\ j \in 1 .. m + 1 + n
            BY <1>2
        <3> QED BY <1>3, <2>1, <2>2, <3>1
    <2>3. ASSUME NEW i \in 1 .. n, NEW j \in 1 .. n, i < j PROVE r[i][1] < r[j][1]
        <3>1. m + 1 + i \in 1 .. m + 1 + n /\ m + 1 + j \in 1 .. m + 1 + n /\ m + 1 + i < m + 1 + j
            BY <1>2, <2>3
        <3> QED BY <1>3, <2>1, <3>1
    <2>4. ASSUME NEW x \in Has(l) PROVE x[1] < e[1]
        <3>1. PICK i \in 1 .. m : x = l[i]
            BY <1>1 DEF Has
        <3>2. i \in 1 .. m + 1 + n /\ m + 1 \in 1 .. m + 1 + n /\ i < m + 1
            BY <1>2
        <3> QED BY <1>2, <1>3, <2>1, <3>1, <3>2
    <2>5. ASSUME NEW x \in Has(r) PROVE e[1] < x[1]
        <3>1. PICK i \in 1 .. n : x = r[i]
            BY <1>1 DEF Has
        <3>2. m + 1 + i \in 1 .. m + 1 + n /\ m + 1 \in 1 .. m + 1 + n /\ m + 1 < m + 1 + i
            BY <1>2
        <3> QED BY <1>2, <1>3, <2>1, <3>1, <3>2
    <2>6. Rising(l) /\ Rising(r)
        BY <1>1, <2>2, <2>3 DEF Rising
    <2> QED BY <2>4, <2>5, <2>6 DEF SortedAround
<1>5. ASSUME SortedAround(l, e, r) PROVE Rising(s)
    <2>1. /\ \A i \in 1 .. m : l[i] \in Has(l) /\ l[i][1] < e[1]
          /\ \A i \in 1 .. n : r[i] \in Has(r) /\ e[1] < r[i][1]
        BY <1>1, <1>5 DEF SortedAround, Has
    <2>2. /\ \A i, j \in 1 .. m : i < j => l[i][1] < l[j][1]
          /\ \A i, j \in 1 .. n : i < j => r[i][1] < r[j][1]
        BY <1>1, <1>5 DEF SortedAround, Rising
    <2>3. e[1] \in Int /\ (\A i \in 1 .. m : l[i][1] \in Int) /\ \A i \in 1 .. n : r[i][1] \in Int
        <3>1. e[1] \in Int
            BY OMapAssumption DEF OMapAssumption, Entry
        <3> QED BY <2>1, <3>1, HasTyped
    <2> SUFFICES ASSUME NEW i \in 1 .. m + 1 + n, NEW j \in 1 .. m + 1 + n, i < j PROVE s[i][1] < s[j][1]
        BY <1>2 DEF Rising
    <2>4. CASE j <= m
        <3>1. i \in 1 .. m /\ j \in 1 .. m
            BY <1>2, <2>4
        <3> QED BY <1>3, <2>2, <3>1
    <2>5. CASE j = m + 1
        <3>1. i \in 1 .. m
            BY <1>2, <2>5
        <3> QED BY <1>2, <1>3, <2>1, <2>5, <3>1
    <2>6. CASE j > m + 1
        <3>1. PICK k \in 1 .. n : j = m + 1 + k
            <4>1. j - (m + 1) \in 1 .. n /\ j = m + 1 + (j - (m + 1))
                BY <1>2, <2>6
            <4> QED BY <4>1
        <3>2. s[j] = r[k]
            BY <1>3, <3>1
        <3>3. CASE i <= m
            <4>1. i \in 1 .. m
                BY <1>2, <3>3
            <4>2. s[i] = l[i] /\ l[i][1] < e[1] /\ e[1] < r[k][1]
                BY <1>3, <2>1, <4>1
            <4> QED BY <2>3, <3>2, <4>1, <4>2
        <3>4. CASE i = m + 1
            BY <1>2, <2>1, <3>2, <3>4
        <3>5. CASE i > m + 1
            <4>1. PICK h \in 1 .. n : i = m + 1 + h
                <5>1. i - (m + 1) \in 1 .. n /\ i = m + 1 + (i - (m + 1))
                    BY <1>2, <3>5
                <5> QED BY <5>1
            <4>2. s[i] = r[h] /\ h < k
                BY <1>2, <1>3, <3>1, <4>1
            <4> QED BY <2>2, <3>2, <4>2
        <3> QED BY <1>2, <3>3, <3>4, <3>5
    <2> QED BY <1>2, <2>4, <2>5, <2>6
<1> QED BY <1>4, <1>5

Cat(s, t) == s \o t

LEMMA CatAssociates == \A s, t, u \in Seq(Entry) : Cat(Cat(s, t), u) = Cat(s, Cat(t, u))
<1> SUFFICES ASSUME NEW s \in Seq(Entry), NEW t \in Seq(Entry), NEW u \in Seq(Entry)
             PROVE  (s \o t) \o u = s \o (t \o u)
    BY DEF Cat
<1> QED BY ConcatAssociative

LEMMA CatTyped == \A s, t \in Seq(Entry) : Cat(s, t) \in Seq(Entry)
BY ConcatProperties DEF Cat

LEMMA Reassociated ==
    ASSUME NEW l \in Seq(Entry), NEW m \in Seq(Entry), NEW r \in Seq(Entry), NEW d \in Entry, NEW e \in Entry
    PROVE  Joined(Joined(l, d, m), e, r) = Joined(l, d, Joined(m, e, r))
<1>1. PICK o, p : o = <<d>> /\ p = <<e>>
    OBVIOUS
<1>2. o \in Seq(Entry) /\ p \in Seq(Entry)
    BY <1>1
<1>3. Cat(Cat(Cat(Cat(l, o), m), p), r) = Cat(Cat(l, o), Cat(Cat(m, p), r))
    BY <1>2, CatAssociates, CatTyped
<1> QED BY <1>1, <1>3 DEF Joined, Cat

(***************************************************************************)
(* What isRed, colorFlip, rotateLeft and rotateRight do (omap.go:172).     *)
(***************************************************************************)
EntryOf(n) == <<n.key, n.value>>
VisitOK(n) ==
    /\ Visit[n] = Joined(Visit[n.left], EntryOf(n), Visit[n.right])
    /\ Visit[n] \in Seq(Entry) /\ Visit[n.left] \in Seq(Entry) /\ Visit[n.right] \in Seq(Entry)
    /\ EntryOf(n) \in Entry

LEMMA VisitTyped == Visit[Nil] = <<>> /\ \A n \in AnyTree : Visit[n] \in Seq(Entry)
<1>1. IsVisit(Visit)
    BY VisitIs
<1>2. \A n \in AnyTree : Visit[n] \in Seq(Entry)
    BY <1>1 DEF IsVisit
<1>3. Visit[Nil] = Visited(Visit, Nil)
    BY <1>1, NilIsTree DEF IsVisit
<1> QED BY <1>2, <1>3 DEF Visited

LEMMA VisitNode == ASSUME NEW n, IsNode(n) PROVE VisitOK(n)
<1>1. n \in AnyTree /\ n # Nil /\ n.left \in AnyTree /\ n.right \in AnyTree /\ n.key \in Keys /\ n.value \in Values
    BY DEF IsNode
<1>2. Visit[n] = Visited(Visit, n)
    BY <1>1, VisitIs DEF IsVisit
<1>3. Visit[n] = Joined(Visit[n.left], EntryOf(n), Visit[n.right])
    BY <1>1, <1>2 DEF Visited, Joined, EntryOf
<1>4. EntryOf(n) \in Entry
    BY <1>1 DEF EntryOf, Entry
<1> QED BY <1>1, <1>3, <1>4, VisitTyped DEF VisitOK

LEMMA NodeVisited ==
    ASSUME NEW k \in Keys, NEW v \in Values, NEW c \in BOOLEAN, NEW l \in AnyTree, NEW r \in AnyTree,
           NEW n, n = NodeOf(k, v, c, l, r)
    PROVE  /\ IsNode(n) /\ n.key = k /\ n.value = v /\ n.red = c /\ n.left = l /\ n.right = r
           /\ Visit[n] = Joined(Visit[l], <<k, v>>, Visit[r])
<1>1. IsNode(n) /\ n.key = k /\ n.value = v /\ n.red = c /\ n.left = l /\ n.right = r
    BY NodeMade
<1>2. VisitOK(n)
    BY <1>1, VisitNode
<1> QED BY <1>1, <1>2 DEF VisitOK, EntryOf

LEMMA Changed ==
    ASSUME NEW n, IsNode(n)
    PROVE  /\ \A c : [n EXCEPT !.red = c] = NodeOf(n.key, n.value, c, n.left, n.right)
           /\ \A v : [n EXCEPT !.value = v] = NodeOf(n.key, v, n.red, n.left, n.right)
           /\ \A l : [n EXCEPT !.left = l] = NodeOf(n.key, n.value, n.red, l, n.right)
           /\ \A r : [n EXCEPT !.right = r] = NodeOf(n.key, n.value, n.red, n.left, r)
<1>1. PICK k, v, c, l, r : k = n.key /\ v = n.value /\ c = n.red /\ l = n.left /\ r = n.right
    OBVIOUS
<1>2. n = [key |-> k, value |-> v, red |-> c, left |-> l, right |-> r]
    BY <1>1 DEF IsNode, NodeOf
<1> QED BY <1>1, <1>2 DEF NodeOf

FlippedAs(m, n) ==
    /\ IsNode(m) /\ Visit[m] = Visit[n]
    /\ m.key = n.key /\ m.value = n.value /\ m.red = ~n.red /\ m.left = n.left /\ m.right = n.right

LEMMA FlipIs == ASSUME NEW n, IsNode(n) PROVE FlippedAs(Flip(n), n)
<1>1. PICK m : m = Flip(n)
    OBVIOUS
<1>2. n.red \in BOOLEAN /\ n # Nil
    BY DEF IsNode
<1>3. m = [n EXCEPT !.red = ~n.red]
    BY <1>1, <1>2 DEF Flip
<1>4. m = NodeOf(n.key, n.value, ~n.red, n.left, n.right)
    BY <1>3, Changed
<1>5. PICK k, v, c, l, r : k = n.key /\ v = n.value /\ c = ~n.red /\ l = n.left /\ r = n.right
    OBVIOUS
<1>6. /\ IsNode(m) /\ m.key = k /\ m.value = v /\ m.red = c /\ m.left = l /\ m.right = r
      /\ Visit[m] = Joined(Visit[l], <<k, v>>, Visit[r])
    <2>1. k \in Keys /\ v \in Values /\ c \in BOOLEAN /\ l \in AnyTree /\ r \in AnyTree
        BY <1>5 DEF IsNode
    <2>2. m = NodeOf(k, v, c, l, r)
        BY <1>4, <1>5
    <2> QED BY <2>1, <2>2, NodeVisited
<1>7. Visit[n] = Joined(Visit[n.left], <<n.key, n.value>>, Visit[n.right])
    BY VisitNode DEF VisitOK, EntryOf
<1> QED BY <1>1, <1>5, <1>6, <1>7 DEF FlippedAs

LEMMA FlipNil == Flip(Nil) = Nil
BY DEF Flip

LEMMA FlipTyped ==
    ASSUME NEW n \in AnyTree PROVE Flip(n) \in AnyTree /\ Visit[Flip(n)] = Visit[n] /\ (Flip(n) = Nil <=> n = Nil)
<1>1. CASE n = Nil
    BY <1>1, FlipNil, NilIsTree
<1>2. CASE n # Nil
    <2>1. IsNode(n)
        BY <1>2, NodeHolds
    <2> QED BY <1>2, <2>1, FlipIs DEF FlippedAs, IsNode
<1> QED BY <1>1, <1>2

ColorFlippedAs(m, n) ==
    /\ IsNode(m) /\ Visit[m] = Visit[n]
    /\ m.key = n.key /\ m.value = n.value /\ m.red = ~n.red /\ m.left = Flip(n.left) /\ m.right = Flip(n.right)

LEMMA ColorFlipIs == ASSUME NEW n, IsNode(n) PROVE ColorFlippedAs(ColorFlip(n), n)
<1>1. PICK m, k, v, c, l, r : /\ m = ColorFlip(n) /\ k = n.key /\ v = n.value /\ c = ~n.red
                              /\ l = Flip(n.left) /\ r = Flip(n.right)
    OBVIOUS
<1>2. n = [key |-> k, value |-> v, red |-> n.red, left |-> n.left, right |-> n.right]
    BY <1>1 DEF IsNode, NodeOf
<1>3. m = [key |-> k, value |-> v, red |-> c, left |-> l, right |-> r]
    BY <1>1, <1>2 DEF ColorFlip
<1>4. c \in BOOLEAN
    BY <1>1 DEF IsNode
<1>5. l \in AnyTree /\ r \in AnyTree /\ Visit[l] = Visit[n.left] /\ Visit[r] = Visit[n.right]
    BY <1>1, FlipTyped DEF IsNode
<1>6. k \in Keys /\ v \in Values
    BY <1>1 DEF IsNode
<1>7. m = NodeOf(k, v, c, l, r)
    BY <1>3 DEF NodeOf
<1>8. /\ IsNode(m) /\ m.key = k /\ m.value = v /\ m.red = c /\ m.left = l /\ m.right = r
      /\ Visit[m] = Joined(Visit[l], <<k, v>>, Visit[r])
    BY <1>4, <1>5, <1>6, <1>7, NodeVisited
<1>9. Visit[n] = Joined(Visit[n.left], <<n.key, n.value>>, Visit[n.right])
    BY VisitNode DEF VisitOK, EntryOf
<1> QED BY <1>1, <1>5, <1>8, <1>9 DEF ColorFlippedAs

\* m is n with its right child x above it.
LeftRotatedAs(m, n, x) ==
    /\ IsNode(m) /\ Visit[m] = Visit[n]
    /\ m.key = x.key /\ m.value = x.value /\ m.red = n.red /\ m.right = x.right
    /\ IsNode(m.left) /\ m.left = NodeOf(n.key, n.value, TRUE, n.left, x.left)
    /\ m.left.key = n.key /\ m.left.value = n.value /\ m.left.red /\ m.left.left = n.left /\ m.left.right = x.left

LEMMA RotateLeftIs == ASSUME NEW n, IsNode(n), IsNode(n.right) PROVE LeftRotatedAs(RotateLeft(n), n, n.right)
<1>1. PICK m, x, y : m = RotateLeft(n) /\ x = n.right /\ y = NodeOf(n.key, n.value, TRUE, n.left, x.left)
    OBVIOUS
<1>2. /\ n = [key |-> n.key, value |-> n.value, red |-> n.red, left |-> n.left, right |-> n.right]
      /\ x = [key |-> x.key, value |-> x.value, red |-> x.red, left |-> x.left, right |-> x.right]
    BY <1>1 DEF IsNode, NodeOf
<1>3. [n EXCEPT !.right = x.left, !.red = TRUE] = y
    <2>1. PICK k, v, c, l, r, z : k = n.key /\ v = n.value /\ c = n.red /\ l = n.left /\ r = n.right /\ z = x.left
        OBVIOUS
    <2>2. n = [key |-> k, value |-> v, red |-> c, left |-> l, right |-> r]
        BY <1>2, <2>1
    <2>3. PICK t : t = TRUE
        OBVIOUS
    <2>4. [n EXCEPT !.right = z, !.red = t] = [key |-> k, value |-> v, red |-> t, left |-> l, right |-> z]
        <3>1. PICK p : p = [n EXCEPT !.right = z]
            OBVIOUS
        <3>2. p = [key |-> k, value |-> v, red |-> c, left |-> l, right |-> z]
            BY <2>2, <3>1
        <3>3. [p EXCEPT !.red = t] = [key |-> k, value |-> v, red |-> t, left |-> l, right |-> z]
            BY <3>2
        <3> QED BY <3>1, <3>3
    <2>5. y = [key |-> k, value |-> v, red |-> t, left |-> l, right |-> z]
        BY <1>1, <2>1, <2>3 DEF NodeOf
    <2>6. [n EXCEPT !.right = x.left, !.red = TRUE] = [n EXCEPT !.right = z, !.red = t]
        BY <2>1, <2>3
    <2> QED BY <2>4, <2>5, <2>6
<1>4. m = [x EXCEPT !.left = y, !.red = n.red]
    BY <1>1, <1>3 DEF RotateLeft
<1>5. m = NodeOf(x.key, x.value, n.red, y, x.right)
    BY <1>2, <1>4 DEF NodeOf
<1>6. /\ n.key \in Keys /\ n.value \in Values /\ n.red \in BOOLEAN /\ n.left \in AnyTree
      /\ x.key \in Keys /\ x.value \in Values /\ x.left \in AnyTree /\ x.right \in AnyTree
    BY <1>1 DEF IsNode
<1>7. /\ IsNode(y) /\ y.key = n.key /\ y.value = n.value /\ y.red = TRUE /\ y.left = n.left /\ y.right = x.left
      /\ Visit[y] = Joined(Visit[n.left], <<n.key, n.value>>, Visit[x.left])
    <2>1. PICK k, v, c, l, r : k = n.key /\ v = n.value /\ c = TRUE /\ l = n.left /\ r = x.left
        OBVIOUS
    <2>2. k \in Keys /\ v \in Values /\ c \in BOOLEAN /\ l \in AnyTree /\ r \in AnyTree
        BY <1>6, <2>1
    <2>3. y = NodeOf(k, v, c, l, r)
        BY <1>1, <2>1
    <2>4. /\ IsNode(y) /\ y.key = k /\ y.value = v /\ y.red = c /\ y.left = l /\ y.right = r
          /\ Visit[y] = Joined(Visit[l], <<k, v>>, Visit[r])
        BY <2>2, <2>3, NodeVisited
    <2> QED BY <2>1, <2>4
<1>8. y \in AnyTree
    BY <1>7 DEF IsNode
<1>9. /\ IsNode(m) /\ m.key = x.key /\ m.value = x.value /\ m.red = n.red /\ m.left = y /\ m.right = x.right
      /\ Visit[m] = Joined(Visit[y], <<x.key, x.value>>, Visit[x.right])
    BY <1>5, <1>6, <1>8, NodeVisited
<1>10. /\ Visit[n] = Joined(Visit[n.left], <<n.key, n.value>>, Visit[x])
       /\ Visit[x] = Joined(Visit[x.left], <<x.key, x.value>>, Visit[x.right])
    BY <1>1, VisitNode DEF VisitOK, EntryOf
<1>11. /\ Visit[n.left] \in Seq(Entry) /\ Visit[x.left] \in Seq(Entry) /\ Visit[x.right] \in Seq(Entry)
       /\ <<n.key, n.value>> \in Entry /\ <<x.key, x.value>> \in Entry
    BY <1>6, VisitTyped DEF Entry
<1>12. Visit[m] = Visit[n]
    BY <1>7, <1>9, <1>10, <1>11, Reassociated
<1> QED BY <1>1, <1>7, <1>9, <1>12 DEF LeftRotatedAs

RightRotatedAs(m, n, x) ==
    /\ IsNode(m) /\ Visit[m] = Visit[n]
    /\ m.key = x.key /\ m.value = x.value /\ m.red = n.red /\ m.left = x.left
    /\ IsNode(m.right) /\ m.right = NodeOf(n.key, n.value, TRUE, x.right, n.right)
    /\ m.right.key = n.key /\ m.right.value = n.value /\ m.right.red /\ m.right.left = x.right /\ m.right.right = n.right

LEMMA RotateRightIs == ASSUME NEW n, IsNode(n), IsNode(n.left) PROVE RightRotatedAs(RotateRight(n), n, n.left)
<1>1. PICK m, x, y : m = RotateRight(n) /\ x = n.left /\ y = NodeOf(n.key, n.value, TRUE, x.right, n.right)
    OBVIOUS
<1>2. /\ n = [key |-> n.key, value |-> n.value, red |-> n.red, left |-> n.left, right |-> n.right]
      /\ x = [key |-> x.key, value |-> x.value, red |-> x.red, left |-> x.left, right |-> x.right]
    BY <1>1 DEF IsNode, NodeOf
<1>3. [n EXCEPT !.left = x.right, !.red = TRUE] = y
    <2>1. PICK k, v, c, l, r, z : k = n.key /\ v = n.value /\ c = n.red /\ l = n.left /\ r = n.right /\ z = x.right
        OBVIOUS
    <2>2. n = [key |-> k, value |-> v, red |-> c, left |-> l, right |-> r]
        BY <1>2, <2>1
    <2>3. PICK t : t = TRUE
        OBVIOUS
    <2>4. [n EXCEPT !.left = z, !.red = t] = [key |-> k, value |-> v, red |-> t, left |-> z, right |-> r]
        <3>1. PICK p : p = [n EXCEPT !.left = z]
            OBVIOUS
        <3>2. p = [key |-> k, value |-> v, red |-> c, left |-> z, right |-> r]
            BY <2>2, <3>1
        <3>3. [p EXCEPT !.red = t] = [key |-> k, value |-> v, red |-> t, left |-> z, right |-> r]
            BY <3>2
        <3> QED BY <3>1, <3>3
    <2>5. y = [key |-> k, value |-> v, red |-> t, left |-> z, right |-> r]
        BY <1>1, <2>1, <2>3 DEF NodeOf
    <2>6. [n EXCEPT !.left = x.right, !.red = TRUE] = [n EXCEPT !.left = z, !.red = t]
        BY <2>1, <2>3
    <2> QED BY <2>4, <2>5, <2>6
<1>4. m = [x EXCEPT !.right = y, !.red = n.red]
    BY <1>1, <1>3 DEF RotateRight
<1>5. m = NodeOf(x.key, x.value, n.red, x.left, y)
    BY <1>2, <1>4 DEF NodeOf
<1>6. /\ n.key \in Keys /\ n.value \in Values /\ n.red \in BOOLEAN /\ n.right \in AnyTree
      /\ x.key \in Keys /\ x.value \in Values /\ x.left \in AnyTree /\ x.right \in AnyTree
    BY <1>1 DEF IsNode
<1>7. /\ IsNode(y) /\ y.key = n.key /\ y.value = n.value /\ y.red = TRUE /\ y.left = x.right /\ y.right = n.right
      /\ Visit[y] = Joined(Visit[x.right], <<n.key, n.value>>, Visit[n.right])
    <2>1. PICK k, v, c, l, r : k = n.key /\ v = n.value /\ c = TRUE /\ l = x.right /\ r = n.right
        OBVIOUS
    <2>2. k \in Keys /\ v \in Values /\ c \in BOOLEAN /\ l \in AnyTree /\ r \in AnyTree
        BY <1>6, <2>1
    <2>3. y = NodeOf(k, v, c, l, r)
        BY <1>1, <2>1
    <2>4. /\ IsNode(y) /\ y.key = k /\ y.value = v /\ y.red = c /\ y.left = l /\ y.right = r
          /\ Visit[y] = Joined(Visit[l], <<k, v>>, Visit[r])
        BY <2>2, <2>3, NodeVisited
    <2> QED BY <2>1, <2>4
<1>8. y \in AnyTree
    BY <1>7 DEF IsNode
<1>9. /\ IsNode(m) /\ m.key = x.key /\ m.value = x.value /\ m.red = n.red /\ m.right = y /\ m.left = x.left
      /\ Visit[m] = Joined(Visit[x.left], <<x.key, x.value>>, Visit[y])
    BY <1>5, <1>6, <1>8, NodeVisited
<1>10. /\ Visit[n] = Joined(Visit[x], <<n.key, n.value>>, Visit[n.right])
       /\ Visit[x] = Joined(Visit[x.left], <<x.key, x.value>>, Visit[x.right])
    BY <1>1, VisitNode DEF VisitOK, EntryOf
<1>11. /\ Visit[n.right] \in Seq(Entry) /\ Visit[x.left] \in Seq(Entry) /\ Visit[x.right] \in Seq(Entry)
       /\ <<n.key, n.value>> \in Entry /\ <<x.key, x.value>> \in Entry
    BY <1>6, VisitTyped DEF Entry
<1>12. Visit[m] = Visit[n]
    BY <1>7, <1>9, <1>10, <1>11, Reassociated
<1> QED BY <1>1, <1>7, <1>9, <1>12 DEF RightRotatedAs

(***************************************************************************)
(* The size of a tree is the number of pairs visited, and bounds its       *)
(* levels.                                                                 *)
(***************************************************************************)
Weight(n) == Len(Visit[n])

LEMMA WeightOf ==
    /\ Weight(Nil) = 0
    /\ \A n : IsNode(n) => Weight(n) = Weight(n.left) + 1 + Weight(n.right)
    /\ \A n \in AnyTree : Weight(n) \in Nat
<1>1. Weight(Nil) = 0
    <2>1. PICK s : s = <<>>
        OBVIOUS
    <2>2. Len(s) = 0
        BY <2>1
    <2>3. Visit[Nil] = s
        BY <2>1, VisitTyped
    <2> QED BY <2>2, <2>3 DEF Weight
<1>2. \A n \in AnyTree : Weight(n) \in Nat
    BY VisitTyped DEF Weight
<1>3. ASSUME NEW n, IsNode(n) PROVE Weight(n) = Weight(n.left) + 1 + Weight(n.right)
    <2>1. VisitOK(n)
        BY <1>3, VisitNode
    <2>2. JoinedAt(Visit[n], Visit[n.left], EntryOf(n), Visit[n.right])
        <3>1. PICK l, e, r : l = Visit[n.left] /\ e = EntryOf(n) /\ r = Visit[n.right]
            OBVIOUS
        <3>2. l \in Seq(Entry) /\ e \in Entry /\ r \in Seq(Entry)
            BY <2>1, <3>1 DEF VisitOK
        <3>3. JoinedAt(Joined(l, e, r), l, e, r)
            BY <3>2, JoinedIs
        <3> QED BY <2>1, <3>1, <3>3 DEF VisitOK
    <2> QED BY <2>2 DEF JoinedAt, Weight
<1> QED BY <1>1, <1>2, <1>3

LEMMA WeightBounds == \A n \in AnyTree : n \in Trees[Weight(n)]
<1> DEFINE S == {n \in AnyTree : n \in Trees[Weight(n)]}
<1>1. Nil \in S
    BY NilIsTree, NilInTrees, WeightOf
<1>2. ASSUME NEW n, IsNode(n), n.left \in S, n.right \in S PROVE n \in S
    <2>1. PICK a, b, h : a = Weight(n.left) /\ b = Weight(n.right) /\ h = a + b
        OBVIOUS
    <2>2. a \in Nat /\ b \in Nat
        BY <1>2, <2>1, WeightOf
    <2>3. n.left \in Trees[a] /\ n.right \in Trees[b]
        BY <1>2, <2>1
    <2>4. h \in Nat /\ a <= h /\ b <= h
        BY <2>1, <2>2
    <2>5. n.left \in Trees[h] /\ n.right \in Trees[h]
        BY <2>2, <2>3, <2>4, TreesNested
    <2>6. n \in Level(Trees[h])
        <3>1. PICK k, v, c, l, r : k = n.key /\ v = n.value /\ c = n.red /\ l = n.left /\ r = n.right
            OBVIOUS
        <3>2. k \in Keys /\ v \in Values /\ c \in BOOLEAN /\ l \in Trees[h] /\ r \in Trees[h]
            BY <1>2, <2>5, <3>1 DEF IsNode
        <3>3. n = [key |-> k, value |-> v, red |-> c, left |-> l, right |-> r]
            BY <1>2, <3>1 DEF IsNode, NodeOf
        <3> QED BY <3>2, <3>3 DEF Level
    <2>7. n \in Trees[h + 1]
        BY <2>4, <2>6, TreesAre
    <2>8. Weight(n) = h + 1
        <3>1. Weight(n) = a + 1 + b
            BY <1>2, <2>1, WeightOf
        <3> QED BY <2>1, <2>2, <3>1
    <2>9. n \in AnyTree
        BY <1>2 DEF IsNode
    <2> QED BY <2>7, <2>8, <2>9
<1>3. \A n \in AnyTree : n # Nil => n.left \in AnyTree /\ n.right \in AnyTree
    BY NodeHolds DEF IsNode
<1>4. \A n \in AnyTree : (n = Nil \/ (IsNode(n) /\ n.left \in S /\ n.right \in S)) => n \in S
    BY <1>1, <1>2
<1>5. AnyTree \in SUBSET AnyTree
    OBVIOUS
<1> HIDE DEF S
<1>6. \A n \in AnyTree : n \in S
    BY <1>3, <1>4, <1>5, TreeInduction
<1> QED BY <1>6 DEF S

LEMMA SizeIs == \A n \in Trees[MaxLength] : Size[n] = Weight(n)
<1>1. MaxLength \in Nat
    BY OMapAssumption DEF OMapAssumption
<1>2. PICK D : D = Trees[MaxLength]
    OBVIOUS
<1>3. D \in SUBSET AnyTree /\ \A n \in D : n # Nil => IsNode(n) /\ n.left \in D /\ n.right \in D
    <2>1. D \in SUBSET AnyTree
        BY <1>1, <1>2 DEF AnyTree
    <2>2. \A n \in D : n # Nil => n.left \in D /\ n.right \in D
        BY <1>1, <1>2, LevelWithin
    <2> QED BY <2>1, <2>2, NodeHolds
<1>4. PICK f : f = [n \in D |-> Weight(n)]
    OBVIOUS
<1>5. f = [n \in D |-> IF n = Nil THEN 0 ELSE f[n.left] + 1 + f[n.right]]
    <2>1. PICK g : g = [n \in D |-> IF n = Nil THEN 0 ELSE f[n.left] + 1 + f[n.right]]
        OBVIOUS
    <2>2. ASSUME NEW n \in D PROVE f[n] = g[n]
        <3>1. CASE n = Nil
            BY <1>4, <2>1, <3>1, WeightOf
        <3>2. CASE n # Nil
            <4>1. IsNode(n) /\ n.left \in D /\ n.right \in D
                BY <1>3, <3>2
            <4>2. Weight(n) = Weight(n.left) + 1 + Weight(n.right)
                BY <4>1, WeightOf
            <4> QED BY <1>4, <2>1, <3>2, <4>1, <4>2
        <3> QED BY <3>1, <3>2
    <2>3. f = g
        BY <1>4, <2>1, <2>2
    <2> QED BY <2>1, <2>3
<1> DEFINE IsSize(g) == g = [n \in Trees[MaxLength] |-> IF n = Nil THEN 0 ELSE g[n.left] + 1 + g[n.right]]
<1>6. PICK g : g = CHOOSE t : IsSize(t)
    OBVIOUS
<1>7. IsSize(g)
    BY <1>2, <1>5, <1>6
<1>8. Size = g
    BY <1>6 DEF Size
<1>9. PICK S : S = {n \in D : g[n] = Weight(n)}
    OBVIOUS
<1>10. ASSUME NEW n \in D, n = Nil \/ (IsNode(n) /\ n.left \in S /\ n.right \in S) PROVE n \in S
    <2>1. CASE n = Nil
        <3>1. g[n] = 0
            BY <1>2, <1>7, <2>1
        <3> QED BY <1>9, <2>1, <3>1, WeightOf
    <2>2. CASE n # Nil
        <3>1. IsNode(n) /\ n.left \in S /\ n.right \in S
            BY <1>10, <2>2
        <3>2. g[n] = g[n.left] + 1 + g[n.right]
            BY <1>2, <1>7, <2>2
        <3>3. g[n.left] = Weight(n.left) /\ g[n.right] = Weight(n.right)
            BY <1>9, <3>1
        <3>4. Weight(n) = Weight(n.left) + 1 + Weight(n.right)
            BY <3>1, WeightOf
        <3> QED BY <1>9, <3>2, <3>3, <3>4
    <2> QED BY <2>1, <2>2
<1>11. \A n \in D : n \in S
    BY <1>3, <1>10, TreeInduction
<1> QED BY <1>2, <1>8, <1>9, <1>11

LEMMA TreeIs ==
    /\ \A n : n \in Tree <=> n \in AnyTree /\ Weight(n) <= MaxLength
    /\ Tree \in SUBSET AnyTree /\ Nil \in Tree
    /\ \A n \in Tree : n # Nil => IsNode(n) /\ n.left \in Tree /\ n.right \in Tree
<1>1. MaxLength \in Nat
    BY OMapAssumption DEF OMapAssumption
<1>2. ASSUME NEW n \in Tree PROVE n \in AnyTree /\ Weight(n) <= MaxLength
    <2>1. n \in Trees[MaxLength] /\ Size[n] <= MaxLength
        BY DEF Tree
    <2>2. n \in AnyTree
        BY <1>1, <2>1 DEF AnyTree
    <2> QED BY <2>1, <2>2, SizeIs
<1>3. ASSUME NEW n \in AnyTree, Weight(n) <= MaxLength PROVE n \in Tree
    <2>1. Weight(n) \in Nat /\ n \in Trees[Weight(n)]
        BY WeightOf, WeightBounds
    <2>2. n \in Trees[MaxLength]
        BY <1>1, <1>3, <2>1, TreesNested
    <2>3. Size[n] <= MaxLength
        BY <1>3, <2>2, SizeIs
    <2> QED BY <2>2, <2>3 DEF Tree
<1>4. Nil \in Tree
    <2>1. Weight(Nil) <= MaxLength
        BY <1>1, WeightOf
    <2> QED BY <1>3, <2>1, NilIsTree
<1>5. ASSUME NEW n \in Tree, n # Nil PROVE IsNode(n) /\ n.left \in Tree /\ n.right \in Tree
    <2>1. IsNode(n)
        BY <1>2, <1>5, NodeHolds
    <2>2. n.left \in AnyTree /\ n.right \in AnyTree
        BY <2>1 DEF IsNode
    <2>3. PICK a, b, c : a = Weight(n) /\ b = Weight(n.left) /\ c = Weight(n.right)
        OBVIOUS
    <2>4. a = b + 1 + c /\ b \in Nat /\ c \in Nat /\ a <= MaxLength
        BY <1>2, <2>1, <2>2, <2>3, WeightOf
    <2>5. b <= MaxLength /\ c <= MaxLength
        BY <1>1, <2>4
    <2> QED BY <1>3, <2>1, <2>2, <2>3, <2>5
<1> QED BY <1>2, <1>3, <1>4, <1>5

(***************************************************************************)
(* Nodes with one field changed, and what is moved around.                 *)
(***************************************************************************)
\* m is the node with these fields.
Holds(m, k, v, c, l, r) ==
    /\ IsNode(m) /\ m.key = k /\ m.value = v /\ m.red = c /\ m.left = l /\ m.right = r
    /\ Visit[m] = Joined(Visit[l], <<k, v>>, Visit[r])

LEMMA NodeHolding ==
    \A k \in Keys, v \in Values, c \in BOOLEAN, l \in AnyTree, r \in AnyTree :
        Holds(NodeOf(k, v, c, l, r), k, v, c, l, r)
<1> SUFFICES ASSUME NEW k \in Keys, NEW v \in Values, NEW c \in BOOLEAN, NEW l \in AnyTree, NEW r \in AnyTree,
                    NEW n, n = NodeOf(k, v, c, l, r)
             PROVE  Holds(n, k, v, c, l, r)
    OBVIOUS
<1> QED BY NodeVisited DEF Holds

LEMMA Relinked ==
    ASSUME NEW n, IsNode(n)
    PROVE  /\ \A l \in AnyTree : Holds([n EXCEPT !.left = l], n.key, n.value, n.red, l, n.right)
           /\ \A r \in AnyTree : Holds([n EXCEPT !.right = r], n.key, n.value, n.red, n.left, r)
           /\ \A v \in Values : Holds([n EXCEPT !.value = v], n.key, v, n.red, n.left, n.right)
           /\ \A c \in BOOLEAN : Holds([n EXCEPT !.red = c], n.key, n.value, c, n.left, n.right)
<1>1. n.key \in Keys /\ n.value \in Values /\ n.red \in BOOLEAN /\ n.left \in AnyTree /\ n.right \in AnyTree
    BY DEF IsNode
<1>2. ASSUME NEW l \in AnyTree PROVE Holds([n EXCEPT !.left = l], n.key, n.value, n.red, l, n.right)
    <2>1. [n EXCEPT !.left = l] = NodeOf(n.key, n.value, n.red, l, n.right)
        BY Changed
    <2> QED BY <1>1, <2>1, NodeHolding
<1>3. ASSUME NEW r \in AnyTree PROVE Holds([n EXCEPT !.right = r], n.key, n.value, n.red, n.left, r)
    <2>1. [n EXCEPT !.right = r] = NodeOf(n.key, n.value, n.red, n.left, r)
        BY Changed
    <2> QED BY <1>1, <2>1, NodeHolding
<1>4. ASSUME NEW v \in Values PROVE Holds([n EXCEPT !.value = v], n.key, v, n.red, n.left, n.right)
    <2>1. [n EXCEPT !.value = v] = NodeOf(n.key, v, n.red, n.left, n.right)
        BY Changed
    <2> QED BY <1>1, <2>1, NodeHolding
<1>5. ASSUME NEW c \in BOOLEAN PROVE Holds([n EXCEPT !.red = c], n.key, n.value, c, n.left, n.right)
    <2>1. [n EXCEPT !.red = c] = NodeOf(n.key, n.value, c, n.left, n.right)
        BY Changed
    <2> QED BY <1>1, <2>1, NodeHolding
<1> QED BY <1>2, <1>3, <1>4, <1>5

\* The pairs of a node are those of its subtrees and its own.
Around(n) == SortedAround(Visit[n.left], EntryOf(n), Visit[n.right])

LEMMA NodeHas ==
    ASSUME NEW n, IsNode(n)
    PROVE  /\ JoinedAt(Visit[n], Visit[n.left], EntryOf(n), Visit[n.right])
           /\ Has(Visit[n]) = Has(Visit[n.left]) \union {EntryOf(n)} \union Has(Visit[n.right])
           /\ Rising(Visit[n]) <=> Around(n)
           /\ EntryOf(n)[1] = n.key /\ EntryOf(n)[2] = n.value
<1>1. PICK l, e, r, s : l = Visit[n.left] /\ e = EntryOf(n) /\ r = Visit[n.right] /\ s = Visit[n]
    OBVIOUS
<1>2. l \in Seq(Entry) /\ e \in Entry /\ r \in Seq(Entry) /\ s = Joined(l, e, r)
    BY <1>1, VisitNode DEF VisitOK
<1>3. JoinedAt(s, l, e, r)
    BY <1>2, JoinedIs
<1>4. Has(s) = Has(l) \union {e} \union Has(r)
    <2>1. HasAround(s, l, e, r)
        BY <1>2, <1>3, JoinedHas
    <2> QED BY <2>1 DEF HasAround
<1>5. Rising(s) <=> SortedAround(l, e, r)
    BY <1>2, <1>3, JoinedSorted
<1>6. EntryOf(n)[1] = n.key /\ EntryOf(n)[2] = n.value
    BY DEF EntryOf
<1> QED BY <1>1, <1>3, <1>4, <1>5, <1>6 DEF Around

LEMMA RedIsNode == \A n \in AnyTree : (IsRed(n) => IsNode(n) /\ n.red) /\ (~IsRed(n) => n = Nil \/ (IsNode(n) /\ ~n.red))
BY NodeHolds DEF IsRed

LEMMA NodeIsTree == \A n : IsNode(n) => n \in AnyTree /\ n # Nil /\ n.left \in AnyTree /\ n.right \in AnyTree
BY DEF IsNode

\* m stands for the same pairs as n.
Same(m, n) == IsNode(m) /\ Visit[m] = Visit[n]

LEMMA RotateRedSame == \A n : IsNode(n) => Same(RotateRed(n), n)
<1> SUFFICES ASSUME NEW n, IsNode(n) PROVE Same(RotateRed(n), n)
    OBVIOUS
<1>1. CASE IsRed(n.left) /\ IsRed(n.left.left)
    <2>1. IsNode(n.left)
        BY <1>1, RedIsNode DEF IsNode
    <2>2. RotateRed(n) = RotateRight(n)
        BY <1>1 DEF RotateRed, When
    <2> QED BY <2>1, <2>2, RotateRightIs DEF RightRotatedAs, Same
<1>2. CASE ~(IsRed(n.left) /\ IsRed(n.left.left))
    <2>1. RotateRed(n) = n
        BY <1>2 DEF RotateRed, When
    <2> QED BY <2>1 DEF Same
<1> QED BY <1>1, <1>2

LEMMA RotateLeftSame == \A n : IsNode(n) /\ IsRed(n.right) => Same(RotateLeft(n), n)
<1> SUFFICES ASSUME NEW n, IsNode(n), IsRed(n.right) PROVE Same(RotateLeft(n), n)
    OBVIOUS
<1>1. IsNode(n.right)
    BY RedIsNode DEF IsNode
<1> QED BY <1>1, RotateLeftIs DEF LeftRotatedAs, Same

LEMMA ColorFlipSame == \A n : IsNode(n) => Same(ColorFlip(n), n)
BY ColorFlipIs DEF ColorFlippedAs, Same

LEMMA SettleSame == \A n : IsNode(n) => Same(Settle(n), n)
<1> SUFFICES ASSUME NEW n, IsNode(n) PROVE Same(Settle(n), n)
    OBVIOUS
<1>1. PICK m : m = When(IsRed(n.right) /\ ~IsRed(n.left), RotateLeft, n)
    OBVIOUS
<1>2. Same(m, n)
    <2>1. CASE IsRed(n.right) /\ ~IsRed(n.left)
        BY <1>1, <2>1, RotateLeftSame DEF When
    <2>2. CASE ~(IsRed(n.right) /\ ~IsRed(n.left))
        BY <1>1, <2>2 DEF When, Same
    <2> QED BY <2>1, <2>2
<1>3. Settle(n) = RotateRed(m)
    BY <1>1 DEF Settle
<1> QED BY <1>2, <1>3, RotateRedSame DEF Same

LEMMA FixUpSame == \A n : IsNode(n) => Same(FixUp(n), n)
<1> SUFFICES ASSUME NEW n, IsNode(n) PROVE Same(FixUp(n), n)
    OBVIOUS
<1>1. PICK o : o = When(IsRed(n.right), RotateLeft, n)
    OBVIOUS
<1>2. Same(o, n)
    <2>1. CASE IsRed(n.right)
        BY <1>1, <2>1, RotateLeftSame DEF When
    <2>2. CASE ~IsRed(n.right)
        BY <1>1, <2>2 DEF When, Same
    <2> QED BY <2>1, <2>2
<1>3. PICK m : m = RotateRed(o)
    OBVIOUS
<1>4. Same(m, n)
    BY <1>2, <1>3, RotateRedSame DEF Same
<1>5. FixUp(n) = When(IsRed(m.left) /\ IsRed(m.right), ColorFlip, m)
    BY <1>1, <1>3 DEF FixUp
<1>6. CASE IsRed(m.left) /\ IsRed(m.right)
    BY <1>4, <1>5, <1>6, ColorFlipSame DEF When, Same
<1>7. CASE ~(IsRed(m.left) /\ IsRed(m.right))
    BY <1>4, <1>5, <1>7 DEF When
<1> QED BY <1>6, <1>7

\* What moveRedLeft and moveRedRight do: the key on top may be another.
MovedLeft(m, n) == Same(m, n) /\ IsNode(m.left) /\ (m.key = n.key \/ EntryOf(m) \in Has(Visit[n.right]))

LEMMA MoveRedLeftIs == \A n : IsNode(n) /\ IsNode(n.left) => MovedLeft(MoveRedLeft(n), n)
<1> SUFFICES ASSUME NEW n, IsNode(n), IsNode(n.left) PROVE MovedLeft(MoveRedLeft(n), n)
    OBVIOUS
<1>1. PICK a : a = ColorFlip(n)
    OBVIOUS
<1>2. ColorFlippedAs(a, n)
    BY <1>1, ColorFlipIs
<1>3. IsNode(a) /\ Visit[a] = Visit[n] /\ a.key = n.key /\ a.value = n.value /\ a.left = Flip(n.left) /\ a.right = Flip(n.right)
    BY <1>2 DEF ColorFlippedAs
<1>4. IsNode(a.left) /\ Visit[a.left] = Visit[n.left]
    BY <1>3, FlipIs DEF FlippedAs
<1>5. a.right \in AnyTree /\ Visit[a.right] = Visit[n.right]
    BY <1>3, FlipTyped DEF IsNode
<1>6. CASE a.right # Nil /\ IsRed(a.right.left)
    <2>1. IsNode(a.right) /\ IsNode(a.right.left)
        <3>1. IsNode(a.right)
            BY <1>5, <1>6, NodeHolds
        <3> QED BY <1>6, <3>1, RedIsNode DEF IsNode
    <2>2. PICK r : r = RotateRight(a.right)
        OBVIOUS
    <2>3. IsNode(r) /\ Visit[r] = Visit[n.right] /\ r \in AnyTree
        <3>1. RightRotatedAs(r, a.right, a.right.left)
            BY <2>1, <2>2, RotateRightIs
        <3> QED BY <1>5, <3>1, NodeIsTree DEF RightRotatedAs
    <2>4. PICK b : b = [a EXCEPT !.right = r]
        OBVIOUS
    <2>5. Holds(b, a.key, a.value, a.red, a.left, r)
        BY <1>3, <2>3, <2>4, Relinked
    <2>6. IsNode(b) /\ b.key = a.key /\ b.value = a.value /\ b.left = a.left /\ b.right = r
        BY <2>5 DEF Holds
    <2>7. Visit[b] = Visit[n]
        <3>1. Visit[b] = Joined(Visit[a.left], <<a.key, a.value>>, Visit[r])
            BY <2>5 DEF Holds
        <3>2. Visit[n] = Joined(Visit[n.left], <<n.key, n.value>>, Visit[n.right])
            BY VisitNode DEF VisitOK, EntryOf
        <3> QED BY <1>3, <1>4, <2>3, <3>1, <3>2
    <2>8. PICK c : c = RotateLeft(b)
        OBVIOUS
    <2>9. LeftRotatedAs(c, b, r)
        BY <2>3, <2>6, <2>8, RotateLeftIs
    <2>10. IsNode(c) /\ Visit[c] = Visit[n] /\ c.key = r.key /\ c.value = r.value /\ IsNode(c.left)
        BY <2>7, <2>9 DEF LeftRotatedAs
    <2>11. PICK m : m = ColorFlip(c)
        OBVIOUS
    <2>12. ColorFlippedAs(m, c)
        BY <2>10, <2>11, ColorFlipIs
    <2>13. IsNode(m) /\ Visit[m] = Visit[n] /\ m.key = r.key /\ m.value = r.value /\ m.left = Flip(c.left)
        BY <2>10, <2>12 DEF ColorFlippedAs
    <2>14. IsNode(m.left)
        BY <2>10, <2>13, FlipIs DEF FlippedAs
    <2>15. EntryOf(m) \in Has(Visit[n.right])
        <3>1. EntryOf(m) = EntryOf(r)
            BY <2>13 DEF EntryOf
        <3>2. EntryOf(r) \in Has(Visit[r])
            BY <2>3, NodeHas
        <3> QED BY <2>3, <3>1, <3>2
    <2>16. MoveRedLeft(n) = m
        BY <1>1, <1>6, <2>2, <2>4, <2>8, <2>11 DEF MoveRedLeft
    <2> QED BY <2>13, <2>14, <2>15, <2>16 DEF MovedLeft, Same
<1>7. CASE ~(a.right # Nil /\ IsRed(a.right.left))
    <2>1. MoveRedLeft(n) = a
        BY <1>1, <1>7 DEF MoveRedLeft
    <2> QED BY <1>3, <1>4, <2>1 DEF MovedLeft, Same
<1> QED BY <1>6, <1>7

MovedRight(m, n) == Same(m, n) /\ IsNode(m.right) /\ (m.key = n.key \/ EntryOf(m) \in Has(Visit[n.left]))

LEMMA MoveRedRightIs == \A n : IsNode(n) /\ IsNode(n.right) => MovedRight(MoveRedRight(n), n)
<1> SUFFICES ASSUME NEW n, IsNode(n), IsNode(n.right) PROVE MovedRight(MoveRedRight(n), n)
    OBVIOUS
<1>1. PICK a : a = ColorFlip(n)
    OBVIOUS
<1>2. ColorFlippedAs(a, n)
    BY <1>1, ColorFlipIs
<1>3. IsNode(a) /\ Visit[a] = Visit[n] /\ a.key = n.key /\ a.value = n.value /\ a.left = Flip(n.left) /\ a.right = Flip(n.right)
    BY <1>2 DEF ColorFlippedAs
<1>4. IsNode(a.right)
    BY <1>3, FlipIs DEF FlippedAs
<1>5. a.left \in AnyTree /\ Visit[a.left] = Visit[n.left]
    BY <1>3, FlipTyped DEF IsNode
<1>6. CASE a.left # Nil /\ IsRed(a.left.left)
    <2>1. IsNode(a.left)
        BY <1>5, <1>6, NodeHolds
    <2>2. PICK c : c = RotateRight(a)
        OBVIOUS
    <2>3. RightRotatedAs(c, a, a.left)
        BY <1>3, <2>1, <2>2, RotateRightIs
    <2>4. IsNode(c) /\ Visit[c] = Visit[n] /\ c.key = a.left.key /\ c.value = a.left.value /\ IsNode(c.right)
        BY <1>3, <2>3 DEF RightRotatedAs
    <2>5. PICK m : m = ColorFlip(c)
        OBVIOUS
    <2>6. ColorFlippedAs(m, c)
        BY <2>4, <2>5, ColorFlipIs
    <2>7. IsNode(m) /\ Visit[m] = Visit[n] /\ m.key = a.left.key /\ m.value = a.left.value /\ m.right = Flip(c.right)
        BY <2>4, <2>6 DEF ColorFlippedAs
    <2>8. IsNode(m.right)
        BY <2>4, <2>7, FlipIs DEF FlippedAs
    <2>9. EntryOf(m) \in Has(Visit[n.left])
        <3>1. EntryOf(m) = EntryOf(a.left)
            BY <2>7 DEF EntryOf
        <3>2. EntryOf(a.left) \in Has(Visit[a.left])
            BY <2>1, NodeHas
        <3> QED BY <1>5, <3>1, <3>2
    <2>10. MoveRedRight(n) = m
        BY <1>1, <1>6, <2>2, <2>5 DEF MoveRedRight
    <2> QED BY <2>7, <2>8, <2>9, <2>10 DEF MovedRight, Same
<1>7. CASE ~(a.left # Nil /\ IsRed(a.left.left))
    <2>1. MoveRedRight(n) = a
        BY <1>1, <1>7 DEF MoveRedRight
    <2> QED BY <1>3, <1>4, <2>1 DEF MovedRight, Same
<1> QED BY <1>6, <1>7

(***************************************************************************)
(* The recursive functions of the model exist: each looks at trees that    *)
(* are lighter only.                                                       *)
(***************************************************************************)
Lighter(D, n) == {m \in D : Weight(m) < Weight(n)}
LooksLighter(D, V, B) ==
    \A f, g \in [D -> V], n \in D : (\A m \in Lighter(D, n) : f[m] = g[m]) => B[<<f, n>>] = B[<<g, n>>]

LEMMA LightRecursion ==
    ASSUME NEW D \in SUBSET AnyTree, NEW V, V # {}, NEW B \in [[D -> V] \X D -> V], LooksLighter(D, V, B)
    PROVE  \E f : Solves(f, D, V, B)
<1>1. PICK rank : rank = [n \in D |-> Weight(n)]
    OBVIOUS
<1>2. rank \in [D -> Nat]
    BY <1>1, WeightOf
<1>3. \A n \in D : Nearer(D, rank, n) = Lighter(D, n)
    BY <1>1 DEF Nearer, Lighter
<1>4. LooksNearer(D, V, rank, B)
    <2> SUFFICES ASSUME NEW f \in [D -> V], NEW g \in [D -> V], NEW n \in D,
                        \A m \in Nearer(D, rank, n) : f[m] = g[m]
                 PROVE  B[<<f, n>>] = B[<<g, n>>]
        BY DEF LooksNearer
    <2>1. \A m \in Lighter(D, n) : f[m] = g[m]
        BY <1>3
    <2> QED BY <2>1 DEF LooksLighter
<1> QED BY <1>2, <1>4, RecursionExists

LEMMA LightInduction ==
    ASSUME NEW D \in SUBSET AnyTree, NEW S, \A n \in D : (\A m \in Lighter(D, n) : m \in S) => n \in S
    PROVE  \A n \in D : n \in S
<1>1. PICK rank : rank = [n \in D |-> Weight(n)]
    OBVIOUS
<1>2. rank \in [D -> Nat]
    BY <1>1, WeightOf
<1>3. \A n \in D : Nearer(D, rank, n) = Lighter(D, n)
    BY <1>1 DEF Nearer, Lighter
<1>4. \A n \in D : (\A m \in Nearer(D, rank, n) : m \in S) => n \in S
    BY <1>3
<1> QED BY <1>2, <1>4, RankInduction

LEMMA SameLighter ==
    ASSUME NEW n \in Tree, NEW m, Same(m, n)
    PROVE  /\ m \in Node /\ m.left \in Lighter(Tree, n) /\ m.right \in Lighter(Tree, n)
           /\ m.left # Nil => m.left \in Lighter(Node, n)
           /\ m.right # Nil => m.right \in Lighter(Node, n)
           /\ Weight(m) = Weight(n)
<1>1. IsNode(m) /\ m \in AnyTree /\ m # Nil /\ m.left \in AnyTree /\ m.right \in AnyTree
    BY NodeIsTree DEF Same
<1>2. Weight(m) = Weight(n)
    BY DEF Same, Weight
<1>3. m \in Tree
    BY <1>1, <1>2, TreeIs
<1>4. m.left \in Tree /\ m.right \in Tree
    BY <1>1, <1>3, TreeIs
<1>5. Weight(m.left) < Weight(n) /\ Weight(m.right) < Weight(n)
    <2>1. PICK a, b, c : a = Weight(m) /\ b = Weight(m.left) /\ c = Weight(m.right)
        OBVIOUS
    <2>2. a = b + 1 + c /\ b \in Nat /\ c \in Nat
        BY <1>1, <2>1, WeightOf
    <2>3. b < a /\ c < a
        BY <2>2
    <2> QED BY <1>2, <2>1, <2>3
<1> QED BY <1>1, <1>2, <1>3, <1>4, <1>5 DEF Lighter, Node

LEMMA NodesAre == Node \in SUBSET AnyTree /\ \A n : n \in Node <=> n \in Tree /\ IsNode(n)
BY TreeIs, NodeHolds, NodeIsTree DEF Node

LeftEnd(f, n) == IF n.left = Nil THEN n ELSE f[n.left]

LEMMA FirstRecurs == \A n \in Node : First[n] = LeftEnd(First, n)
<1>1. PICK D, V, B : D = Node /\ V = AnyTree /\ B = [x \in [D -> V] \X D |-> LeftEnd(x[1], x[2])]
    OBVIOUS
<1>2. \A f \in [D -> V], n \in D : B[<<f, n>>] = LeftEnd(f, n)
    BY <1>1
<1>3. ASSUME NEW n \in D PROVE n \in AnyTree /\ (n.left # Nil => n.left \in Lighter(D, n) /\ n.left \in D)
    <2>1. n \in Tree /\ Same(n, n)
        BY <1>1, NodesAre DEF Same
    <2> QED BY <1>1, <2>1, SameLighter, NodesAre DEF Lighter
<1>4. B \in [[D -> V] \X D -> V]
    <2>1. ASSUME NEW f \in [D -> V], NEW n \in D PROVE LeftEnd(f, n) \in V
        BY <1>1, <1>3 DEF LeftEnd
    <2>2. \A x \in [D -> V] \X D : LeftEnd(x[1], x[2]) \in V
        BY <2>1
    <2> QED BY <1>1, <2>2
<1>5. LooksLighter(D, V, B)
    BY <1>2, <1>3 DEF LooksLighter, LeftEnd
<1>6. PICK f : Solves(f, D, V, B)
    BY <1>1, <1>4, <1>5, LightRecursion, NodesAre, NilIsTree
<1>7. f = [n \in Node |-> LeftEnd(f, n)]
    BY <1>1, <1>2, <1>6 DEF Solves
<1> DEFINE IsFirst(t) == t = [n \in Node |-> IF n.left = Nil THEN n ELSE t[n.left]]
<1>8. PICK t : t = CHOOSE u : IsFirst(u)
    OBVIOUS
<1>9. IsFirst(t)
    BY <1>7, <1>8 DEF LeftEnd
<1>10. First = t
    BY <1>8 DEF First
<1> QED BY <1>9, <1>10 DEF LeftEnd

\* What moves a red link to the left before a removal there, and to the right.
LeftMoved(n) == When(Borrows(n.left), MoveRedLeft, n)
RightTurned(n) == When(IsRed(n.left), RotateRight, n)
RightMoved(o) == When(o.right # Nil /\ Borrows(o.right), MoveRedRight, o)

LEMMA LeftMovedIs == \A n : IsNode(n) /\ IsNode(n.left) => MovedLeft(LeftMoved(n), n)
<1> SUFFICES ASSUME NEW n, IsNode(n), IsNode(n.left) PROVE MovedLeft(LeftMoved(n), n)
    OBVIOUS
<1>1. CASE Borrows(n.left)
    BY <1>1, MoveRedLeftIs DEF LeftMoved, When
<1>2. CASE ~Borrows(n.left)
    BY <1>2 DEF LeftMoved, When, MovedLeft, Same
<1> QED BY <1>1, <1>2

\* A red link to the left is turned to the right, so that there is a right subtree.
TurnedRight(o, n) == Same(o, n) /\ (o = n \/ (IsNode(o.right) /\ EntryOf(o) \in Has(Visit[n.left])))

LEMMA RightTurnedIs == \A n : IsNode(n) => TurnedRight(RightTurned(n), n)
<1> SUFFICES ASSUME NEW n, IsNode(n) PROVE TurnedRight(RightTurned(n), n)
    OBVIOUS
<1>1. CASE IsRed(n.left)
    <2>1. IsNode(n.left)
        BY <1>1, RedIsNode, NodeIsTree
    <2>2. PICK o : o = RotateRight(n)
        OBVIOUS
    <2>3. RightRotatedAs(o, n, n.left)
        BY <2>1, <2>2, RotateRightIs
    <2>4. IsNode(o) /\ Visit[o] = Visit[n] /\ EntryOf(o) = EntryOf(n.left) /\ IsNode(o.right)
        BY <2>3 DEF RightRotatedAs, EntryOf
    <2>5. EntryOf(n.left) \in Has(Visit[n.left])
        BY <2>1, NodeHas
    <2>6. RightTurned(n) = o
        BY <1>1, <2>2 DEF RightTurned, When
    <2> QED BY <2>4, <2>5, <2>6 DEF TurnedRight, Same
<1>2. CASE ~IsRed(n.left)
    BY <1>2 DEF RightTurned, When, TurnedRight, Same
<1> QED BY <1>1, <1>2

LEMMA RightMovedIs == \A o : IsNode(o) => Same(RightMoved(o), o) /\ (IsNode(o.right) => MovedRight(RightMoved(o), o))
<1> SUFFICES ASSUME NEW o, IsNode(o)
             PROVE  Same(RightMoved(o), o) /\ (IsNode(o.right) => MovedRight(RightMoved(o), o))
    OBVIOUS
<1>1. CASE o.right # Nil /\ Borrows(o.right)
    <2>1. IsNode(o.right)
        BY <1>1, NodeHolds, NodeIsTree
    <2>2. MovedRight(MoveRedRight(o), o)
        BY <2>1, MoveRedRightIs
    <2>3. RightMoved(o) = MoveRedRight(o)
        BY <1>1 DEF RightMoved, When
    <2> QED BY <2>2, <2>3 DEF MovedRight
<1>2. CASE ~(o.right # Nil /\ Borrows(o.right))
    BY <1>2 DEF RightMoved, When, MovedRight, Same
<1> QED BY <1>1, <1>2

MinimumOf(f, n) == IF n.left = Nil THEN Nil ELSE LET m == LeftMoved(n) IN FixUp([m EXCEPT !.left = f[m.left]])

LEMMA MinimumRecurs == \A n \in Node : DeleteMinimum[n] = MinimumOf(DeleteMinimum, n)
<1>1. PICK D, V, B : D = Node /\ V = AnyTree /\ B = [x \in [D -> V] \X D |-> MinimumOf(x[1], x[2])]
    OBVIOUS
<1>2. \A f \in [D -> V], n \in D : B[<<f, n>>] = MinimumOf(f, n)
    BY <1>1
<1>3. ASSUME NEW n \in D, n.left # Nil
      PROVE  IsNode(LeftMoved(n)) /\ LeftMoved(n).left \in Lighter(D, n) /\ LeftMoved(n).left \in D
    <2>1. n \in Tree /\ IsNode(n)
        BY <1>1, NodesAre
    <2>2. IsNode(n.left)
        BY <1>3, <2>1, NodeHolds, NodeIsTree
    <2>3. MovedLeft(LeftMoved(n), n)
        BY <2>1, <2>2, LeftMovedIs
    <2>4. Same(LeftMoved(n), n) /\ IsNode(LeftMoved(n).left)
        BY <2>3 DEF MovedLeft
    <2>5. LeftMoved(n).left \in Lighter(D, n)
        BY <1>1, <2>1, <2>4, SameLighter, NodeIsTree
    <2> QED BY <2>4, <2>5 DEF Lighter, Same
<1>4. B \in [[D -> V] \X D -> V]
    <2>1. ASSUME NEW f \in [D -> V], NEW n \in D PROVE MinimumOf(f, n) \in V
        <3>1. CASE n.left = Nil
            BY <1>1, <3>1, NilIsTree DEF MinimumOf
        <3>2. CASE n.left # Nil
            <4>1. PICK m, l : m = LeftMoved(n) /\ l = f[LeftMoved(n).left]
                OBVIOUS
            <4>2. IsNode(m) /\ l \in AnyTree
                BY <1>1, <1>3, <3>2, <4>1
            <4>3. IsNode([m EXCEPT !.left = l])
                BY <4>2, Relinked DEF Holds
            <4>4. IsNode(FixUp([m EXCEPT !.left = l]))
                BY <4>3, FixUpSame DEF Same
            <4>5. MinimumOf(f, n) = FixUp([m EXCEPT !.left = l])
                BY <3>2, <4>1 DEF MinimumOf
            <4> QED BY <1>1, <4>4, <4>5, NodeIsTree
        <3> QED BY <3>1, <3>2
    <2>2. \A x \in [D -> V] \X D : MinimumOf(x[1], x[2]) \in V
        BY <2>1
    <2> QED BY <1>1, <2>2
<1>5. LooksLighter(D, V, B)
    <2> SUFFICES ASSUME NEW f \in [D -> V], NEW g \in [D -> V], NEW n \in D,
                        \A m \in Lighter(D, n) : f[m] = g[m]
                 PROVE  MinimumOf(f, n) = MinimumOf(g, n)
        BY <1>2 DEF LooksLighter
    <2> QED BY <1>3 DEF MinimumOf
<1>6. PICK f : Solves(f, D, V, B)
    BY <1>1, <1>4, <1>5, LightRecursion, NodesAre, NilIsTree
<1>7. f = [n \in Node |-> MinimumOf(f, n)]
    BY <1>1, <1>2, <1>6 DEF Solves
<1> DEFINE IsMinimum(t) ==
        t = [n \in Node |-> IF n.left = Nil THEN Nil
                             ELSE LET m == When(Borrows(n.left), MoveRedLeft, n)
                                  IN FixUp([m EXCEPT !.left = t[@]])]
<1>8. PICK t : t = CHOOSE u : IsMinimum(u)
    OBVIOUS
<1>9. ASSUME NEW u PROVE IsMinimum(u) <=> u = [n \in Node |-> MinimumOf(u, n)]
    BY DEF MinimumOf, LeftMoved
<1>10. IsMinimum(t)
    BY <1>7, <1>8, <1>9
<1>11. DeleteMinimum = t
    BY <1>8 DEF DeleteMinimum
<1>12. t = [n \in Node |-> MinimumOf(t, n)]
    BY <1>9, <1>10
<1> HIDE DEF IsMinimum
<1> QED BY <1>11, <1>12

(***************************************************************************)
(* The visits of trees that are built from others.                         *)
(***************************************************************************)
\* s is l, then e, then r.
Built(s, l, e, r) ==
    /\ \A x : x \in Has(s) <=> (x \in Has(l) \/ x = e \/ x \in Has(r))
    /\ Rising(s) <=> SortedAround(l, e, r)
    /\ Len(s) = Len(l) + 1 + Len(r)
    /\ s \in Seq(Entry) /\ l \in Seq(Entry) /\ r \in Seq(Entry) /\ e \in Entry

LEMMA JoinedBuilt == \A l, r \in Seq(Entry), e \in Entry : Built(Joined(l, e, r), l, e, r)
<1> SUFFICES ASSUME NEW l \in Seq(Entry), NEW r \in Seq(Entry), NEW e \in Entry PROVE Built(Joined(l, e, r), l, e, r)
    OBVIOUS
<1>1. PICK s : s = Joined(l, e, r)
    OBVIOUS
<1>2. JoinedAt(s, l, e, r)
    BY <1>1, JoinedIs
<1>3. HasAround(s, l, e, r)
    BY <1>2, JoinedHas
<1>4. Rising(s) <=> SortedAround(l, e, r)
    BY <1>2, JoinedSorted
<1>5. Len(s) = Len(l) + 1 + Len(r) /\ s \in Seq(Entry)
    BY <1>2 DEF JoinedAt
<1>6. \A x : x \in Has(s) <=> (x \in Has(l) \/ x = e \/ x \in Has(r))
    BY <1>3 DEF HasAround
<1> QED BY <1>1, <1>4, <1>5, <1>6 DEF Built

LEMMA NodeBuilt == \A n : IsNode(n) => Built(Visit[n], Visit[n.left], EntryOf(n), Visit[n.right])
BY VisitNode, JoinedBuilt DEF VisitOK

LEMMA HoldsBuilt == \A m, k, v, c, l, r : Holds(m, k, v, c, l, r) => Built(Visit[m], Visit[l], <<k, v>>, Visit[r])
<1> SUFFICES ASSUME NEW m, NEW k, NEW v, NEW c, NEW l, NEW r, Holds(m, k, v, c, l, r)
             PROVE  Built(Visit[m], Visit[l], <<k, v>>, Visit[r])
    OBVIOUS
<1>1. IsNode(m) /\ m.key = k /\ m.value = v /\ m.left = l /\ m.right = r
    BY DEF Holds
<1>2. EntryOf(m) = <<k, v>>
    BY <1>1 DEF EntryOf
<1> QED BY <1>1, <1>2, NodeBuilt

Keyed(s) == \A x \in Has(s) : x[1] \in Keys /\ x[1] \in Int /\ x[2] \in Values /\ x = <<x[1], x[2]>>

LEMMA KeyedAll == (\A s \in Seq(Entry) : Keyed(s)) /\ \A e \in Entry : e[1] \in Int
<1>1. \A s \in Seq(Entry) : Keyed(s)
    BY HasTyped DEF Keyed
<1>2. ASSUME NEW e \in Entry PROVE e[1] \in Int
    <2>1. PICK k \in Keys, v \in Values : e = <<k, v>>
        BY DEF Entry
    <2>2. k \in Int
        BY OMapAssumption DEF OMapAssumption
    <2> QED BY <2>1, <2>2
<1> QED BY <1>1, <1>2

LEMMA EmptyVisit == Rising(Visit[Nil]) /\ Has(Visit[Nil]) = {} /\ Len(Visit[Nil]) = 0
<1>1. PICK s : s = Visit[Nil]
    OBVIOUS
<1>2. s = <<>>
    BY <1>1, VisitTyped
<1>3. Len(s) = 0
    BY <1>2
<1> QED BY <1>1, <1>3 DEF Rising, Has

FirstIn(f, n) ==
    /\ IsNode(f) /\ EntryOf(f) \in Has(Visit[n])
    /\ Rising(Visit[n]) => \A x \in Has(Visit[n]) : x = EntryOf(f) \/ f.key < x[1]

LEMMA FirstIs == \A n \in Node : FirstIn(First[n], n)
<1> DEFINE S == {n \in Node : FirstIn(First[n], n)}
<1>1. ASSUME NEW n \in Node, \A m \in Lighter(Node, n) : m \in S PROVE FirstIn(First[n], n)
    <2>1. n \in Tree /\ IsNode(n) /\ Same(n, n)
        BY NodesAre DEF Same
    <2>2. Built(Visit[n], Visit[n.left], EntryOf(n), Visit[n.right])
        BY <2>1, NodeBuilt
    <2>3. First[n] = LeftEnd(First, n)
        BY FirstRecurs
    <2>4. EntryOf(n)[1] = n.key
        BY DEF EntryOf
    <2>5. CASE n.left = Nil
        <3>1. First[n] = n
            BY <2>3, <2>5 DEF LeftEnd
        <3>2. Has(Visit[n.left]) = {}
            BY <2>5, EmptyVisit
        <3>3. ASSUME Rising(Visit[n]), NEW x \in Has(Visit[n]) PROVE x = EntryOf(n) \/ n.key < x[1]
            <4>1. SortedAround(Visit[n.left], EntryOf(n), Visit[n.right])
                BY <2>2, <3>3 DEF Built
            <4>2. x = EntryOf(n) \/ x \in Has(Visit[n.right])
                BY <2>2, <3>2 DEF Built
            <4> QED BY <2>4, <4>1, <4>2 DEF SortedAround
        <3>4. EntryOf(n) \in Has(Visit[n])
            BY <2>2 DEF Built
        <3> QED BY <2>1, <3>1, <3>3, <3>4 DEF FirstIn
    <2>6. CASE n.left # Nil
        <3>1. n.left \in S
            BY <1>1, <2>1, <2>6, SameLighter
        <3>2. PICK f : f = First[n.left]
            OBVIOUS
        <3>3. First[n] = f /\ FirstIn(f, n.left)
            BY <2>3, <2>6, <3>1, <3>2 DEF LeftEnd
        <3>4. IsNode(f) /\ EntryOf(f) \in Has(Visit[n])
            BY <2>2, <3>3 DEF FirstIn, Built
        <3>5. ASSUME Rising(Visit[n]), NEW x \in Has(Visit[n]) PROVE x = EntryOf(f) \/ f.key < x[1]
            <4>1. SortedAround(Visit[n.left], EntryOf(n), Visit[n.right])
                BY <2>2, <3>5 DEF Built
            <4>2. Rising(Visit[n.left]) /\ EntryOf(f) \in Has(Visit[n.left])
                BY <3>3, <4>1 DEF SortedAround, FirstIn
            <4>3. f.key < n.key
                <5>1. EntryOf(f)[1] = f.key
                    BY DEF EntryOf
                <5> QED BY <2>4, <4>1, <4>2, <5>1 DEF SortedAround
            <4>4. CASE x \in Has(Visit[n.left])
                BY <3>3, <4>2, <4>4 DEF FirstIn
            <4>5. CASE x = EntryOf(n)
                BY <2>4, <4>3, <4>5
            <4>6. CASE x \in Has(Visit[n.right])
                <5>1. n.key < x[1]
                    BY <2>4, <4>1, <4>6 DEF SortedAround
                <5>2. f.key \in Int /\ n.key \in Int
                    BY <2>1, <3>4 DEF IsNode
                <5>3. x[1] \in Int
                    BY <2>2, <4>6, KeyedAll DEF Built, Keyed
                <5> QED BY <4>3, <5>1, <5>2, <5>3
            <4> QED BY <2>2, <4>4, <4>5, <4>6 DEF Built
        <3> QED BY <3>3, <3>4, <3>5 DEF FirstIn
    <2> QED BY <2>5, <2>6
<1>2. \A n \in Node : (\A m \in Lighter(Node, n) : m \in S) => n \in S
    BY <1>1
<1> HIDE DEF S
<1>3. \A n \in Node : n \in S
    BY <1>2, LightInduction, NodesAre
<1> QED BY <1>3 DEF S

Shrinks(t, s) == Rising(t) /\ \A x \in Has(t) : x \in Has(s)

LEMMA SideShrinks ==
    /\ \A s, l, e, r, t, u : Built(s, l, e, r) /\ Rising(s) /\ Shrinks(t, l) /\ Built(u, t, e, r) => Shrinks(u, s)
    /\ \A s, l, e, r, t, u : Built(s, l, e, r) /\ Rising(s) /\ Shrinks(t, r) /\ Built(u, l, e, t) => Shrinks(u, s)
<1>1. ASSUME NEW s, NEW l, NEW e, NEW r, NEW t, NEW u,
             Built(s, l, e, r), Rising(s), Shrinks(t, l), Built(u, t, e, r)
      PROVE  Shrinks(u, s)
    <2>1. SortedAround(l, e, r)
        BY <1>1 DEF Built
    <2>2. SortedAround(t, e, r)
        BY <1>1, <2>1 DEF Shrinks, SortedAround
    <2>3. \A x \in Has(u) : x \in Has(s)
        BY <1>1 DEF Shrinks, Built
    <2> QED BY <1>1, <2>2, <2>3 DEF Shrinks, Built
<1>2. ASSUME NEW s, NEW l, NEW e, NEW r, NEW t, NEW u,
             Built(s, l, e, r), Rising(s), Shrinks(t, r), Built(u, l, e, t)
      PROVE  Shrinks(u, s)
    <2>1. SortedAround(l, e, r)
        BY <1>2 DEF Built
    <2>2. SortedAround(l, e, t)
        BY <1>2, <2>1 DEF Shrinks, SortedAround
    <2>3. \A x \in Has(u) : x \in Has(s)
        BY <1>2 DEF Shrinks, Built
    <2> QED BY <1>2, <2>2, <2>3 DEF Shrinks, Built
<1> QED BY <1>1, <1>2

\* The first pair is not in t.
PastFirst(t, s) == Shrinks(t, s) /\ \A x \in Has(t) : \E y \in Has(s) : y[1] < x[1]
MinimumGone(d, n) == d \in AnyTree /\ Weight(d) < Weight(n) /\ (Rising(Visit[n]) => PastFirst(Visit[d], Visit[n]))

LEMMA MinimumIs == \A n \in Node : MinimumGone(DeleteMinimum[n], n)
<1> DEFINE S == {n \in Node : MinimumGone(DeleteMinimum[n], n)}
<1>1. ASSUME NEW n \in Node, \A m \in Lighter(Node, n) : m \in S PROVE MinimumGone(DeleteMinimum[n], n)
    <2>1. n \in Tree /\ IsNode(n)
        BY NodesAre
    <2>2. DeleteMinimum[n] = MinimumOf(DeleteMinimum, n)
        BY MinimumRecurs
    <2>3. CASE n.left = Nil
        <3>1. DeleteMinimum[n] = Nil
            BY <2>2, <2>3 DEF MinimumOf
        <3>2. Weight(Nil) < Weight(n)
            <4>1. PICK a, b, c : a = Weight(n) /\ b = Weight(n.left) /\ c = Weight(n.right)
                OBVIOUS
            <4>2. a = b + 1 + c /\ b \in Nat /\ c \in Nat
                BY <2>1, <4>1, WeightOf, NodeIsTree
            <4>3. 0 < a
                BY <4>2
            <4> QED BY <4>1, <4>3, WeightOf
        <3>3. PastFirst(Visit[Nil], Visit[n])
            BY EmptyVisit DEF PastFirst, Shrinks
        <3> QED BY <3>1, <3>2, <3>3, NilIsTree DEF MinimumGone
    <2>4. CASE n.left # Nil
        <3>1. PICK m : m = LeftMoved(n)
            OBVIOUS
        <3>2. MovedLeft(m, n)
            BY <2>1, <2>4, <3>1, LeftMovedIs, NodeHolds, NodeIsTree
        <3>3. Same(m, n) /\ IsNode(m) /\ Visit[m] = Visit[n] /\ IsNode(m.left)
            BY <3>2 DEF MovedLeft, Same
        <3>4. m.left \in S
            BY <1>1, <2>1, <3>3, SameLighter, NodeIsTree
        <3>5. PICK l : l = DeleteMinimum[m.left]
            OBVIOUS
        <3>6. MinimumGone(l, m.left)
            BY <3>4, <3>5
        <3>7. PICK o : o = [m EXCEPT !.left = l]
            OBVIOUS
        <3>8. Holds(o, m.key, m.value, m.red, l, m.right)
            BY <3>3, <3>6, <3>7, Relinked DEF MinimumGone
        <3>9. PICK d : d = FixUp(o)
            OBVIOUS
        <3>10. Same(d, o)
            BY <3>8, <3>9, FixUpSame DEF Holds
        <3>11. DeleteMinimum[n] = d
            BY <2>2, <2>4, <3>1, <3>5, <3>7, <3>9 DEF MinimumOf
        <3>12. PICK s, sl, e, sr, tl, t : /\ s = Visit[m] /\ sl = Visit[m.left] /\ e = EntryOf(m) /\ sr = Visit[m.right]
                                          /\ tl = Visit[l] /\ t = Visit[o]
            OBVIOUS
        <3>13. Built(s, sl, e, sr) /\ Built(t, tl, e, sr)
            BY <3>3, <3>8, <3>12, NodeBuilt, HoldsBuilt DEF EntryOf
        <3>14. Visit[n] = s /\ Visit[d] = t
            BY <3>3, <3>10, <3>12 DEF Same
        <3>15. ASSUME Rising(s) PROVE PastFirst(t, s)
            <4>1. SortedAround(sl, e, sr)
                BY <3>13, <3>15 DEF Built
            <4>2. PastFirst(tl, sl)
                BY <3>6, <3>12, <4>1 DEF MinimumGone, SortedAround
            <4>3. Shrinks(tl, sl)
                BY <4>2 DEF PastFirst
            <4>4. Shrinks(t, s)
                BY <3>13, <3>15, <4>3, SideShrinks
            <4>5. ASSUME NEW x \in Has(t) PROVE \E y \in Has(s) : y[1] < x[1]
                <5>1. CASE x \in Has(tl)
                    BY <3>13, <4>2, <5>1 DEF PastFirst, Built
                <5>2. CASE x = e
                    <6>1. EntryOf(m.left) \in Has(sl)
                        BY <3>3, <3>12, NodeHas
                    <6>2. EntryOf(m.left)[1] < e[1]
                        BY <4>1, <6>1 DEF SortedAround
                    <6> QED BY <3>13, <5>2, <6>1, <6>2 DEF Built
                <5>3. CASE x \in Has(sr)
                    BY <3>13, <4>1, <5>3 DEF SortedAround, Built
                <5> QED BY <3>13, <5>1, <5>2, <5>3 DEF Built
            <4> QED BY <4>4, <4>5 DEF PastFirst
        <3>16. Weight(d) < Weight(n)
            <4>1. Len(s) = Len(sl) + 1 + Len(sr) /\ Len(t) = Len(tl) + 1 + Len(sr)
                BY <3>13 DEF Built
            <4>2. Len(tl) < Len(sl)
                BY <3>6, <3>12 DEF MinimumGone, Weight
            <4>3. Len(sl) \in Nat /\ Len(sr) \in Nat /\ Len(tl) \in Nat
                BY <3>13 DEF Built
            <4>4. Len(t) < Len(s)
                BY <4>1, <4>2, <4>3
            <4> QED BY <3>14, <4>4 DEF Weight
        <3>17. d \in AnyTree
            BY <3>10, NodeIsTree DEF Same
        <3> QED BY <3>11, <3>14, <3>15, <3>16, <3>17 DEF MinimumGone
    <2> QED BY <2>3, <2>4
<1>2. \A n \in Node : (\A m \in Lighter(Node, n) : m \in S) => n \in S
    BY <1>1
<1> HIDE DEF S
<1>3. \A n \in Node : n \in S
    BY <1>2, LightInduction, NodesAre
<1> QED BY <1>3 DEF S

LEMMA ReplaceHolds ==
    ASSUME NEW m \in Node, m.right \in Node
    PROVE  Holds(Replace(m), First[m.right].key, First[m.right].value, m.red, m.left, DeleteMinimum[m.right])
<1>1. PICK f, d, p : f = First[m.right] /\ d = DeleteMinimum[m.right] /\ p = Replace(m)
    OBVIOUS
<1>2. f.key \in Keys /\ f.value \in Values /\ d \in AnyTree
    BY <1>1, FirstIs, MinimumIs DEF FirstIn, IsNode, MinimumGone
<1>3. IsNode(m) /\ m.red \in BOOLEAN /\ m.left \in AnyTree
    BY NodesAre DEF IsNode
<1>4. PICK j, v, c, l, r, jj, w : j = m.key /\ v = m.value /\ c = m.red /\ l = m.left /\ r = m.right /\ jj = f.key /\ w = f.value
    OBVIOUS
<1>5. m = [key |-> j, value |-> v, red |-> c, left |-> l, right |-> r]
    BY <1>3, <1>4 DEF IsNode, NodeOf
<1>6. PICK a : a = [m EXCEPT !.key = jj]
    OBVIOUS
<1>7. a = [key |-> jj, value |-> v, red |-> c, left |-> l, right |-> r]
    BY <1>5, <1>6
<1>8. PICK b : b = [a EXCEPT !.value = w]
    OBVIOUS
<1>9. b = [key |-> jj, value |-> w, red |-> c, left |-> l, right |-> r]
    BY <1>7, <1>8
<1>10. [b EXCEPT !.right = d] = [key |-> jj, value |-> w, red |-> c, left |-> l, right |-> d]
    BY <1>9
<1>11. b.right = r
    BY <1>9
<1>12. p = [b EXCEPT !.right = d]
    BY <1>1, <1>4, <1>6, <1>8, <1>11 DEF Replace
<1>13. p = NodeOf(jj, w, c, l, d)
    BY <1>10, <1>12 DEF NodeOf
<1>14. jj \in Keys /\ w \in Values /\ c \in BOOLEAN /\ l \in AnyTree /\ d \in AnyTree
    BY <1>2, <1>3, <1>4
<1>15. Holds(p, jj, w, c, l, d)
    BY <1>13, <1>14, NodeHolding
<1> QED BY <1>1, <1>4, <1>15

(***************************************************************************)
(* Removal (omap.go:219).                                                  *)
(***************************************************************************)
Outcome == [node : AnyTree, done : BOOLEAN]
Outcomes(r, n, b) == r \in Outcome /\ r.node = n /\ r.done = b

LEMMA DoneIs == \A n \in AnyTree, b \in BOOLEAN : Outcomes(Done(n, b), n, b)
BY DEF Done, Outcomes, Outcome

LEMMA OutcomeIs == \A r \in Outcome : r.node \in AnyTree /\ r.done \in BOOLEAN
BY DEF Outcome

RemovalOf(f, k, n) ==
    IF k < n.key
    THEN IF n.left = Nil THEN Done(FixUp(n), FALSE)
         ELSE LET m == LeftMoved(n)
                  l == f[m.left]
              IN Done(FixUp([m EXCEPT !.left = l.node]), l.done)
    ELSE LET o == RightTurned(n)
             m == RightMoved(o)
             r == f[m.right]
         IN CASE o.right = Nil /\ k = o.key -> Done(Nil, TRUE)
              [] o.right = Nil /\ k # o.key -> Done(FixUp(o), FALSE)
              [] o.right # Nil /\ k = m.key -> Done(FixUp(Replace(m)), TRUE)
              [] o.right # Nil /\ k # m.key -> Done(FixUp([m EXCEPT !.right = r.node]), r.done)

RemovalByCase(f, k, n, o, m) ==
    /\ k < n.key /\ n.left = Nil => RemovalOf(f, k, n) = Done(FixUp(n), FALSE)
    /\ k < n.key /\ n.left # Nil =>
          \A a, l : a = LeftMoved(n) /\ l = f[a.left] =>
              RemovalOf(f, k, n) = Done(FixUp([a EXCEPT !.left = l.node]), l.done)
    /\ ~(k < n.key) /\ o.right = Nil /\ k = o.key => RemovalOf(f, k, n) = Done(Nil, TRUE)
    /\ ~(k < n.key) /\ o.right = Nil /\ k # o.key => RemovalOf(f, k, n) = Done(FixUp(o), FALSE)
    /\ ~(k < n.key) /\ o.right # Nil /\ k = m.key => RemovalOf(f, k, n) = Done(FixUp(Replace(m)), TRUE)
    /\ ~(k < n.key) /\ o.right # Nil /\ k # m.key =>
          \A r : r = f[m.right] => RemovalOf(f, k, n) = Done(FixUp([m EXCEPT !.right = r.node]), r.done)

LEMMA RemovalCases ==
    \A f, k, n, o, m : o = RightTurned(n) /\ m = RightMoved(o) => RemovalByCase(f, k, n, o, m)
<1> SUFFICES ASSUME NEW f, NEW k, NEW n, NEW o, NEW m, o = RightTurned(n), m = RightMoved(o)
             PROVE  RemovalByCase(f, k, n, o, m)
    OBVIOUS
<1>1. k < n.key /\ n.left = Nil => RemovalOf(f, k, n) = Done(FixUp(n), FALSE)
    BY DEF RemovalOf
<1>2. ASSUME k < n.key, n.left # Nil, NEW a, NEW l, a = LeftMoved(n), l = f[a.left]
      PROVE  RemovalOf(f, k, n) = Done(FixUp([a EXCEPT !.left = l.node]), l.done)
    BY <1>2 DEF RemovalOf
<1>3. ~(k < n.key) /\ o.right = Nil /\ k = o.key => RemovalOf(f, k, n) = Done(Nil, TRUE)
    BY DEF RemovalOf
<1>4. ~(k < n.key) /\ o.right = Nil /\ k # o.key => RemovalOf(f, k, n) = Done(FixUp(o), FALSE)
    BY DEF RemovalOf
<1>5. ~(k < n.key) /\ o.right # Nil /\ k = m.key => RemovalOf(f, k, n) = Done(FixUp(Replace(m)), TRUE)
    BY DEF RemovalOf
<1>6. ASSUME ~(k < n.key), o.right # Nil, k # m.key, NEW r, r = f[m.right]
      PROVE  RemovalOf(f, k, n) = Done(FixUp([m EXCEPT !.right = r.node]), r.done)
    BY <1>6 DEF RemovalOf
<1> QED BY <1>1, <1>2, <1>3, <1>4, <1>5, <1>6 DEF RemovalByCase

LeftReady(a, n) == MovedLeft(a, n) /\ Same(a, n) /\ a.left \in Lighter(Node, n) /\ a.left \in Node
RightReady(m, o, n) ==
    /\ MovedRight(m, o) /\ Same(m, o) /\ m \in Node /\ m.right \in Lighter(Node, n) /\ m.right \in Node

LEMMA RemovalReady ==
    ASSUME NEW n \in Node, NEW o, NEW m, o = RightTurned(n), m = RightMoved(o)
    PROVE  /\ n.left # Nil => LeftReady(LeftMoved(n), n)
           /\ TurnedRight(o, n) /\ Same(o, n)
           /\ o.right # Nil => RightReady(m, o, n)
<1>1. n \in Tree /\ IsNode(n)
    BY NodesAre
<1>2. ASSUME n.left # Nil PROVE LeftReady(LeftMoved(n), n)
    <2>1. PICK a : a = LeftMoved(n)
        OBVIOUS
    <2>2. MovedLeft(a, n)
        BY <1>1, <1>2, <2>1, LeftMovedIs, NodeHolds, NodeIsTree
    <2>3. Same(a, n) /\ IsNode(a.left)
        BY <2>2 DEF MovedLeft
    <2>4. a.left \in Lighter(Node, n)
        BY <1>1, <2>3, SameLighter, NodeIsTree
    <2> QED BY <2>1, <2>2, <2>3, <2>4 DEF LeftReady, Lighter
<1>3. TurnedRight(o, n) /\ Same(o, n)
    BY <1>1, RightTurnedIs DEF TurnedRight
<1>4. ASSUME o.right # Nil PROVE RightReady(m, o, n)
    <2>1. IsNode(o) /\ IsNode(o.right)
        BY <1>3, <1>4, NodeHolds, NodeIsTree DEF Same
    <2>2. MovedRight(m, o)
        BY <2>1, RightMovedIs
    <2>3. Same(m, o) /\ IsNode(m.right)
        BY <2>2 DEF MovedRight
    <2>4. Same(m, n)
        BY <1>3, <2>3 DEF Same
    <2>5. m \in Node /\ m.right \in Lighter(Node, n)
        BY <1>1, <2>3, <2>4, SameLighter, NodeIsTree
    <2> QED BY <2>2, <2>3, <2>5 DEF RightReady, Lighter
<1> QED BY <1>2, <1>3, <1>4

LEMMA FixedUp == \A n, b : IsNode(n) /\ b \in BOOLEAN => Done(FixUp(n), b) \in Outcome
BY FixUpSame, DoneIs, NodeIsTree DEF Same, Outcomes

LEMMA RemovalTyped == \A k, n : \A f \in [Node -> Outcome] : n \in Node => RemovalOf(f, k, n) \in Outcome
<1> SUFFICES ASSUME NEW k, NEW n \in Node, NEW f \in [Node -> Outcome] PROVE RemovalOf(f, k, n) \in Outcome
    OBVIOUS
<1>1. PICK o, m : o = RightTurned(n) /\ m = RightMoved(o)
    OBVIOUS
<1>2. IsNode(n) /\ RemovalByCase(f, k, n, o, m)
    BY <1>1, NodesAre, RemovalCases
<1>3. CASE k < n.key /\ n.left = Nil
    <2>1. RemovalOf(f, k, n) = Done(FixUp(n), FALSE)
        BY <1>2, <1>3 DEF RemovalByCase
    <2> QED BY <1>2, <2>1, FixedUp
<1>4. CASE k < n.key /\ n.left # Nil
    <2>1. PICK a, l : a = LeftMoved(n) /\ l = f[a.left]
        OBVIOUS
    <2>2. LeftReady(a, n)
        BY <1>1, <1>4, <2>1, RemovalReady
    <2>3. IsNode(a) /\ l.node \in AnyTree /\ l.done \in BOOLEAN
        BY <2>1, <2>2, OutcomeIs DEF LeftReady, Same
    <2>4. IsNode([a EXCEPT !.left = l.node])
        BY <2>3, Relinked DEF Holds
    <2>5. RemovalOf(f, k, n) = Done(FixUp([a EXCEPT !.left = l.node]), l.done)
        BY <1>2, <1>4, <2>1 DEF RemovalByCase
    <2> QED BY <2>3, <2>4, <2>5, FixedUp
<1>5. CASE ~(k < n.key) /\ o.right = Nil /\ k = o.key
    <2>1. RemovalOf(f, k, n) = Done(Nil, TRUE)
        BY <1>2, <1>5 DEF RemovalByCase
    <2> QED BY <2>1, NilIsTree, DoneIs DEF Outcomes
<1>6. CASE ~(k < n.key) /\ o.right = Nil /\ k # o.key
    <2>1. RemovalOf(f, k, n) = Done(FixUp(o), FALSE)
        BY <1>2, <1>6 DEF RemovalByCase
    <2>2. IsNode(o)
        BY <1>1, RemovalReady DEF Same
    <2> QED BY <2>1, <2>2, FixedUp
<1>7. CASE ~(k < n.key) /\ o.right # Nil /\ k = m.key
    <2>1. RemovalOf(f, k, n) = Done(FixUp(Replace(m)), TRUE)
        BY <1>2, <1>7 DEF RemovalByCase
    <2>2. IsNode(Replace(m))
        BY <1>1, <1>7, RemovalReady, ReplaceHolds DEF RightReady, Holds
    <2> QED BY <2>1, <2>2, FixedUp
<1>8. CASE ~(k < n.key) /\ o.right # Nil /\ k # m.key
    <2>1. PICK r : r = f[m.right]
        OBVIOUS
    <2>2. RightReady(m, o, n)
        BY <1>1, <1>8, RemovalReady
    <2>3. IsNode(m) /\ r.node \in AnyTree /\ r.done \in BOOLEAN
        BY <2>1, <2>2, OutcomeIs DEF RightReady, Same
    <2>4. IsNode([m EXCEPT !.right = r.node])
        BY <2>3, Relinked DEF Holds
    <2>5. RemovalOf(f, k, n) = Done(FixUp([m EXCEPT !.right = r.node]), r.done)
        BY <1>2, <1>8, <2>1 DEF RemovalByCase
    <2> QED BY <2>3, <2>4, <2>5, FixedUp
<1> QED BY <1>3, <1>4, <1>5, <1>6, <1>7, <1>8

LEMMA RemoveRecurs == \A k : \A n \in Node : RemoveFrom(k)[n] = RemovalOf(RemoveFrom(k), k, n)
<1> SUFFICES ASSUME NEW k PROVE \A n \in Node : RemoveFrom(k)[n] = RemovalOf(RemoveFrom(k), k, n)
    OBVIOUS
<1>1. PICK D, V, B : D = Node /\ V = Outcome /\ B = [x \in [D -> V] \X D |-> RemovalOf(x[1], k, x[2])]
    OBVIOUS
<1>2. \A f \in [D -> V], n \in D : B[<<f, n>>] = RemovalOf(f, k, n)
    BY <1>1
<1>3. B \in [[D -> V] \X D -> V]
    <2>1. \A x \in [D -> V] \X D : RemovalOf(x[1], k, x[2]) \in V
        BY <1>1, RemovalTyped
    <2> QED BY <1>1, <2>1
<1>4. LooksLighter(D, V, B)
    <2> SUFFICES ASSUME NEW f \in [D -> V], NEW g \in [D -> V], NEW n \in D,
                        \A m \in Lighter(D, n) : f[m] = g[m]
                 PROVE  RemovalOf(f, k, n) = RemovalOf(g, k, n)
        BY <1>2 DEF LooksLighter
    <2>1. PICK o, m, a : o = RightTurned(n) /\ m = RightMoved(o) /\ a = LeftMoved(n)
        OBVIOUS
    <2>2. n.left # Nil => f[a.left] = g[a.left]
        BY <1>1, <2>1, RemovalReady DEF LeftReady
    <2>3. o.right # Nil => f[m.right] = g[m.right]
        BY <1>1, <2>1, RemovalReady DEF RightReady
    <2> QED BY <2>1, <2>2, <2>3 DEF RemovalOf
<1>5. V # {}
    BY <1>1, NilIsTree, DoneIs DEF Outcomes
<1>6. PICK f : Solves(f, D, V, B)
    BY <1>1, <1>3, <1>4, <1>5, LightRecursion, NodesAre
<1>7. f = [n \in Node |-> RemovalOf(f, k, n)]
    BY <1>1, <1>2, <1>6 DEF Solves
<1> DEFINE IsRemoval(t) ==
        t = [n \in Node |->
               IF k < n.key
               THEN IF n.left = Nil THEN Done(FixUp(n), FALSE)
                    ELSE LET m == When(Borrows(n.left), MoveRedLeft, n)
                             l == t[m.left]
                         IN Done(FixUp([m EXCEPT !.left = l.node]), l.done)
               ELSE LET o == When(IsRed(n.left), RotateRight, n)
                        m == When(o.right # Nil /\ Borrows(o.right), MoveRedRight, o)
                        r == t[m.right]
                    IN CASE o.right = Nil /\ k = o.key -> Done(Nil, TRUE)
                         [] o.right = Nil /\ k # o.key -> Done(FixUp(o), FALSE)
                         [] o.right # Nil /\ k = m.key -> Done(FixUp(Replace(m)), TRUE)
                         [] o.right # Nil /\ k # m.key -> Done(FixUp([m EXCEPT !.right = r.node]), r.done)]
<1>8. ASSUME NEW u PROVE IsRemoval(u) <=> u = [n \in Node |-> RemovalOf(u, k, n)]
    BY DEF RemovalOf, LeftMoved, RightTurned, RightMoved
<1>9. PICK t : t = CHOOSE u : IsRemoval(u)
    OBVIOUS
<1>10. IsRemoval(t)
    BY <1>7, <1>8, <1>9
<1>11. RemoveFrom(k) = t
    BY <1>9 DEF RemoveFrom
<1>12. t = [n \in Node |-> RemovalOf(t, k, n)]
    BY <1>8, <1>10
<1> HIDE DEF IsRemoval
<1> QED BY <1>11, <1>12

LEMMA NodeOrder ==
    \A n : IsNode(n) /\ Rising(Visit[n]) =>
        /\ \A x \in Has(Visit[n.left]) : x[1] < n.key
        /\ \A x \in Has(Visit[n.right]) : n.key < x[1]
        /\ Rising(Visit[n.left]) /\ Rising(Visit[n.right])
<1> SUFFICES ASSUME NEW n, IsNode(n), Rising(Visit[n])
             PROVE  /\ \A x \in Has(Visit[n.left]) : x[1] < n.key
                    /\ \A x \in Has(Visit[n.right]) : n.key < x[1]
                    /\ Rising(Visit[n.left]) /\ Rising(Visit[n.right])
    OBVIOUS
<1>1. Around(n) /\ EntryOf(n)[1] = n.key
    BY NodeHas
<1> QED BY <1>1 DEF Around, SortedAround

LEMMA KeyOf == \A n : IsNode(n) => EntryOf(n)[1] = n.key /\ n.key \in Int
BY DEF EntryOf, IsNode

LEMMA MovesInOrder ==
    /\ \A a, n : IsNode(n) /\ Rising(Visit[n]) /\ MovedLeft(a, n) => n.key <= a.key
    /\ \A m, o : IsNode(o) /\ Rising(Visit[o]) /\ MovedRight(m, o) => m.key <= o.key
    /\ \A o, n : IsNode(n) /\ Rising(Visit[n]) /\ TurnedRight(o, n) => o.key <= n.key
<1>1. ASSUME NEW a, NEW n, IsNode(n), Rising(Visit[n]), MovedLeft(a, n) PROVE n.key <= a.key
    <2>1. IsNode(a) /\ (a.key = n.key \/ EntryOf(a) \in Has(Visit[n.right]))
        BY <1>1 DEF MovedLeft, Same
    <2>2. a.key = n.key \/ n.key < a.key
        BY <1>1, <2>1, NodeOrder, KeyOf
    <2>3. n.key \in Int /\ a.key \in Int
        BY <1>1, <2>1, KeyOf
    <2> QED BY <2>2, <2>3
<1>2. ASSUME NEW m, NEW o, IsNode(o), Rising(Visit[o]), MovedRight(m, o) PROVE m.key <= o.key
    <2>1. IsNode(m) /\ (m.key = o.key \/ EntryOf(m) \in Has(Visit[o.left]))
        BY <1>2 DEF MovedRight, Same
    <2>2. m.key = o.key \/ m.key < o.key
        BY <1>2, <2>1, NodeOrder, KeyOf
    <2>3. m.key \in Int /\ o.key \in Int
        BY <1>2, <2>1, KeyOf
    <2> QED BY <2>2, <2>3
<1>3. ASSUME NEW o, NEW n, IsNode(n), Rising(Visit[n]), TurnedRight(o, n) PROVE o.key <= n.key
    <2>1. IsNode(o) /\ (o = n \/ EntryOf(o) \in Has(Visit[n.left]))
        BY <1>3 DEF TurnedRight, Same
    <2>2. o.key = n.key \/ o.key < n.key
        BY <1>3, <2>1, NodeOrder, KeyOf
    <2>3. o.key \in Int /\ n.key \in Int
        BY <1>3, <2>1, KeyOf
    <2> QED BY <2>2, <2>3
<1> QED BY <1>1, <1>2, <1>3

\* t is s with no pair of key k, and maybe without others; b if there was one.
Dropped(s, k, t, b) ==
    /\ Shrinks(t, s) /\ (\A x \in Has(t) : x[1] # k)
    /\ b <=> \E x \in Has(s) : x[1] = k

LEMMA DropsAtSide ==
    /\ \A s, l, e, r, t, u, b : \A k \in Int :
          Built(s, l, e, r) /\ Rising(s) /\ k < e[1] /\ Dropped(l, k, t, b) /\ Built(u, t, e, r) => Dropped(s, k, u, b)
    /\ \A s, l, e, r, t, u, b : \A k \in Int :
          Built(s, l, e, r) /\ Rising(s) /\ e[1] < k /\ Dropped(r, k, t, b) /\ Built(u, l, e, t) => Dropped(s, k, u, b)
<1>1. ASSUME NEW s, NEW l, NEW e, NEW r, NEW t, NEW u, NEW b, NEW k \in Int,
             Built(s, l, e, r), Rising(s), k < e[1], Dropped(l, k, t, b), Built(u, t, e, r)
      PROVE  Dropped(s, k, u, b)
    <2>1. SortedAround(l, e, r) /\ e[1] \in Int /\ Keyed(r)
        BY <1>1, KeyedAll DEF Built
    <2>2. e[1] # k /\ \A x \in Has(r) : x[1] # k
        <3>1. \A x \in Has(r) : e[1] < x[1] /\ x[1] \in Int
            BY <2>1 DEF SortedAround, Keyed
        <3> QED BY <1>1, <2>1, <3>1
    <2>3. Shrinks(u, s)
        BY <1>1, SideShrinks DEF Dropped
    <2>4. \A x \in Has(u) : x[1] # k
        BY <1>1, <2>2 DEF Built, Dropped
    <2>5. b <=> \E x \in Has(s) : x[1] = k
        BY <1>1, <2>2 DEF Built, Dropped
    <2> QED BY <2>3, <2>4, <2>5 DEF Dropped
<1>2. ASSUME NEW s, NEW l, NEW e, NEW r, NEW t, NEW u, NEW b, NEW k \in Int,
             Built(s, l, e, r), Rising(s), e[1] < k, Dropped(r, k, t, b), Built(u, l, e, t)
      PROVE  Dropped(s, k, u, b)
    <2>1. SortedAround(l, e, r) /\ e[1] \in Int /\ Keyed(l)
        BY <1>2, KeyedAll DEF Built
    <2>2. e[1] # k /\ \A x \in Has(l) : x[1] # k
        <3>1. \A x \in Has(l) : x[1] < e[1] /\ x[1] \in Int
            BY <2>1 DEF SortedAround, Keyed
        <3> QED BY <1>2, <2>1, <3>1
    <2>3. Shrinks(u, s)
        BY <1>2, SideShrinks DEF Dropped
    <2>4. \A x \in Has(u) : x[1] # k
        BY <1>2, <2>2 DEF Built, Dropped
    <2>5. b <=> \E x \in Has(s) : x[1] = k
        BY <1>2, <2>2 DEF Built, Dropped
    <2> QED BY <2>3, <2>4, <2>5 DEF Dropped
<1> QED BY <1>1, <1>2

\* The next pair takes the place of the node's.
LEMMA ReplaceDrops ==
    ASSUME NEW m \in Node, m.right \in Node
    PROVE  /\ IsNode(Replace(m)) /\ Weight(Replace(m)) < Weight(m)
           /\ Rising(Visit[m]) => Dropped(Visit[m], m.key, Visit[Replace(m)], TRUE)
<1>1. PICK f, d, p, s, l, e, r : /\ f = First[m.right] /\ d = DeleteMinimum[m.right] /\ p = Replace(m)
                                 /\ s = Visit[m] /\ l = Visit[m.left] /\ e = EntryOf(m) /\ r = Visit[m.right]
    OBVIOUS
<1>2. PICK t, u, g : t = Visit[d] /\ u = Visit[p] /\ g = EntryOf(f)
    OBVIOUS
<1>3. Holds(p, f.key, f.value, m.red, m.left, d)
    BY <1>1, ReplaceHolds
<1>4. IsNode(m) /\ Built(s, l, e, r) /\ Built(u, l, g, t) /\ IsNode(p)
    BY <1>1, <1>2, <1>3, NodeBuilt, HoldsBuilt, NodesAre DEF EntryOf, Holds
<1>5. FirstIn(f, m.right) /\ MinimumGone(d, m.right)
    BY <1>1, FirstIs, MinimumIs
<1>6. Weight(p) < Weight(m)
    <2>1. Len(s) = Len(l) + 1 + Len(r) /\ Len(u) = Len(l) + 1 + Len(t)
        BY <1>4 DEF Built
    <2>2. Len(t) < Len(r)
        BY <1>1, <1>2, <1>5 DEF MinimumGone, Weight
    <2>3. Len(l) \in Nat /\ Len(r) \in Nat /\ Len(t) \in Nat
        BY <1>4 DEF Built
    <2>4. Len(u) < Len(s)
        BY <2>1, <2>2, <2>3
    <2> QED BY <1>1, <1>2, <2>4 DEF Weight
<1>7. ASSUME Rising(s) PROVE Dropped(s, m.key, u, TRUE)
    <2>1. SortedAround(l, e, r) /\ e[1] = m.key /\ g[1] = f.key /\ e[1] \in Int /\ g[1] \in Int
        <3>1. IsNode(f)
            BY <1>5 DEF FirstIn
        <3> QED BY <1>1, <1>2, <1>4, <1>7, <3>1, KeyOf DEF Built
    <2>2. g \in Has(r) /\ e[1] < g[1] /\ \A x \in Has(r) : x = g \/ g[1] < x[1]
        <3>1. g \in Has(r) /\ \A x \in Has(r) : x = g \/ f.key < x[1]
            BY <1>1, <1>2, <1>5, <2>1 DEF FirstIn, SortedAround
        <3> QED BY <2>1, <3>1 DEF SortedAround
    <2>3. PastFirst(t, r)
        BY <1>1, <1>2, <1>5, <2>1 DEF MinimumGone, SortedAround
    <2>4. Rising(t) /\ \A x \in Has(t) : x \in Has(r) /\ \E y \in Has(r) : y[1] < x[1]
        BY <2>3 DEF PastFirst, Shrinks
    <2>5. Keyed(l) /\ Keyed(r)
        BY <1>4, KeyedAll DEF Built
    <2>6. ASSUME NEW x \in Has(t) PROVE g[1] < x[1]
        <3>1. PICK y \in Has(r) : y[1] < x[1]
            BY <2>4
        <3>2. x[1] \in Int /\ y[1] \in Int
            BY <2>4, <2>5 DEF Keyed
        <3>3. y = g \/ g[1] < y[1]
            BY <2>2
        <3> QED BY <2>1, <3>1, <3>2, <3>3
    <2>7. ASSUME NEW x \in Has(l) PROVE x[1] < e[1] /\ x[1] < g[1]
        <3>1. x[1] \in Int /\ x[1] < e[1]
            BY <2>1, <2>5 DEF Keyed, SortedAround
        <3> QED BY <2>1, <2>2, <3>1
    <2>8. SortedAround(l, g, t)
        BY <2>1, <2>4, <2>6, <2>7 DEF SortedAround
    <2>9. ASSUME NEW x \in Has(u) PROVE x \in Has(s) /\ x[1] # e[1]
        <3>1. CASE x \in Has(l)
            <4>1. x[1] \in Int /\ x[1] < e[1]
                BY <2>5, <2>7, <3>1 DEF Keyed
            <4>2. x[1] # e[1]
                BY <2>1, <4>1
            <4> QED BY <1>4, <3>1, <4>2 DEF Built
        <3>2. CASE x = g
            BY <1>4, <2>1, <2>2, <3>2 DEF Built
        <3>3. CASE x \in Has(t)
            <4>1. x \in Has(r) /\ x[1] \in Int
                BY <2>4, <2>5, <3>3 DEF Keyed
            <4>2. e[1] < x[1]
                BY <2>1, <4>1 DEF SortedAround
            <4> QED BY <1>4, <2>1, <4>1, <4>2 DEF Built
        <3> QED BY <1>4, <3>1, <3>2, <3>3 DEF Built
    <2>10. \E x \in Has(s) : x[1] = m.key
        BY <1>4, <2>1 DEF Built
    <2>11. Shrinks(u, s)
        BY <1>4, <2>8, <2>9 DEF Built, Shrinks
    <2> QED BY <2>1, <2>9, <2>10, <2>11 DEF Dropped
<1> QED BY <1>1, <1>2, <1>4, <1>6, <1>7

\* What remove promises: the subtree it returns is no heavier, and in order.
RemovalGood(r, k, n) ==
    /\ r \in Outcome /\ Weight(r.node) <= Weight(n) /\ (r.done => Weight(r.node) < Weight(n))
    /\ Rising(Visit[n]) => Dropped(Visit[n], k, Visit[r.node], r.done)

LEMMA RemovalMade ==
    \A k, n, d, b : /\ d \in AnyTree /\ b \in BOOLEAN /\ Weight(d) <= Weight(n) /\ (b => Weight(d) < Weight(n))
                    /\ Rising(Visit[n]) => Dropped(Visit[n], k, Visit[d], b)
                    => RemovalGood(Done(d, b), k, n)
BY DoneIs DEF RemovalGood, Outcomes

\* Nothing is found where nothing is looked for.
LEMMA NothingDropped ==
    \A k, n, o : IsNode(n) /\ Same(o, n) /\ (Rising(Visit[n]) => \A x \in Has(Visit[n]) : x[1] # k) =>
        RemovalGood(Done(FixUp(o), FALSE), k, n)
<1> SUFFICES ASSUME NEW k, NEW n, NEW o, IsNode(n), Same(o, n), Rising(Visit[n]) => \A x \in Has(Visit[n]) : x[1] # k
             PROVE  RemovalGood(Done(FixUp(o), FALSE), k, n)
    OBVIOUS
<1>1. PICK d, b : d = FixUp(o) /\ b = FALSE
    OBVIOUS
<1>2. IsNode(d) /\ d \in AnyTree /\ Visit[d] = Visit[n]
    BY <1>1, FixUpSame, NodeIsTree DEF Same
<1>3. Weight(d) <= Weight(n)
    <2>1. Weight(d) = Weight(n) /\ Weight(n) \in Nat
        BY <1>2, WeightOf, NodeIsTree DEF Weight
    <2> QED BY <2>1
<1>4. Rising(Visit[n]) => Dropped(Visit[n], k, Visit[d], b)
    BY <1>1, <1>2 DEF Dropped, Shrinks
<1> QED BY <1>1, <1>2, <1>3, <1>4, RemovalMade

\* One subtree of a, which is like n, gives way to a lighter one.
LEMMA SideDropped ==
    ASSUME NEW k \in Keys, NEW n, IsNode(n), NEW a, Same(a, n), NEW l, NEW o, NEW left \in BOOLEAN,
           IF left THEN /\ RemovalGood(l, k, a.left)
                        /\ Rising(Visit[n]) => k < a.key
                        /\ o = [a EXCEPT !.left = l.node]
                   ELSE /\ RemovalGood(l, k, a.right)
                        /\ Rising(Visit[n]) => a.key < k
                        /\ o = [a EXCEPT !.right = l.node]
    PROVE  RemovalGood(Done(FixUp(o), l.done), k, n)
<1>1. PICK c, b : c = l.node /\ b = l.done
    OBVIOUS
<1>2. l \in Outcome /\ c \in AnyTree /\ b \in BOOLEAN
    BY <1>1, OutcomeIs DEF RemovalGood
<1>3. IsNode(a) /\ Visit[a] = Visit[n] /\ k \in Int
    BY OMapAssumption DEF Same, OMapAssumption
<1>4. PICK s, sl, e, sr, t, u : /\ s = Visit[a] /\ sl = Visit[a.left] /\ e = EntryOf(a) /\ sr = Visit[a.right]
                                /\ t = Visit[c] /\ u = Visit[o]
    OBVIOUS
<1>5. Built(s, sl, e, sr) /\ e[1] = a.key
    BY <1>3, <1>4, NodeBuilt, KeyOf
<1>6. IsNode(o) /\ (IF left THEN Built(u, t, e, sr) ELSE Built(u, sl, e, t))
    <2>1. CASE left
        <3>1. Holds(o, a.key, a.value, a.red, c, a.right)
            BY <1>1, <1>2, <1>3, <2>1, Relinked
        <3> QED BY <1>4, <2>1, <3>1, HoldsBuilt DEF EntryOf, Holds
    <2>2. CASE ~left
        <3>1. Holds(o, a.key, a.value, a.red, a.left, c)
            BY <1>1, <1>2, <1>3, <2>2, Relinked
        <3> QED BY <1>4, <2>2, <3>1, HoldsBuilt DEF EntryOf, Holds
    <2> QED BY <2>1, <2>2
<1>7. PICK d : d = FixUp(o)
    OBVIOUS
<1>8. IsNode(d) /\ d \in AnyTree /\ Visit[d] = u
    BY <1>4, <1>6, <1>7, FixUpSame, NodeIsTree DEF Same
<1>9. Weight(d) <= Weight(n) /\ (b => Weight(d) < Weight(n))
    <2>1. Len(s) = Len(sl) + 1 + Len(sr) /\ Len(u) = IF left THEN Len(t) + 1 + Len(sr) ELSE Len(sl) + 1 + Len(t)
        BY <1>5, <1>6 DEF Built
    <2>2. IF left THEN Len(t) <= Len(sl) /\ (b => Len(t) < Len(sl)) ELSE Len(t) <= Len(sr) /\ (b => Len(t) < Len(sr))
        BY <1>1, <1>4 DEF RemovalGood, Weight
    <2>3. Len(sl) \in Nat /\ Len(sr) \in Nat /\ Len(t) \in Nat
        BY <1>5, <1>6 DEF Built
    <2>4. Len(u) <= Len(s) /\ (b => Len(u) < Len(s))
        BY <2>1, <2>2, <2>3
    <2> QED BY <1>3, <1>4, <1>8, <2>4 DEF Weight
<1>10. ASSUME Rising(Visit[n]) PROVE Dropped(Visit[n], k, Visit[d], b)
    <2>1. Rising(s) /\ SortedAround(sl, e, sr)
        BY <1>3, <1>4, <1>5, <1>10 DEF Built
    <2>2. CASE left
        <3>1. k < e[1] /\ Dropped(sl, k, t, b)
            BY <1>1, <1>4, <1>5, <1>10, <2>1, <2>2 DEF RemovalGood, SortedAround
        <3>2. Dropped(s, k, u, b)
            BY <1>3, <1>5, <1>6, <2>1, <2>2, <3>1, DropsAtSide
        <3> QED BY <1>3, <1>4, <1>8, <3>2
    <2>3. CASE ~left
        <3>1. e[1] < k /\ Dropped(sr, k, t, b)
            BY <1>1, <1>4, <1>5, <1>10, <2>1, <2>3 DEF RemovalGood, SortedAround
        <3>2. Dropped(s, k, u, b)
            BY <1>3, <1>5, <1>6, <2>1, <2>3, <3>1, DropsAtSide
        <3> QED BY <1>3, <1>4, <1>8, <3>2
    <2> QED BY <2>2, <2>3
<1> QED BY <1>1, <1>2, <1>7, <1>8, <1>9, <1>10, RemovalMade

LEMMA RemovalIs == \A k \in Keys : \A n \in Node : RemovalGood(RemoveFrom(k)[n], k, n)
<1> SUFFICES ASSUME NEW k \in Keys PROVE \A n \in Node : RemovalGood(RemoveFrom(k)[n], k, n)
    OBVIOUS
<1> DEFINE S == {n \in Node : RemovalGood(RemoveFrom(k)[n], k, n)}
<1>1. ASSUME NEW n \in Node, \A m \in Lighter(Node, n) : m \in S PROVE RemovalGood(RemoveFrom(k)[n], k, n)
    <2>1. PICK f, o, m : f = RemoveFrom(k) /\ o = RightTurned(n) /\ m = RightMoved(o)
        OBVIOUS
    <2>2. f[n] = RemovalOf(f, k, n) /\ RemovalByCase(f, k, n, o, m)
        BY <2>1, RemoveRecurs, RemovalCases
    <2>3. IsNode(n) /\ k \in Int /\ n.key \in Int
        BY NodesAre, OMapAssumption, KeyOf DEF OMapAssumption
    <2>4. TurnedRight(o, n) /\ Same(o, n) /\ IsNode(o) /\ Visit[o] = Visit[n] /\ o.key \in Int
        BY <2>1, RemovalReady, KeyOf DEF Same
    <2>5. o.right = Nil => o = n
        BY <2>4, NodeIsTree DEF TurnedRight
    <2>6. ASSUME Rising(Visit[n]), NEW x \in Has(Visit[n])
          PROVE  /\ x[1] \in Int
                 /\ x[1] = n.key \/ (x[1] < n.key /\ n.left # Nil) \/ (n.key < x[1] /\ n.right # Nil)
        <3>1. x \in Has(Visit[n.left]) \/ x = EntryOf(n) \/ x \in Has(Visit[n.right])
            BY <2>3, NodeBuilt DEF Built
        <3>2. x[1] \in Int
            BY <2>3, NodeBuilt, KeyedAll DEF Built, Keyed
        <3> QED BY <2>3, <2>6, <3>1, <3>2, NodeOrder, KeyOf, EmptyVisit
    <2>7. CASE k < n.key /\ n.left = Nil
        <3>1. f[n] = Done(FixUp(n), FALSE)
            BY <2>2, <2>7 DEF RemovalByCase
        <3>2. ASSUME Rising(Visit[n]), NEW x \in Has(Visit[n]) PROVE x[1] # k
            BY <2>3, <2>6, <2>7, <3>2
        <3>3. Same(n, n)
            BY <2>3 DEF Same
        <3> QED BY <2>1, <2>3, <3>1, <3>2, <3>3, NothingDropped
    <2>8. CASE k < n.key /\ n.left # Nil
        <3>1. PICK a, l, left : a = LeftMoved(n) /\ l = f[a.left] /\ left = TRUE
            OBVIOUS
        <3>2. LeftReady(a, n)
            BY <2>1, <2>8, <3>1, RemovalReady
        <3>3. Same(a, n) /\ MovedLeft(a, n) /\ RemovalGood(l, k, a.left)
            BY <1>1, <2>1, <3>1, <3>2 DEF LeftReady
        <3>4. ASSUME Rising(Visit[n]) PROVE k < a.key
            <4>1. n.key <= a.key
                BY <2>3, <3>3, <3>4, MovesInOrder
            <4>2. a.key \in Int
                BY <3>3, KeyOf DEF Same
            <4> QED BY <2>3, <2>8, <4>1, <4>2
        <3>5. PICK p : p = [a EXCEPT !.left = l.node]
            OBVIOUS
        <3>6. RemovalGood(Done(FixUp(p), l.done), k, n)
            <4>1. left \in BOOLEAN /\ left
                BY <3>1
            <4> QED BY <2>3, <3>3, <3>4, <3>5, <4>1, SideDropped
        <3>7. f[n] = Done(FixUp(p), l.done)
            BY <2>2, <2>8, <3>1, <3>5 DEF RemovalByCase
        <3> QED BY <2>1, <3>6, <3>7
    <2>9. CASE ~(k < n.key) /\ o.right = Nil /\ k = o.key
        <3>1. PICK b : b = TRUE
            OBVIOUS
        <3>2. f[n] = Done(Nil, b)
            BY <2>2, <2>9, <3>1 DEF RemovalByCase
        <3>3. EntryOf(n) \in Has(Visit[n]) /\ EntryOf(n)[1] = k
            BY <2>3, <2>5, <2>9, NodeHas
        <3>4. Dropped(Visit[n], k, Visit[Nil], b)
            BY <3>1, <3>3, EmptyVisit DEF Dropped, Shrinks
        <3>5. Weight(Nil) < Weight(n) /\ Weight(Nil) <= Weight(n)
            <4>1. PICK x, y, z : x = Weight(n) /\ y = Weight(n.left) /\ z = Weight(n.right)
                OBVIOUS
            <4>2. x = y + 1 + z /\ y \in Nat /\ z \in Nat
                BY <2>3, <4>1, WeightOf, NodeIsTree
            <4>3. 0 < x /\ 0 <= x
                BY <4>2
            <4> QED BY <4>1, <4>3, WeightOf
        <3>6. RemovalGood(Done(Nil, b), k, n)
            BY <3>1, <3>4, <3>5, NilIsTree, RemovalMade
        <3> QED BY <2>1, <3>2, <3>6
    <2>10. CASE ~(k < n.key) /\ o.right = Nil /\ k # o.key
        <3>1. f[n] = Done(FixUp(o), FALSE)
            BY <2>2, <2>10 DEF RemovalByCase
        <3>2. ASSUME Rising(Visit[n]), NEW x \in Has(Visit[n]) PROVE x[1] # k
            <4>1. o = n /\ n.right = Nil
                BY <2>5, <2>10
            <4> QED BY <2>3, <2>6, <2>10, <3>2, <4>1
        <3> QED BY <2>1, <2>3, <2>4, <3>1, <3>2, NothingDropped
    <2>11. CASE ~(k < n.key) /\ o.right # Nil /\ k = m.key
        <3>1. RightReady(m, o, n)
            BY <2>1, <2>11, RemovalReady
        <3>2. m \in Node /\ m.right \in Node /\ Same(m, o) /\ Visit[m] = Visit[n]
            BY <2>4, <3>1 DEF RightReady, Same
        <3>3. PICK p, d, b : p = Replace(m) /\ d = FixUp(p) /\ b = TRUE
            OBVIOUS
        <3>4. IsNode(p) /\ Weight(p) < Weight(m) /\ (Rising(Visit[m]) => Dropped(Visit[m], k, Visit[p], b))
            BY <2>11, <3>2, <3>3, ReplaceDrops
        <3>5. IsNode(d) /\ d \in AnyTree /\ Visit[d] = Visit[p]
            BY <3>3, <3>4, FixUpSame, NodeIsTree DEF Same
        <3>6. Weight(d) < Weight(n) /\ Weight(d) <= Weight(n)
            <4>1. Weight(d) = Weight(p) /\ Weight(m) = Weight(n)
                BY <3>2, <3>5 DEF Weight
            <4>2. Weight(p) \in Nat /\ Weight(m) \in Nat
                BY <3>2, <3>4, NodesAre, NodeIsTree, WeightOf
            <4> QED BY <3>4, <4>1, <4>2
        <3>7. Rising(Visit[n]) => Dropped(Visit[n], k, Visit[d], b)
            BY <3>2, <3>4, <3>5
        <3>8. b \in BOOLEAN
            BY <3>3
        <3>9. RemovalGood(Done(d, b), k, n)
            BY <3>5, <3>6, <3>7, <3>8, RemovalMade
        <3>10. f[n] = Done(d, b)
            BY <2>2, <2>11, <3>3 DEF RemovalByCase
        <3> QED BY <2>1, <3>9, <3>10
    <2>12. CASE ~(k < n.key) /\ o.right # Nil /\ k # m.key
        <3>1. PICK r, left : r = f[m.right] /\ left = FALSE
            OBVIOUS
        <3>2. RightReady(m, o, n)
            BY <2>1, <2>12, RemovalReady
        <3>3. Same(m, o) /\ Same(m, n) /\ MovedRight(m, o) /\ RemovalGood(r, k, m.right)
            BY <1>1, <2>1, <2>4, <3>1, <3>2 DEF RightReady, Same
        <3>4. ASSUME Rising(Visit[n]) PROVE m.key < k
            <4>1. m.key <= o.key /\ o.key <= n.key
                BY <2>3, <2>4, <3>3, <3>4, MovesInOrder
            <4>2. m.key \in Int
                BY <3>3, KeyOf DEF Same
            <4> QED BY <2>3, <2>4, <2>12, <4>1, <4>2
        <3>5. PICK p : p = [m EXCEPT !.right = r.node]
            OBVIOUS
        <3>6. RemovalGood(Done(FixUp(p), r.done), k, n)
            <4>1. left \in BOOLEAN /\ ~left
                BY <3>1
            <4> QED BY <2>3, <3>3, <3>4, <3>5, <4>1, SideDropped
        <3>7. f[n] = Done(FixUp(p), r.done)
            BY <2>2, <2>12, <3>1, <3>5 DEF RemovalByCase
        <3> QED BY <2>1, <3>6, <3>7
    <2> QED BY <2>7, <2>8, <2>9, <2>10, <2>11, <2>12
<1>2. \A n \in Node : (\A m \in Lighter(Node, n) : m \in S) => n \in S
    BY <1>1
<1> HIDE DEF S
<1>3. \A n \in Node : n \in S
    BY <1>2, LightInduction, NodesAre
<1> QED BY <1>3 DEF S

(***************************************************************************)
(* Insertion (omap.go:148).                                                *)
(***************************************************************************)
Split(n) == When(IsRed(n.left) /\ IsRed(n.right), ColorFlip, n)
NewNode(k, v) == [key |-> k, value |-> v, red |-> TRUE, left |-> Nil, right |-> Nil]

InsertionOf(f, k, v, n) ==
    IF n = Nil THEN Done(NewNode(k, v), TRUE)
    ELSE LET m == Split(n)
             l == f[m.left]
             r == f[m.right]
         IN CASE k < m.key -> Done(Settle([m EXCEPT !.left = l.node]), l.done)
              [] k > m.key -> Done(Settle([m EXCEPT !.right = r.node]), r.done)
              [] k = m.key -> Done(Settle([m EXCEPT !.value = v]), FALSE)

InsertionByCase(f, k, v, n, m) ==
    /\ n = Nil => InsertionOf(f, k, v, n) = Done(NewNode(k, v), TRUE)
    /\ n # Nil /\ k < m.key =>
          \A l : l = f[m.left] => InsertionOf(f, k, v, n) = Done(Settle([m EXCEPT !.left = l.node]), l.done)
    /\ n # Nil /\ k > m.key =>
          \A r : r = f[m.right] => InsertionOf(f, k, v, n) = Done(Settle([m EXCEPT !.right = r.node]), r.done)
    /\ n # Nil /\ k = m.key => InsertionOf(f, k, v, n) = Done(Settle([m EXCEPT !.value = v]), FALSE)

LEMMA InsertionCases ==
    \A f, v, n, m : \A k \in Int : m = Split(n) /\ m.key \in Int => InsertionByCase(f, k, v, n, m)
<1> SUFFICES ASSUME NEW f, NEW v, NEW n, NEW m, NEW k \in Int, m = Split(n), m.key \in Int
             PROVE  InsertionByCase(f, k, v, n, m)
    OBVIOUS
<1>1. n = Nil => InsertionOf(f, k, v, n) = Done(NewNode(k, v), TRUE)
    BY DEF InsertionOf
<1>2. ASSUME n # Nil, k < m.key, NEW l, l = f[m.left]
      PROVE  InsertionOf(f, k, v, n) = Done(Settle([m EXCEPT !.left = l.node]), l.done)
    <2>1. ~(k > m.key) /\ k # m.key
        BY <1>2
    <2> QED BY <1>2, <2>1 DEF InsertionOf
<1>3. ASSUME n # Nil, k > m.key, NEW r, r = f[m.right]
      PROVE  InsertionOf(f, k, v, n) = Done(Settle([m EXCEPT !.right = r.node]), r.done)
    <2>1. ~(k < m.key) /\ k # m.key
        BY <1>3
    <2> QED BY <1>3, <2>1 DEF InsertionOf
<1>4. ASSUME n # Nil, k = m.key PROVE InsertionOf(f, k, v, n) = Done(Settle([m EXCEPT !.value = v]), FALSE)
    <2>1. ~(k < m.key) /\ ~(k > m.key)
        BY <1>4
    <2> QED BY <1>4, <2>1 DEF InsertionOf
<1> QED BY <1>1, <1>2, <1>3, <1>4 DEF InsertionByCase

LEMMA SplitSame == \A n : IsNode(n) => Same(Split(n), n) /\ Split(n).key = n.key
<1> SUFFICES ASSUME NEW n, IsNode(n) PROVE Same(Split(n), n) /\ Split(n).key = n.key
    OBVIOUS
<1>1. CASE IsRed(n.left) /\ IsRed(n.right)
    BY <1>1, ColorFlipIs DEF Split, When, ColorFlippedAs, Same
<1>2. CASE ~(IsRed(n.left) /\ IsRed(n.right))
    BY <1>2 DEF Split, When, Same
<1> QED BY <1>1, <1>2

SplitReady(m, n) ==
    /\ Same(m, n) /\ IsNode(m) /\ IsNode(n) /\ m.key = n.key /\ m.key \in Int
    /\ m.left \in Lighter(Tree, n) /\ m.right \in Lighter(Tree, n) /\ m.left \in Tree /\ m.right \in Tree

LEMMA SplitIsReady == \A n \in Tree : n # Nil => SplitReady(Split(n), n)
<1> SUFFICES ASSUME NEW n \in Tree, n # Nil PROVE SplitReady(Split(n), n)
    OBVIOUS
<1>1. IsNode(n)
    BY TreeIs
<1>2. Same(Split(n), n) /\ Split(n).key = n.key
    BY <1>1, SplitSame
<1>3. Split(n).left \in Lighter(Tree, n) /\ Split(n).right \in Lighter(Tree, n)
    BY <1>2, SameLighter
<1> QED BY <1>1, <1>2, <1>3, KeyOf DEF SplitReady, Same, Lighter

LEMMA NewNodeHolds ==
    \A k \in Keys, v \in Values : \E c : c = TRUE /\ Holds(NewNode(k, v), k, v, c, Nil, Nil)
<1> SUFFICES ASSUME NEW k \in Keys, NEW v \in Values PROVE \E c : c = TRUE /\ Holds(NewNode(k, v), k, v, c, Nil, Nil)
    OBVIOUS
<1>1. PICK c : c = TRUE
    OBVIOUS
<1>2. NewNode(k, v) = NodeOf(k, v, c, Nil, Nil)
    BY <1>1 DEF NewNode, NodeOf
<1>3. c \in BOOLEAN
    BY <1>1
<1> QED BY <1>1, <1>2, <1>3, NodeHolding, NilIsTree

LEMMA Settled == \A n, b : IsNode(n) /\ b \in BOOLEAN => Done(Settle(n), b) \in Outcome
BY SettleSame, DoneIs, NodeIsTree DEF Same, Outcomes

LEMMA InsertionTyped ==
    \A k \in Keys, v \in Values : \A n \in Tree : \A f \in [Tree -> Outcome] : InsertionOf(f, k, v, n) \in Outcome
<1> SUFFICES ASSUME NEW k \in Keys, NEW v \in Values, NEW n \in Tree, NEW f \in [Tree -> Outcome]
             PROVE  InsertionOf(f, k, v, n) \in Outcome
    OBVIOUS
<1>1. k \in Int
    BY OMapAssumption DEF OMapAssumption
<1>2. CASE n = Nil
    <2>1. PICK p, b : p = NewNode(k, v) /\ b = TRUE
        OBVIOUS
    <2>2. InsertionOf(f, k, v, n) = Done(p, b)
        BY <1>2, <2>1 DEF InsertionOf
    <2>3. p \in AnyTree /\ b \in BOOLEAN
        BY <2>1, NewNodeHolds, NodeIsTree DEF Holds
    <2> QED BY <2>2, <2>3, DoneIs DEF Outcomes
<1>3. CASE n # Nil
    <2>1. PICK m, l, r, b : m = Split(n) /\ l = f[m.left] /\ r = f[m.right] /\ b = FALSE
        OBVIOUS
    <2>2. SplitReady(m, n)
        BY <1>3, <2>1, SplitIsReady
    <2>3. IsNode(m) /\ l \in Outcome /\ r \in Outcome /\ m.key \in Int
        BY <2>1, <2>2 DEF SplitReady
    <2>4. IsNode([m EXCEPT !.left = l.node]) /\ IsNode([m EXCEPT !.right = r.node]) /\ IsNode([m EXCEPT !.value = v])
        BY <2>3, OutcomeIs, Relinked DEF Holds
    <2>5. InsertionByCase(f, k, v, n, m)
        BY <1>1, <2>1, <2>3, InsertionCases
    <2>6. k < m.key \/ k > m.key \/ k = m.key
        BY <1>1, <2>3
    <2>7. CASE k < m.key
        BY <1>3, <2>1, <2>3, <2>4, <2>5, <2>7, OutcomeIs, Settled DEF InsertionByCase
    <2>8. CASE k > m.key
        BY <1>3, <2>1, <2>3, <2>4, <2>5, <2>8, OutcomeIs, Settled DEF InsertionByCase
    <2>9. CASE k = m.key
        <3>1. InsertionOf(f, k, v, n) = Done(Settle([m EXCEPT !.value = v]), b)
            BY <1>3, <2>1, <2>5, <2>9 DEF InsertionByCase
        <3>2. b \in BOOLEAN
            BY <2>1
        <3> QED BY <2>4, <3>1, <3>2, Settled
    <2> QED BY <2>6, <2>7, <2>8, <2>9
<1> QED BY <1>2, <1>3

LEMMA InsertRecurs ==
    \A k \in Keys, v \in Values : \A n \in Tree : InsertIn(k, v)[n] = InsertionOf(InsertIn(k, v), k, v, n)
<1> SUFFICES ASSUME NEW k \in Keys, NEW v \in Values
             PROVE  \A n \in Tree : InsertIn(k, v)[n] = InsertionOf(InsertIn(k, v), k, v, n)
    OBVIOUS
<1>1. PICK D, V, B : D = Tree /\ V = Outcome /\ B = [x \in [D -> V] \X D |-> InsertionOf(x[1], k, v, x[2])]
    OBVIOUS
<1>2. \A f \in [D -> V], n \in D : B[<<f, n>>] = InsertionOf(f, k, v, n)
    BY <1>1
<1>3. B \in [[D -> V] \X D -> V]
    <2>1. \A x \in [D -> V] \X D : InsertionOf(x[1], k, v, x[2]) \in V
        BY <1>1, InsertionTyped
    <2> QED BY <1>1, <2>1
<1>4. LooksLighter(D, V, B)
    <2> SUFFICES ASSUME NEW f \in [D -> V], NEW g \in [D -> V], NEW n \in D,
                        \A m \in Lighter(D, n) : f[m] = g[m]
                 PROVE  InsertionOf(f, k, v, n) = InsertionOf(g, k, v, n)
        BY <1>2 DEF LooksLighter
    <2>1. CASE n = Nil
        BY <2>1 DEF InsertionOf
    <2>2. CASE n # Nil
        <3>1. PICK m : m = Split(n)
            OBVIOUS
        <3>2. SplitReady(m, n)
            BY <1>1, <2>2, <3>1, SplitIsReady
        <3>3. f[m.left] = g[m.left] /\ f[m.right] = g[m.right] /\ m.key \in Int /\ k \in Int
            BY <1>1, <3>2, OMapAssumption DEF SplitReady, OMapAssumption
        <3>4. InsertionByCase(f, k, v, n, m) /\ InsertionByCase(g, k, v, n, m)
            BY <3>1, <3>3, InsertionCases
        <3>5. k < m.key \/ k > m.key \/ k = m.key
            BY <3>3
        <3>6. PICK l, r : l = f[m.left] /\ r = f[m.right]
            OBVIOUS
        <3>7. l = g[m.left] /\ r = g[m.right]
            BY <3>3, <3>6
        <3>8. CASE k < m.key
            <4>1. InsertionOf(f, k, v, n) = Done(Settle([m EXCEPT !.left = l.node]), l.done)
                BY <2>2, <3>4, <3>6, <3>8 DEF InsertionByCase
            <4>2. InsertionOf(g, k, v, n) = Done(Settle([m EXCEPT !.left = l.node]), l.done)
                BY <2>2, <3>4, <3>7, <3>8 DEF InsertionByCase
            <4> QED BY <4>1, <4>2
        <3>9. CASE k > m.key
            <4>1. InsertionOf(f, k, v, n) = Done(Settle([m EXCEPT !.right = r.node]), r.done)
                BY <2>2, <3>4, <3>6, <3>9 DEF InsertionByCase
            <4>2. InsertionOf(g, k, v, n) = Done(Settle([m EXCEPT !.right = r.node]), r.done)
                BY <2>2, <3>4, <3>7, <3>9 DEF InsertionByCase
            <4> QED BY <4>1, <4>2
        <3>10. CASE k = m.key
            BY <2>2, <3>4, <3>10 DEF InsertionByCase
        <3> QED BY <3>5, <3>8, <3>9, <3>10
    <2> QED BY <2>1, <2>2
<1>5. V # {}
    BY <1>1, NilIsTree, DoneIs DEF Outcomes
<1>6. PICK f : Solves(f, D, V, B)
    BY <1>1, <1>3, <1>4, <1>5, LightRecursion, TreeIs
<1>7. f = [n \in Tree |-> InsertionOf(f, k, v, n)]
    BY <1>1, <1>2, <1>6 DEF Solves
<1> DEFINE IsInsertion(t) ==
        t = [n \in Tree |->
               IF n = Nil
               THEN Done([key |-> k, value |-> v, red |-> TRUE, left |-> Nil, right |-> Nil], TRUE)
               ELSE LET m == When(IsRed(n.left) /\ IsRed(n.right), ColorFlip, n)
                        l == t[m.left]
                        r == t[m.right]
                    IN CASE k < m.key -> Done(Settle([m EXCEPT !.left = l.node]), l.done)
                         [] k > m.key -> Done(Settle([m EXCEPT !.right = r.node]), r.done)
                         [] k = m.key -> Done(Settle([m EXCEPT !.value = v]), FALSE)]
<1>8. ASSUME NEW u PROVE IsInsertion(u) <=> u = [n \in Tree |-> InsertionOf(u, k, v, n)]
    BY DEF InsertionOf, Split, NewNode
<1>9. PICK t : t = CHOOSE u : IsInsertion(u)
    OBVIOUS
<1>10. InsertIn(k, v) = t
    BY <1>9 DEF InsertIn, Overwrite
<1> HIDE DEF IsInsertion
<1>11. IsInsertion(t)
    BY <1>7, <1>8, <1>9
<1>12. t = [n \in Tree |-> InsertionOf(t, k, v, n)]
    BY <1>8, <1>11
<1> QED BY <1>10, <1>12

\* t is s with the pair of k and v, in place of that of key k; b if it is new.
Puts(s, k, v, t, b) ==
    /\ Rising(t) /\ \A x : x \in Has(t) <=> (x = <<k, v>> \/ (x \in Has(s) /\ x[1] # k))
    /\ b <=> \A x \in Has(s) : x[1] # k

LEMMA PutsAtSide ==
    /\ \A s, l, e, r, t, u, v, b : \A k \in Int :
          Built(s, l, e, r) /\ Rising(s) /\ k < e[1] /\ Puts(l, k, v, t, b) /\ Built(u, t, e, r) => Puts(s, k, v, u, b)
    /\ \A s, l, e, r, t, u, v, b : \A k \in Int :
          Built(s, l, e, r) /\ Rising(s) /\ e[1] < k /\ Puts(r, k, v, t, b) /\ Built(u, l, e, t) => Puts(s, k, v, u, b)
<1>1. ASSUME NEW s, NEW l, NEW e, NEW r, NEW t, NEW u, NEW v, NEW b, NEW k \in Int,
             Built(s, l, e, r), Rising(s), k < e[1], Puts(l, k, v, t, b), Built(u, t, e, r)
      PROVE  Puts(s, k, v, u, b)
    <2>1. SortedAround(l, e, r) /\ e[1] \in Int /\ Keyed(r)
        BY <1>1, KeyedAll DEF Built
    <2>2. e[1] # k /\ \A x \in Has(r) : x[1] # k
        <3>1. \A x \in Has(r) : e[1] < x[1] /\ x[1] \in Int
            BY <2>1 DEF SortedAround, Keyed
        <3> QED BY <1>1, <2>1, <3>1
    <2>3. PICK w : w = <<k, v>>
        OBVIOUS
    <2>4. w[1] = k /\ \A x : x \in Has(t) <=> (x = w \/ (x \in Has(l) /\ x[1] # k))
        BY <1>1, <2>3 DEF Puts
    <2>5. Rising(u)
        <3>1. \A x \in Has(t) : x[1] < e[1]
            BY <1>1, <2>1, <2>4 DEF SortedAround
        <3> QED BY <1>1, <2>1, <3>1 DEF SortedAround, Puts, Built
    <2>6. \A x : x \in Has(u) <=> (x = w \/ (x \in Has(s) /\ x[1] # k))
        BY <1>1, <2>2, <2>4 DEF Built
    <2>7. b <=> \A x \in Has(s) : x[1] # k
        BY <1>1, <2>2 DEF Built, Puts
    <2> QED BY <2>3, <2>5, <2>6, <2>7 DEF Puts
<1>2. ASSUME NEW s, NEW l, NEW e, NEW r, NEW t, NEW u, NEW v, NEW b, NEW k \in Int,
             Built(s, l, e, r), Rising(s), e[1] < k, Puts(r, k, v, t, b), Built(u, l, e, t)
      PROVE  Puts(s, k, v, u, b)
    <2>1. SortedAround(l, e, r) /\ e[1] \in Int /\ Keyed(l)
        BY <1>2, KeyedAll DEF Built
    <2>2. e[1] # k /\ \A x \in Has(l) : x[1] # k
        <3>1. \A x \in Has(l) : x[1] < e[1] /\ x[1] \in Int
            BY <2>1 DEF SortedAround, Keyed
        <3> QED BY <1>2, <2>1, <3>1
    <2>3. PICK w : w = <<k, v>>
        OBVIOUS
    <2>4. w[1] = k /\ \A x : x \in Has(t) <=> (x = w \/ (x \in Has(r) /\ x[1] # k))
        BY <1>2, <2>3 DEF Puts
    <2>5. Rising(u)
        <3>1. \A x \in Has(t) : e[1] < x[1]
            BY <1>2, <2>1, <2>4 DEF SortedAround
        <3> QED BY <1>2, <2>1, <3>1 DEF SortedAround, Puts, Built
    <2>6. \A x : x \in Has(u) <=> (x = w \/ (x \in Has(s) /\ x[1] # k))
        BY <1>2, <2>2, <2>4 DEF Built
    <2>7. b <=> \A x \in Has(s) : x[1] # k
        BY <1>2, <2>2 DEF Built, Puts
    <2> QED BY <2>3, <2>5, <2>6, <2>7 DEF Puts
<1> QED BY <1>1, <1>2

\* The pair in the middle gets a new value.
LEMMA PutsHere ==
    \A s, l, e, d, r, u, v, b :
        Built(s, l, e, r) /\ Rising(s) /\ d = <<e[1], v>> /\ b = FALSE /\ Built(u, l, d, r) => Puts(s, e[1], v, u, b)
<1> SUFFICES ASSUME NEW s, NEW l, NEW e, NEW d, NEW r, NEW u, NEW v, NEW b,
                    Built(s, l, e, r), Rising(s), d = <<e[1], v>>, b = FALSE, Built(u, l, d, r)
             PROVE  Puts(s, e[1], v, u, b)
    OBVIOUS
<1>1. SortedAround(l, e, r) /\ e[1] \in Int /\ Keyed(l) /\ Keyed(r) /\ d[1] = e[1]
    BY KeyedAll DEF Built
<1>2. (\A x \in Has(l) : x[1] # e[1]) /\ \A x \in Has(r) : x[1] # e[1]
    <2>1. (\A x \in Has(l) : x[1] < e[1] /\ x[1] \in Int) /\ \A x \in Has(r) : e[1] < x[1] /\ x[1] \in Int
        BY <1>1 DEF SortedAround, Keyed
    <2> QED BY <1>1, <2>1
<1>3. SortedAround(l, d, r)
    BY <1>1 DEF SortedAround
<1>4. Rising(u)
    BY <1>3 DEF Built
<1>5. \A x : x \in Has(u) <=> (x = d \/ (x \in Has(s) /\ x[1] # e[1]))
    BY <1>2 DEF Built
<1>6. b <=> \A x \in Has(s) : x[1] # e[1]
    BY DEF Built
<1> QED BY <1>4, <1>5, <1>6 DEF Puts

More(b) == IF b THEN 1 ELSE 0
\* What insert promises: the subtree it returns has one pair more if it says so.
InsertionGood(r, k, v, n) ==
    /\ r \in Outcome /\ IsNode(r.node) /\ Weight(r.node) = Weight(n) + More(r.done)
    /\ Rising(Visit[n]) => Puts(Visit[n], k, v, Visit[r.node], r.done)

LEMMA InsertionMade ==
    \A k, v, n, o, b :
        (/\ IsNode(o) /\ b \in BOOLEAN /\ Weight(o) = Weight(n) + More(b)
         /\ Rising(Visit[n]) => Puts(Visit[n], k, v, Visit[o], b))
        => InsertionGood(Done(Settle(o), b), k, v, n)
<1> SUFFICES ASSUME NEW k, NEW v, NEW n, NEW o, NEW b, IsNode(o), b \in BOOLEAN, Weight(o) = Weight(n) + More(b),
                    Rising(Visit[n]) => Puts(Visit[n], k, v, Visit[o], b)
             PROVE  InsertionGood(Done(Settle(o), b), k, v, n)
    OBVIOUS
<1>1. PICK d : d = Settle(o)
    OBVIOUS
<1>2. IsNode(d) /\ d \in AnyTree /\ Visit[d] = Visit[o] /\ Weight(d) = Weight(o)
    BY <1>1, SettleSame, NodeIsTree DEF Same, Weight
<1> QED BY <1>1, <1>2, DoneIs DEF InsertionGood, Outcomes

LEMMA InsertionIs ==
    \A k \in Keys, v \in Values : \A n \in Tree : InsertionGood(InsertIn(k, v)[n], k, v, n)
<1> SUFFICES ASSUME NEW k \in Keys, NEW v \in Values PROVE \A n \in Tree : InsertionGood(InsertIn(k, v)[n], k, v, n)
    OBVIOUS
<1> DEFINE S == {n \in Tree : InsertionGood(InsertIn(k, v)[n], k, v, n)}
<1>1. ASSUME NEW n \in Tree, \A m \in Lighter(Tree, n) : m \in S PROVE InsertionGood(InsertIn(k, v)[n], k, v, n)
    <2>1. PICK f, m : f = InsertIn(k, v) /\ m = Split(n)
        OBVIOUS
    <2>2. f[n] = InsertionOf(f, k, v, n) /\ k \in Int
        BY <2>1, InsertRecurs, OMapAssumption DEF OMapAssumption
    <2>3. CASE n = Nil
        <3>1. PICK p, b : p = NewNode(k, v) /\ b = TRUE
            OBVIOUS
        <3>2. f[n] = Done(p, b)
            BY <2>2, <2>3, <3>1 DEF InsertionOf
        <3>3. PICK c : Holds(p, k, v, c, Nil, Nil)
            BY <3>1, NewNodeHolds
        <3>4. IsNode(p) /\ p \in AnyTree /\ Built(Visit[p], Visit[Nil], <<k, v>>, Visit[Nil])
            BY <3>3, HoldsBuilt, NodeIsTree DEF Holds
        <3>5. Has(Visit[Nil]) = {} /\ Rising(Visit[Nil]) /\ Len(Visit[Nil]) = 0
            BY EmptyVisit
        <3>6. Weight(p) = Weight(n) + More(b)
            <4>1. Len(Visit[p]) = 0 + 1 + 0
                BY <3>4, <3>5 DEF Built
            <4>2. Weight(p) = 1 /\ Weight(n) = 0 /\ More(b) = 1
                BY <2>3, <3>1, <3>5, <4>1 DEF Weight, More
            <4> QED BY <4>2
        <3>7. Puts(Visit[n], k, v, Visit[p], b)
            <4>1. PICK w : w = <<k, v>>
                OBVIOUS
            <4>2. SortedAround(Visit[Nil], w, Visit[Nil])
                BY <3>5 DEF SortedAround
            <4>3. Rising(Visit[p]) /\ \A x : x \in Has(Visit[p]) <=> x = w
                BY <3>4, <3>5, <4>1, <4>2 DEF Built
            <4> QED BY <2>3, <3>1, <3>5, <4>1, <4>3 DEF Puts
        <3>8. b \in BOOLEAN
            BY <3>1
        <3> QED BY <2>1, <3>2, <3>4, <3>6, <3>7, <3>8, DoneIs DEF InsertionGood, Outcomes
    <2>4. CASE n # Nil
        <3>1. SplitReady(m, n)
            BY <2>1, <2>4, SplitIsReady
        <3>2. Same(m, n) /\ IsNode(m) /\ Visit[m] = Visit[n] /\ m.key \in Int /\ m.left \in S /\ m.right \in S
            BY <1>1, <3>1 DEF SplitReady, Same
        <3>3. InsertionByCase(f, k, v, n, m)
            BY <2>1, <2>2, <3>2, InsertionCases
        <3>4. PICK s, sl, e, sr : s = Visit[m] /\ sl = Visit[m.left] /\ e = EntryOf(m) /\ sr = Visit[m.right]
            OBVIOUS
        <3>5. Built(s, sl, e, sr) /\ e[1] = m.key
            BY <3>2, <3>4, NodeBuilt, KeyOf
        <3>6. Len(s) = Len(sl) + 1 + Len(sr) /\ Len(sl) \in Nat /\ Len(sr) \in Nat /\ Weight(n) = Len(s)
            BY <3>2, <3>4, <3>5 DEF Built, Weight
        <3>7. CASE k < m.key
            <4>1. PICK l, c, b, o : l = f[m.left] /\ c = l.node /\ b = l.done /\ o = [m EXCEPT !.left = c]
                OBVIOUS
            <4>2. f[n] = Done(Settle(o), b)
                BY <2>2, <2>4, <3>3, <3>7, <4>1 DEF InsertionByCase
            <4>3. InsertionGood(l, k, v, m.left)
                BY <2>1, <3>2, <4>1
            <4>4. IsNode(c) /\ c \in AnyTree /\ b \in BOOLEAN /\ Weight(c) = Weight(m.left) + More(b)
                BY <4>1, <4>3, OutcomeIs DEF InsertionGood
            <4>5. Holds(o, m.key, m.value, m.red, c, m.right)
                BY <3>2, <4>1, <4>4, Relinked
            <4>6. IsNode(o) /\ Built(Visit[o], Visit[c], e, sr)
                BY <3>4, <4>5, HoldsBuilt DEF Holds, EntryOf
            <4>7. Weight(o) = Weight(n) + More(b)
                <5>1. Len(Visit[o]) = Len(Visit[c]) + 1 + Len(sr) /\ Len(Visit[c]) = Len(sl) + More(b)
                    BY <3>4, <4>4, <4>6 DEF Built, Weight
                <5>2. More(b) \in Int
                    BY DEF More
                <5> QED BY <3>6, <5>1, <5>2 DEF Weight
            <4>8. ASSUME Rising(Visit[n]) PROVE Puts(Visit[n], k, v, Visit[o], b)
                <5>1. Rising(s) /\ Rising(sl)
                    BY <3>2, <3>4, <3>5, <4>8 DEF Built, SortedAround
                <5>2. Puts(sl, k, v, Visit[c], b)
                    BY <3>4, <4>1, <4>3, <5>1 DEF InsertionGood
                <5>3. Puts(s, k, v, Visit[o], b)
                    BY <2>2, <3>5, <3>7, <4>6, <5>1, <5>2, PutsAtSide
                <5> QED BY <3>2, <3>4, <5>3
            <4> QED BY <2>1, <4>2, <4>4, <4>6, <4>7, <4>8, InsertionMade
        <3>8. CASE k > m.key
            <4>1. PICK r, c, b, o : r = f[m.right] /\ c = r.node /\ b = r.done /\ o = [m EXCEPT !.right = c]
                OBVIOUS
            <4>2. f[n] = Done(Settle(o), b)
                BY <2>2, <2>4, <3>3, <3>8, <4>1 DEF InsertionByCase
            <4>3. InsertionGood(r, k, v, m.right)
                BY <2>1, <3>2, <4>1
            <4>4. IsNode(c) /\ c \in AnyTree /\ b \in BOOLEAN /\ Weight(c) = Weight(m.right) + More(b)
                BY <4>1, <4>3, OutcomeIs DEF InsertionGood
            <4>5. Holds(o, m.key, m.value, m.red, m.left, c)
                BY <3>2, <4>1, <4>4, Relinked
            <4>6. IsNode(o) /\ Built(Visit[o], sl, e, Visit[c])
                BY <3>4, <4>5, HoldsBuilt DEF Holds, EntryOf
            <4>7. Weight(o) = Weight(n) + More(b)
                <5>1. Len(Visit[o]) = Len(sl) + 1 + Len(Visit[c]) /\ Len(Visit[c]) = Len(sr) + More(b)
                    BY <3>4, <4>4, <4>6 DEF Built, Weight
                <5>2. More(b) \in Int
                    BY DEF More
                <5> QED BY <3>6, <5>1, <5>2 DEF Weight
            <4>8. ASSUME Rising(Visit[n]) PROVE Puts(Visit[n], k, v, Visit[o], b)
                <5>1. Rising(s) /\ Rising(sr)
                    BY <3>2, <3>4, <3>5, <4>8 DEF Built, SortedAround
                <5>2. Puts(sr, k, v, Visit[c], b)
                    BY <3>4, <4>1, <4>3, <5>1 DEF InsertionGood
                <5>3. e[1] < k
                    BY <2>2, <3>2, <3>5, <3>8
                <5>4. Puts(s, k, v, Visit[o], b)
                    BY <2>2, <3>5, <4>6, <5>1, <5>2, <5>3, PutsAtSide
                <5> QED BY <3>2, <3>4, <5>4
            <4> QED BY <2>1, <4>2, <4>4, <4>6, <4>7, <4>8, InsertionMade
        <3>9. CASE k = m.key
            <4>1. PICK o, b, d : o = [m EXCEPT !.value = v] /\ b = FALSE /\ d = <<e[1], v>>
                OBVIOUS
            <4>2. f[n] = Done(Settle(o), b)
                BY <2>2, <2>4, <3>3, <3>9, <4>1 DEF InsertionByCase
            <4>3. Holds(o, m.key, v, m.red, m.left, m.right)
                BY <3>2, <4>1, Relinked
            <4>4. IsNode(o) /\ Built(Visit[o], sl, d, sr)
                BY <3>4, <3>5, <4>1, <4>3, HoldsBuilt DEF Holds
            <4>5. Weight(o) = Weight(n) + More(b)
                <5>1. Len(Visit[o]) = Len(sl) + 1 + Len(sr) /\ More(b) = 0
                    BY <4>1, <4>4 DEF Built, More
                <5> QED BY <3>6, <5>1 DEF Weight
            <4>6. ASSUME Rising(Visit[n]) PROVE Puts(Visit[n], k, v, Visit[o], b)
                <5>1. Rising(s)
                    BY <3>2, <3>4, <4>6
                <5>2. Puts(s, e[1], v, Visit[o], b)
                    BY <3>5, <4>1, <4>4, <5>1, PutsHere
                <5> QED BY <3>2, <3>4, <3>5, <3>9, <5>2
            <4>7. b \in BOOLEAN
                BY <4>1
            <4> QED BY <2>1, <4>2, <4>4, <4>5, <4>6, <4>7, InsertionMade
        <3>10. k < m.key \/ k > m.key \/ k = m.key
            BY <2>2, <3>2
        <3> QED BY <3>7, <3>8, <3>9, <3>10
    <2> QED BY <2>3, <2>4
<1>2. \A n \in Tree : (\A m \in Lighter(Tree, n) : m \in S) => n \in S
    BY <1>1
<1> HIDE DEF S
<1>3. \A n \in Tree : n \in S
    BY <1>2, LightInduction, TreeIs
<1> QED BY <1>3 DEF S

(***************************************************************************)
(* Do and Find (omap.go:108).                                              *)
(***************************************************************************)
LEMMA DoIs == \A n \in Tree : DoIn[n] = Visit[n]
<1>1. PICK f : f = [n \in Tree |-> Visit[n]]
    OBVIOUS
<1>2. ASSUME NEW n \in Tree PROVE Visit[n] = Visited(f, n)
    <2>1. Visit[n] = Visited(Visit, n)
        BY VisitIs, TreeIs DEF IsVisit
    <2>2. CASE n = Nil
        BY <2>1, <2>2 DEF Visited
    <2>3. CASE n # Nil
        <3>1. f[n.left] = Visit[n.left] /\ f[n.right] = Visit[n.right]
            BY <1>1, <2>3, TreeIs
        <3> QED BY <2>1, <3>1 DEF Visited
    <2> QED BY <2>2, <2>3
<1>3. f = [n \in Tree |-> Visited(f, n)]
    BY <1>1, <1>2
<1> DEFINE IsDo(t) ==
        t = [n \in Tree |-> IF n = Nil THEN <<>> ELSE t[n.left] \o <<<<n.key, n.value>>>> \o t[n.right]]
<1>4. ASSUME NEW u PROVE IsDo(u) <=> u = [n \in Tree |-> Visited(u, n)]
    BY DEF Visited
<1>5. PICK t : t = CHOOSE u : IsDo(u)
    OBVIOUS
<1>6. DoIn = t
    BY <1>5 DEF DoIn
<1> HIDE DEF IsDo
<1>7. IsDo(t)
    BY <1>3, <1>4, <1>5
<1>8. t = [n \in Tree |-> Visited(t, n)]
    BY <1>4, <1>7
<1> DEFINE S == {n \in Tree : t[n] = Visit[n]}
<1>9. ASSUME NEW n \in Tree, n = Nil \/ (IsNode(n) /\ n.left \in S /\ n.right \in S) PROVE n \in S
    <2>1. t[n] = Visited(t, n) /\ Visit[n] = Visited(Visit, n)
        BY <1>8, VisitIs, TreeIs DEF IsVisit
    <2>2. CASE n = Nil
        BY <2>1, <2>2 DEF Visited
    <2>3. CASE n # Nil
        <3>1. t[n.left] = Visit[n.left] /\ t[n.right] = Visit[n.right]
            BY <1>9, <2>3
        <3> QED BY <2>1, <3>1 DEF Visited
    <2> QED BY <2>2, <2>3
<1> HIDE DEF S
<1>10. \A n \in Tree : n \in S
    BY <1>9, TreeInduction, TreeIs
<1> QED BY <1>6, <1>10 DEF S

FindOf(f, k, n) == IF n = Nil \/ k = n.key THEN n ELSE IF k < n.key THEN f[n.left] ELSE f[n.right]

LEMMA FindCases ==
    \A k \in Int, n \in Tree : \A f :
        /\ n = Nil => FindOf(f, k, n) = Nil
        /\ n # Nil => n.key \in Int
        /\ n # Nil /\ k < n.key => FindOf(f, k, n) = f[n.left]
        /\ n # Nil /\ k > n.key => FindOf(f, k, n) = f[n.right]
        /\ n # Nil /\ k = n.key => FindOf(f, k, n) = n
<1> SUFFICES ASSUME NEW k \in Int, NEW n \in Tree, NEW f
             PROVE  /\ n = Nil => FindOf(f, k, n) = Nil
                    /\ n # Nil => n.key \in Int
                    /\ n # Nil /\ k < n.key => FindOf(f, k, n) = f[n.left]
                    /\ n # Nil /\ k > n.key => FindOf(f, k, n) = f[n.right]
                    /\ n # Nil /\ k = n.key => FindOf(f, k, n) = n
    OBVIOUS
<1>1. CASE n = Nil
    BY <1>1 DEF FindOf
<1>2. CASE n # Nil
    <2>1. n.key \in Int
        BY <1>2, TreeIs, KeyOf
    <2>2. CASE k < n.key
        <3>1. ~(k > n.key) /\ k # n.key
            BY <2>1, <2>2
        <3> QED BY <1>2, <2>1, <2>2, <3>1 DEF FindOf
    <2>3. CASE k > n.key
        <3>1. ~(k < n.key) /\ k # n.key
            BY <2>1, <2>3
        <3> QED BY <1>2, <2>1, <2>3, <3>1 DEF FindOf
    <2>4. CASE k = n.key
        <3>1. ~(k < n.key) /\ ~(k > n.key)
            BY <2>1, <2>4
        <3> QED BY <1>2, <2>1, <2>4, <3>1 DEF FindOf
    <2> QED BY <2>1, <2>2, <2>3, <2>4
<1> QED BY <1>1, <1>2

LEMMA ChildrenLighter ==
    \A n \in Tree : n # Nil => /\ IsNode(n) /\ n.left \in Tree /\ n.right \in Tree
                               /\ n.left \in Lighter(Tree, n) /\ n.right \in Lighter(Tree, n)
BY TreeIs, SameLighter DEF Same

LEMMA FindRecurs == \A k \in Int : \A n \in Tree : FindIn(k)[n] = FindOf(FindIn(k), k, n)
<1> SUFFICES ASSUME NEW k \in Int PROVE \A n \in Tree : FindIn(k)[n] = FindOf(FindIn(k), k, n)
    OBVIOUS
<1>1. PICK D, V, B : D = Tree /\ V = Tree /\ B = [x \in [D -> V] \X D |-> FindOf(x[1], k, x[2])]
    OBVIOUS
<1>2. \A f \in [D -> V], n \in D : B[<<f, n>>] = FindOf(f, k, n)
    BY <1>1
<1>3. B \in [[D -> V] \X D -> V]
    <2>1. ASSUME NEW f \in [D -> V], NEW n \in D PROVE FindOf(f, k, n) \in V
        <3>1. CASE n = Nil
            BY <1>1, <3>1, FindCases
        <3>2. CASE n # Nil
            <4>1. f[n.left] \in V /\ f[n.right] \in V /\ n.key \in Int
                BY <1>1, <3>2, FindCases, TreeIs
            <4>2. k < n.key \/ k > n.key \/ k = n.key
                BY <4>1
            <4> QED BY <1>1, <3>2, <4>1, <4>2, FindCases
        <3> QED BY <3>1, <3>2
    <2>2. \A x \in [D -> V] \X D : FindOf(x[1], k, x[2]) \in V
        BY <2>1
    <2> QED BY <1>1, <2>2
<1>4. LooksLighter(D, V, B)
    <2> SUFFICES ASSUME NEW f \in [D -> V], NEW g \in [D -> V], NEW n \in D,
                        \A m \in Lighter(D, n) : f[m] = g[m]
                 PROVE  FindOf(f, k, n) = FindOf(g, k, n)
        BY <1>2 DEF LooksLighter
    <2>1. CASE n = Nil
        BY <1>1, <2>1, FindCases
    <2>2. CASE n # Nil
        <3>1. f[n.left] = g[n.left] /\ f[n.right] = g[n.right] /\ n.key \in Int
            BY <1>1, <2>2, ChildrenLighter, FindCases
        <3>2. k < n.key \/ k > n.key \/ k = n.key
            BY <3>1
        <3> QED BY <1>1, <2>2, <3>1, <3>2, FindCases
    <2> QED BY <2>1, <2>2
<1>5. V # {}
    BY <1>1, TreeIs
<1>6. PICK f : Solves(f, D, V, B)
    BY <1>1, <1>3, <1>4, <1>5, LightRecursion, TreeIs
<1>7. f = [n \in Tree |-> FindOf(f, k, n)]
    BY <1>1, <1>2, <1>6 DEF Solves
<1> DEFINE IsFind(t) ==
        t = [n \in Tree |-> IF n = Nil \/ k = n.key THEN n
                            ELSE IF k < n.key THEN t[n.left] ELSE t[n.right]]
<1>8. ASSUME NEW u PROVE IsFind(u) <=> u = [n \in Tree |-> FindOf(u, k, n)]
    BY DEF FindOf
<1>9. PICK t : t = CHOOSE u : IsFind(u)
    OBVIOUS
<1>10. FindIn(k) = t
    BY <1>9 DEF FindIn
<1> HIDE DEF IsFind
<1>11. IsFind(t)
    BY <1>7, <1>8, <1>9
<1>12. t = [n \in Tree |-> FindOf(t, k, n)]
    BY <1>8, <1>11
<1> QED BY <1>10, <1>12

\* In a tree in order, a search ends at the pair with the key, if there is one.
FoundIn(m, k, n) ==
    Rising(Visit[n]) => /\ m # Nil => <<k, m.value>> \in Has(Visit[n])
                        /\ m = Nil => \A x \in Has(Visit[n]) : x[1] # k

LEMMA FindIs == \A k \in Int : \A n \in Tree : FoundIn(FindIn(k)[n], k, n)
<1> SUFFICES ASSUME NEW k \in Int PROVE \A n \in Tree : FoundIn(FindIn(k)[n], k, n)
    OBVIOUS
<1> DEFINE S == {n \in Tree : FoundIn(FindIn(k)[n], k, n)}
<1>1. ASSUME NEW n \in Tree, n = Nil \/ (IsNode(n) /\ n.left \in S /\ n.right \in S) PROVE n \in S
    <2>1. PICK f : f = FindIn(k)
        OBVIOUS
    <2>2. f[n] = FindOf(f, k, n)
        BY <2>1, FindRecurs
    <2>3. CASE n = Nil
        <3>1. f[n] = Nil
            BY <2>2, <2>3, FindCases
        <3> QED BY <2>1, <2>3, <3>1, EmptyVisit DEF FoundIn
    <2>4. CASE n # Nil
        <3>1. IsNode(n) /\ n.key \in Int /\ n.left \in S /\ n.right \in S
            BY <1>1, <2>4, KeyOf
        <3>2. Built(Visit[n], Visit[n.left], EntryOf(n), Visit[n.right]) /\ EntryOf(n)[1] = n.key
            BY <3>1, NodeBuilt, KeyOf
        <3>3. Keyed(Visit[n.left]) /\ Keyed(Visit[n.right])
            BY <3>2, KeyedAll DEF Built
        <3>4. CASE k < n.key
            <4>1. f[n] = f[n.left] /\ FoundIn(f[n.left], k, n.left)
                BY <2>1, <2>2, <2>4, <3>1, <3>4, FindCases
            <4>2. ASSUME Rising(Visit[n])
                  PROVE  /\ f[n] # Nil => <<k, f[n].value>> \in Has(Visit[n])
                         /\ f[n] = Nil => \A x \in Has(Visit[n]) : x[1] # k
                <5>1. Rising(Visit[n.left]) /\ \A x \in Has(Visit[n.right]) : n.key < x[1] /\ x[1] \in Int
                    BY <3>1, <3>3, <4>2, NodeOrder DEF Keyed
                <5>2. \A x \in Has(Visit[n.right]) : x[1] # k
                    BY <3>1, <3>4, <5>1
                <5>3. n.key # k
                    BY <3>1, <3>4
                <5> QED BY <3>2, <4>1, <5>1, <5>2, <5>3 DEF FoundIn, Built
            <4> QED BY <2>1, <4>2 DEF FoundIn
        <3>5. CASE k > n.key
            <4>1. f[n] = f[n.right] /\ FoundIn(f[n.right], k, n.right)
                BY <2>1, <2>2, <2>4, <3>1, <3>5, FindCases
            <4>2. ASSUME Rising(Visit[n])
                  PROVE  /\ f[n] # Nil => <<k, f[n].value>> \in Has(Visit[n])
                         /\ f[n] = Nil => \A x \in Has(Visit[n]) : x[1] # k
                <5>1. Rising(Visit[n.right]) /\ \A x \in Has(Visit[n.left]) : x[1] < n.key /\ x[1] \in Int
                    BY <3>1, <3>3, <4>2, NodeOrder DEF Keyed
                <5>2. \A x \in Has(Visit[n.left]) : x[1] # k
                    BY <3>1, <3>5, <5>1
                <5>3. n.key # k
                    BY <3>1, <3>5
                <5> QED BY <3>2, <4>1, <5>1, <5>2, <5>3 DEF FoundIn, Built
            <4> QED BY <2>1, <4>2 DEF FoundIn
        <3>6. CASE k = n.key
            <4>1. f[n] = n
                BY <2>2, <2>4, <3>1, <3>6, FindCases
            <4>2. EntryOf(n) = <<k, n.value>>
                BY <3>6 DEF EntryOf
            <4> QED BY <2>1, <2>4, <3>2, <4>1, <4>2 DEF FoundIn, Built
        <3>7. k < n.key \/ k > n.key \/ k = n.key
            BY <3>1
        <3> QED BY <3>4, <3>5, <3>6, <3>7
    <2> QED BY <2>3, <2>4
<1> HIDE DEF S
<1>2. \A n \in Tree : n \in S
    BY <1>1, TreeInduction, TreeIs
<1> QED BY <1>2 DEF S

(***************************************************************************)
(* Balanced trees.  Insert splits nodes with two red children on its way   *)
(* down, so that it always finds room below, and settles them on its way up;*)
(* a red node may be in disorder for one level, until its parent settles.  *)
(***************************************************************************)
Heights == Nat \union {-1}

BlackOf(f, n) ==
    IF n = Nil THEN 0
    ELSE LET l == f[n.left] IN
         IF l = -1 \/ l # f[n.right] THEN -1
         ELSE IF n.red THEN l ELSE l + 1

LEMMA BlackTyped == \A f, n : (n # Nil => f[n.left] \in Heights) => BlackOf(f, n) \in Heights
<1> SUFFICES ASSUME NEW f, NEW n, n # Nil => f[n.left] \in Heights PROVE BlackOf(f, n) \in Heights
    OBVIOUS
<1>1. CASE n = Nil
    BY <1>1 DEF BlackOf, Heights
<1>2. CASE n # Nil
    <2>1. PICK l : l = f[n.left]
        OBVIOUS
    <2>2. l \in Heights /\ (l # -1 => l \in Nat /\ l + 1 \in Nat) /\ -1 \in Heights
        BY <1>2, <2>1 DEF Heights
    <2> QED BY <1>2, <2>1, <2>2 DEF BlackOf, Heights
<1> QED BY <1>1, <1>2

LEMMA BlackRecurs == \A n \in Tree : BlackHeight[n] = BlackOf(BlackHeight, n) /\ BlackHeight[n] \in Heights
<1>1. PICK D, V, B : D = Tree /\ V = Heights /\ B = [x \in [D -> V] \X D |-> BlackOf(x[1], x[2])]
    OBVIOUS
<1>2. \A f \in [D -> V], n \in D : B[<<f, n>>] = BlackOf(f, n)
    BY <1>1
<1>3. B \in [[D -> V] \X D -> V]
    <2>1. ASSUME NEW f \in [D -> V], NEW n \in D PROVE BlackOf(f, n) \in V
        BY <1>1, ChildrenLighter, BlackTyped
    <2>2. \A x \in [D -> V] \X D : BlackOf(x[1], x[2]) \in V
        BY <2>1
    <2> QED BY <1>1, <2>2
<1>4. LooksLighter(D, V, B)
    <2> SUFFICES ASSUME NEW f \in [D -> V], NEW g \in [D -> V], NEW n \in D,
                        \A m \in Lighter(D, n) : f[m] = g[m]
                 PROVE  BlackOf(f, n) = BlackOf(g, n)
        BY <1>2 DEF LooksLighter
    <2>1. CASE n = Nil
        BY <2>1 DEF BlackOf
    <2>2. CASE n # Nil
        <3>1. f[n.left] = g[n.left] /\ f[n.right] = g[n.right]
            BY <1>1, <2>2, ChildrenLighter
        <3> QED BY <2>2, <3>1 DEF BlackOf
    <2> QED BY <2>1, <2>2
<1>5. V # {}
    BY <1>1 DEF Heights
<1>6. PICK f : Solves(f, D, V, B)
    BY <1>1, <1>3, <1>4, <1>5, LightRecursion, TreeIs
<1>7. f = [n \in Tree |-> BlackOf(f, n)]
    BY <1>1, <1>2, <1>6 DEF Solves
<1> DEFINE IsBlack(t) ==
        t = [n \in Tree |-> IF n = Nil THEN 0
                            ELSE LET l == t[n.left] IN
                                 IF l = -1 \/ l # t[n.right] THEN -1
                                 ELSE IF n.red THEN l ELSE l + 1]
<1>8. ASSUME NEW u PROVE IsBlack(u) <=> u = [n \in Tree |-> BlackOf(u, n)]
    BY DEF BlackOf
<1>9. PICK t : t = CHOOSE u : IsBlack(u)
    OBVIOUS
<1>10. BlackHeight = t
    BY <1>9 DEF BlackHeight
<1> HIDE DEF IsBlack
<1>11. IsBlack(t)
    BY <1>7, <1>8, <1>9
<1>12. t = [n \in Tree |-> BlackOf(t, n)]
    BY <1>8, <1>11
<1> DEFINE S == {n \in Tree : t[n] \in Heights}
<1>13. ASSUME NEW n \in Tree, n = Nil \/ (IsNode(n) /\ n.left \in S /\ n.right \in S) PROVE n \in S
    BY <1>12, <1>13, BlackTyped
<1> HIDE DEF S
<1>14. \A n \in Tree : n \in S
    BY <1>13, TreeInduction, TreeIs
<1> QED BY <1>10, <1>12, <1>14 DEF S

PairlessOf(f, n) ==
    \/ n = Nil
    \/ /\ n.red => ~IsRed(n.left) /\ ~IsRed(n.right)
       /\ IsRed(n.right) => IsRed(n.left)
       /\ f[n.left] /\ f[n.right]

LEMMA PairlessRecurs == \A n \in Tree : NoRedPairs[n] = PairlessOf(NoRedPairs, n)
<1>1. PICK D, V, B : D = Tree /\ V = BOOLEAN /\ B = [x \in [D -> V] \X D |-> PairlessOf(x[1], x[2])]
    OBVIOUS
<1>2. \A f \in [D -> V], n \in D : B[<<f, n>>] = PairlessOf(f, n)
    BY <1>1
<1>3. B \in [[D -> V] \X D -> V]
    <2>1. \A x \in [D -> V] \X D : PairlessOf(x[1], x[2]) \in BOOLEAN
        BY DEF PairlessOf
    <2> QED BY <1>1, <2>1
<1>4. LooksLighter(D, V, B)
    <2> SUFFICES ASSUME NEW f \in [D -> V], NEW g \in [D -> V], NEW n \in D,
                        \A m \in Lighter(D, n) : f[m] = g[m]
                 PROVE  PairlessOf(f, n) = PairlessOf(g, n)
        BY <1>2 DEF LooksLighter
    <2>1. CASE n = Nil
        BY <2>1 DEF PairlessOf
    <2>2. CASE n # Nil
        <3>1. f[n.left] = g[n.left] /\ f[n.right] = g[n.right]
            BY <1>1, <2>2, ChildrenLighter
        <3> QED BY <2>2, <3>1 DEF PairlessOf
    <2> QED BY <2>1, <2>2
<1>5. V # {}
    BY <1>1
<1>6. PICK f : Solves(f, D, V, B)
    BY <1>1, <1>3, <1>4, <1>5, LightRecursion, TreeIs
<1>7. f = [n \in Tree |-> PairlessOf(f, n)]
    BY <1>1, <1>2, <1>6 DEF Solves
<1> DEFINE IsPairless(t) ==
        t = [n \in Tree |-> \/ n = Nil
                            \/ /\ n.red => ~IsRed(n.left) /\ ~IsRed(n.right)
                               /\ IsRed(n.right) => IsRed(n.left)
                               /\ t[n.left] /\ t[n.right]]
<1>8. ASSUME NEW u PROVE IsPairless(u) <=> u = [n \in Tree |-> PairlessOf(u, n)]
    BY DEF PairlessOf
<1>9. PICK t : t = CHOOSE u : IsPairless(u)
    OBVIOUS
<1>10. NoRedPairs = t
    BY <1>9 DEF NoRedPairs
<1> HIDE DEF IsPairless
<1>11. IsPairless(t)
    BY <1>7, <1>8, <1>9
<1>12. t = [n \in Tree |-> PairlessOf(t, n)]
    BY <1>8, <1>11
<1> QED BY <1>10, <1>12

\* n is balanced, with h black nodes on each path.
Fits(n, h) == n \in Tree /\ NoRedPairs[n] /\ BlackHeight[n] = h /\ h \in Nat
Coloured(n) == (n.red => ~IsRed(n.left) /\ ~IsRed(n.right)) /\ (IsRed(n.right) => IsRed(n.left))
Rise(n, h) == IF n.red THEN h ELSE h + 1

LEMMA FitsNil == Fits(Nil, 0)
<1>1. Nil \in Tree
    BY TreeIs
<1>2. BlackHeight[Nil] = 0
    BY <1>1, BlackRecurs DEF BlackOf
<1>3. NoRedPairs[Nil]
    BY <1>1, PairlessRecurs DEF PairlessOf
<1> QED BY <1>1, <1>2, <1>3 DEF Fits

LEMMA RiseIs == \A n : \A h \in Nat : Rise(n, h) \in Nat /\ (n.red => Rise(n, h) = h) /\ (~n.red => Rise(n, h) = h + 1)
BY DEF Rise

LEMMA BlackRise ==
    \A n \in Tree : \A h \in Nat :
        n # Nil /\ BlackHeight[n.left] = h /\ BlackHeight[n.right] = h => BlackHeight[n] = Rise(n, h)
<1> SUFFICES ASSUME NEW n \in Tree, NEW h \in Nat, n # Nil, BlackHeight[n.left] = h, BlackHeight[n.right] = h
             PROVE  BlackHeight[n] = Rise(n, h)
    OBVIOUS
<1>1. h # -1
    OBVIOUS
<1>2. BlackHeight[n] = BlackOf(BlackHeight, n)
    BY BlackRecurs
<1> QED BY <1>1, <1>2 DEF BlackOf, Rise

LEMMA FitsMade ==
    \A n \in Tree : \A h \in Nat :
        n # Nil /\ Fits(n.left, h) /\ Fits(n.right, h) /\ Coloured(n) => Fits(n, Rise(n, h))
<1> SUFFICES ASSUME NEW n \in Tree, NEW h \in Nat, n # Nil, Fits(n.left, h), Fits(n.right, h), Coloured(n)
             PROVE  Fits(n, Rise(n, h))
    OBVIOUS
<1>1. BlackHeight[n] = Rise(n, h) /\ Rise(n, h) \in Nat
    BY BlackRise, RiseIs DEF Fits
<1>2. NoRedPairs[n] = PairlessOf(NoRedPairs, n)
    BY PairlessRecurs
<1>3. PairlessOf(NoRedPairs, n)
    BY DEF PairlessOf, Coloured, Fits
<1> QED BY <1>1, <1>2, <1>3 DEF Fits

LEMMA FitsNode ==
    \A n, h : n # Nil /\ Fits(n, h) =>
        \E g \in Nat : Fits(n.left, g) /\ Fits(n.right, g) /\ Coloured(n) /\ h = Rise(n, g)
<1> SUFFICES ASSUME NEW n, NEW h, n # Nil, Fits(n, h)
             PROVE  \E g \in Nat : Fits(n.left, g) /\ Fits(n.right, g) /\ Coloured(n) /\ h = Rise(n, g)
    OBVIOUS
<1>1. n \in Tree /\ h \in Nat /\ BlackHeight[n] = h /\ NoRedPairs[n]
    BY DEF Fits
<1>2. n.left \in Tree /\ n.right \in Tree
    BY <1>1, TreeIs
<1>3. NoRedPairs[n] = PairlessOf(NoRedPairs, n)
    BY <1>1, PairlessRecurs
<1>4. NoRedPairs[n.left] /\ NoRedPairs[n.right] /\ Coloured(n)
    BY <1>1, <1>3 DEF PairlessOf, Coloured
<1>5. PICK g : g = BlackHeight[n.left]
    OBVIOUS
<1>6. BlackHeight[n] = BlackOf(BlackHeight, n) /\ g \in Heights
    BY <1>1, <1>2, <1>5, BlackRecurs
<1>7. g # -1 /\ BlackHeight[n.right] = g
    <2>1. h # -1
        BY <1>1
    <2> QED BY <1>1, <1>5, <1>6, <2>1 DEF BlackOf
<1>8. g \in Nat
    BY <1>6, <1>7 DEF Heights
<1>9. h = Rise(n, g)
    BY <1>1, <1>2, <1>5, <1>7, <1>8, BlackRise
<1> QED BY <1>2, <1>4, <1>5, <1>7, <1>8, <1>9 DEF Fits

LEMMA RedChild ==
    \A x, h : Fits(x, h) /\ IsRed(x) =>
        ~IsRed(x.left) /\ ~IsRed(x.right) /\ Fits(x.left, h) /\ Fits(x.right, h)
<1> SUFFICES ASSUME NEW x, NEW h, Fits(x, h), IsRed(x)
             PROVE  ~IsRed(x.left) /\ ~IsRed(x.right) /\ Fits(x.left, h) /\ Fits(x.right, h)
    OBVIOUS
<1>1. x # Nil /\ x.red
    BY DEF IsRed
<1>2. PICK g \in Nat : Fits(x.left, g) /\ Fits(x.right, g) /\ Coloured(x) /\ h = Rise(x, g)
    BY <1>1, FitsNode
<1>3. h = g
    BY <1>1, <1>2, RiseIs
<1> QED BY <1>1, <1>2, <1>3 DEF Coloured

LEMMA RedFits ==
    \A n \in Tree : \A h \in Nat :
        n # Nil /\ n.red /\ Fits(n.left, h) /\ Fits(n.right, h) /\ ~IsRed(n.left) /\ ~IsRed(n.right) => Fits(n, h)
<1> SUFFICES ASSUME NEW n \in Tree, NEW h \in Nat, n # Nil, n.red, Fits(n.left, h), Fits(n.right, h),
                    ~IsRed(n.left), ~IsRed(n.right)
             PROVE  Fits(n, h)
    OBVIOUS
<1>1. Coloured(n)
    BY DEF Coloured
<1>2. Fits(n, Rise(n, h))
    BY <1>1, FitsMade
<1>3. Rise(n, h) = h
    BY RiseIs
<1> QED BY <1>2, <1>3

LEMMA BlackFits ==
    \A n \in Tree : \A h \in Nat :
        n # Nil /\ ~n.red /\ Fits(n.left, h) /\ Fits(n.right, h) /\ (IsRed(n.right) => IsRed(n.left)) => Fits(n, h + 1)
<1> SUFFICES ASSUME NEW n \in Tree, NEW h \in Nat, n # Nil, ~n.red, Fits(n.left, h), Fits(n.right, h),
                    IsRed(n.right) => IsRed(n.left)
             PROVE  Fits(n, h + 1)
    OBVIOUS
<1>1. Coloured(n)
    BY DEF Coloured
<1>2. Fits(n, Rise(n, h))
    BY <1>1, FitsMade
<1>3. Rise(n, h) = h + 1
    BY RiseIs
<1> QED BY <1>2, <1>3

LEMMA SameTree == \A n \in Tree : \A m : Same(m, n) => m \in Tree /\ m # Nil /\ m.left \in Tree /\ m.right \in Tree
<1> SUFFICES ASSUME NEW n \in Tree, NEW m, Same(m, n) PROVE m \in Tree /\ m # Nil /\ m.left \in Tree /\ m.right \in Tree
    OBVIOUS
<1>1. m \in AnyTree /\ m # Nil
    BY NodeIsTree DEF Same
<1>2. Weight(m) <= MaxLength
    <2>1. Weight(n) <= MaxLength
        BY TreeIs
    <2>2. Weight(m) = Weight(n)
        BY DEF Same, Weight
    <2> QED BY <2>1, <2>2
<1> QED BY <1>1, <1>2, TreeIs

\* A red node, the left child of which may be red too: not yet balanced.
Half(p, h) == p \in Tree /\ p # Nil /\ p.red /\ Fits(p.left, h) /\ Fits(p.right, h) /\ ~IsRed(p.right)

LEMMA SettleKeeps ==
    \A q : ~(IsRed(q.right) /\ ~IsRed(q.left)) /\ ~(IsRed(q.left) /\ IsRed(q.left.left)) => Settle(q) = q
BY DEF Settle, RotateRed, When

LEMMA SettleLeft ==
    \A q \in Tree : \A h :
        q # Nil /\ Fits(q.left, h) /\ Fits(q.right, h) /\ IsRed(q.right) /\ ~IsRed(q.left) =>
        /\ Settle(q).red = q.red /\ Same(Settle(q), q)
        /\ Fits(Settle(q).left, h) /\ IsRed(Settle(q).left) /\ Fits(Settle(q).right, h) /\ ~IsRed(Settle(q).right)
<1> SUFFICES ASSUME NEW q \in Tree, NEW h, q # Nil, Fits(q.left, h), Fits(q.right, h), IsRed(q.right), ~IsRed(q.left),
                    NEW m, m = RotateLeft(q)
             PROVE  /\ Settle(q).red = q.red /\ Same(Settle(q), q)
                    /\ Fits(Settle(q).left, h) /\ IsRed(Settle(q).left)
                    /\ Fits(Settle(q).right, h) /\ ~IsRed(Settle(q).right)
    OBVIOUS
<1>1. PICK x : x = q.right
    OBVIOUS
<1>2. IsNode(q) /\ IsNode(x)
    BY <1>1, TreeIs, RedIsNode DEF IsNode
<1>3. LeftRotatedAs(m, q, x)
    BY <1>1, <1>2, RotateLeftIs
<1>4. PICK y : y = m.left
    OBVIOUS
<1>5. y.red /\ y.left = q.left /\ y.right = x.left /\ m.right = x.right /\ m.red = q.red /\ IsNode(y)
    BY <1>3, <1>4 DEF LeftRotatedAs
<1>6. ~IsRed(x.left) /\ ~IsRed(x.right) /\ Fits(x.left, h) /\ Fits(x.right, h)
    BY <1>1, RedChild
<1>7. Same(m, q)
    BY <1>3 DEF LeftRotatedAs, Same
<1>8. y \in Tree /\ y # Nil
    BY <1>4, <1>5, <1>7, SameTree, NodeIsTree
<1>9. h \in Nat
    BY DEF Fits
<1>10. Fits(y, h) /\ IsRed(y)
    <2>1. Fits(y.left, h) /\ Fits(y.right, h) /\ ~IsRed(y.left) /\ ~IsRed(y.right)
        BY <1>5, <1>6
    <2> QED BY <1>5, <1>8, <1>9, <2>1, RedFits DEF IsRed
<1>11. Settle(q) = m
    <2>1. Settle(q) = RotateRed(m)
        BY DEF Settle, When
    <2>2. ~IsRed(m.left.left)
        BY <1>4, <1>5
    <2> QED BY <2>1, <2>2 DEF RotateRed, When
<1> QED BY <1>4, <1>5, <1>6, <1>7, <1>10, <1>11

LEMMA SettleRight ==
    \A q \in Tree : \A h :
        q # Nil /\ Half(q.left, h) /\ Fits(q.right, h) /\ ~IsRed(q.right) /\ IsRed(q.left.left) =>
        /\ Settle(q).red = q.red /\ Same(Settle(q), q)
        /\ Fits(Settle(q).left, h) /\ IsRed(Settle(q).left) /\ Fits(Settle(q).right, h) /\ IsRed(Settle(q).right)
<1> SUFFICES ASSUME NEW q \in Tree, NEW h, q # Nil, Half(q.left, h), Fits(q.right, h), ~IsRed(q.right), IsRed(q.left.left),
                    NEW m, m = RotateRight(q)
             PROVE  /\ Settle(q).red = q.red /\ Same(Settle(q), q)
                    /\ Fits(Settle(q).left, h) /\ IsRed(Settle(q).left)
                    /\ Fits(Settle(q).right, h) /\ IsRed(Settle(q).right)
    OBVIOUS
<1>1. PICK x : x = q.left
    OBVIOUS
<1>2. IsNode(q) /\ IsNode(x)
    BY <1>1, TreeIs DEF Half
<1>3. RightRotatedAs(m, q, x)
    BY <1>1, <1>2, RotateRightIs
<1>4. PICK y : y = m.right
    OBVIOUS
<1>5. y.red /\ y.left = x.right /\ y.right = q.right /\ m.left = x.left /\ m.red = q.red /\ IsNode(y)
    BY <1>3, <1>4 DEF RightRotatedAs
<1>6. Fits(x.left, h) /\ Fits(x.right, h) /\ ~IsRed(x.right) /\ IsRed(x)
    BY <1>1 DEF Half, IsRed
<1>7. Same(m, q)
    BY <1>3 DEF RightRotatedAs, Same
<1>8. y \in Tree /\ y # Nil
    BY <1>4, <1>5, <1>7, SameTree, NodeIsTree
<1>9. h \in Nat
    BY DEF Fits
<1>10. Fits(y, h) /\ IsRed(y)
    <2>1. Fits(y.left, h) /\ Fits(y.right, h) /\ ~IsRed(y.left) /\ ~IsRed(y.right)
        BY <1>5, <1>6
    <2> QED BY <1>5, <1>8, <1>9, <2>1, RedFits DEF IsRed
<1>11. Settle(q) = m
    <2>1. Settle(q) = RotateRed(q)
        BY <1>1, <1>6 DEF Settle, When
    <2> QED BY <1>1, <1>6, <2>1 DEF RotateRed, When
<1>12. IsRed(m.left) /\ Fits(m.left, h)
    BY <1>1, <1>5, <1>6
<1>13. IsRed(m.right) /\ Fits(m.right, h)
    BY <1>4, <1>10
<1> QED BY <1>5, <1>7, <1>11, <1>12, <1>13

LEMMA SettleBlack ==
    \A q \in Tree : \A h :
        q # Nil /\ ~q.red /\ Fits(q.left, h) /\ Fits(q.right, h) =>
        Settle(q) # Nil /\ ~Settle(q).red /\ Fits(Settle(q), h + 1)
<1> SUFFICES ASSUME NEW q \in Tree, NEW h, q # Nil, ~q.red, Fits(q.left, h), Fits(q.right, h)
             PROVE  Settle(q) # Nil /\ ~Settle(q).red /\ Fits(Settle(q), h + 1)
    OBVIOUS
<1>1. h \in Nat
    BY DEF Fits
<1>2. CASE IsRed(q.right) /\ ~IsRed(q.left)
    <2>1. PICK m : m = Settle(q)
        OBVIOUS
    <2>2. m.red = q.red /\ Same(m, q) /\ Fits(m.left, h) /\ Fits(m.right, h) /\ ~IsRed(m.right)
        BY <1>2, <2>1, SettleLeft
    <2>3. m \in Tree /\ m # Nil
        BY <2>2, SameTree
    <2> QED BY <1>1, <2>1, <2>2, <2>3, BlackFits
<1>3. CASE ~(IsRed(q.right) /\ ~IsRed(q.left))
    <2>1. Settle(q) = q
        BY <1>3, RedChild, SettleKeeps
    <2> QED BY <1>1, <1>3, <2>1, BlackFits
<1> QED BY <1>2, <1>3

LEMMA SettleRed ==
    \A q \in Tree : \A h :
        q # Nil /\ q.red /\ Fits(q.left, h) /\ Fits(q.right, h) /\ ~(IsRed(q.left) /\ IsRed(q.right)) =>
        Half(Settle(q), h) /\ (~IsRed(q.left) /\ ~IsRed(q.right) => Fits(Settle(q), h))
<1> SUFFICES ASSUME NEW q \in Tree, NEW h, q # Nil, q.red, Fits(q.left, h), Fits(q.right, h),
                    ~(IsRed(q.left) /\ IsRed(q.right))
             PROVE  Half(Settle(q), h) /\ (~IsRed(q.left) /\ ~IsRed(q.right) => Fits(Settle(q), h))
    OBVIOUS
<1>1. h \in Nat
    BY DEF Fits
<1>2. CASE IsRed(q.right) /\ ~IsRed(q.left)
    <2>1. PICK m : m = Settle(q)
        OBVIOUS
    <2>2. m.red = q.red /\ Same(m, q) /\ Fits(m.left, h) /\ Fits(m.right, h) /\ ~IsRed(m.right)
        BY <1>2, <2>1, SettleLeft
    <2>3. m \in Tree /\ m # Nil
        BY <2>2, SameTree
    <2> QED BY <1>2, <2>1, <2>2, <2>3 DEF Half
<1>3. CASE ~(IsRed(q.right) /\ ~IsRed(q.left))
    <2>1. Settle(q) = q
        BY <1>3, RedChild, SettleKeeps
    <2> QED BY <1>1, <1>3, <2>1, RedFits DEF Half
<1> QED BY <1>2, <1>3

LEMMA SettleHalf ==
    \A q \in Tree : \A h :
        q # Nil /\ ~q.red /\ Half(q.left, h) /\ Fits(q.right, h) /\ ~IsRed(q.right) =>
        Settle(q) # Nil /\ ~Settle(q).red /\ Fits(Settle(q), h + 1)
<1> SUFFICES ASSUME NEW q \in Tree, NEW h, q # Nil, ~q.red, Half(q.left, h), Fits(q.right, h), ~IsRed(q.right)
             PROVE  Settle(q) # Nil /\ ~Settle(q).red /\ Fits(Settle(q), h + 1)
    OBVIOUS
<1>1. h \in Nat
    BY DEF Fits
<1>2. CASE IsRed(q.left.left)
    <2>1. PICK m : m = Settle(q)
        OBVIOUS
    <2>2. m.red = q.red /\ Same(m, q) /\ Fits(m.left, h) /\ Fits(m.right, h) /\ IsRed(m.left)
        BY <1>2, <2>1, SettleRight
    <2>3. m \in Tree /\ m # Nil
        BY <2>2, SameTree
    <2> QED BY <1>1, <2>1, <2>2, <2>3, BlackFits
<1>3. CASE ~IsRed(q.left.left)
    <2>1. Settle(q) = q
        BY <1>3, SettleKeeps
    <2>2. Fits(q.left, h)
        BY <1>1, <1>3, RedFits DEF Half
    <2> QED BY <1>1, <2>1, <2>2, BlackFits
<1> QED BY <1>2, <1>3

\* What a balanced tree n with h black nodes on each path may become when a
\* pair is inserted: a red node with two red children, or none, comes out red
\* and balanced, a black one black and balanced, a red one half balanced.
FourNode(n) == IsRed(n.left) /\ IsRed(n.right)
Grown(p, n, h) ==
    /\ p # Nil
    /\ n = Nil \/ FourNode(n) => p.red /\ Fits(p, h)
    /\ n # Nil /\ ~n.red /\ ~FourNode(n) => ~p.red /\ Fits(p, h)
    /\ n # Nil /\ n.red => Half(p, h)
Grows(p, n) == \A h : Fits(n, h) => Grown(p, n, h)

LEMMA GrownBlack == \A n, p, h : Grows(p, n) /\ Fits(n, h) /\ ~IsRed(n) => Fits(p, h)
BY DEF Grows, Grown, IsRed

LEMMA GrownRed == \A n, p, h : Grows(p, n) /\ Fits(n, h) /\ IsRed(n) => Half(p, h)
BY DEF Grows, Grown, IsRed

LEMMA FlipFits ==
    \A x : \A g \in Nat : Fits(x, g) /\ IsRed(x) =>
        Flip(x) # Nil /\ ~Flip(x).red /\ ~FourNode(Flip(x)) /\ Fits(Flip(x), g + 1)
<1> SUFFICES ASSUME NEW x, NEW g \in Nat, Fits(x, g), IsRed(x), NEW m, m = Flip(x)
             PROVE  m # Nil /\ ~m.red /\ ~FourNode(m) /\ Fits(m, g + 1)
    OBVIOUS
<1>1. x \in Tree /\ x # Nil /\ x.red
    BY DEF Fits, IsRed
<1>2. FlippedAs(m, x)
    BY <1>1, TreeIs, FlipIs
<1>3. Same(m, x) /\ ~m.red /\ m.left = x.left /\ m.right = x.right
    BY <1>1, <1>2 DEF FlippedAs, Same
<1>4. m \in Tree /\ m # Nil
    BY <1>1, <1>3, SameTree
<1>5. ~IsRed(m.left) /\ ~IsRed(m.right) /\ Fits(m.left, g) /\ Fits(m.right, g)
    BY <1>3, RedChild
<1> QED BY <1>3, <1>4, <1>5, BlackFits DEF FourNode

LEMMA SplitFits ==
    \A n, h : n # Nil /\ FourNode(n) /\ Fits(n, h) =>
        /\ ~n.red /\ Split(n).red
        /\ Fits(Split(n).left, h) /\ Split(n).left # Nil /\ ~Split(n).left.red /\ ~FourNode(Split(n).left)
        /\ Fits(Split(n).right, h) /\ Split(n).right # Nil /\ ~Split(n).right.red /\ ~FourNode(Split(n).right)
<1> SUFFICES ASSUME NEW n, NEW h, n # Nil, FourNode(n), Fits(n, h), NEW m, m = Split(n)
             PROVE  /\ ~n.red /\ m.red
                    /\ Fits(m.left, h) /\ m.left # Nil /\ ~m.left.red /\ ~FourNode(m.left)
                    /\ Fits(m.right, h) /\ m.right # Nil /\ ~m.right.red /\ ~FourNode(m.right)
    OBVIOUS
<1>1. IsNode(n) /\ IsRed(n.left) /\ IsRed(n.right)
    BY TreeIs DEF Fits, FourNode
<1>2. PICK g \in Nat : Fits(n.left, g) /\ Fits(n.right, g) /\ Coloured(n) /\ h = Rise(n, g)
    BY FitsNode
<1>3. ~n.red
    BY <1>1, <1>2 DEF Coloured
<1>4. h = g + 1
    BY <1>2, <1>3, RiseIs
<1>5. m = ColorFlip(n)
    BY <1>1 DEF Split, When
<1>6. ColorFlippedAs(m, n)
    BY <1>1, <1>5, ColorFlipIs
<1>7. m.red /\ m.left = Flip(n.left) /\ m.right = Flip(n.right)
    BY <1>3, <1>6 DEF ColorFlippedAs
<1> QED BY <1>1, <1>2, <1>3, <1>4, <1>7, FlipFits

\* q is m with a child that grew, or with none.
OneGrew(q, m) ==
    \/ Grows(q.left, m.left) /\ q.right = m.right
    \/ q.left = m.left /\ Grows(q.right, m.right)
    \/ q.left = m.left /\ q.right = m.right

LEMMA SettleSplit ==
    \A n, q, h :
        n # Nil /\ FourNode(n) /\ Fits(n, h) /\ q \in Tree /\ q # Nil /\ q.red = Split(n).red /\ OneGrew(q, Split(n))
        => Grown(Settle(q), n, h)
<1> SUFFICES ASSUME NEW n, NEW q \in Tree, NEW h, n # Nil, FourNode(n), Fits(n, h), q # Nil,
                    NEW m, m = Split(n), q.red = m.red, OneGrew(q, m)
             PROVE  Grown(Settle(q), n, h)
    OBVIOUS
<1>1. /\ ~n.red /\ m.red
      /\ Fits(m.left, h) /\ m.left # Nil /\ ~m.left.red /\ ~FourNode(m.left)
      /\ Fits(m.right, h) /\ m.right # Nil /\ ~m.right.red /\ ~FourNode(m.right)
    BY SplitFits
<1>2. Fits(q.left, h) /\ ~IsRed(q.left)
    <2>1. CASE q.left = m.left
        BY <1>1, <2>1 DEF IsRed
    <2>2. CASE Grows(q.left, m.left)
        BY <1>1, <2>2 DEF Grows, Grown, IsRed
    <2> QED BY <2>1, <2>2 DEF OneGrew
<1>3. Fits(q.right, h) /\ ~IsRed(q.right)
    <2>1. CASE q.right = m.right
        BY <1>1, <2>1 DEF IsRed
    <2>2. CASE Grows(q.right, m.right)
        BY <1>1, <2>2 DEF Grows, Grown, IsRed
    <2> QED BY <2>1, <2>2 DEF OneGrew
<1>4. Half(Settle(q), h) /\ Fits(Settle(q), h)
    BY <1>1, <1>2, <1>3, SettleRed
<1> QED BY <1>1, <1>4 DEF Grown, Half

LEMMA SettleOther ==
    \A n, q, h :
        n # Nil /\ ~FourNode(n) /\ Fits(n, h) /\ q \in Tree /\ q # Nil /\ q.red = n.red /\ OneGrew(q, n)
        => Grown(Settle(q), n, h)
<1> SUFFICES ASSUME NEW n, NEW q \in Tree, NEW h, n # Nil, ~FourNode(n), Fits(n, h), q # Nil, q.red = n.red, OneGrew(q, n)
             PROVE  Grown(Settle(q), n, h)
    OBVIOUS
<1>1. PICK g \in Nat : Fits(n.left, g) /\ Fits(n.right, g) /\ Coloured(n) /\ h = Rise(n, g)
    BY FitsNode
<1>2. ~IsRed(n.right)
    BY <1>1 DEF Coloured, FourNode
<1>3. Fits(q.right, g)
    <2>1. CASE q.right = n.right
        BY <1>1, <2>1
    <2>2. CASE Grows(q.right, n.right)
        BY <1>1, <1>2, <2>2, GrownBlack
    <2> QED BY <2>1, <2>2 DEF OneGrew
<1>4. CASE n.red
    <2>1. ~IsRed(n.left) /\ h = g
        BY <1>1, <1>4, RiseIs DEF Coloured
    <2>2. Fits(q.left, g)
        <3>1. CASE q.left = n.left
            BY <1>1, <3>1
        <3>2. CASE Grows(q.left, n.left)
            BY <1>1, <2>1, <3>2, GrownBlack
        <3> QED BY <3>1, <3>2 DEF OneGrew
    <2>3. ~(IsRed(q.left) /\ IsRed(q.right))
        BY <1>2, <2>1 DEF OneGrew
    <2>4. Half(Settle(q), h)
        BY <1>3, <1>4, <2>1, <2>2, <2>3, SettleRed
    <2> QED BY <1>4, <2>4 DEF Grown, Half
<1>5. CASE ~n.red
    <2>1. h = g + 1
        BY <1>1, <1>5, RiseIs
    <2>2. CASE Fits(q.left, g)
        <3>1. Settle(q) # Nil /\ ~Settle(q).red /\ Fits(Settle(q), h)
            BY <1>3, <1>5, <2>1, <2>2, SettleBlack
        <3> QED BY <1>5, <3>1 DEF Grown
    <2>3. CASE ~Fits(q.left, g)
        <3>1. Grows(q.left, n.left) /\ q.right = n.right /\ IsRed(n.left)
            BY <1>1, <2>3, GrownBlack DEF OneGrew
        <3>2. Half(q.left, g) /\ ~IsRed(q.right)
            BY <1>1, <1>2, <3>1, GrownRed
        <3>3. Settle(q) # Nil /\ ~Settle(q).red /\ Fits(Settle(q), h)
            BY <1>3, <1>5, <2>1, <3>2, SettleHalf
        <3> QED BY <1>5, <3>3 DEF Grown
    <2> QED BY <2>2, <2>3
<1> QED BY <1>4, <1>5

LEMMA SettleGrows ==
    \A n, q : n # Nil /\ q \in Tree /\ q # Nil /\ q.red = Split(n).red /\ OneGrew(q, Split(n)) => Grows(Settle(q), n)
<1> SUFFICES ASSUME NEW n, NEW q \in Tree, n # Nil, q # Nil, q.red = Split(n).red, OneGrew(q, Split(n)), NEW h, Fits(n, h)
             PROVE  Grown(Settle(q), n, h)
    BY DEF Grows
<1>1. CASE FourNode(n)
    BY <1>1, SettleSplit
<1>2. CASE ~FourNode(n)
    <2>1. Split(n) = n
        BY <1>2 DEF Split, When, FourNode
    <2> QED BY <1>2, <2>1, SettleOther
<1> QED BY <1>1, <1>2

LEMMA InsertionBalances ==
    \A k \in Keys, v \in Values : \A n \in Tree : Weight(n) < MaxLength => Grows(InsertIn(k, v)[n].node, n)
<1> SUFFICES ASSUME NEW k \in Keys, NEW v \in Values
             PROVE  \A n \in Tree : Weight(n) < MaxLength => Grows(InsertIn(k, v)[n].node, n)
    OBVIOUS
<1>1. PICK f : f = InsertIn(k, v)
    OBVIOUS
<1>2. k \in Int /\ MaxLength \in Nat
    BY OMapAssumption DEF OMapAssumption
<1> DEFINE S == {n \in Tree : Weight(n) < MaxLength => Grows(f[n].node, n)}
<1>3. ASSUME NEW n \in Tree, Weight(n) < MaxLength, \A m \in Lighter(Tree, n) : m \in S PROVE Grows(f[n].node, n)
    <2>1. f[n] = InsertionOf(f, k, v, n)
        BY <1>1, InsertRecurs
    <2>2. /\ f[n] \in Outcome /\ IsNode(f[n].node) /\ f[n].done \in BOOLEAN
          /\ Weight(f[n].node) = Weight(n) + More(f[n].done)
        BY <1>1, InsertionIs, OutcomeIs DEF InsertionGood
    <2>3. ASSUME NEW o, IsNode(o), f[n].node = Settle(o) PROVE o \in Tree /\ o # Nil
        <3>1. Weight(o) = Weight(f[n].node) /\ o \in AnyTree /\ o # Nil
            BY <2>3, SettleSame, NodeIsTree DEF Same, Weight
        <3>2. Weight(n) \in Nat
            BY WeightOf, TreeIs
        <3>3. Weight(o) <= MaxLength
            BY <1>2, <1>3, <2>2, <3>1, <3>2 DEF More
        <3> QED BY <3>1, <3>3, TreeIs
    <2>4. CASE n = Nil
        <3>1. PICK p, b : p = NewNode(k, v) /\ b = TRUE
            OBVIOUS
        <3>2. f[n] = Done(p, b)
            BY <2>1, <2>4, <3>1 DEF InsertionOf
        <3>3. f[n].node = p
            BY <3>2 DEF Done
        <3>4. PICK c : c = TRUE /\ Holds(p, k, v, c, Nil, Nil)
            BY <3>1, NewNodeHolds
        <3>5. p \in Tree /\ p # Nil
            <4>1. Weight(p) \in Nat /\ Weight(n) = 0 /\ p \in AnyTree /\ p # Nil
                BY <2>4, <3>4, WeightOf, NodeIsTree DEF Holds
            <4>2. Weight(p) <= MaxLength
                BY <1>2, <1>3, <2>2, <3>3, <4>1 DEF More
            <4> QED BY <4>1, <4>2, TreeIs
        <3>6. p.red /\ p.left = Nil /\ p.right = Nil
            BY <3>4 DEF Holds
        <3>7. Fits(p, 0)
            BY <3>5, <3>6, FitsNil, RedFits DEF IsRed
        <3>8. ASSUME NEW h, Fits(n, h) PROVE h = 0
            BY <2>4, <3>8, FitsNil DEF Fits
        <3>9. ~IsRed(p.left) /\ ~IsRed(p.right) /\ Fits(p.left, 0) /\ Fits(p.right, 0)
            BY <3>6, FitsNil DEF IsRed
        <3> QED BY <2>4, <3>3, <3>5, <3>6, <3>7, <3>8, <3>9 DEF Grows, Grown, Half
    <2>5. CASE n # Nil
        <3>1. PICK m : m = Split(n)
            OBVIOUS
        <3>2. SplitReady(m, n)
            BY <2>5, <3>1, SplitIsReady
        <3>3. IsNode(m) /\ m.key \in Int /\ m.left \in S /\ m.right \in S
            BY <1>3, <3>2 DEF SplitReady
        <3>4. Weight(m.left) < MaxLength /\ Weight(m.right) < MaxLength
            <4>1. Weight(m.left) < Weight(n) /\ Weight(m.right) < Weight(n)
                BY <3>2 DEF SplitReady, Lighter
            <4>2. Weight(m.left) \in Nat /\ Weight(m.right) \in Nat /\ Weight(n) \in Nat
                BY <3>2, WeightOf, TreeIs DEF SplitReady
            <4> QED BY <1>2, <1>3, <4>1, <4>2
        <3>5. Grows(f[m.left].node, m.left) /\ Grows(f[m.right].node, m.right)
            BY <3>3, <3>4
        <3>6. InsertionByCase(f, k, v, n, m)
            BY <1>2, <3>1, <3>3, InsertionCases
        <3>7. f[m.left] \in Outcome /\ f[m.right] \in Outcome
            BY <1>1, <3>2, InsertionIs DEF InsertionGood, SplitReady
        <3>8. CASE k < m.key
            <4>1. PICK l, c, o : l = f[m.left] /\ c = l.node /\ o = [m EXCEPT !.left = c]
                OBVIOUS
            <4>2. f[n] = Done(Settle(o), l.done)
                BY <2>1, <2>5, <3>6, <3>8, <4>1 DEF InsertionByCase
            <4>3. f[n].node = Settle(o)
                BY <4>2 DEF Done
            <4>4. Holds(o, m.key, m.value, m.red, c, m.right)
                BY <3>3, <3>7, <4>1, OutcomeIs, Relinked
            <4>5. IsNode(o) /\ o.red = m.red /\ o.left = c /\ o.right = m.right
                BY <4>4 DEF Holds
            <4>6. OneGrew(o, m)
                BY <3>5, <4>1, <4>5 DEF OneGrew
            <4> QED BY <2>3, <2>5, <3>1, <4>3, <4>5, <4>6, SettleGrows
        <3>9. CASE k > m.key
            <4>1. PICK r, c, o : r = f[m.right] /\ c = r.node /\ o = [m EXCEPT !.right = c]
                OBVIOUS
            <4>2. f[n] = Done(Settle(o), r.done)
                BY <2>1, <2>5, <3>6, <3>9, <4>1 DEF InsertionByCase
            <4>3. f[n].node = Settle(o)
                BY <4>2 DEF Done
            <4>4. Holds(o, m.key, m.value, m.red, m.left, c)
                BY <3>3, <3>7, <4>1, OutcomeIs, Relinked
            <4>5. IsNode(o) /\ o.red = m.red /\ o.left = m.left /\ o.right = c
                BY <4>4 DEF Holds
            <4>6. OneGrew(o, m)
                BY <3>5, <4>1, <4>5 DEF OneGrew
            <4> QED BY <2>3, <2>5, <3>1, <4>3, <4>5, <4>6, SettleGrows
        <3>10. CASE k = m.key
            <4>1. PICK o, b : o = [m EXCEPT !.value = v] /\ b = FALSE
                OBVIOUS
            <4>2. f[n] = Done(Settle(o), b)
                BY <2>1, <2>5, <3>6, <3>10, <4>1 DEF InsertionByCase
            <4>3. f[n].node = Settle(o)
                BY <4>2 DEF Done
            <4>4. Holds(o, m.key, v, m.red, m.left, m.right)
                BY <3>3, <4>1, Relinked
            <4>5. IsNode(o) /\ o.red = m.red /\ o.left = m.left /\ o.right = m.right
                BY <4>4 DEF Holds
            <4>6. OneGrew(o, m)
                BY <4>5 DEF OneGrew
            <4> QED BY <2>3, <2>5, <3>1, <4>3, <4>5, <4>6, SettleGrows
        <3>11. k < m.key \/ k > m.key \/ k = m.key
            BY <1>2, <3>3
        <3> QED BY <3>8, <3>9, <3>10, <3>11
    <2> QED BY <2>4, <2>5
<1>4. \A n \in Tree : (\A m \in Lighter(Tree, n) : m \in S) => n \in S
    BY <1>3
<1> HIDE DEF S
<1>5. \A n \in Tree : n \in S
    BY <1>4, LightInduction, TreeIs
<1> QED BY <1>1, <1>5 DEF S

LEMMA BlackRoot == \A n \in Tree : \A h : n # Nil /\ (Fits(n, h) \/ Half(n, h)) => \E g \in Nat : Fits(Black(n), g) /\ ~IsRed(Black(n))
<1> SUFFICES ASSUME NEW n \in Tree, NEW h, n # Nil, Fits(n, h) \/ Half(n, h), NEW m, m = Black(n)
             PROVE  \E g \in Nat : Fits(m, g) /\ ~IsRed(m)
    OBVIOUS
<1>1. PICK c : c = FALSE
    OBVIOUS
<1>2. m = [n EXCEPT !.red = c]
    BY <1>1 DEF Black
<1>3. Holds(m, n.key, n.value, c, n.left, n.right)
    BY <1>1, <1>2, TreeIs, Relinked
<1>4. IsNode(m) /\ ~m.red /\ m.left = n.left /\ m.right = n.right
    BY <1>1, <1>3 DEF Holds
<1>5. Same(m, n)
    <2>1. Visit[n] = Joined(Visit[n.left], <<n.key, n.value>>, Visit[n.right])
        BY TreeIs, VisitNode DEF VisitOK, EntryOf
    <2> QED BY <1>3, <2>1 DEF Holds, Same
<1>6. m \in Tree /\ m # Nil
    BY <1>5, SameTree
<1>7. PICK g \in Nat : Fits(n.left, g) /\ Fits(n.right, g) /\ (IsRed(n.right) => IsRed(n.left))
    <2>1. CASE Fits(n, h)
        BY <2>1, FitsNode DEF Coloured
    <2>2. CASE Half(n, h)
        BY <2>2 DEF Half, Fits
    <2> QED BY <2>1, <2>2
<1>8. Fits(m, g + 1)
    BY <1>4, <1>6, <1>7, BlackFits
<1>9. g + 1 \in Nat
    BY <1>7
<1> QED BY <1>4, <1>8, <1>9 DEF IsRed

(***************************************************************************)
(* The pairs of a map, in order: a sorted sequence is the only way to put  *)
(* the pairs of its map in order.                                          *)
(***************************************************************************)
Firsts(g, i) == {g[p] : p \in 1 .. i}

LEMMA FirstsCount ==
    ASSUME NEW g, NEW n \in Nat, \A p, q \in 1 .. n : g[p] = g[q] => p = q, NEW i \in 0 .. n
    PROVE  IsFiniteSet(Firsts(g, i)) /\ Cardinality(Firsts(g, i)) = i
<1>1. PICK T, f : T = Firsts(g, i) /\ f = [p \in 1 .. i |-> g[p]]
    OBVIOUS
<1>2. i \in Nat /\ \A p \in 1 .. i : p \in 1 .. n
    OBVIOUS
<1>3. f \in [1 .. i -> T]
    BY <1>1 DEF Firsts
<1>4. \A p, q \in 1 .. i : f[p] = f[q] => p = q
    BY <1>1, <1>2
<1>5. \A t \in T : \E p \in 1 .. i : f[p] = t
    BY <1>1 DEF Firsts
<1>6. f \in Bijection(1 .. i, T)
    BY <1>3, <1>4, <1>5, Fun_IsBij
<1>7. ExistsBijection(1 .. i, T)
    BY <1>6, Fun_ExistsBij
<1>8. IsFiniteSet(T)
    BY <1>2, <1>7, FS_CountingElements, FS_NatBijection
<1>9. Cardinality(T) = i
    BY <1>2, <1>7, FS_CountingElements
<1> QED BY <1>1, <1>8, <1>9

\* f maps keys to values as the pairs of s do.
Maps(f, s) ==
    /\ f = [k \in DOMAIN f |-> f[k]]
    /\ DOMAIN f = {x[1] : x \in Has(s)}
    /\ \A x \in Has(s) : f[x[1]] = x[2]

LEMMA KeyOnce == \A s \in Seq(Entry) : Rising(s) => \A x, y \in Has(s) : x[1] = y[1] => x = y
<1> SUFFICES ASSUME NEW s \in Seq(Entry), Rising(s), NEW x \in Has(s), NEW y \in Has(s), x[1] = y[1] PROVE x = y
    OBVIOUS
<1>1. PICK i, j \in 1 .. Len(s) : x = s[i] /\ y = s[j]
    BY DEF Has
<1>2. x[1] \in Int /\ y[1] \in Int /\ Len(s) \in Nat
    BY HasTyped
<1>3. ~(i < j) /\ ~(j < i)
    BY <1>1, <1>2 DEF Rising
<1>4. i = j
    BY <1>2, <1>3
<1> QED BY <1>1, <1>4

LEMMA MapsOnce == \A f, g, s : Maps(f, s) /\ Maps(g, s) => f = g
<1> SUFFICES ASSUME NEW f, NEW g, NEW s, Maps(f, s), Maps(g, s) PROVE f = g
    OBVIOUS
<1>1. DOMAIN f = DOMAIN g
    BY DEF Maps
<1>2. ASSUME NEW k \in DOMAIN f PROVE f[k] = g[k]
    <2>1. PICK x \in Has(s) : x[1] = k
        BY DEF Maps
    <2>2. f[x[1]] = x[2] /\ g[x[1]] = x[2]
        BY DEF Maps
    <2> QED BY <2>1, <2>2
<1>3. PICK D : D = DOMAIN f
    OBVIOUS
<1>4. f = [k \in D |-> f[k]] /\ g = [k \in D |-> g[k]]
    BY <1>1, <1>3 DEF Maps
<1> QED BY <1>2, <1>3, <1>4

OrderOf(D, f) ==
    [i \in 1 .. Cardinality(D) |->
       LET k == CHOOSE k \in D : Cardinality({j \in D : j <= k}) = i IN <<k, f[k]>>]

LEMMA OrderIs == \A f : Map!InOrder(f) = OrderOf(DOMAIN f, f)
BY DEF Map!InOrder, Map!Cardinality, Cardinality, OrderOf

InOrderIs(f, s) == Map!InOrder(f) = s /\ Cardinality(DOMAIN f) = Len(s)

LEMMA MapInOrder == \A s \in Seq(Entry) : \A f : Rising(s) /\ Maps(f, s) => InOrderIs(f, s)
<1> SUFFICES ASSUME NEW s \in Seq(Entry), NEW f, Rising(s), Maps(f, s) PROVE InOrderIs(f, s)
    OBVIOUS
<1>1. PICK n, g, D : n = Len(s) /\ g = [i \in 1 .. n |-> s[i][1]] /\ D = DOMAIN f
    OBVIOUS
<1>2. n \in Nat
    BY <1>1
<1>3. ASSUME NEW i \in 1 .. n PROVE s[i] \in Has(s) /\ g[i] \in Int /\ s[i] = <<g[i], f[g[i]]>> /\ g[i] = s[i][1]
    <2>1. s[i] \in Has(s) /\ g[i] = s[i][1]
        BY <1>1 DEF Has
    <2>2. s[i][1] \in Int /\ s[i] = <<s[i][1], s[i][2]>>
        BY <2>1, HasTyped
    <2>3. f[s[i][1]] = s[i][2]
        BY <2>1 DEF Maps
    <2> QED BY <2>1, <2>2, <2>3
<1>4. ASSUME NEW i \in 1 .. n, NEW j \in 1 .. n, i < j PROVE g[i] < g[j]
    <2>1. s[i][1] < s[j][1]
        BY <1>1, <1>4 DEF Rising
    <2> QED BY <1>3, <2>1
<1>5. ASSUME NEW i \in 1 .. n, NEW j \in 1 .. n PROVE g[i] <= g[j] <=> i <= j
    BY <1>2, <1>3, <1>4
<1>6. ASSUME NEW i \in 1 .. n, NEW j \in 1 .. n, g[i] = g[j] PROVE i = j
    BY <1>2, <1>3, <1>4, <1>6
<1>7. D = Firsts(g, n)
    <2>1. ASSUME NEW k \in D PROVE k \in Firsts(g, n)
        <3>1. PICK x \in Has(s) : x[1] = k
            BY <1>1 DEF Maps
        <3>2. PICK i \in 1 .. n : x = s[i]
            BY <1>1 DEF Has
        <3> QED BY <1>3, <3>1, <3>2 DEF Firsts
    <2>2. ASSUME NEW k \in Firsts(g, n) PROVE k \in D
        <3>1. PICK i \in 1 .. n : k = g[i]
            BY DEF Firsts
        <3>2. s[i] \in Has(s) /\ k = s[i][1]
            BY <1>3, <3>1
        <3> QED BY <1>1, <3>2 DEF Maps
    <2> QED BY <2>1, <2>2
<1>8. Cardinality(D) = n
    <2>1. \A i, j \in 1 .. n : g[i] = g[j] => i = j
        BY <1>6
    <2>2. n \in 0 .. n
        BY <1>2
    <2> QED BY <1>2, <1>7, <2>1, <2>2, FirstsCount
<1> DEFINE rank(k) == Cardinality({j \in D : j <= k})
<1>9. ASSUME NEW i \in 1 .. n PROVE rank(g[i]) = i
    <2>1. {j \in D : j <= g[i]} = Firsts(g, i)
        <3>1. ASSUME NEW j \in D, j <= g[i] PROVE j \in Firsts(g, i)
            <4>1. PICK p \in 1 .. n : j = g[p]
                BY <1>7 DEF Firsts
            <4>2. p <= i
                BY <1>5, <3>1, <4>1
            <4>3. p \in 1 .. i
                BY <1>2, <4>2
            <4> QED BY <4>1, <4>3 DEF Firsts
        <3>2. ASSUME NEW j \in Firsts(g, i) PROVE j \in D /\ j <= g[i]
            <4>1. PICK p \in 1 .. i : j = g[p]
                BY DEF Firsts
            <4>2. p \in 1 .. n /\ p <= i
                BY <1>2
            <4>3. j <= g[i]
                BY <1>5, <4>1, <4>2
            <4> QED BY <1>7, <4>1, <4>2, <4>3 DEF Firsts
        <3> QED BY <3>1, <3>2
    <2>2. i \in 0 .. n
        BY <1>2
    <2>3. Cardinality(Firsts(g, i)) = i
        BY <1>2, <1>6, <2>2, FirstsCount
    <2> QED BY <2>1, <2>3
<1> HIDE DEF rank
<1> DEFINE keyAt(i) == CHOOSE k \in D : rank(k) = i
<1>10. ASSUME NEW i \in 1 .. n PROVE keyAt(i) = g[i]
    <2>1. g[i] \in D /\ rank(g[i]) = i
        BY <1>7, <1>9 DEF Firsts
    <2>2. PICK c : c = keyAt(i)
        OBVIOUS
    <2>3. c \in D /\ rank(c) = i
        BY <2>1, <2>2
    <2>4. PICK p \in 1 .. n : c = g[p]
        BY <1>7, <2>3 DEF Firsts
    <2>5. p = i
        BY <1>9, <2>3, <2>4
    <2> QED BY <2>2, <2>4, <2>5
<1> HIDE DEF keyAt
<1>11. [i \in 1 .. n |-> <<keyAt(i), f[keyAt(i)]>>] = s
    <2>1. s = [i \in 1 .. n |-> s[i]]
        BY <1>1
    <2>2. \A i \in 1 .. n : <<keyAt(i), f[keyAt(i)]>> = s[i]
        BY <1>3, <1>10
    <2> QED BY <2>1, <2>2
<1>12. Map!InOrder(f) = [i \in 1 .. n |-> <<keyAt(i), f[keyAt(i)]>>]
    <2>1. Map!InOrder(f) = OrderOf(D, f)
        BY <1>1, OrderIs
    <2>2. OrderOf(D, f) = [i \in 1 .. Cardinality(D) |-> <<keyAt(i), f[keyAt(i)]>>]
        BY DEF OrderOf, keyAt, rank
    <2> QED BY <1>8, <2>1, <2>2
<1> QED BY <1>1, <1>8, <1>11, <1>12 DEF InOrderIs

PairsOf(n) == [k \in {k \in Keys : FindIn(k)[n] # Nil} |-> FindIn(k)[n].value]

LEMMA FindsVisited == \A n \in Tree : Rising(Visit[n]) => Maps(PairsOf(n), Visit[n])
<1> SUFFICES ASSUME NEW n \in Tree, Rising(Visit[n]) PROVE Maps(PairsOf(n), Visit[n])
    OBVIOUS
<1>1. PICK s, f, D : s = Visit[n] /\ f = PairsOf(n) /\ D = {k \in Keys : FindIn(k)[n] # Nil}
    OBVIOUS
<1>2. f = [k \in D |-> FindIn(k)[n].value]
    BY <1>1 DEF PairsOf
<1>3. s \in Seq(Entry) /\ Rising(s)
    BY <1>1, VisitTyped, TreeIs
<1>4. ASSUME NEW k \in D PROVE k \in Keys /\ <<k, f[k]>> \in Has(s)
    <2>1. k \in Int /\ k \in Keys /\ FindIn(k)[n] # Nil
        BY <1>1, OMapAssumption DEF OMapAssumption
    <2>2. FoundIn(FindIn(k)[n], k, n)
        BY <2>1, FindIs
    <2> QED BY <1>1, <1>2, <2>1, <2>2 DEF FoundIn
<1>5. ASSUME NEW x \in Has(s) PROVE x[1] \in D
    <2>1. x[1] \in Keys /\ x[1] \in Int
        BY <1>3, HasTyped
    <2>2. FoundIn(FindIn(x[1])[n], x[1], n)
        BY <2>1, FindIs
    <2>3. FindIn(x[1])[n] # Nil
        BY <1>1, <2>2 DEF FoundIn
    <2> QED BY <1>1, <2>1, <2>3
<1>6. ASSUME NEW x \in Has(s) PROVE f[x[1]] = x[2]
    <2>1. PICK y : y = <<x[1], f[x[1]]>>
        OBVIOUS
    <2>2. y \in Has(s) /\ y[1] = x[1] /\ y[2] = f[x[1]]
        BY <1>4, <1>5, <2>1
    <2>3. y = x
        BY <1>3, <2>2, KeyOnce
    <2> QED BY <2>2, <2>3
<1>7. D = {x[1] : x \in Has(s)}
    <2>1. ASSUME NEW k \in D PROVE k \in {x[1] : x \in Has(s)}
        <3>1. PICK y : y = <<k, f[k]>>
            OBVIOUS
        <3>2. y \in Has(s) /\ y[1] = k
            BY <1>4, <3>1
        <3> QED BY <3>2
    <2> QED BY <1>5, <2>1
<1>8. DOMAIN f = D /\ f = [k \in D |-> f[k]]
    BY <1>2
<1> QED BY <1>1, <1>6, <1>7, <1>8 DEF Maps

\* The map f with the pair of k and v.
With(f, k, v) == [j \in DOMAIN f \union {k} |-> IF j = k THEN v ELSE f[j]]
PutInto(f, k, v, t, b) == Maps(With(f, k, v), t) /\ (b <=> k \notin DOMAIN f)

LEMMA PutIs == \A s, t \in Seq(Entry) : \A f, k, v, b : Maps(f, s) /\ Puts(s, k, v, t, b) => PutInto(f, k, v, t, b)
<1> SUFFICES ASSUME NEW s \in Seq(Entry), NEW t \in Seq(Entry), NEW f, NEW k, NEW v, NEW b, Maps(f, s), Puts(s, k, v, t, b)
             PROVE  PutInto(f, k, v, t, b)
    OBVIOUS
<1>1. PICK g, w : g = With(f, k, v) /\ w = <<k, v>>
    OBVIOUS
<1>2. DOMAIN g = DOMAIN f \union {k} /\ g = [j \in DOMAIN g |-> g[j]]
    BY <1>1 DEF With
<1>3. g[k] = v /\ \A j \in DOMAIN f : j # k => g[j] = f[j]
    BY <1>1 DEF With
<1>4. w[1] = k /\ w[2] = v /\ \A x : x \in Has(t) <=> (x = w \/ (x \in Has(s) /\ x[1] # k))
    BY <1>1 DEF Puts
<1>5. ASSUME NEW x \in Has(t) PROVE x[1] \in DOMAIN g /\ g[x[1]] = x[2]
    <2>1. CASE x = w
        BY <1>2, <1>3, <1>4, <2>1
    <2>2. CASE x \in Has(s) /\ x[1] # k
        <3>1. x[1] \in DOMAIN f /\ f[x[1]] = x[2]
            BY <2>2 DEF Maps
        <3> QED BY <1>2, <1>3, <2>2, <3>1
    <2> QED BY <1>4, <2>1, <2>2
<1>6. ASSUME NEW j \in DOMAIN g PROVE j \in {x[1] : x \in Has(t)}
    <2>1. CASE j = k
        BY <1>4, <2>1
    <2>2. CASE j # k
        <3>1. PICK x \in Has(s) : x[1] = j
            BY <1>2, <2>2 DEF Maps
        <3>2. x \in Has(t)
            BY <1>4, <2>2, <3>1
        <3> QED BY <3>1, <3>2
    <2> QED BY <2>1, <2>2
<1>7. DOMAIN g = {x[1] : x \in Has(t)}
    BY <1>5, <1>6
<1>8. Maps(g, t)
    BY <1>2, <1>5, <1>7 DEF Maps
<1>9. b <=> k \notin DOMAIN f
    BY DEF Puts, Maps
<1> QED BY <1>1, <1>8, <1>9 DEF PutInto

LEMMA BlackIs == \A n \in AnyTree : Black(n) \in AnyTree /\ Visit[Black(n)] = Visit[n]
<1> SUFFICES ASSUME NEW n \in AnyTree, NEW m, m = Black(n) PROVE m \in AnyTree /\ Visit[m] = Visit[n]
    OBVIOUS
<1>1. CASE n = Nil
    BY <1>1 DEF Black
<1>2. CASE n # Nil
    <2>1. PICK c : c = FALSE
        OBVIOUS
    <2>2. m = [n EXCEPT !.red = c]
        BY <1>2, <2>1 DEF Black
    <2>3. IsNode(n)
        BY <1>2, NodeHolds
    <2>4. Holds(m, n.key, n.value, c, n.left, n.right)
        BY <2>1, <2>2, <2>3, Relinked
    <2>5. Visit[n] = Joined(Visit[n.left], <<n.key, n.value>>, Visit[n.right])
        BY <2>3, VisitNode DEF VisitOK, EntryOf
    <2> QED BY <2>4, <2>5, NodeIsTree DEF Holds
<1> QED BY <1>1, <1>2

(***************************************************************************)
(* The invariant.  In all uses, the tree is in order and has at most as many*)
(* pairs as are counted: a delete may lose some.  Of a map that only grows,*)
(* it has just as many, and it is balanced.                                *)
(***************************************************************************)
TreeInv ==
    /\ root \in Tree /\ Rising(Visit[root])
    /\ length \in Nat /\ length <= MaxLength /\ Weight(root) <= length
    /\ use \in Uses
    /\ use = "grows" => Weight(root) = length /\ ~IsRed(root) /\ \E h : Fits(root, h)

\* What a call of Insert does to the visible state.
InsertStep(k, v, b) ==
    /\ b \in BOOLEAN /\ answer' = b /\ use' = use
    /\ root' \in Tree /\ Puts(Visit[root], k, v, Visit[root'], b)
    /\ Weight(root') = Weight(root) + More(b) /\ length' = length + More(b) /\ length < MaxLength
    /\ (\E h : Fits(root, h)) => \E g : Fits(root', g) /\ ~IsRed(root')

LEMMA InsertSteps ==
    ASSUME TreeInv, NEW k \in Keys, NEW v \in Values, Insert(k, v) PROVE \E b : InsertStep(k, v, b)
<1>1. PICK r, b, n : r = InsertIn(k, v)[root] /\ b = r.done /\ n = r.node
    OBVIOUS
<1>2. /\ length < MaxLength /\ root' = Black(n) /\ answer' = b /\ use' = use
      /\ length' = IF b THEN length + 1 ELSE length
    BY <1>1 DEF Insert
<1>3. root \in Tree /\ Rising(Visit[root]) /\ length \in Nat /\ Weight(root) <= length /\ MaxLength \in Nat
    BY OMapAssumption DEF TreeInv, OMapAssumption
<1>4. InsertionGood(r, k, v, root)
    BY <1>1, <1>3, InsertionIs
<1>5. r \in Outcome /\ IsNode(n) /\ Weight(n) = Weight(root) + More(b) /\ Puts(Visit[root], k, v, Visit[n], b)
    BY <1>1, <1>3, <1>4 DEF InsertionGood
<1>6. b \in BOOLEAN /\ n \in AnyTree /\ n # Nil
    BY <1>1, <1>5, OutcomeIs, NodeIsTree
<1>7. length' = length + More(b)
    BY <1>2, <1>3, <1>6 DEF More
<1>8. Weight(root) \in Nat /\ Weight(n) \in Nat
    BY <1>3, <1>6, WeightOf, TreeIs
<1>9. Weight(root) < MaxLength /\ Weight(n) <= MaxLength
    BY <1>2, <1>3, <1>5, <1>8 DEF More
<1>10. n \in Tree
    BY <1>6, <1>9, TreeIs
<1>11. Visit[Black(n)] = Visit[n] /\ Black(n) \in AnyTree /\ Weight(Black(n)) = Weight(n)
    BY <1>6, BlackIs DEF Weight
<1>12. Black(n) \in Tree
    BY <1>9, <1>11, TreeIs
<1>13. ASSUME NEW h, Fits(root, h) PROVE \E g : Fits(Black(n), g) /\ ~IsRed(Black(n))
    <2>1. Grown(n, root, h)
        BY <1>1, <1>3, <1>9, <1>13, InsertionBalances DEF Grows
    <2>2. Fits(n, h) \/ Half(n, h)
        BY <2>1 DEF Grown
    <2> QED BY <1>6, <1>10, <2>2, BlackRoot
<1>14. Puts(Visit[root], k, v, Visit[root'], b) /\ Weight(root') = Weight(root) + More(b) /\ root' \in Tree
    BY <1>2, <1>5, <1>11, <1>12
<1>15. (\E h : Fits(root, h)) => \E g : Fits(root', g) /\ ~IsRed(root')
    BY <1>2, <1>13
<1> QED BY <1>2, <1>6, <1>7, <1>14, <1>15 DEF InsertStep

\* What a call of Delete does.
DeleteStep(k, b) ==
    /\ b \in BOOLEAN /\ answer' = b /\ use' = use /\ use = "all"
    /\ root' \in Tree /\ Dropped(Visit[root], k, Visit[root'], b)
    /\ Weight(root') <= Weight(root) /\ (b => Weight(root') < Weight(root))
    /\ length' = IF b THEN length - 1 ELSE length

LEMMA DeleteSteps == ASSUME TreeInv, NEW k \in Keys, Delete(k) PROVE \E b : DeleteStep(k, b)
<1>1. PICK r, b, n : r = (IF root = Nil THEN Done(Nil, FALSE) ELSE RemoveFrom(k)[root]) /\ b = r.done /\ n = r.node
    OBVIOUS
<1>2. /\ use = "all" /\ root' = Black(n) /\ answer' = b /\ use' = use
      /\ length' = IF b THEN length - 1 ELSE length
    BY <1>1 DEF Delete
<1>3. root \in Tree /\ Rising(Visit[root]) /\ MaxLength \in Nat
    BY OMapAssumption DEF TreeInv, OMapAssumption
<1>4. b \in BOOLEAN /\ n \in AnyTree /\ Weight(n) <= Weight(root) /\ (b => Weight(n) < Weight(root))
      /\ Dropped(Visit[root], k, Visit[n], b)
    <2>1. CASE root = Nil
        <3>1. PICK c : c = FALSE
            OBVIOUS
        <3>2. r = Done(root, c)
            BY <1>1, <2>1, <3>1
        <3>3. n = root /\ b = c
            <4>1. n = r.node /\ b = r.done
                BY <1>1
            <4> QED BY <3>2, <4>1 DEF Done
        <3>4. Has(Visit[root]) = {} /\ Rising(Visit[root]) /\ Len(Visit[root]) = 0
            BY <2>1, EmptyVisit
        <3>5. Dropped(Visit[root], k, Visit[root], c)
            BY <3>1, <3>4 DEF Dropped, Shrinks
        <3>6. Weight(root) = 0 /\ root \in AnyTree
            BY <2>1, <3>4, NilIsTree DEF Weight
        <3>7. c \in BOOLEAN /\ ~c
            BY <3>1
        <3>8. Weight(root) <= Weight(root)
            BY <3>6
        <3> QED BY <3>3, <3>5, <3>6, <3>7, <3>8
    <2>2. CASE root # Nil
        <3>1. root \in Node /\ r = RemoveFrom(k)[root]
            BY <1>1, <1>3, <2>2 DEF Node
        <3>2. RemovalGood(r, k, root)
            BY <3>1, RemovalIs
        <3> QED BY <1>1, <1>3, <3>2, OutcomeIs DEF RemovalGood
    <2> QED BY <2>1, <2>2
<1>5. Visit[Black(n)] = Visit[n] /\ Black(n) \in AnyTree /\ Weight(Black(n)) = Weight(n)
    BY <1>4, BlackIs DEF Weight
<1>6. Black(n) \in Tree
    <2>1. Weight(root) <= MaxLength /\ Weight(root) \in Nat /\ Weight(n) \in Nat
        BY <1>3, <1>4, TreeIs, WeightOf
    <2>2. Weight(Black(n)) <= MaxLength
        BY <1>3, <1>4, <1>5, <2>1
    <2> QED BY <1>5, <2>2, TreeIs
<1>7. Dropped(Visit[root], k, Visit[root'], b) /\ root' \in Tree
    BY <1>2, <1>4, <1>5, <1>6
<1>8. Weight(root') <= Weight(root) /\ (b => Weight(root') < Weight(root))
    BY <1>2, <1>4, <1>5
<1> QED BY <1>2, <1>4, <1>7, <1>8 DEF DeleteStep

LEMMA TreeInvInit == Init => TreeInv
<1> SUFFICES ASSUME Init PROVE TreeInv
    OBVIOUS
<1>1. root = Nil /\ length = 0 /\ use \in Uses
    BY DEF Init
<1>2. Nil \in Tree /\ Rising(Visit[Nil]) /\ Weight(Nil) = 0
    BY TreeIs, EmptyVisit DEF Weight
<1>3. Weight(root) = length /\ Weight(root) <= length /\ length \in Nat /\ length <= MaxLength
    BY <1>1, <1>2, OMapAssumption DEF OMapAssumption
<1>4. ~IsRed(root) /\ Fits(root, 0)
    BY <1>1, FitsNil DEF IsRed
<1> QED BY <1>1, <1>2, <1>3, <1>4 DEF TreeInv

LEMMA TreeInvStep == TreeInv /\ [Next]_vars => TreeInv'
<1> SUFFICES ASSUME TreeInv, [Next]_vars PROVE TreeInv'
    OBVIOUS
<1>1. /\ root \in Tree /\ Rising(Visit[root]) /\ length \in Nat /\ length <= MaxLength
      /\ Weight(root) <= length /\ Weight(root) \in Nat /\ MaxLength \in Nat
    BY TreeIs, WeightOf, OMapAssumption DEF TreeInv, OMapAssumption
<1>2. ASSUME NEW k \in Keys, NEW v \in Values, Insert(k, v) PROVE TreeInv'
    <2>1. PICK b : InsertStep(k, v, b)
        BY <1>2, InsertSteps
    <2>2. Rising(Visit[root'])
        BY <2>1 DEF InsertStep, Puts
    <2>3. /\ b \in BOOLEAN /\ Weight(root') = Weight(root) + More(b)
          /\ length' = length + More(b) /\ length < MaxLength
        BY <2>1 DEF InsertStep
    <2>4. length' \in Nat /\ length' <= MaxLength /\ Weight(root') <= length'
        BY <1>1, <2>3 DEF More
    <2>5. Weight(root) = length => Weight(root') = length'
        BY <2>3
    <2>6. use = "grows" => Weight(root') = length' /\ ~IsRed(root') /\ \E h : Fits(root', h)
        BY <2>1, <2>5 DEF TreeInv, InsertStep
    <2> QED BY <2>1, <2>2, <2>4, <2>6 DEF TreeInv, InsertStep
<1>3. ASSUME NEW k \in Keys, Delete(k) PROVE TreeInv'
    <2>1. PICK b : DeleteStep(k, b)
        BY <1>3, DeleteSteps
    <2>2. Rising(Visit[root']) /\ root' \in Tree /\ use' = "all" /\ use' \in Uses
        BY <2>1 DEF DeleteStep, Dropped, Shrinks, TreeInv
    <2>3. Weight(root') \in Nat
        BY <2>2, TreeIs, WeightOf
    <2>4. /\ b \in BOOLEAN /\ Weight(root') <= Weight(root) /\ (b => Weight(root') < Weight(root))
          /\ length' = IF b THEN length - 1 ELSE length
        BY <2>1 DEF DeleteStep
    <2>5. length' \in Nat /\ length' <= MaxLength /\ Weight(root') <= length'
        BY <1>1, <2>3, <2>4
    <2> QED BY <2>2, <2>5 DEF TreeInv
<1>4. CASE UNCHANGED vars
    BY <1>4 DEF vars, TreeInv
<1>5. CASE Next
    BY <1>2, <1>3, <1>5 DEF Next
<1> QED BY <1>4, <1>5

(***************************************************************************)
(* Whatever the keys, the values and the number of pairs, after any inserts*)
(* and deletes the tree is in order and no heavier than Len says, and after*)
(* inserts alone it is balanced (omap.go:96, 126).                         *)
(***************************************************************************)
THEOREM OrderedTree == Spec => []TreeInv
<1> QED BY TreeInvInit, TreeInvStep, PTL DEF Spec

LEMMA PairsVisited == TreeInv => Maps(Pairs, Visit[root]) /\ DoIn[root] = Visit[root] /\ Visit[root] \in Seq(Entry)
<1> SUFFICES ASSUME TreeInv PROVE Maps(Pairs, Visit[root]) /\ DoIn[root] = Visit[root] /\ Visit[root] \in Seq(Entry)
    OBVIOUS
<1>1. root \in Tree /\ Rising(Visit[root])
    BY DEF TreeInv
<1>2. Pairs = PairsOf(root)
    BY DEF Pairs, PairsOf
<1> QED BY <1>1, <1>2, FindsVisited, DoIs, VisitTyped, TreeIs

(***************************************************************************)
(* In all uses, Do visits in order what Find finds; and a map that only    *)
(* grows is a left-leaning red-black tree, as its type says (omap.go:15).  *)
(***************************************************************************)
THEOREM TreeIsSearched == Spec => []SearchTree
<1>1. ASSUME TreeInv PROVE SearchTree
    <2>1. Maps(Pairs, Visit[root]) /\ DoIn[root] = Visit[root] /\ Visit[root] \in Seq(Entry) /\ Rising(Visit[root])
        BY <1>1, PairsVisited DEF TreeInv
    <2>2. DoIn[root] = Map!InOrder(Pairs)
        BY <2>1, MapInOrder DEF InOrderIs
    <2>3. ASSUME use = "grows" PROVE BlackHeight[root] # -1 /\ NoRedPairs[root] /\ ~IsRed(root)
        <3>1. PICK h : Fits(root, h)
            BY <1>1, <2>3 DEF TreeInv
        <3>2. BlackHeight[root] = h /\ h \in Nat /\ NoRedPairs[root]
            BY <3>1 DEF Fits
        <3>3. BlackHeight[root] # -1
            BY <3>2
        <3> QED BY <1>1, <2>3, <3>2, <3>3 DEF TreeInv
    <2> QED BY <2>2, <2>3 DEF SearchTree
<1>2. TreeInv => SearchTree
    BY <1>1
<1> QED BY <1>2, OrderedTree, PTL

LEMMA SameCardinality == \A S : Map!Cardinality(S) = Cardinality(S)
BY DEF Map!Cardinality, Cardinality

LEMMA InsertIsMaps ==
    ASSUME TreeInv, TreeInv', use = "grows", NEW k \in Keys, NEW v \in Values, Insert(k, v)
    PROVE  Map!Insert(k, v)
<1>1. PICK b : InsertStep(k, v, b)
    BY InsertSteps
<1>2. PICK f, s, t : f = Pairs /\ s = Visit[root] /\ t = Visit[root']
    OBVIOUS
<1>3. Maps(f, s) /\ s \in Seq(Entry)
    BY <1>2, PairsVisited
<1>4. Maps(Pairs', t) /\ DoIn[root'] = t /\ t \in Seq(Entry) /\ Rising(t)
    <2>1. root' \in Tree /\ Rising(Visit[root'])
        BY DEF TreeInv
    <2>2. Pairs' = PairsOf(root')
        BY DEF Pairs, PairsOf
    <2> QED BY <1>2, <2>1, <2>2, FindsVisited, DoIs, VisitTyped, TreeIs
<1>5. PutInto(f, k, v, t, b)
    BY <1>1, <1>2, <1>3, <1>4, PutIs DEF InsertStep
<1>6. PICK g : g = With(f, k, v)
    OBVIOUS
<1>7. Maps(g, t) /\ (b <=> k \notin DOMAIN f) /\ b \in BOOLEAN /\ answer' = b
    BY <1>1, <1>5, <1>6 DEF PutInto, InsertStep
<1>8. Pairs' = g
    BY <1>4, <1>7, MapsOnce
<1>9. Map!InOrder(g) = t /\ Cardinality(DOMAIN g) = Len(t)
    BY <1>4, <1>7, MapInOrder DEF InOrderIs
<1>10. length' = Len(t)
    BY <1>1, <1>2 DEF TreeInv, InsertStep, Weight
<1>11. Map!Become(g)
    BY <1>4, <1>8, <1>9, <1>10, SameCardinality DEF Map!Become
<1>12. Map!Insert(k, v)
    <2>1. answer' = (k \notin DOMAIN Pairs)
        BY <1>2, <1>7
    <2> QED BY <1>2, <1>6, <1>11, <2>1 DEF Map!Insert, With
<1> QED BY <1>12

(***************************************************************************)
(* In a map that only grows, inserting a pair is what inserting this pair  *)
(* is in the abstract map: to Find, Do and Len, and in the answer          *)
(* (omap.go:96).                                                           *)
(***************************************************************************)
THEOREM MapGrows == Spec => GrowsAsAMap
<1> DEFINE InsertsRight == use = "grows" =>
                               \A k \in Keys, v \in Values : Insert(k, v) => Map!Insert(k, v)
<1>1. TreeInv /\ TreeInv' => InsertsRight
    BY InsertIsMaps
<1>2. TreeInv /\ TreeInv' /\ [Next]_vars => [InsertsRight]_vars
    BY <1>1
<1> QED BY <1>2, OrderedTree, PTL DEF Spec, GrowsAsAMap

LEMMA DeleteIsRemoval ==
    ASSUME TreeInv, TreeInv', NEW k \in Keys, Delete(k)
    PROVE  /\ DOMAIN Pairs' \subseteq DOMAIN Pairs \ {k}
           /\ \A j \in DOMAIN Pairs' : Pairs'[j] = Pairs[j]
           /\ answer' = (k \in DOMAIN Pairs)
<1>1. PICK b : DeleteStep(k, b)
    BY DeleteSteps
<1>2. PICK f, g, s, t : f = Pairs /\ g = Pairs' /\ s = Visit[root] /\ t = Visit[root']
    OBVIOUS
<1>3. Maps(f, s) /\ s \in Seq(Entry)
    BY <1>2, PairsVisited
<1>4. Maps(g, t)
    <2>1. root' \in Tree /\ Rising(Visit[root'])
        BY DEF TreeInv
    <2>2. Pairs' = PairsOf(root')
        BY DEF Pairs, PairsOf
    <2> QED BY <1>2, <2>1, <2>2, FindsVisited
<1>5. /\ \A x \in Has(t) : x \in Has(s) /\ x[1] # k
      /\ b <=> \E x \in Has(s) : x[1] = k
      /\ b \in BOOLEAN /\ answer' = b
    BY <1>1, <1>2 DEF DeleteStep, Dropped, Shrinks
<1>6. ASSUME NEW j \in DOMAIN g PROVE j \in DOMAIN f /\ j # k /\ g[j] = f[j]
    <2>1. PICK x \in Has(t) : x[1] = j
        BY <1>4 DEF Maps
    <2>2. x \in Has(s) /\ x[1] # k /\ g[x[1]] = x[2] /\ f[x[1]] = x[2] /\ x[1] \in DOMAIN f
        BY <1>3, <1>4, <1>5 DEF Maps
    <2> QED BY <2>1, <2>2
<1>7. b <=> k \in DOMAIN f
    BY <1>3, <1>5 DEF Maps
<1> QED BY <1>2, <1>5, <1>6, <1>7

(***************************************************************************)
(* Whatever has been inserted and deleted before, Delete puts no pair into *)
(* the map, leaves none under its key, and says whether there was one      *)
(* (omap.go:126).                                                          *)
(***************************************************************************)
THEOREM DeleteIsRight == Spec => DeleteRemoves
<1> DEFINE Removes == LET before == Pairs
                          after == Pairs'
                      IN \A k \in Keys : Delete(k) =>
                             /\ DOMAIN after \subseteq DOMAIN before \ {k}
                             /\ \A j \in DOMAIN after : after[j] = before[j]
                             /\ answer' = (k \in DOMAIN before)
<1>1. TreeInv /\ TreeInv' /\ [Next]_vars => [Removes]_vars
    BY DeleteIsRemoval
<1>2. DeleteRemoves <=> [][Removes]_vars
    BY DEF DeleteRemoves
<1> HIDE DEF Removes
<1> QED BY <1>1, <1>2, OrderedTree, PTL DEF Spec
=============================================================================
