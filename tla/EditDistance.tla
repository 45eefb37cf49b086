---------------------------- MODULE EditDistance ----------------------------
(***************************************************************************)
(* The Levenshtein matrix of two slices of tokens, its edit script, and    *)
(* the script applied to the rows (src/text/levenshtein).  Options give    *)
(* the costs of inserting, deleting and substituting a token.              *)
(***************************************************************************)
EXTENDS Integers, Sequences, SequencesExt, FiniteSets
VARIABLES rows, cols      \* the two slices, fields of Matrix

DefaultOptions == [InsCost |-> 1, DelCost |-> 1, SubCost |-> 2]

Least(a, b) == IF b < a THEN b ELSE a

(* WrapAsEqualer, sorted: descending in the lexicon, every token once. *)
WrapAsEqualer(tokens, lexicon) == SelectSeq(Reverse(lexicon), LAMBDA t : t \in ToSet(tokens))

(***************************************************************************)
(* New: mx[i + 1][j + 1] is the distance of the first i rows and the first *)
(* j columns.  The borders count tokens, whatever the costs are.           *)
(***************************************************************************)
\* Mutant: insertions are not considered.
Cell_noInsertion(above, left, i, j, opt) ==
    Least(above[j + 1] + opt.DelCost, above[j] + (IF rows[i] = cols[j] THEN 0 ELSE opt.SubCost))

Cell(above, left, i, j, opt) ==
    LET delCost == above[j + 1] + opt.DelCost
        matchSubCost == above[j] + (IF rows[i] = cols[j] THEN 0 ELSE opt.SubCost)
        insCost == left + opt.InsCost
    IN  Least(delCost, Least(matchSubCost, insCost))

WithNextCell(row, above, i, j, opt) == Append(row, Cell(above, row[j], i, j, opt))

NextRow(above, i, opt) ==
    LET row[j \in 0 .. Len(cols)] == IF j = 0 THEN <<i>> ELSE WithNextCell(row[j - 1], above, i, j, opt)
    IN  row[Len(cols)]

WithNextRow(mx, i, opt) == Append(mx, NextRow(mx[i], i, opt))

New(opt) ==
    LET mx[i \in 0 .. Len(rows)] ==
            IF i = 0 THEN <<[j \in 1 .. Len(cols) + 1 |-> j - 1]>> ELSE WithNextRow(mx[i - 1], i, opt)
    IN  mx[Len(rows)]

(* Distance: absolute, and what the relative one divides by. *)
Distance(opt) ==
    LET larger == IF Len(cols) > Len(rows) THEN Len(cols) ELSE Len(rows)
    IN  [abs |-> New(opt)[Len(rows) + 1][Len(cols) + 1], divisor |-> IF larger = 0 THEN 1 ELSE larger]

(***************************************************************************)
(* backtrace goes from the last cell to the first and prefers deleting,    *)
(* then inserting.  src and dst are 1-based here.                          *)
(***************************************************************************)
\* Mutant: a substitution is looked for before an insertion, and equal costs are enough.
Step_diagonalFirst(mx, opt, i, j) ==
    IF i > 0 /\ j > 0 /\ mx[i][j] <= mx[i + 1][j + 1] THEN "Match"
    ELSE IF i > 0 THEN "Del" ELSE IF j > 0 THEN "Ins" ELSE "none"

Step(mx, opt, i, j) ==
    IF i > 0 /\ mx[i][j + 1] + opt.DelCost = mx[i + 1][j + 1] THEN "Del"
    ELSE IF j > 0 /\ mx[i + 1][j] + opt.InsCost = mx[i + 1][j + 1] THEN "Ins"
    ELSE IF i > 0 /\ j > 0 /\ mx[i][j] + opt.SubCost = mx[i + 1][j + 1] THEN "Sub"
    ELSE IF i > 0 /\ j > 0 /\ mx[i][j] = mx[i + 1][j + 1] THEN "Match"
    ELSE "none"

Cells == (0 .. Len(rows)) \X (0 .. Len(cols))
Before(op, p) == <<IF op = "Ins" THEN p[1] ELSE p[1] - 1, IF op = "Del" THEN p[2] ELSE p[2] - 1>>
Edit(op, p) == [op |-> op, src |-> p[1] + 1, dst |-> p[2] + 1]

backtrace(mx, opt) ==
    LET script[p \in Cells] ==
            LET op == Step(mx, opt, p[1], p[2])
            IN  IF op = "none" THEN <<>> ELSE Append(script[Before(op, p)], Edit(op, Before(op, p)))
    IN  script

EditScript(opt) == backtrace(New(opt), opt)[<<Len(rows), Len(cols)>>]

(***************************************************************************)
(* ApplyEditScript shifts the positions of the script by what it has       *)
(* inserted and deleted before.                                            *)
(***************************************************************************)
insertAfter(s, idx, tok) == SubSeq(s, 1, idx) \o <<tok>> \o SubSeq(s, idx + 1, Len(s))
deleteAt(s, idx) == SubSeq(s, 1, idx - 1) \o SubSeq(s, idx + 1, Len(s))

Edited(acc, e) ==
    LET pos == e.src + acc.shift
    IN  CASE e.op = "Ins" -> [toks |-> insertAfter(acc.toks, pos - 1, cols[e.dst]), shift |-> acc.shift + 1]
          [] e.op = "Del" -> [toks |-> deleteAt(acc.toks, pos), shift |-> acc.shift - 1]
          [] e.op = "Sub" -> [acc EXCEPT !.toks[pos] = cols[e.dst]]
          [] OTHER -> acc

ApplyEditScript(es) ==
    LET rows2[k \in 0 .. Len(es)] == IF k = 0 THEN [toks |-> rows, shift |-> 0]
                                     ELSE Edited(rows2[k - 1], es[k])
    IN  rows2[Len(es)].toks

(* CompareToCol: every column equals the token of the other slice. *)
CompareToCol(col2) == \A i \in DOMAIN cols : i \in DOMAIN col2 /\ cols[i] = col2[i]

(***************************************************************************)
(* The options that the repository uses, and what a script costs.          *)
(***************************************************************************)
UsedOptions == {DefaultOptions, [DefaultOptions EXCEPT !.SubCost = 1]}

Many(es, op) == Cardinality({k \in DOMAIN es : es[k].op = op})

Cost(es, opt) ==
    Many(es, "Ins") * opt.InsCost + Many(es, "Del") * opt.DelCost + Many(es, "Sub") * opt.SubCost

(***************************************************************************)
(* Applying the edit script to the rows gives the columns                  *)
(* (levenshtein.go:226-228), and the script costs what Distance says, for  *)
(* both options that the repository uses.                                  *)
(***************************************************************************)
ScriptsLeadThere ==
    \A opt \in UsedOptions :
        LET es == EditScript(opt)
        IN  /\ CompareToCol(ApplyEditScript(es)) /\ Len(ApplyEditScript(es)) = Len(cols)
            /\ Cost(es, opt) = Distance(opt).abs

(***************************************************************************)
(* However one pairs tokens of the rows with tokens of the columns in      *)
(* order, substituting those that differ, deleting and inserting the       *)
(* others, it costs no less than Distance says.                            *)
(***************************************************************************)
Alignments ==
    {m \in SUBSET ((1 .. Len(rows)) \X (1 .. Len(cols))) : \A p, q \in m : p[1] < q[1] <=> p[2] < q[2]}

AlignedCost(m, opt) ==
    (Len(rows) - Cardinality(m)) * opt.DelCost + (Len(cols) - Cardinality(m)) * opt.InsCost
    + Cardinality({p \in m : rows[p[1]] # cols[p[2]]}) * opt.SubCost

DistanceIsLeast == \A opt \in UsedOptions, m \in Alignments : Distance(opt).abs <= AlignedCost(m, opt)

(* "EditScript returns an optimal edit script" (levenshtein.go:143).       *)
OptimalScripts == ScriptsLeadThere /\ DistanceIsLeast
=============================================================================
