------------------------------ MODULE Similar ------------------------------
(***************************************************************************)
(* The text of each element of a document, reduced to a sorted list of its *)
(* words, and the search for similar texts in other documents              *)
(* (src/net/http/dedup).  A word stands for itself in lower case; Lexicon  *)
(* lists all words in ascending order, Letters gives their lengths.        *)
(* Relative distances are counted in parts of Unit.                        *)
(***************************************************************************)
EXTENDS Dom, Integers, FiniteSets
CONSTANTS Lexicon, Letters

SimilarScaffold == 2
Unit == 420   \* divisible by every number of words up to 7

(***************************************************************************)
(* sortCompact: short words count in short texts only, and words of one    *)
(* letter count but are not part of the text.                              *)
(***************************************************************************)
Histo(words) == IF Len(words) > 3 THEN {w \in ToSet(words) : Letters[w] > 3} ELSE ToSet(words)
Compacted(words) == SelectSeq(Lexicon, LAMBDA w : w \in Histo(words) /\ Letters[w] > 1)

RECURSIVE Bytes(_)
Bytes(text) == IF text = <<>> THEN 0
               ELSE Letters[text[1]] + (IF Len(text) > 1 THEN 1 ELSE 0) + Bytes(Tail(text))

(***************************************************************************)
(* textExtract: the words of an element are those of its alt and title and *)
(* of everything under it; elements without words have no entry.           *)
(***************************************************************************)
RECURSIVE WordsOf(_)
WordsOf(n) ==
    (CASE n.type = "text" -> n.data
       [] n.type = "element" -> attrX(n, "alt") \o attrX(n, "title")
       [] OTHER -> <<>>)
    \o Splice(n.kids, WordsOf)

RECURSIVE textExtract(_, _)
textExtract(n, lvl) ==
    LET words == WordsOf(n)
        own == [outline |-> attrX(n, "ol"), lvl |-> lvl - SimilarScaffold,
                histo |-> Histo(words), text |-> Compacted(words)]
    IN  Splice(n.kids, LAMBDA c : textExtract(c, lvl + 1))
        \o IF lvl > SimilarScaffold /\ words # <<>> /\ n.type # "text" THEN <<own>> ELSE <<>>

NumTokens(tt) == Cardinality(tt.histo)

(* sortByOutline.Less: by depth, then number by number. *)
Less(s, t) ==
    \/ Len(s.outline) < Len(t.outline)
    \/ /\ Len(s.outline) = Len(t.outline)
       /\ \E i \in DOMAIN s.outline : /\ s.outline[i] < t.outline[i]
                                      /\ SubSeq(s.outline, 1, i - 1) = SubSeq(t.outline, 1, i - 1)

BubbledUpTextExtraction(d) == SortSeq(textExtract(d, 0), Less)

(***************************************************************************)
(* HistoBasedDistance, cheaper than the edit distance: the tokens of the   *)
(* larger histogram that the smaller one lacks.                            *)
(***************************************************************************)
Larger(src, dst) == IF NumTokens(src) < NumTokens(dst) THEN NumTokens(dst) ELSE NumTokens(src)

TooDistinct(src, dst) ==
    100 * (Larger(src, dst) - Cardinality(src.histo \cap dst.histo)) > 51 * Larger(src, dst)

SizesDiffer(src, dst) ==
    LET to == IF Bytes(dst.text) = 0 THEN 1 ELSE Bytes(dst.text)
    IN  100 * Bytes(src.text) < 33 * to \/ Bytes(src.text) > 3 * to

Levenshtein(rows, cols) == INSTANCE EditDistance
Equalers(tt) == Levenshtein(<<>>, <<>>)!WrapAsEqualer(tt.text, Lexicon)

Distances(src, dst) ==
    Levenshtein(Equalers(src), Equalers(dst))!Distance([InsCost |-> 1, DelCost |-> 1, SubCost |-> 1])

Near(d) == 100 * d.abs < 26 * d.divisor /\ d.abs < 10

IsSimilar(src, tt) ==
    /\ tt.lvl = src.lvl
    /\ src.histo # {}
    /\ ~(NumTokens(src) < 5 /\ NumTokens(tt) > 7)
    /\ ~TooDistinct(src, tt)
    /\ ~SizesDiffer(src, tt)
    /\ Near(Distances(src, tt))

(***************************************************************************)
(* similarTextifiedTrees2: the similar texts of one other document, at     *)
(* most 21; the trees after the first deeper one are not looked at.        *)
(***************************************************************************)
UpToLevel(trees, lvl) ==
    LET deeper == {i \in DOMAIN trees : trees[i].lvl > lvl}
    IN  IF deeper = {} THEN trees ELSE SubSeq(trees, 1, (CHOOSE i \in deeper : \A j \in deeper : i <= j) - 1)

SimilarsIn(src, trees) ==
    LET found == SelectSeq(UpToLevel(trees, src.lvl), LAMBDA tt : IsSimilar(src, tt))
    IN  SubSeq(found, 1, IF Len(found) > 21 THEN 21 ELSE Len(found))

SumRel(src, found) ==
    FoldLeft(LAMBDA sum, tt : sum + (Distances(src, tt).abs * Unit) \div Distances(src, tt).divisor, 0, found)
=============================================================================
