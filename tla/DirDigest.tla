----------------------------- MODULE DirDigest ------------------------------
(* The digest of a host, net/http/repo/6_dir_digest_1 and _2: a tree of the    *)
(* directories of all links seen.  A tree is a function from the paths in it,  *)
(* sequences of names without the root's, to what is kept of each.  Names are  *)
(* numbers in the order in which the code sorts them.                          *)
EXTENDS Integers, Sequences, FiniteSets, SequencesExt

CONSTANT YearDirs     \* names that are always end points: "/2015", "/08", "/09"

EmptyTree == [p \in {} |-> [end |-> FALSE, rss |-> FALSE]]
PathPrefixes(p) == {SubSeq(p, 1, n) : n \in 1..Len(p)}
Dir(p) == IF p = <<>> THEN p ELSE Front(p)

\* Links: each directory on the way of one is there from now on; the last one
\* is an end point, a higher one only if its name is that of a year or month.
Path2DirTree(tree, links, isRSS) ==
  LET seen == UNION {PathPrefixes(p) : p \in links} IN
  [q \in DOMAIN tree \cup seen |->
     [end |-> \/ q \in links \/ (q \in seen /\ Last(q) \in YearDirs)
              \/ (q \in DOMAIN tree /\ tree[q].end),
      rss |-> IF q \in DOMAIN tree THEN tree[q].rss ELSE isRSS]]

\* The subtree at a path, if the path is in the tree, and how far one got: up
\* to the first directory that is missing.
Found(tree, path) == path = <<>> \/ path \in DOMAIN tree
Head1(tree, path) ==
  IF Found(tree, path) THEN path
  ELSE CHOOSE q \in PathPrefixes(path) \ DOMAIN tree :
         \A r \in PathPrefixes(path) \ DOMAIN tree : Len(q) <= Len(r)

\* The order of the search below a directory: all its children by name, then
\* what is below the first child, and so on.
Before(p, q) ==
  IF IsPrefix(p, q) THEN p # q
  ELSE IF IsPrefix(q, p) THEN FALSE
  ELSE LET n == CHOOSE m \in 1..Len(p) : p[m] # q[m] /\ SubSeq(p, 1, m-1) = SubSeq(q, 1, m-1)
       IN IF (Len(p) = n) = (Len(q) = n) THEN p[n] < q[n] ELSE Len(p) = n

\* The articles below rump: end points whose depth below it is wanted, until
\* there are enough.
LevelWiseDeeper(tree, rump, opt) ==
  LET wanted == {p \in DOMAIN tree : /\ IsStrictPrefix(rump, p) /\ tree[p].end
                                     /\ p # opt.exclude
                                     /\ Len(p) - Len(rump) \in opt.min..opt.max}
      enough == IF opt.number < Cardinality(wanted) THEN opt.number ELSE Cardinality(wanted)
  IN [n \in 1..enough |-> CHOOSE p \in wanted : Cardinality({o \in wanted : Before(o, p)}) = n - 1]
=============================================================================
