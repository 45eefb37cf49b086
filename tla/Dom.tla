-------------------------------- MODULE Dom --------------------------------
(***************************************************************************)
(* HTML trees as golang.org/x/net/html hands them to the packages under    *)
(* src/net/http, and the node operations of src/net/http/dom.  A node is a *)
(* record; its Data is a sequence of words: the words of a text, or the    *)
(* tag of an element, a sequence of one word, because the code compares    *)
(* both with the same tests.  Attributes are a function from keys to       *)
(* sequences of words; a URL is the sequence of its parts, "/" first when  *)
(* it is relative to the host.  White space is left out: a blank text has  *)
(* no words.  Passes that replace, insert or remove nodes while they walk  *)
(* a tree are functions from trees to trees here.                          *)
(***************************************************************************)
EXTENDS Naturals, Sequences, SequencesExt, TLC

NoAttr == [k \in {} |-> <<>>]
Element(tag, attr, kids) == [type |-> "element", data |-> <<tag>>, attr |-> attr, kids |-> kids]
Text(words) == [type |-> "text", data |-> words, attr |-> NoAttr, kids |-> <<>>]
Blank == Text(<<>>)

(* Nd: a new node without attributes and children. *)
Nd(tag) == Element(tag, NoAttr, <<>>)

IsElement(n, tags) == n.type = "element" /\ n.data[1] \in tags
IsBlank(n) == n.type = "text" /\ n.data = <<>>

(* attrX is the empty value for a key that is missing. *)
attrX(n, key) == IF key \in DOMAIN n.attr THEN n.attr[key] ELSE <<>>
attrSet(n, key, val) == [n EXCEPT !.attr = (key :> val) @@ @]

CloneNode(n) == [n EXCEPT !.kids = <<>>]

(* The sequences that Op makes of the elements of s, one after the other. *)
Splice(s, Op(_)) ==
    LET upTo[i \in 0 .. Len(s)] == IF i = 0 THEN <<>> ELSE upTo[i - 1] \o Op(s[i])
    IN  upTo[Len(s)]

(* A node whose children were replaced, removed, or inserted before and    *)
(* after others.                                                           *)
Replaced(n, kids) == [n EXCEPT !.kids = kids]

(* Each child replaced by the nodes that Op makes of it, or by one node. *)
Spliced(n, Op(_)) == Replaced(n, Splice(n.kids, Op))
Mapped(n, Op(_)) == Spliced(n, LAMBDA c : <<Op(c)>>)

(* The nodes of a tree, parents before their children, and its texts. *)
RECURSIVE Nodes(_)
Nodes(n) == <<n>> \o Splice(n.kids, Nodes)

RECURSIVE Texts(_)
Texts(n) == IF n.type = "text" THEN n.data ELSE Splice(n.kids, Texts)

(***************************************************************************)
(* A path names a node by the indexes of the children that lead to it.     *)
(***************************************************************************)
RECURSIVE NodeAt(_, _)
NodeAt(n, path) == IF path = <<>> THEN n ELSE NodeAt(n.kids[path[1]], Tail(path))

RECURSIVE WithNodeAt(_, _, _)
WithNodeAt(n, path, new) ==
    IF path = <<>> THEN new
    ELSE [n EXCEPT !.kids[path[1]] = WithNodeAt(@, Tail(path), new)]

RECURSIVE Paths(_)
Paths(n) == <<<<>>>> \o Splice([i \in DOMAIN n.kids |-> i],
                                LAMBDA i : Splice(Paths(n.kids[i]), LAMBDA p : <<<<i>> \o p>>))
=============================================================================
