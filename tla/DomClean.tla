------------------------------ MODULE DomClean ------------------------------
(***************************************************************************)
(* DomClean (src/net/http/domclean2): a document goes through a fixed      *)
(* sequence of passes that throw away scripts and styling, reduce nesting, *)
(* break images out of links, send links through the proxy, and number the *)
(* elements.  doc is the tree after the first `done` passes.               *)
(***************************************************************************)
EXTENDS Dom
CONSTANTS Documents,   \* the parsed documents that are cleaned
          ProxyHost, RemoteHost, Short   \* Short: the words of less than three letters
VARIABLES doc, done
domVars == <<doc, done>>

ScaffoldLvls == 2   \* document, html, head and body

(***************************************************************************)
(* cleanseDom.  The tests look at Data whatever the type of the node.      *)
(***************************************************************************)
unwanteds == {"meta", "link", "style", "iframe", "script", "noscript", "canvas", "object", "wbr", "comment"}

exotics ==
    [t \in {"header", "footer", "nav", "section", "article", "aside", "fieldset", "figure"} |-> "div"]
    @@ [t \in {"dd", "figcaption"} |-> "p"]
    @@ ("dl" :> "ul" @@ "dt" :> "li" @@ "i" :> "em" @@ "b" :> "strong")

\* All keys that style, script or annotate stand as these.
unwantedAttrs == {"border", "style", "class", "align", "target", "id", "rel", "onclick", "role"}

HasData(n, tags) == \E t \in tags : n.data = <<t>>

removeAttr(n) ==
    LET kept == DOMAIN n.attr \ unwantedAttrs
        same == attrX(n, "alt") = attrX(n, "title")
        gone == IF ~same THEN {} ELSE IF attrX(n, "alt") = <<>> THEN {"alt", "title"} ELSE {"alt"}
    IN  [n EXCEPT !.attr = [k \in kept \ gone |-> @[k]]]

removeUnwanted(n) == [n EXCEPT !.kids = SelectSeq(@, LAMBDA c : ~HasData(c, unwanteds))]

convertExotic(n) ==
    IF HasData(n, DOMAIN exotics)
    THEN [n EXCEPT !.attr = ("cfrm" :> n.data) @@ @, !.data = <<exotics[n.data[1]]>>]
    ELSE n

RECURSIVE cleanseDom(_)
cleanseDom(n) == convertExotic(removeUnwanted(Mapped(removeAttr(n), cleanseDom)))

RECURSIVE removeCommentsAndIntertagWhitespace(_)
removeCommentsAndIntertagWhitespace(n) ==
    Spliced(n, LAMBDA c : IF c.type = "comment" \/ IsBlank(c) THEN <<>>
                          ELSE <<removeCommentsAndIntertagWhitespace(c)>>)

(***************************************************************************)
(* condenseTopDown: an l2 whose children are all of the given types gives  *)
(* way to its children.                                                    *)
(***************************************************************************)
Wrapped(n) == [Nd("p") EXCEPT !.attr = ("cfrm" :> <<"noth">>), !.kids = <<n>>]

topDownV3(l1, l2Types, l3Types) ==
    IF l1.type \notin {"element", "document"} \/ HasData(l1, {"span", "a"}) THEN l1
    ELSE Spliced(l1, LAMBDA l2 :
             IF IsElement(l2, l2Types) /\ \A i \in DOMAIN l2.kids : IsElement(l2.kids[i], l3Types)
             THEN Splice(l2.kids, LAMBDA l3 : <<IF IsElement(l3, {"a", "span"}) THEN Wrapped(l3) ELSE l3>>)
             ELSE <<l2>>)

RECURSIVE condenseTopDown(_)
condenseTopDown(n) ==
    topDownV3(topDownV3(Mapped(n, condenseTopDown), {"div"}, {"div", "ul", "form", "li", "p", "a", "span"}),
              {"li"}, {"div"})

(***************************************************************************)
(* removeEmptyNodes, from the leaves upwards; tiny spans become text.      *)
(***************************************************************************)
Removable(n) ==
    \/ IsElement(n, {"img"}) /\ attrX(n, "src") = <<>>
    \/ IsElement(n, {"a"}) /\ n.kids = <<>> /\ attrX(n, "href") \in {<<>>, <<"#">>}
    \/ IsElement(n, {"em", "strong", "div", "span", "li", "p"}) /\ n.kids = <<>>

TinySpan(n) ==
    /\ IsElement(n, {"span"})
    /\ Len(n.kids) = 1
    /\ n.kids[1].type = "text"
    /\ n.kids[1].data = <<>> \/ (Len(n.kids[1].data) = 1 /\ n.kids[1].data[1] \in Short)

RECURSIVE removeEmptyNodes(_)
removeEmptyNodes(n) ==
    LET m == Spliced(n, removeEmptyNodes)
    IN  IF Removable(m) THEN <<>> ELSE IF TinySpan(m) THEN <<m.kids[1]>> ELSE <<m>>

(***************************************************************************)
(* breakoutImagesFromAnchorTrees: a link around an image becomes the part  *)
(* of the link before the first image, the image, and the part after it.   *)
(***************************************************************************)
IsImg(n) == HasData(n, {"img"})
HasImg(n) == \E m \in ToSet(Tail(Nodes(n))) : IsImg(m)

\* Mutant: nodes on the way to an image are not spared.
OnSplitPath_never(n) == FALSE

OnSplitPath(n) == HasImg(n)

(* What a run of the deleter leaves of the nodes, and whether it has met an image. *)
RECURSIVE Halved(_, _, _)
Halved(until, nodes, found) ==
    IF nodes = <<>> THEN [kids |-> <<>>, found |-> found]
    ELSE LET n == nodes[1]
             inner == Halved(until, n.kids, found \/ IsImg(n))
             rest == Halved(until, Tail(nodes), inner.found)
             removed == IsImg(n) \/ ((until <=> inner.found) /\ ~OnSplitPath(n))
         IN  [rest EXCEPT !.kids = IF removed THEN @ ELSE <<[n EXCEPT !.kids = inner.kids]>> \o @]

FirstImg(n) == SelectSeq(Nodes(n), LAMBDA m : IsElement(m, {"img"}))[1]
UrlText == Text(<<"url">>)   \* urlBeautify: the host and path of a link, for the reader

RECURSIVE breakoutImagesFromAnchorTrees(_)
breakoutImagesFromAnchorTrees(n) ==
    LET m == Spliced(n, breakoutImagesFromAnchorTrees)
        Half(until) == [m EXCEPT !.kids = Halved(until, @, FALSE).kids]
    IN  IF ~IsElement(m, {"a"}) \/ ~\E d \in ToSet(Nodes(m)) : IsElement(d, {"img"}) THEN <<m>>
        ELSE IF Len(m.kids) = 1 /\ IsElement(m.kids[1], {"img"})
        THEN <<[m EXCEPT !.kids = <<UrlText>>], m.kids[1]>>
        ELSE <<Half(TRUE), FirstImg(m), Half(FALSE)>>

(***************************************************************************)
(* recurseImg2Link: images become links one after the other; the title is  *)
(* not repeated when a text within four levels above has it already.       *)
(***************************************************************************)
ImgPath(n) == LET imgs == SelectSeq(Paths(n), LAMBDA p : IsElement(NodeAt(n, p), {"img"}))
              IN  IF imgs = <<>> THEN <<>> ELSE imgs[1]

Within(s, t) == \E i \in 0 .. Len(t) - Len(s) : SubSeq(t, i + 1, i + Len(s)) = s

closureTextNodeExists(n, path, title) ==
    LET grandParent == NodeAt(n, SubSeq(path, 1, IF Len(path) > 4 THEN Len(path) - 4 ELSE 0))
    IN  /\ title # <<>>
        /\ \E m \in ToSet(Nodes(grandParent)) : m.type = "text" /\ Within(title, m.data)

img2Link(n, path) ==
    LET img == NodeAt(n, path)
        link == [img EXCEPT !.data = <<"a">>,
                            !.attr = [k \in DOMAIN @ \ {"src"} |-> @[k]]
                                     @@ ("href" :> attrX(img, "src") @@ "cfrom" :> <<"img">>)]
        title == attrX(img, "title")
        shown == IF closureTextNodeExists(n, path, title) THEN <<"ctdr">> ELSE title
    IN  [link EXCEPT !.kids = Append(@, Text(<<"[img]">> \o shown \o <<"url">>))]

RECURSIVE recurseImg2Link(_)
recurseImg2Link(n) ==
    LET path == ImgPath(n)
    IN  IF path = <<>> THEN n ELSE recurseImg2Link(WithNodeAt(n, path, img2Link(n, path)))
(***************************************************************************)
(* condenseBottomUpV3: at the given level every element is replaced by a   *)
(* flattened clone; elements that are not handled are dropped with all     *)
(* they contain.                                                           *)
(***************************************************************************)
standard == {"title", "p", "div", "ul", "ol", "li", "h1", "h2", "em", "strong", "label", "input",
             "textarea", "form", "blockquote"}

RECURSIVE flattenSubtreeV3Inner(_)
flattenSubtreeV3Inner(n) ==
    Spliced(n, LAMBDA ch :
        IF IsElement(ch, standard \cup {"a"}) THEN <<flattenSubtreeV3Inner(ch)>>
        ELSE IF IsElement(ch, {"img"}) THEN <<CloneNode(ch)>>
        ELSE IF HasData(ch, {"span"})
        THEN Splice(ch.kids, LAMBDA cch : <<flattenSubtreeV3Inner(cch), Blank>>)
        ELSE IF ch.type = "text" THEN <<ch>> ELSE <<>>)

RECURSIVE condenseBottomUpV3(_, _)
condenseBottomUpV3(n, levelsDown) ==
    IF levelsDown > 0 THEN Mapped(n, LAMBDA c : condenseBottomUpV3(c, levelsDown - 1))
    ELSE IF n.type = "element" THEN flattenSubtreeV3Inner(n) ELSE n

(***************************************************************************)
(* proxify: links lead to the proxy, forms to the redirector.              *)
(***************************************************************************)
absolutize(scheme, host, val) ==
    IF val # <<>> /\ val[1] = "/" THEN <<scheme, host>> \o val ELSE val

FromImg(n) == attrX(n, "cfrom") = <<"img">>

attrsAbsoluteAndProxified(n) ==
    LET Abs(val) == absolutize(IF FromImg(n) THEN "http" ELSE "https", RemoteHost, val)
        Rewritten(k, val) ==
            IF k = "href" /\ ~FromImg(n) THEN <<"https", ProxyHost, "proxify">> \o Abs(val)
            ELSE IF k \in {"href", "src"} THEN Abs(val)
            ELSE IF k = "action" THEN <<"https", ProxyHost, "form-redirector">>
            ELSE val
    IN  [n EXCEPT !.attr = [k \in DOMAIN @ |-> Rewritten(k, @[k])]]

RedirectTo(form) == [Nd("input") EXCEPT !.attr = "name" :> <<"redirect-to">> @@ "value" :> attrX(form, "action")]
Submit == [Nd("input") EXCEPT !.attr = "type" :> <<"submit">> @@ "value" :> <<"subm">>]

Proxified(n) ==
    IF IsElement(n, {"form"})
    THEN attrsAbsoluteAndProxified(
             attrSet([n EXCEPT !.kids = @ \o <<RedirectTo(n), Submit>>], "method", <<"post">>))
    ELSE IF IsElement(n, {"a", "img"}) THEN attrsAbsoluteAndProxified(n) ELSE n

RECURSIVE proxify(_)
proxify(n) == Mapped(Proxified(n), proxify)

(***************************************************************************)
(* reIndent puts a line break before each element, and one at its end.     *)
(***************************************************************************)
RECURSIVE reIndent(_, _)
reIndent(n, lvl) ==
    LET Laid(c) == IF c.type = "element" /\ lvl + 1 > ScaffoldLvls /\ n.type = "element"
                   THEN LET laid == reIndent(c, lvl + 1)
                        IN  <<Blank, IF c.kids = <<>> THEN laid ELSE [laid EXCEPT !.kids = Append(@, Blank)]>>
                   ELSE <<reIndent(c, lvl + 1)>>
    IN  Spliced(n, Laid)

(***************************************************************************)
(* addOutlineAttr numbers the elements under the scaffold: 2.1 is the      *)
(* first element within the second.  The counters go on from one child of  *)
(* the scaffold, head, to the next, body.                                  *)
(***************************************************************************)
RECURSIVE Outlined(_, _, _)
Outlined(nodes, lvl, outline) ==
    IF nodes = <<>> THEN [kids |-> <<>>, outline |-> outline]
    ELSE LET n == nodes[1]
             counted == n.type = "element" /\ lvl > ScaffoldLvls
             own == IF counted THEN [outline EXCEPT ![Len(outline)] = @ + 1] ELSE outline
             inner == Outlined(n.kids, lvl + 1, IF counted THEN Append(own, 0) ELSE own)
             rest == Outlined(Tail(nodes), lvl, IF counted THEN Front(inner.outline) ELSE inner.outline)
             new == [n EXCEPT !.kids = inner.kids, !.attr = IF counted THEN ("ol" :> own) @@ @ ELSE @]
         IN  [rest EXCEPT !.kids = <<new>> \o @]

addOutlineAttr(d) == [d EXCEPT !.kids = Outlined(@, 1, <<0>>).kids]

(***************************************************************************)
(* DomClean with proxy, beautifying and outline.                           *)
(***************************************************************************)
Passes == <<"cleanse", "blanks", "topDown", "empty", "blanks", "breakout", "img2link",
            "flat7", "flat6", "flat5", "flat4", "topDown", "empty", "empty",
            "proxify", "blanks", "indent", "outline">>

Pass(p, d) ==
    CASE p = "cleanse" -> cleanseDom(d)
      [] p = "blanks" -> removeCommentsAndIntertagWhitespace(d)
      [] p = "topDown" -> condenseTopDown(d)
      [] p = "empty" -> removeEmptyNodes(d)[1]
      [] p = "breakout" -> breakoutImagesFromAnchorTrees(d)[1]
      [] p = "img2link" -> recurseImg2Link(d)
      [] p = "flat7" -> condenseBottomUpV3(d, 7)
      [] p = "flat6" -> condenseBottomUpV3(d, 6)
      [] p = "flat5" -> condenseBottomUpV3(d, 5)
      [] p = "flat4" -> condenseBottomUpV3(d, 4)
      [] p = "proxify" -> proxify(d)
      [] p = "indent" -> reIndent(d, 0)
      [] p = "outline" -> addOutlineAttr(d)

RECURSIVE Cleaned(_, _)
Cleaned(d, from) == IF from > Len(Passes) THEN d ELSE Cleaned(Pass(Passes[from], d), from + 1)
DomCleaned(d) == Cleaned(d, 1)

DomFormat(d) == reIndent(removeCommentsAndIntertagWhitespace(removeEmptyNodes(d)[1]), 0)

DomInit == doc \in Documents /\ done = 0

DomNext ==
    /\ done < Len(Passes)
    /\ done' = done + 1
    /\ doc' = Pass(Passes[done'], doc)
=============================================================================
