------------------------------- MODULE MCDocs -------------------------------
(***************************************************************************)
(* Instances of DomClean, EditDistance and Dedup for TLC.  A behaviour is  *)
(* of one of them: `use` tells which.                                      *)
(***************************************************************************)
EXTENDS Dedup, EditDistance
CONSTANTS MaxTokens
VARIABLES use, doc, done
MCvars == <<dedupVars, use, doc, done, rows, cols>>

(***************************************************************************)
(* Pages that the cleaning meets, made of one or two fragments.            *)
(***************************************************************************)
Page(kids) == [Nothing EXCEPT !.kids = <<Element("html", NoAttr, <<Nd("head"), Element("body", NoAttr, kids)>>)>>]

El(tag, kids) == Element(tag, NoAttr, kids)
Rel(name) == <<"/", name>>
Link(kids) == Element("a", "href" :> Rel("page") @@ "class" :> <<"c">>, kids)
Img(title) == Element("img", "src" :> Rel("pic") @@ "title" :> <<title>> @@ "alt" :> <<title>>, <<>>)

Fragments == <<
    Element("div", "class" :> <<"c">>, <<El("section", <<El("p", <<Text(<<"one", "two">>)>>), Nd("script")>>)>>),
    Link(<<Text(<<"three">>), El("span", <<Text(<<"four">>), Img("view"), Text(<<"five">>)>>), Text(<<"six">>)>>),
    El("li", <<El("div", <<Link(<<Img("view")>>), Blank, Link(<<Text(<<"seven">>)>>)>>)>>),
    Link(<<El("span", <<Text(<<"x">>)>>), El("em", <<Img("view"), Text(<<"eight">>), Img("star"), Text(<<"nine">>)>>)>>),
    Element("form", "action" :> Rel("send"), <<El("fieldset", <<El("label", <<Text(<<"ten">>)>>), Nd("input")>>)>>),
    El("ul", <<El("li", <<El("ul", <<El("li", <<El("table", <<El("td", <<Text(<<"eleven">>)>>)>>),
                                                 El("span", <<Text(<<"twelve">>), El("b", <<Text(<<"thirteen">>)>>)>>)>>)>>)>>)>>),
    El("div", <<Nd("p"), Element("a", "href" :> <<"#">>, <<>>), Nd("img"), El("p", <<Text(<<"header">>)>>),
                [Blank EXCEPT !.type = "comment"]>>),
    El("figure", <<Img("view"), El("figcaption", <<Text(<<"the", "view", "fourteen">>)>>)>>)>>

Plain == {"one", "two", "three", "four", "five", "six", "seven", "eight", "nine", "ten", "eleven", "twelve",
          "thirteen", "fourteen", "x"}

Pages == {Page(<<Fragments[i]>>) : i \in DOMAIN Fragments}
         \cup {Page(<<Fragments[p[1]], Fragments[p[2]]>>) : p \in {q \in (1 .. Len(Fragments)) \X (1 .. Len(Fragments)) : q[1] # q[2]}}

C == INSTANCE DomClean WITH Documents <- Pages

(***************************************************************************)
(* Articles with a common menu, a text of their own, and a common footer.  *)
(* A crowded one has further texts that resemble the footer.  The short    *)
(* ones of the two requests that overlap have the menu and their own text. *)
(***************************************************************************)
Words == <<"about", "apple", "berry", "cherry", "contact", "east", "home", "imprint", "it", "legal", "news",
           "north", "press", "sport", "west">>
WordLetters == [w \in ToSet(Words) |-> IF w = "it" THEN 2 ELSE 5]

Par(words) == El("p", <<Text(words)>>)
Menu == El("ul", <<El("li", <<Text(<<"home">>)>>), El("li", <<Text(<<"news", "it", "sport">>)>>)>>)
Foot == <<"about", "contact", "imprint", "legal", "press">>
Resembling == Par([Foot EXCEPT ![5] = "sport"])

Article(text, more) == Page(<<Menu, Par(text), Par(Foot)>> \o more)
Brief(texts) == Page(<<El("ul", <<El("li", <<Text(<<"home">>)>>)>>)>> \o [i \in DOMAIN texts |-> Par(texts[i])])

ArticlesOf(r) ==
    CASE r = "r1" -> {<<Brief(<<<<"apple", "east">>>>), Brief(<<<<"cherry">>>>), Brief(<<<<"north">>>>)>>}
      [] r = "r2" -> {<<Brief(<<<<"berry">>, <<"west">>>>), Brief(<<<<"cherry">>>>), Brief(<<<<"north">>>>)>>, <<>>}
      [] r = "r3" -> {<<Article(<<"apple", "east">>, <<>>), Article(<<"cherry", "north">>, <<>>),
                        Article(<<"cherry", "west">>, more)>> : more \in {<<>>, <<Resembling, Resembling>>}}

(***************************************************************************)
(* Pairs of slices of tokens.                                              *)
(***************************************************************************)
Slices == UNION {[1 .. n -> {"x", "y", "z"}] : n \in 0 .. MaxTokens}

MCInit ==
    \/ use = "clean" /\ C!DomInit /\ DedupInit /\ rows = <<>> /\ cols = <<>>
    \/ use \in {"overlap", "alone"} /\ DedupInit /\ doc = Nothing /\ done = 0 /\ rows = <<>> /\ cols = <<>>
    \/ use = "edit" /\ DedupInit /\ doc = Nothing /\ done = 0 /\ rows \in Slices /\ cols \in Slices

MCNext ==
    \/ use = "clean" /\ C!DomNext /\ UNCHANGED <<dedupVars, use, rows, cols>>
    \/ use = "overlap" /\ (DedupStep("r1") \/ DedupStep("r2")) /\ UNCHANGED <<use, doc, done, rows, cols>>
    \/ use = "alone" /\ DedupStep("r3") /\ UNCHANGED <<use, doc, done, rows, cols>>

MCSpec == MCInit /\ [][MCNext]_MCvars

(***************************************************************************)
(* Cleaning keeps what a reader reads, in its order.  Only cleanseDom and  *)
(* the flattening may lose words; breaking an image out of a link never    *)
(* loses, repeats or moves the words around it.                            *)
(***************************************************************************)
Read(d) == SelectSeq(Texts(d), LAMBDA w : w \in Plain)

KeepsText ==
    [][use = "clean" =>
        IF C!Passes[done'] \in {"cleanse", "flat7", "flat6", "flat5", "flat4"}
        THEN Read(doc') = SelectSeq(Read(doc), LAMBDA w : w \in ToSet(Read(doc')))
        ELSE Read(doc') = Read(doc)]_MCvars

(***************************************************************************)
(* Requests write their documents to the same names, so what overlaps may  *)
(* be mixed: an answer holds words of the first articles of the requests   *)
(* that ran while it did, and of a request that ran alone those of its own *)
(* only.  Never does it hold words of an article to compare with, or of a  *)
(* request that had ended before or began after.                           *)
(***************************************************************************)
Finished(r) == req[r].pc = "end" /\ req[r].result # Nothing

AnswerFromThoseMet ==
    \A r \in Requests : Finished(r) =>
        ToSet(Texts(req[r].result)) \subseteq
            UNION {ToSet(Texts(req[q].articles[1])) : q \in {r} \cup {p \in met[r] : req[p].articles # <<>>}}

(***************************************************************************)
(* The answer to a request that ran alone: a text that both other articles *)
(* repeat word by word at its level is gone from it.  No word is in it     *)
(* oftener than in the rest of the article.  Except a text with more than  *)
(* two similar ones: their distances are summed but not averaged.          *)
(***************************************************************************)
Copies(r, tt) == {i \in 2 .. NumTotal :
                     \E j \in DOMAIN req[r].trees[i] : /\ req[r].trees[i][j].text = tt.text
                                                       /\ req[r].trees[i][j].lvl = tt.lvl}

Copied(r) == {tt.outline : tt \in {req[r].trees[1][k] : k \in
                 {k \in DOMAIN req[r].trees[1] : /\ req[r].trees[1][k].lvl <= StageMax
                                                 /\ Copies(r, req[r].trees[1][k]) = 2 .. NumTotal
                                                 /\ CountOf(req[r].similars, k).count <= 2}}}

RECURSIVE Outside(_, _)
Outside(n, ols) == IF n.type = "text" THEN n.data
                   ELSE IF attrX(n, "ol") \in ols THEN <<>> ELSE Splice(n.kids, LAMBDA c : Outside(c, ols))

Times(w, words) == Cardinality({i \in DOMAIN words : words[i] = w})

CopiesRemoved ==
    \A r \in Requests : Finished(r) /\ met[r] = {} =>
        LET words == Texts(req[r].result)
            rest == Outside(object[req[r].f].doc, Copied(r))
        IN  \A w \in ToSet(words) : Times(w, words) <= Times(w, rest)
=============================================================================
