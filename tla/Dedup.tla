------------------------------- MODULE Dedup -------------------------------
(***************************************************************************)
(* Dedup (src/net/http/dedup): a request takes an article and two similar  *)
(* ones, cleans them, and removes from the first what all three repeat.    *)
(* Between its steps a request keeps the cleaned documents in files of a   *)
(* file system that all requests share, under names that depend on the     *)
(* number of the document alone; the level being compared is a variable of *)
(* the package.                                                            *)
(***************************************************************************)
EXTENDS Similar
CONSTANTS Requests, Articles(_),   \* Articles(r): what request r may be answered with
          StageMax, ProxyHost, RemoteHost, Short
VARIABLES fos,              \* fos[i]: the file object under outp_00i_0.html
          object,           \* object[f]: the document in it, and whether its position is after it
          levelsToProcess,
          req,              \* req[r]: the local variables of the request
          met               \* met[r]: the requests that ran at some time while r did
files == <<fos, object>>
dedupVars == <<files, levelsToProcess, req, met>>

Cleaning == INSTANCE DomClean WITH Documents <- {}, doc <- 0, done <- 0

NumTotal == 3    \* an article and two to compare it with
Cleaned == [a \in UNION {ToSet(as) : as \in UNION {Articles(r) : r \in Requests}} |-> Cleaning!DomCleaned(a)]

Nothing == [type |-> "document", data |-> <<"">>, attr |-> NoAttr, kids |-> <<>>]
NoFile == <<>>
Files == Requests \X (1 .. NumTotal)   \* <<r, n>> is what r creates for its document n
Idle == [pc |-> "new", n |-> 0, f |-> NoFile, articles |-> <<>>, trees |-> <<>>, similars |-> {}, skip |-> {},
         stage |-> 0, result |-> Nothing]

(* FileNamer: the name of a file depends on the number of the document only. *)
\* Mutant: not even on that.
FileNamer_forgetsNumber(n) == 1

FileNamer(n) == n

Active(r) == req[r].pc \notin {"new", "end"}

DedupInit ==
    /\ fos = [i \in 1 .. NumTotal |-> NoFile]
    /\ object = [f \in Files |-> [doc |-> Nothing, after |-> FALSE]]
    /\ levelsToProcess = 1
    /\ req = [r \in Requests |-> Idle]
    /\ met = [r \in Requests |-> {}]

(***************************************************************************)
(* FetchAndDecodeJSON gets the articles, or too few of them.               *)
(***************************************************************************)
FetchAndDecodeJSON(r) ==
    LET others == {q \in Requests : Active(q)}
    IN  /\ req[r].pc = "new"
        /\ \E as \in Articles(r) :
               req' = [req EXCEPT ![r] = [@ EXCEPT !.articles = as, !.n = 1,
                                                   !.pc = IF Len(as) < NumTotal THEN "end" ELSE "create"]]
        /\ met' = [q \in Requests |-> IF q = r THEN others ELSE IF q \in others THEN met[q] \cup {r} ELSE met[q]]
        /\ UNCHANGED <<files, levelsToProcess>>

(***************************************************************************)
(* WriteFile of the cleaned document.  Create puts a new file object under *)
(* the name and, after the lock is released, takes what is there: the      *)
(* object of another request if that one was faster.                       *)
(***************************************************************************)
Create(r) ==
    /\ req[r].pc = "create"
    /\ fos' = [fos EXCEPT ![FileNamer(req[r].n)] = <<r, req[r].n>>]
    /\ req' = [req EXCEPT ![r].pc = "created"]
    /\ UNCHANGED <<object, levelsToProcess, met>>

Created(r) ==
    /\ req[r].pc = "created"
    /\ req' = [req EXCEPT ![r].pc = "write", ![r].f = fos[FileNamer(req[r].n)]]
    /\ UNCHANGED <<files, levelsToProcess, met>>

(***************************************************************************)
(* Write goes to the position of the object and leaves it at the end.      *)
(* After another document it appends: the parser joins their bodies.       *)
(* Before one it overwrites as much as it is long; of the rest the whole   *)
(* elements of the body remain.                                            *)
(***************************************************************************)
Body(d) == Last(d.kids[1].kids)
Length(d) == IF d = Nothing THEN 0 ELSE Len(Nodes(d)) + Len(Texts(d))
WithBody(d, kids) == [d EXCEPT !.kids[1].kids[Len(d.kids[1].kids)].kids = kids]

RestOf(old, d) ==
    LET kids == Body(old).kids
        upTo(i) == WithBody(old, SubSeq(kids, 1, i - 1))
    IN  IF old = Nothing THEN <<>>
        ELSE SubSeq(kids, Len(kids) + 1 - Cardinality({i \in DOMAIN kids : Length(upTo(i)) >= Length(d)}), Len(kids))

Written(o, d) ==
    IF o.after THEN WithBody(o.doc, Body(o.doc).kids \o Body(d).kids)
    ELSE WithBody(d, Body(d).kids \o RestOf(o.doc, d))

Write(r) ==
    /\ req[r].pc = "write"
    /\ object' = [object EXCEPT ![req[r].f] =
                     [doc |-> Written(@, Cleaned[req[r].articles[req[r].n]]), after |-> TRUE]]
    /\ req' = [req EXCEPT ![r] = IF @.n < NumTotal THEN [@ EXCEPT !.pc = "create", !.n = @ + 1]
                                 ELSE [@ EXCEPT !.pc = "open", !.n = 1]]
    /\ UNCHANGED <<fos, levelsToProcess, met>>

(***************************************************************************)
(* ReadFile sets the position of the object under the name back and then   *)
(* takes all its data.  The texts of the document are extracted.           *)
(***************************************************************************)
Open(r) ==
    /\ req[r].pc \in {"open", "apply"}
    /\ object' = [object EXCEPT ![fos[FileNamer(req[r].n)]].after = FALSE]
    /\ req' = [req EXCEPT ![r].pc = IF @ = "open" THEN "textify" ELSE "answer",
                          ![r].f = fos[FileNamer(req[r].n)]]
    /\ UNCHANGED <<fos, levelsToProcess, met>>

Textify(r) ==
    /\ req[r].pc = "textify"
    /\ req' = [req EXCEPT ![r] =
           [@ EXCEPT !.trees = Append(@, BubbledUpTextExtraction(object[req[r].f].doc)),
                     !.n = IF @ < NumTotal THEN @ + 1 ELSE 1,
                     !.pc = IF req[r].n < NumTotal THEN "open" ELSE "stage"]]
    /\ UNCHANGED <<files, levelsToProcess, met>>

(***************************************************************************)
(* A stage sets the level for everybody and goes through the texts of the  *)
(* first document one by one.                                              *)
(***************************************************************************)
Stage(r) ==
    /\ req[r].pc = "stage"
    /\ levelsToProcess' = req[r].stage + 1
    /\ req' = [req EXCEPT ![r] = [@ EXCEPT !.stage = @ + 1, !.n = 1, !.pc = "compare"]]
    /\ UNCHANGED <<files, met>>

Skipped(tt, skip) == \E i \in 1 .. Len(tt.outline) - 1 : SubSeq(tt.outline, 1, i) \in skip

(* What src gains in Similars: how many there are, and their relative distances. *)
Gained(src, trees) ==
    LET found == [i \in 2 .. NumTotal |-> SimilarsIn(src, trees[i])]
    IN  FoldFunction(LAMBDA f, all : [count |-> all.count + Len(f), sum |-> all.sum + SumRel(src, f)],
                     [count |-> 0, sum |-> 0], found)

\* What Similars of the n-th text of the first document holds.
CountOf(similars, n) ==
    IF \E s \in similars : s.n = n THEN CHOOSE s \in similars : s.n = n ELSE [n |-> n, count |-> 0, sum |-> 0]

Compare(r) ==
    /\ req[r].pc = "compare"
    /\ req[r].n <= Len(req[r].trees[1])
    /\ LET src == req[r].trees[1][req[r].n]
           had == CountOf(req[r].similars, req[r].n)
           gained == Gained(src, req[r].trees)
       IN  req' = [req EXCEPT ![r] =
               IF src.lvl # levelsToProcess \/ Skipped(src, @.skip) \/ gained.count = 0
               THEN [@ EXCEPT !.n = @ + 1]
               ELSE [@ EXCEPT !.n = @ + 1,
                              !.similars = (@ \ {had}) \cup {[had EXCEPT !.count = @ + gained.count,
                                                                        !.sum = @ + gained.sum]}]]
    /\ UNCHANGED <<files, levelsToProcess, met>>

(* After a stage the repeated texts are marked, and what is inside them skipped. *)
Repeated(s) == s.count >= NumTotal - 1 /\ 5 * s.sum < (NumTotal - 1) * Unit

Weed(r) ==
    /\ req[r].pc = "compare"
    /\ req[r].n > Len(req[r].trees[1])
    /\ req' = [req EXCEPT ![r] =
           [@ EXCEPT !.skip = @ \cup {req[r].trees[1][s.n].outline : s \in {t \in req[r].similars : Repeated(t)}},
                     !.n = 1,
                     !.pc = IF req[r].stage < StageMax THEN "stage" ELSE "apply"]]
    /\ UNCHANGED <<files, levelsToProcess, met>>

(***************************************************************************)
(* dedupApply makes comments of the marked elements; DomFormat removes     *)
(* them.  The numbers and the traces of the cleaning go as well.           *)
(***************************************************************************)
\* Mutant: the children are left alone.
dedupApply_topOnly(n, dedups) == IF attrX(n, "ol") \in dedups THEN [n EXCEPT !.type = "comment"] ELSE n

RECURSIVE dedupApply(_, _)
dedupApply(n, dedups) ==
    LET m == Mapped(n, LAMBDA c : dedupApply(c, dedups))
    IN  IF m.type # "element" THEN m
        ELSE [m EXCEPT !.type = IF attrX(m, "ol") \in dedups THEN "comment" ELSE @,
                       !.attr = [k \in DOMAIN @ \ {"ol", "cfrm"} |-> @[k]]]

Apply(r) ==
    /\ req[r].pc = "answer"
    /\ LET d == object[req[r].f].doc
       IN  req' = [req EXCEPT ![r] = [@ EXCEPT !.pc = "end",
                                              !.result = IF d = Nothing THEN Nothing
                                                         ELSE Cleaning!DomFormat(dedupApply(d, req[r].skip))]]
    /\ UNCHANGED <<files, levelsToProcess, met>>

DedupStep(r) ==
    \/ FetchAndDecodeJSON(r) \/ Create(r) \/ Created(r) \/ Write(r) \/ Open(r) \/ Textify(r)
    \/ Stage(r) \/ Compare(r) \/ Weed(r) \/ Apply(r)
=============================================================================
