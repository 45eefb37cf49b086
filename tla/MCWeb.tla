------------------------------- MODULE MCWeb -------------------------------
(***************************************************************************)
(* The web modules side by side, for TLC and for the proofs.  They have no *)
(* state in common: a behaviour is of the one that `part` names.  The      *)
(* definitions that begin with MC are values for their constants.          *)
(***************************************************************************)
EXTENDS FileServer, Integers, TLC
CONSTANTS Readers, Resetters, MaxVersion,  \* Template
          Orders, Order, Callbacks,        \* Payment
          Askers, MaxInstances,            \* InstanceInfo
          Handlers, MaxRuns,               \* NsCounter
          Calls                            \* UrlGetter

VARIABLES part,
    call, url, at, sent, seen, got,
    invoices, callback, settled, missed,
    count, writes, handler, queue, floor, gained, reported, disturbed,
    ii, age, asker,
    file, memory, template, locked, page, reset, up, interrupted

getterVars == <<call, url, at, sent, seen, got>>
paymentVars == <<invoices, callback, settled, missed>>
nsVars == <<count, writes, handler, queue, floor, gained, reported, disturbed>>
infoVars == <<ii, age, asker>>
templateVars == <<file, memory, template, locked, page, reset, up, interrupted>>
vars == <<part, getterVars, paymentVars, nsVars, infoVars, serverVars, templateVars>>

(***************************************************************************)
(* Callers of UrlGetter: the proxy and the form redirector, the payment    *)
(* pages, the crawling of a site, the sending of commands, and programs    *)
(* outside App Engine.                                                     *)
(***************************************************************************)
AnyCall == [handler |-> "proxy", parses |-> TRUE, scheme |-> "https", path |-> "p", method |-> "GET", known |-> "",
            platform |-> "live", forceHTTPS |-> FALSE, isTestData |-> FALSE, cancelRedirects |-> FALSE]
Platforms == {"live", "dev", "no context"}
Strings == {[AnyCall EXCEPT !.handler = h, !.scheme = s, !.path = p, !.platform = pl] :
               h \in {"proxy", "form"}, s \in {"http", "https"}, p \in {"", "p"}, pl \in Platforms}
Crawls == {[AnyCall EXCEPT !.handler = "crawl", !.known = k, !.platform = pl, !.cancelRedirects = TRUE] :
               k \in {"", "http", "https"}, pl \in Platforms}
Requests == {[AnyCall EXCEPT !.handler = IF m = "GET" THEN "payment" ELSE "commands", !.method = m,
                             !.platform = pl, !.forceHTTPS = f, !.scheme = s] :
               m \in {"GET", "POST"}, pl \in Platforms, f \in BOOLEAN, s \in {"", "https"}}
MCCalls == Strings \cup Crawls \cup Requests
         \cup {[AnyCall EXCEPT !.parses = FALSE], [AnyCall EXCEPT !.isTestData = TRUE],
               [AnyCall EXCEPT !.handler = "program", !.platform = "plain"]}

(***************************************************************************)
(* A product that one buyer pays twice, an order that is short of money,   *)
(* a custom value of each other kind, an announcement without an order.    *)
(***************************************************************************)
Plain == [hasOrder |-> TRUE, status |-> "completed", custom |-> "user/product", hasCents |-> TRUE, cents |-> 5]
MCOrder ==
    [o1 |-> Plain, o2 |-> [Plain EXCEPT !.cents = 7],
     o3 |-> [Plain EXCEPT !.status = "mispaid", !.custom = "other/product"],
     o4 |-> [Plain EXCEPT !.custom = "a number"], o5 |-> [Plain EXCEPT !.custom = "absent"],
     o6 |-> [Plain EXCEPT !.custom = "123456789", !.hasCents = FALSE],
     o7 |-> [Plain EXCEPT !.hasOrder = FALSE]]
MCOrders == DOMAIN MCOrder

(***************************************************************************)
(* A site with one directory, whose second version lacks the page.  Only  *)
(* up2ds brings the compressed file to a target.                           *)
(***************************************************************************)
MCEntries == <<"page", "page/index.html", "page/text.snappy">>
MCDirOf == [n \in {MCEntries[i] : i \in DOMAIN MCEntries} |-> IF n = "page" THEN "/" ELSE "page"]
MCIndexOf == [d \in {"page"} |-> "page/index.html"]
MCSnappy == {"page/text.snappy"}
MCSiteOf == <<{"page", "page/index.html"}, {"page", "page/text.snappy"}>>

U == INSTANCE UrlGetter
P == INSTANCE Payment
N == INSTANCE NsCounter
I == INSTANCE InstanceInfo
T == INSTANCE Template

MCInit ==
    /\ part \in {"fetch", "payment", "counter", "info", "site", "template"}
    /\ U!UrlInit /\ (part # "fetch" => call = AnyCall)
    /\ P!PaymentInit /\ N!NsInit /\ I!InfoInit /\ ServerInit /\ T!TemplateInit

MCNext ==
    /\ UNCHANGED part
    /\ \/ part = "fetch" /\ U!UrlNext /\ UNCHANGED <<paymentVars, nsVars, infoVars, serverVars, templateVars>>
       \/ part = "payment" /\ P!PaymentNext /\ UNCHANGED <<getterVars, nsVars, infoVars, serverVars, templateVars>>
       \/ part = "counter" /\ N!NsNext /\ UNCHANGED <<getterVars, paymentVars, infoVars, serverVars, templateVars>>
       \/ part = "info" /\ I!InfoNext /\ UNCHANGED <<getterVars, paymentVars, nsVars, serverVars, templateVars>>
       \/ part = "site" /\ ServerNext /\ UNCHANGED <<getterVars, paymentVars, nsVars, infoVars, templateVars>>
       \/ part = "template" /\ T!TemplateNext /\ UNCHANGED <<getterVars, paymentVars, nsVars, infoVars, serverVars>>

\* Targets differ in nothing.
Alike == Permutations(Targets)

MCSpec == MCInit /\ [][MCNext]_vars

\* UrlGetter leaves https, and sends a POST again, only when it must.
FetchesAsAsked == U!FetchesAsAsked

\* confirmPay saves the invoices of settled orders, and no others.
InvoicesMatchOrders == P!InvoicesMatchOrders

\* What readers of the counters learnt is what was committed.
CountsAddUp == N!CountsAddUp

\* A caller of GetByContext has an instance identified and counted.
InfoUsable == I!InfoUsable

\* TemplateFromHugoPage gives every page a template.
TemplateServed == T!TemplateServed
=============================================================================
