----------------------------- MODULE UrlGetter -----------------------------
(***************************************************************************)
(* UrlGetter of package net/http/fetch, and the handlers that show what it *)
(* returns.  A behaviour is one request for an address.  The server asked  *)
(* and the network are external: every attempt has any outcome.            *)
(***************************************************************************)
EXTENDS Sequences, Naturals

CONSTANTS Calls  \* the requests and options that callers hand over

VARIABLES
    call,  \* the caller's request and its options
    url,   \* scheme and path of the request, which UrlGetter changes
    at,    \* "new", the attempt that is under way, "returned", or "shown"
    sent,  \* all that went to servers, also as redirects
    seen,  \* the outcomes of the attempts so far
    got    \* what is returned

getterVars == <<call, url, at, sent, seen, got>>

MaxHops == 2  \* bound: redirects that are followed; the standard client follows ten
Redirects == {"slash", "elsewhere"}
Refused == {"400", "404"}
Statuses == Refused \cup {"200", "500"}
HTTPSProblem(o) == o = "certificate"
Errors == {"certificate", "timeout", "cancelled"}

Body(from) == [kind |-> "body", from |-> from, mod |-> "header", url |-> TRUE]
Failure == [kind |-> "error", from |-> "none", mod |-> "none", url |-> TRUE]
\* Errors before inf.URL is set.
EarlyFailure == [Failure EXCEPT !.url = FALSE]
\* The message of the cancelled redirect takes the place of a body.
SwallowedRedirect == [kind |-> "body", from |-> "message", mod |-> "ten minutes ago", url |-> TRUE]

UrlInit ==
    /\ call \in Calls /\ url = [scheme |-> call.scheme, path |-> call.path]
    /\ at = "new" /\ sent = <<>> /\ seen = <<>> /\ got = Failure

\* http.NewRequest makes a GET of a string; "https" is the default of both ways.
Standardized ==
    LET scheme == IF call.known \in {"http", "https"} THEN call.known
                  ELSE IF call.scheme = "" THEN "https" ELSE call.scheme
    IN  [url EXCEPT !.scheme = IF call.platform = "dev" /\ ~call.forceHTTPS THEN "http" ELSE scheme]

Return(result) == at' = "returned" /\ got' = result /\ UNCHANGED sent

\* The body of a request can be read once.
Do(u, attempt) ==
    /\ at' = attempt /\ url' = u
    /\ sent' = Append(sent, [scheme |-> u.scheme, method |-> call.method,
                             body |-> call.method = "POST" /\ sent = <<>>, attempt |-> attempt,
                             hop |-> FALSE])

Prepare ==
    /\ at = "new"
    /\ IF ~call.parses THEN Return(EarlyFailure) /\ UNCHANGED url
       ELSE IF call.platform = "no context" THEN Return(EarlyFailure) /\ UNCHANGED url
       ELSE IF call.isTestData THEN Return([Body("memory") EXCEPT !.mod = "none"]) /\ url' = Standardized
       ELSE Do(Standardized, "first") /\ UNCHANGED got
    /\ UNCHANGED <<call, seen>>

Hops == Len(SelectSeq(sent, LAMBDA s : s.attempt = at)) - 1
\* With RedirectHandling, one step to the path with a slash is allowed.
CheckRedirect(to) == ~call.cancelRedirects \/ (Hops = 0 /\ to = "slash")

\* The client follows to either scheme: CheckRedirect looks at paths, and what
\* it does to a POST depends on the status of the redirect.
Redirect ==
    /\ at \in {"first", "fallback", "again"} /\ Hops < MaxHops
    /\ {to \in Redirects : CheckRedirect(to)} # {}
    /\ \E scheme \in {"http", "https"}, method \in {"GET", sent[Len(sent)].method} :
        sent' = Append(sent, [sent[Len(sent)] EXCEPT
                !.scheme = scheme, !.method = method, !.hop = TRUE, !.body = @ /\ method = "POST"])
    /\ UNCHANGED <<call, url, at, seen, got>>

\* Every attempt's outcome; a redirect that is not allowed is an error.
Outcome(o) ==
    /\ at \in {"first", "fallback", "again"}
    /\ o = "cancelled" => call.cancelRedirects
    /\ o = "certificate" => sent[Len(sent)].scheme = "https"
    /\ seen' = Append(seen, o)

Swallowed(o) == o = "cancelled" /\ call.cancelRedirects

\* The body may break off while it is read.
ReadBody == Return(Body("server")) \/ Return(Failure)

\* Mutant: the fallback forgets to look at the method.
MayFallBack_anyMethod(o) == HTTPSProblem(o) /\ url.scheme = "https"

MayFallBack(o) == HTTPSProblem(o) /\ url.scheme = "https" /\ call.method = "GET"

\* A refused request is repeated, with "/" for an empty path.
AfterStatus(o) ==
    \/ o = "200" /\ ReadBody /\ UNCHANGED url
    \/ o \in Refused /\ Do([url EXCEPT !.path = IF @ = "" THEN "/" ELSE @], "again") /\ UNCHANGED got
    \/ o \in Refused /\ Return(Failure) /\ UNCHANGED url
    \/ o = "500" /\ Return(Failure) /\ UNCHANGED url

First ==
    /\ at = "first" /\ UNCHANGED call
    /\ \E o \in Statuses \cup Errors :
        /\ Outcome(o)
        /\ \/ o \in Statuses /\ AfterStatus(o)
           \/ Swallowed(o) /\ Return(SwallowedRedirect) /\ UNCHANGED url
           \/ MayFallBack(o) /\ Do([url EXCEPT !.scheme = "http"], "fallback") /\ UNCHANGED got
           \/ o \in Errors /\ ~Swallowed(o) /\ ~MayFallBack(o) /\ Return(Failure) /\ UNCHANGED url

Fallback ==
    /\ at = "fallback" /\ UNCHANGED call
    /\ \E o \in Statuses \cup Errors :
        /\ Outcome(o)
        /\ \/ o \in Statuses /\ AfterStatus(o)
           \/ Swallowed(o) /\ Return(SwallowedRedirect) /\ UNCHANGED url
           \/ o \in Errors /\ ~Swallowed(o) /\ Return(Failure) /\ UNCHANGED url

Again ==
    /\ at = "again" /\ UNCHANGED <<call, url>>
    /\ \E o \in Statuses \cup Errors :
        Outcome(o) /\ IF o = "200" THEN ReadBody ELSE Return(Failure)

(***************************************************************************)
(* The handlers.  The proxy and the form redirector show a failed request  *)
(* as an empty page, and stop with a panic when inf.URL is missing; the    *)
(* payment pages check the error.                                          *)
(***************************************************************************)
Show(page) == at' = "shown" /\ got' = [got EXCEPT !.kind = page] /\ UNCHANGED <<call, url, sent, seen>>

handleFetchURL ==
    /\ at = "returned" /\ call.handler \in {"proxy", "form"}
    /\ Show(IF ~got.url THEN "panic" ELSE IF got.kind = "error" THEN "empty page" ELSE "cleaned page")

requestPay ==
    /\ at = "returned" /\ call.handler = "payment"
    /\ \/ got.kind = "error" /\ Show("message")
       \/ got.kind = "body" /\ \E page \in {"input address and fee", "message"} : Show(page)

UrlNext == Prepare \/ Redirect \/ First \/ Fallback \/ Again \/ handleFetchURL \/ requestPay

UrlSpec == UrlInit /\ [][UrlNext]_getterVars

(***************************************************************************)
(* Servers may lead the client from one scheme to the other.  UrlGetter    *)
(* itself leaves https only for a GET whose first attempt met a            *)
(* certificate problem, at the server asked or at one it was led to; it    *)
(* sends a POST again only after a server refused it; and the body it      *)
(* returns is that of the last answer, which was a 200.                    *)
(***************************************************************************)
FetchesAsAsked ==
    /\ (\E i \in DOMAIN sent : ~sent[i].hop /\ sent[i].scheme # sent[1].scheme) =>
          call.method = "GET" /\ seen[1] = "certificate"
    /\ call.method = "POST" /\ (\E i \in DOMAIN sent : sent[i].attempt # "first") => seen[1] \in Refused
    /\ at = "returned" /\ got.from = "server" => seen[Len(seen)] = "200"
=============================================================================
