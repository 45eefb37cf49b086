---------------------------- MODULE FetchPipeline ----------------------------
(* FetchUsingRSS, net/http/repo/4_fetch.go: the handler (stage 1) climbs from  *)
(* the search prefix to the root and stuffs articles into a channel, workers   *)
(* (stage 2) fetch them, a collector (stage 3) gathers them until none has     *)
(* come for a while.                                                           *)
EXTENDS DirDigest

CONSTANTS Workers,         \* numWorkers goroutines
          SearchPrefixes, \* what a command may ask for: SearchPrefix
          Feeds,          \* what the RSS feed, or the digest, may link to
          Desired,        \* DesiredNumber
          DepthTolerance,
          Prefixed,       \* prefixes that have an RSS URL in the configuration
          MaxClimb        \* 15 prefixes at most

VARIABLES main,       \* the handler: pc, tree, prefix, excl, arts to stuff, found, climb;
              \* early, and the URLs whose last write failed, are ghosts
          cell,       \* the variable art of each call of stuffStage1, shared by pointer
          worker,     \* pc of each worker, with the article it points to
          collector,  \* "unborn" before its first statement, "running" or "ended"
          articles,   \* fullArticles
          saved       \* the files that were written in full: URL to body
pipevars == <<main, cell, worker, collector, articles, saved>>

None == <<0>>    \* no path: names begin at 1
Bare == [url |-> None, host |-> FALSE, body |-> None]

PInit == /\ main = [pc |-> "digest", tree |-> EmptyTree, prefix |-> <<>>, excl |-> None,
                    arts |-> <<>>, found |-> 0, climb |-> 0, early |-> FALSE, failed |-> {}]
         /\ cell = [n \in 1..MaxClimb |-> Bare]
         /\ worker = [w \in Workers |-> [pc |-> "wait", at |-> 0, url |-> None, host |-> FALSE]]
         /\ collector = "unborn"
         /\ articles = <<>>
         /\ saved = [u \in {} |-> None]

----------------------------------------------------------------------------
(* Stage 1, the handler *)

\* The closest prefix that has an RSS URL; the climb is given up after 20 steps.
MatchingRSSURI(p) ==
  LET found == {q \in (PathPrefixes(p) \cup {<<>>}) \cap Prefixed : Len(p) - Len(q) <= 20}
  IN IF found = {} THEN None ELSE CHOOSE q \in found : \A o \in found : Len(o) <= Len(q)

AddFeed(tree, links) == Path2DirTree(tree, links, TRUE)

\* A digest of the last seconds is used as it is.  Otherwise the links of the
\* feed are added; without a feed the page of the prefix is fetched, which adds
\* nothing, and ends the request if it fails.
LoadDigest(prefix, links) ==
  /\ main.pc = "digest"
  /\ \E old \in Feeds, young \in BOOLEAN, fails \in BOOLEAN :
       LET tree == Path2DirTree(EmptyTree, old, FALSE)
           feed == MatchingRSSURI(prefix)
       IN main' = [main EXCEPT !.prefix = prefix,
             !.pc = IF ~young /\ feed = None /\ fails THEN "aborted" ELSE "search",
             !.tree = IF young \/ feed = None THEN tree ELSE AddFeed(tree, links)]
  /\ UNCHANGED <<cell, worker, collector, articles, saved>>

\* The beginning of stuffStage1.
Search ==
  LET opt == [exclude |-> main.excl, min |-> 0, max |-> DepthTolerance,
              number |-> Desired - main.found]
      arts == IF Found(main.tree, main.prefix)
                THEN LevelWiseDeeper(main.tree, main.prefix, opt) ELSE <<>>
  IN /\ main.pc = "search"
     /\ main' = [main EXCEPT !.pc = "next", !.climb = @ + 1, !.arts = arts]
     /\ UNCHANGED <<cell, worker, collector, articles, saved>>

\* The loop variable art takes the next article, without the host at first.
Take == /\ main.pc = "next" /\ main.arts # <<>>
        /\ cell' = [cell EXCEPT ![main.climb] = [Bare EXCEPT !.url = Head(main.arts)]]
        /\ main' = [main EXCEPT !.pc = "addHost", !.arts = Tail(@)]
        /\ UNCHANGED <<worker, collector, articles, saved>>
AddHost == /\ main.pc = "addHost"
           /\ cell' = [cell EXCEPT ![main.climb].host = TRUE]
           /\ main' = [main EXCEPT !.pc = "send"]
           /\ UNCHANGED <<worker, collector, articles, saved>>
\* The channel is not buffered: a waiting worker takes the pointer.
Send(w) == /\ main.pc = "send" /\ worker[w].pc = "wait"
           /\ worker' = [worker EXCEPT ![w].pc = "start", ![w].at = main.climb]
           /\ main' = [main EXCEPT !.pc = "next", !.found = @ + 1]
           /\ UNCHANGED <<cell, collector, articles, saved>>
\* fin is closed: this call of stuffStage1 returns, its last articles unsent.
GiveUp == /\ main.pc = "send" /\ collector = "ended"
          /\ main' = [main EXCEPT !.pc = "next", !.arts = <<>>]
          /\ UNCHANGED <<cell, worker, collector, articles, saved>>
StepUp == /\ main.pc = "next" /\ main.arts = <<>>
          /\ main' = IF main.found >= Desired \/ main.prefix = <<>> \/ main.climb = MaxClimb
                       THEN [main EXCEPT !.pc = "collect"]
                       ELSE [main EXCEPT !.pc = "search", !.excl = main.prefix, !.prefix = Dir(@)]
          /\ UNCHANGED <<cell, worker, collector, articles, saved>>

WaitCollected_doesNotWait ==
  /\ main.pc = "collect"
  /\ main' = [main EXCEPT !.pc = "dirs", !.early = (collector = "unborn")]
  /\ UNCHANGED <<cell, worker, collector, articles, saved>>
\* Wait returns at once if the collector has not come to its Add.
WaitCollected ==
  /\ main.pc = "collect" /\ collector \in {"unborn", "ended"}
  /\ main' = [main EXCEPT !.pc = "dirs", !.early = (collector = "unborn")]
  /\ UNCHANGED <<cell, worker, collector, articles, saved>>
\* Errors are logged; a file whose directory is missing may fail below.
CreateDirs == /\ main.pc = "dirs"
              /\ main' = [main EXCEPT !.pc = "save"]
              /\ UNCHANGED <<cell, worker, collector, articles, saved>>

\* The articles with a body, and the last of those that share a URL.
Full == {i \in DOMAIN articles : articles[i].body # None}
LastOf(u) == CHOOSE i \in Full : articles[i].url = u /\ \A j \in Full : articles[j].url = u => j <= i

\* One file after the other, under the URL: the last one stays.  Any write may
\* fail, which is logged.
SaveFiles == /\ main.pc = "save"
             /\ \E failed \in SUBSET {articles[i].url : i \in Full} :
                  /\ main' = [main EXCEPT !.pc = "return", !.failed = failed]
                  /\ saved' = [u \in {articles[i].url : i \in Full} \ failed |-> articles[LastOf(u)].body]
             /\ UNCHANGED <<cell, worker, collector, articles>>

----------------------------------------------------------------------------
(* Stages 2 and 3 *)

\* UrlGetter gets the URL as it is by now, and fails if the host is missing.
Fetch(w) == /\ worker[w].pc = "start"
            /\ worker' = [worker EXCEPT ![w].pc = "fetching", ![w].url = cell[worker[w].at].url,
                                        ![w].host = cell[worker[w].at].host]
            /\ UNCHANGED <<main, cell, collector, articles, saved>>
Fetched(w) == /\ worker[w].pc = "fetching"
              /\ \E ok \in {worker[w].host, FALSE} :
                   cell' = [cell EXCEPT ![worker[w].at].body = IF ok THEN worker[w].url ELSE None]
              /\ worker' = [worker EXCEPT ![w].pc = "deliver"]
              /\ UNCHANGED <<main, collector, articles, saved>>
\* The collector copies what the pointer points to by now, and waits afresh.
Deliver(w) == /\ worker[w].pc = "deliver" /\ collector = "running"
              /\ articles' = Append(articles, cell[worker[w].at])
              /\ worker' = [worker EXCEPT ![w] = [pc |-> "wait", at |-> 0, url |-> None, host |-> FALSE]]
              /\ UNCHANGED <<main, cell, collector, saved>>
SpinDown_notWhileDelivering(w) ==
  /\ worker[w].pc = "wait" /\ collector = "ended"
  /\ worker' = [worker EXCEPT ![w].pc = "gone"]
  /\ UNCHANGED <<main, cell, collector, articles, saved>>
SpinDown(w) == /\ worker[w].pc \in {"wait", "deliver"} /\ collector = "ended"
               /\ worker' = [worker EXCEPT ![w].pc = "gone"]
               /\ UNCHANGED <<main, cell, collector, articles, saved>>

Collect == /\ collector = "unborn" /\ main.pc \notin {"digest", "aborted"} /\ collector' = "running"
           /\ UNCHANGED <<main, cell, worker, articles, saved>>
\* Nothing has come for 800 ms, or 1200 ms at the beginning.
TimeOut == /\ collector = "running" /\ collector' = "ended"
           /\ UNCHANGED <<main, cell, worker, articles, saved>>

PStep == \/ Search \/ Take \/ AddHost \/ GiveUp \/ StepUp
         \/ WaitCollected \/ CreateDirs \/ SaveFiles \/ Collect \/ TimeOut
         \/ \E w \in Workers : Send(w) \/ Fetch(w) \/ Fetched(w) \/ Deliver(w) \/ SpinDown(w)
PNext == (\E p \in SearchPrefixes, f \in Feeds : LoadDigest(p, f)) \/ PStep
PSpec == PInit /\ [][PNext]_pipevars

\* Some goroutine that can go on does, a fetch returns and the timer of the
\* collector goes off; nothing depends on which is first.
PFairness == WF_pipevars(PStep)

----------------------------------------------------------------------------
(* Properties *)

\* A body is saved under the URL it was fetched from.  Says the comment of
\* stuffStage1, "Wanted urls are sent to the stage one channel"; what is sent is
\* a pointer to a variable that all articles of the call share.
OwnBody == \A u \in DOMAIN saved : saved[u] = u

\* Whatever the collector takes before it ends is in the files: for every URL
\* that an article was collected under, the body of the last such article, or
\* its write failed; unless Wait has overtaken the Add in the collector.
AllCollectedSaved ==
  (main.pc = "return" /\ ~main.early) =>
     /\ \A i \in DOMAIN articles : articles[i].body # None => articles[i].url \in DOMAIN saved \cup main.failed
     /\ \A u \in DOMAIN saved : \E i \in DOMAIN articles :
          /\ articles[i].url = u /\ articles[i].body = saved[u]
          /\ \A j \in DOMAIN articles : articles[j].url = u /\ articles[j].body # None => j <= i

\* However the stages interleave, the handler returns and no worker is left
\* waiting at a channel, also when the collector gives up first.
PipelineEnds == main.pc = "search" ~>
                  (main.pc = "return" /\ collector = "ended" /\ \A w \in Workers : worker[w].pc = "gone")
=============================================================================
