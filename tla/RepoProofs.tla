----------------------------- MODULE RepoProofs -----------------------------
(***************************************************************************)
(* Proofs about the fetching of articles, for any values of the constants: *)
(* MCRepo passes them on to its instance of FetchPipeline.                 *)
(***************************************************************************)
EXTENDS MCRepo, SequenceTheorems, FiniteSetTheorems, WellFoundedInduction, TLAPS

(***************************************************************************)
(* The pipeline.  Once the handler has waited, nothing comes in any more:  *)
(* the collector has ended, or the handler was too early.                  *)
(***************************************************************************)
IsHandler(x) ==
    x = [pc |-> x.pc, tree |-> x.tree, prefix |-> x.prefix, excl |-> x.excl, arts |-> x.arts,
         found |-> x.found, climb |-> x.climb, early |-> x.early, failed |-> x.failed]

Gathered ==
    main.pc \in {"dirs", "save", "return"} /\ ~main.early =>
        /\ collector = "ended"
        /\ main.pc = "return" => saved = [u \in {articles[i].url : i \in P!Full} \ main.failed |->
                                                articles[P!LastOf(u)].body]

ArticlesTyped == \E S : articles \in Seq(S)

PipelineInv == IsHandler(main) /\ Gathered /\ ArticlesTyped

\* A step of the handler before it has waited for the collector.
LEMMA HandlerGoesOn ==
    ASSUME PipelineInv, NEW x, main' = x, IsHandler(x), x.pc \notin {"dirs", "save", "return"},
           UNCHANGED articles
    PROVE  PipelineInv'
BY DEF PipelineInv, Gathered, ArticlesTyped

\* A step of a worker or of the collector.
LEMMA HandlerRests ==
    ASSUME PipelineInv, UNCHANGED <<main, saved>>, collector' = collector \/ collector # "ended",
           UNCHANGED articles \/ (collector # "ended" /\ \E a : articles' = Append(articles, a))
    PROVE  PipelineInv'
<1>1. ArticlesTyped'
    <2>1. CASE UNCHANGED articles
        BY <2>1 DEF PipelineInv, ArticlesTyped
    <2>2. ASSUME NEW a, articles' = Append(articles, a) PROVE ArticlesTyped'
        <3>1. PICK S : articles \in Seq(S)
            BY DEF PipelineInv, ArticlesTyped
        <3>2. PICK T : T = S \cup {a}
            OBVIOUS
        <3>3. articles \in Seq(T) /\ a \in T
            BY <3>1, <3>2, ElementOfSeq, SeqDef, LenProperties
        <3>4. articles' \in Seq(T)
            BY <2>2, <3>3, AppendProperties
        <3> QED BY <3>4 DEF ArticlesTyped
    <2> QED BY <2>1, <2>2
<1>2. Gathered'
    <2>1. CASE UNCHANGED articles
        <3>1. (P!Full)' = P!Full /\ \A u : P!LastOf(u)' = P!LastOf(u)
            BY <2>1 DEF P!Full, P!LastOf
        <3> QED BY <2>1, <3>1 DEF PipelineInv, Gathered
    <2>2. CASE collector # "ended"
        BY <2>2 DEF PipelineInv, Gathered
    <2> QED BY <2>1, <2>2
<1> QED BY <1>1, <1>2 DEF PipelineInv

LEMMA PipelineStarts == P!PInit => PipelineInv
<1> SUFFICES ASSUME P!PInit PROVE PipelineInv
    OBVIOUS
<1>1. IsHandler(main) /\ Gathered
    BY DEF P!PInit, IsHandler, Gathered
<1>2. articles \in Seq({})
    BY DEF P!PInit
<1> QED BY <1>1, <1>2 DEF PipelineInv, ArticlesTyped

LEMMA LoadDigestKeeps ==
    ASSUME PipelineInv, NEW p, NEW links, P!LoadDigest(p, links)
    PROVE  PipelineInv'
<1>1. PICK old \in Feeds, young \in BOOLEAN, fails \in BOOLEAN :
         LET tree == P!Path2DirTree(P!EmptyTree, old, FALSE)
             feed == P!MatchingRSSURI(p)
         IN main' = [main EXCEPT !.prefix = p,
               !.pc = IF ~young /\ feed = P!None /\ fails THEN "aborted" ELSE "search",
               !.tree = IF young \/ feed = P!None THEN tree ELSE P!AddFeed(tree, links)]
    BY DEF P!LoadDigest
<1>2. PICK pc : pc = IF ~young /\ P!MatchingRSSURI(p) = P!None /\ fails
                       THEN "aborted" ELSE "search"
    OBVIOUS
<1>3. PICK tree : tree = IF young \/ P!MatchingRSSURI(p) = P!None
                           THEN P!Path2DirTree(P!EmptyTree, old, FALSE)
                           ELSE P!AddFeed(P!Path2DirTree(P!EmptyTree, old, FALSE), links)
    OBVIOUS
<1>4. PICK x : x = [main EXCEPT !.prefix = p, !.pc = pc, !.tree = tree]
    OBVIOUS
<1>5. main' = x
    BY <1>1, <1>2, <1>3, <1>4
<1>6. IsHandler(x) /\ x.pc = pc
    BY <1>4 DEF PipelineInv, IsHandler
<1>7. pc \notin {"dirs", "save", "return"}
    BY <1>2
<1> QED BY <1>5, <1>6, <1>7, HandlerGoesOn DEF P!LoadDigest

LEMMA SearchKeeps == ASSUME PipelineInv, P!Search PROVE PipelineInv'
<1>1. PICK climb, arts : main' = [main EXCEPT !.pc = "next", !.climb = climb, !.arts = arts]
    BY DEF P!Search
<1>2. PICK x : x = [main EXCEPT !.pc = "next", !.climb = climb, !.arts = arts]
    OBVIOUS
<1>3. IsHandler(x) /\ x.pc = "next"
    BY <1>2 DEF PipelineInv, IsHandler
<1> QED BY <1>1, <1>2, <1>3, HandlerGoesOn DEF P!Search

LEMMA StuffKeeps ==
    ASSUME PipelineInv, P!Take \/ P!AddHost \/ P!GiveUp \/ P!StepUp \/ \E w \in Workers : P!Send(w)
    PROVE  PipelineInv'
<1>0. CASE P!Take
    <2>1. PICK x : x = [main EXCEPT !.pc = "addHost", !.arts = Tail(main.arts)]
        OBVIOUS
    <2>2. main' = x
        BY <1>0, <2>1 DEF P!Take
    <2>3. IsHandler(x) /\ x.pc = "addHost"
        BY <2>1 DEF PipelineInv, IsHandler
    <2> QED BY <1>0, <2>2, <2>3, HandlerGoesOn DEF P!Take
<1>1. CASE P!GiveUp
    <2>1. PICK x : x = [main EXCEPT !.pc = "next", !.arts = <<>>]
        OBVIOUS
    <2>2. main' = x
        BY <1>1, <2>1 DEF P!GiveUp
    <2>3. IsHandler(x) /\ x.pc = "next"
        BY <2>1 DEF PipelineInv, IsHandler
    <2> QED BY <1>1, <2>2, <2>3, HandlerGoesOn DEF P!GiveUp
<1>2. CASE P!AddHost \/ (P!StepUp /\ main' = [main EXCEPT !.pc = "collect"])
    <2>1. PICK pc : pc \in {"send", "collect"} /\ main' = [main EXCEPT !.pc = pc]
        BY <1>2 DEF P!AddHost
    <2>2. PICK x : x = [main EXCEPT !.pc = pc]
        OBVIOUS
    <2>3. IsHandler(x) /\ x.pc = pc
        BY <2>2 DEF PipelineInv, IsHandler
    <2> QED BY <1>2, <2>1, <2>2, <2>3, HandlerGoesOn DEF P!AddHost, P!StepUp
<1>3. CASE P!StepUp /\ main' # [main EXCEPT !.pc = "collect"]
    <2>1. PICK prefix : main' = [main EXCEPT !.pc = "search", !.excl = main.prefix, !.prefix = prefix]
        BY <1>3 DEF P!StepUp
    <2>2. PICK x : x = [main EXCEPT !.pc = "search", !.excl = main.prefix, !.prefix = prefix]
        OBVIOUS
    <2>3. IsHandler(x) /\ x.pc = "search"
        BY <2>2 DEF PipelineInv, IsHandler
    <2> QED BY <1>3, <2>1, <2>2, <2>3, HandlerGoesOn DEF P!StepUp
<1>4. ASSUME NEW w \in Workers, P!Send(w) PROVE PipelineInv'
    <2>0. main' = [main EXCEPT !.pc = "next", !.found = main.found + 1]
        BY <1>4 DEF P!Send
    <2>1. PICK found : main' = [main EXCEPT !.pc = "next", !.found = found]
        BY <2>0
    <2>2. PICK x : x = [main EXCEPT !.pc = "next", !.found = found]
        OBVIOUS
    <2>3. IsHandler(x) /\ x.pc = "next"
        BY <2>2 DEF PipelineInv, IsHandler
    <2> QED BY <1>4, <2>1, <2>2, <2>3, HandlerGoesOn DEF P!Send
<1> QED BY <1>0, <1>1, <1>2, <1>3, <1>4

\* Wait, the directories, and the files.
LEMMA EndingKeeps ==
    ASSUME PipelineInv, P!WaitCollected \/ P!CreateDirs \/ P!SaveFiles
    PROVE  PipelineInv'
<1>1. CASE P!WaitCollected
    <2>1. PICK early : early = (collector = "unborn")
        OBVIOUS
    <2>2. PICK x : x = [main EXCEPT !.pc = "dirs", !.early = early]
        OBVIOUS
    <2>3. main' = x /\ collector \in {"unborn", "ended"} /\ UNCHANGED <<collector, articles>>
        BY <1>1, <2>1, <2>2 DEF P!WaitCollected
    <2>4. IsHandler(x) /\ x.pc = "dirs" /\ x.early = early
        BY <2>2 DEF PipelineInv, IsHandler
    <2>5. ~early => collector = "ended"
        BY <2>1, <2>3
    <2> QED BY <2>3, <2>4, <2>5 DEF PipelineInv, Gathered, ArticlesTyped
<1>2. CASE P!CreateDirs
    <2>1. PICK x : x = [main EXCEPT !.pc = "save"]
        OBVIOUS
    <2>2. main' = x /\ main.pc = "dirs" /\ UNCHANGED <<collector, articles, saved>>
        BY <1>2, <2>1 DEF P!CreateDirs
    <2>3. IsHandler(x) /\ x.pc = "save" /\ x.early = main.early
        BY <2>1 DEF PipelineInv, IsHandler
    <2> QED BY <2>2, <2>3 DEF PipelineInv, Gathered, ArticlesTyped
<1>3. CASE P!SaveFiles
    <2>1. PICK failed : /\ main' = [main EXCEPT !.pc = "return", !.failed = failed]
                        /\ saved' = [u \in {articles[i].url : i \in P!Full} \ failed |->
                                                articles[P!LastOf(u)].body]
        BY <1>3 DEF P!SaveFiles
    <2>2. PICK x : x = [main EXCEPT !.pc = "return", !.failed = failed]
        OBVIOUS
    <2>3. main' = x /\ main.pc = "save" /\ UNCHANGED <<collector, articles>>
        BY <1>3, <2>1, <2>2 DEF P!SaveFiles
    <2>4. IsHandler(x) /\ x.pc = "return" /\ x.early = main.early /\ x.failed = failed
        BY <2>2 DEF PipelineInv, IsHandler
    <2>5. (P!Full)' = P!Full /\ \A u : P!LastOf(u)' = P!LastOf(u)
        BY <2>3 DEF P!Full, P!LastOf
    <2> QED BY <2>1, <2>3, <2>4, <2>5 DEF PipelineInv, Gathered, ArticlesTyped
<1> QED BY <1>1, <1>2, <1>3

LEMMA PipelineGoesOn == PipelineInv /\ [P!PNext]_P!pipevars => PipelineInv'
<1> SUFFICES ASSUME PipelineInv, [P!PNext]_P!pipevars PROVE PipelineInv'
    OBVIOUS
<1>1. ASSUME NEW w \in Workers, P!Fetch(w) \/ P!Fetched(w) \/ P!Deliver(w) \/ P!SpinDown(w)
      PROVE  PipelineInv'
    BY <1>1, HandlerRests DEF P!Fetch, P!Fetched, P!Deliver, P!SpinDown
<1>2. CASE P!Collect \/ P!TimeOut
    BY <1>2, HandlerRests DEF P!Collect, P!TimeOut
<1>3. CASE UNCHANGED P!pipevars
    BY <1>3, HandlerRests DEF P!pipevars
<1>4. CASE P!PStep
    BY <1>1, <1>2, <1>4, SearchKeeps, StuffKeeps, EndingKeeps DEF P!PStep
<1> QED BY <1>3, <1>4, LoadDigestKeeps DEF P!PNext

LEMMA Least ==
    ASSUME NEW T \in SUBSET Nat, T # {}
    PROVE  \E n \in T : \A m \in T : n <= m
<1>1. PICK n \in T : \A m \in T : ~(<<m, n>> \in OpToRel(<, Nat))
    BY NatLessThanWellFounded, WFMin
<1>2. \A m \in T : ~(m < n)
    BY <1>1 DEF OpToRel
<1> QED BY <1>2

\* Of the articles under a URL, one is the last.
LEMMA LastIsThere ==
    ASSUME ArticlesTyped, NEW u \in {articles[i].url : i \in P!Full}
    PROVE  /\ P!LastOf(u) \in P!Full /\ articles[P!LastOf(u)].url = u
           /\ \A j \in P!Full : articles[j].url = u => j <= P!LastOf(u)
<1>1. DOMAIN articles = 1 .. Len(articles) /\ Len(articles) \in Nat
    BY LenProperties DEF ArticlesTyped
<1> DEFINE left == {Len(articles) - i : i \in {j \in P!Full : articles[j].url = u}}
<1>2. left \subseteq Nat /\ left # {}
    BY <1>1 DEF P!Full
<1>3. PICK n \in left : \A m \in left : n <= m
    BY <1>2, Least
<1>4. PICK i \in P!Full : articles[i].url = u /\ n = Len(articles) - i
    BY <1>3
<1>5. ASSUME NEW j \in P!Full, articles[j].url = u PROVE j <= i
    <2>1. n <= Len(articles) - j
        BY <1>3, <1>5
    <2>2. i \in Int /\ j \in Int
        BY <1>1, <1>4, <1>5 DEF P!Full
    <2> QED BY <1>1, <1>4, <2>1, <2>2
<1> QED BY <1>4, <1>5 DEF P!LastOf

(***************************************************************************)
(* When FetchUsingRSS returns, every article that the collector has taken  *)
(* with a body has a file under its URL, with the body of the last article *)
(* that came under this URL, or the write of that file failed; unless Wait *)
(* overtook the Add of stage 3.                                            *)
(***************************************************************************)
THEOREM CollectedIsSaved == P!PSpec => []AllCollectedSaved
<1>1. PipelineInv => AllCollectedSaved
    <2> SUFFICES ASSUME PipelineInv, main.pc = "return", ~main.early
                 PROVE  P!AllCollectedSaved
        BY DEF AllCollectedSaved, P!AllCollectedSaved
    <2>1. /\ DOMAIN saved = {articles[i].url : i \in P!Full} \ main.failed
          /\ \A u \in DOMAIN saved : saved[u] = articles[P!LastOf(u)].body
        BY DEF PipelineInv, Gathered
    <2>2. ASSUME NEW i \in DOMAIN articles, articles[i].body # P!None
          PROVE  articles[i].url \in DOMAIN saved \cup main.failed
        BY <2>1, <2>2 DEF P!Full
    <2>3. ASSUME NEW u \in DOMAIN saved
          PROVE  \E i \in DOMAIN articles :
                   /\ articles[i].url = u /\ articles[i].body = saved[u]
                   /\ \A j \in DOMAIN articles :
                        articles[j].url = u /\ articles[j].body # P!None => j <= i
        BY <2>1, <2>3, LastIsThere DEF P!Full, PipelineInv
    <2> QED BY <2>2, <2>3 DEF P!AllCollectedSaved
<1> QED
    BY PipelineStarts, PipelineGoesOn, <1>1, PTL DEF P!PSpec

(***************************************************************************)
(* Requests for similar articles.  A page is crawled for a request when it *)
(* was stored for it and is still fresh; its links are in the tree of that *)
(* request, then in the digest that the request saves, and in the trees of *)
(* the requests that load this digest.                                     *)
(***************************************************************************)
IsRequest(x) ==
    x = [pc |-> x.pc, url |-> x.url, tree |-> x.tree, recent |-> x.recent, at |-> x.at,
         i |-> x.i, j |-> x.j, crawled |-> x.crawled, links |-> x.links, k |-> x.k,
         taken |-> x.taken, missing |-> x.missing, pending |-> x.pending,
         finished |-> x.finished, base |-> x.base]

Running == {"self", "look", "select", "fetch", "save"}
CrawledFor(r) == {p \in DOMAIN owner : p \in fresh /\ owner[p] = <<r, "crawl">>}
Kept(r, tree) == \A p \in CrawledFor(r) : Links(p) \ {<<>>} \subseteq Ends(tree)

RequestsTyped ==
    /\ site \in Sites
    /\ DOMAIN req = Requests /\ digest = [tree |-> digest.tree, recent |-> digest.recent]
    /\ \A r \in Requests : IsRequest(req[r]) /\ req[r].pc \in Running \cup {"idle", "done"}
    /\ \A p \in DOMAIN owner : owner[p] \in Requests \X {"crawl", "job"}

\* What a request has loaded is kept until it saves.
LoadedKept(r) ==
    \A o \in req[r].base : /\ o \in Requests /\ req[o].pc = "done"
                           /\ o \notin excused => Kept(o, req[r].tree)

RequestKept(r) ==
    /\ req[r].pc = "idle" => CrawledFor(r) = {}
    /\ req[r].pc \in Running => Kept(r, req[r].tree) /\ LoadedKept(r)
    /\ req[r].pc = "done" /\ r \notin excused => Kept(r, digest.tree)

SimilarInv == RequestsTyped /\ \A r \in Requests : RequestKept(r)

-----------------------------------------------------------------------------
(* Trees *)

\* What is added to a tree is in it, and what was in it stays.
LEMMA LinksAdded ==
    ASSUME NEW tree, NEW links, links \subseteq Seq(Int), NEW isRSS
    PROVE  /\ Ends(tree) \subseteq Ends(Path2DirTree(tree, links, isRSS))
           /\ links \ {<<>>} \subseteq Ends(Path2DirTree(tree, links, isRSS))
<1> DEFINE seen == UNION {PathPrefixes(p) : p \in links}
           grown == Path2DirTree(tree, links, isRSS)
<1>1. DOMAIN grown = DOMAIN tree \cup seen
    BY DEF Path2DirTree
<1>2. \A q \in DOMAIN tree \cup seen :
         grown[q].end = (\/ q \in links \/ (q \in seen /\ Last(q) \in YearDirs)
                         \/ (q \in DOMAIN tree /\ tree[q].end))
    BY DEF Path2DirTree
<1>3. ASSUME NEW p \in links, p # <<>> PROVE p \in seen
    <2>1. p \in Seq(Int)
        BY <1>3
    <2>2. Len(p) \in Nat /\ Len(p) # 0
        BY <1>3, <2>1, EmptySeq, LenProperties
    <2>3. SubSeq(p, 1, Len(p)) = p /\ Len(p) \in 1..Len(p)
        BY <2>1, <2>2, SubSeqFull
    <2>4. p \in PathPrefixes(p)
        BY <2>3 DEF PathPrefixes
    <2> QED BY <1>3, <2>4
<1> HIDE DEF grown, seen
<1>4. Ends(tree) \subseteq Ends(grown)
    BY <1>1, <1>2 DEF Ends
<1>5. links \ {<<>>} \subseteq Ends(grown)
    BY <1>1, <1>2, <1>3 DEF Ends
<1> QED BY <1>4, <1>5 DEF grown

LEMMA LinksOfPage ==
    ASSUME RequestsTyped, NEW p
    PROVE  Links(p) \subseteq AllLinks(site) /\ Links(p) \subseteq Seq(Int)
<1>1. Links(p) \subseteq AllLinks(site)
    BY DEF Links, Exists, AllLinks
<1>2. AllLinks(site) \subseteq Seq(Int)
    BY LinksAssumption DEF RequestsTyped
<1> QED BY <1>1, <1>2

LEMMA AnchorsAdded ==
    ASSUME RequestsTyped, NEW tree, NEW p
    PROVE  /\ Ends(tree) \subseteq Ends(AddAnchors(tree, p))
           /\ Links(p) \ {<<>>} \subseteq Ends(AddAnchors(tree, p))
<1>1. Links(p) \subseteq Seq(Int)
    BY LinksOfPage
<1> QED BY <1>1, LinksAdded DEF AddAnchors

-----------------------------------------------------------------------------
(* Steps *)

\* What a step of a request does to the pages: those it adds were stored by a
\* job, or their links are in its tree by then.
Crawls(r, tree) ==
    \A p \in DOMAIN owner' :
       /\ owner'[p] \in Requests \X {"crawl", "job"}
       /\ p \in fresh' => \/ p \in fresh /\ p \in DOMAIN owner /\ owner'[p] = owner[p]
                          \/ owner'[p][2] = "job"
                          \/ /\ owner'[p] = <<r, "crawl">> /\ req[r].pc \in Running
                             /\ Links(p) \ {<<>>} \subseteq Ends(tree)

\* A request goes on, or gives up.
LEMMA RequestGoesOn ==
    ASSUME SimilarInv, NEW r \in Requests, NEW x, IsRequest(x), req' = [req EXCEPT ![r] = x],
           UNCHANGED <<site, digest>>, excused \subseteq excused', Crawls(r, x.tree),
           x.base = req[r].base, Ends(req[r].tree) \subseteq Ends(x.tree),
           \/ x.pc = req[r].pc /\ x.pc # "idle"
           \/ req[r].pc \in Running /\ x.pc \in Running
           \/ req[r].pc \in Running /\ x.pc = "done" /\ r \in excused'
    PROVE  SimilarInv'
<1>1. /\ DOMAIN req' = Requests /\ req'[r] = x
      /\ \A o \in Requests \ {r} : req'[o] = req[o]
    BY DEF SimilarInv, RequestsTyped
<1>2. RequestsTyped'
    BY <1>1 DEF SimilarInv, RequestsTyped, Crawls
<1>3. ASSUME NEW o \in Requests, o # r \/ req[r].pc \notin Running
      PROVE  CrawledFor(o)' \subseteq CrawledFor(o)
    <2> SUFFICES ASSUME NEW p \in CrawledFor(o)' PROVE p \in CrawledFor(o)
        OBVIOUS
    <2>1. p \in DOMAIN owner' /\ p \in fresh' /\ owner'[p] = <<o, "crawl">>
        BY DEF CrawledFor
    <2>2. p \in fresh /\ p \in DOMAIN owner /\ owner'[p] = owner[p]
        BY <1>3, <2>1 DEF Crawls
    <2> QED BY <2>1, <2>2 DEF CrawledFor
<1>4. \A p : Links(p)' = Links(p)
    BY DEF Links, Exists
<1>5. ASSUME NEW o \in Requests, o # r \/ req[r].pc \notin Running, NEW S, NEW T,
             Kept(o, S), Ends(S) \subseteq Ends(T)
      PROVE  \A p \in CrawledFor(o)' : Links(p)' \ {<<>>} \subseteq Ends(T)
    BY <1>3, <1>4, <1>5 DEF Kept
<1>6. ASSUME req[r].pc \in Running
      PROVE  \A p \in CrawledFor(r)' : Links(p)' \ {<<>>} \subseteq Ends(x.tree)
    <2> SUFFICES ASSUME NEW p \in CrawledFor(r)' PROVE Links(p) \ {<<>>} \subseteq Ends(x.tree)
        BY <1>4
    <2>1. p \in DOMAIN owner' /\ p \in fresh' /\ owner'[p] = <<r, "crawl">>
        BY DEF CrawledFor
    <2>2. p \in CrawledFor(r) \/ Links(p) \ {<<>>} \subseteq Ends(x.tree)
        BY <2>1 DEF Crawls, CrawledFor
    <2>3. Kept(r, req[r].tree)
        BY <1>6 DEF SimilarInv, RequestKept
    <2> QED BY <2>2, <2>3 DEF Kept
<1>7. \A o \in Requests : req[o].pc = "done" => req'[o].pc = "done"
    BY <1>1 DEF Running
<1>8. ASSUME NEW o \in Requests, NEW T, req[o].pc \in Running, req'[o].base = req[o].base,
             req'[o].tree = T, Ends(req[o].tree) \subseteq Ends(T)
      PROVE  LoadedKept(o)'
    <2> SUFFICES ASSUME NEW q \in req[o].base
                 PROVE  /\ q \in Requests /\ req'[q].pc = "done"
                        /\ q \notin excused' =>
                             \A p \in CrawledFor(q)' : Links(p)' \ {<<>>} \subseteq Ends(T)
        BY <1>8 DEF LoadedKept, Kept
    <2>1. LoadedKept(o)
        BY <1>8 DEF SimilarInv, RequestKept
    <2>2. q \in Requests /\ req[q].pc = "done" /\ (q \notin excused => Kept(q, req[o].tree))
        BY <2>1 DEF LoadedKept
    <2>3. q # r \/ req[r].pc \notin Running
        BY <2>2 DEF Running
    <2> QED BY <1>5, <1>7, <1>8, <2>2, <2>3
<1>9. RequestKept(r)'
    <2>1. CASE x.pc \in Running
        <3>1. req[r].pc \in Running
            BY <2>1 DEF Running
        <3>2. LoadedKept(r)'
            BY <1>1, <1>8, <3>1
        <3>3. Kept(r, req[r].tree)'
            BY <1>1, <1>6, <3>1 DEF Kept
        <3> QED BY <1>1, <2>1, <3>2, <3>3 DEF RequestKept, Running
    <2>2. CASE x.pc \notin Running
        <3>1. x.pc = "done" /\ (r \notin excused' => req[r].pc = "done" /\ r \notin excused)
            BY <2>2 DEF SimilarInv, RequestsTyped
        <3>2. ASSUME r \notin excused' PROVE Kept(r, digest.tree)'
            <4>1. Kept(r, digest.tree) /\ req[r].pc \notin Running
                BY <3>1, <3>2 DEF SimilarInv, RequestKept, Running
            <4> QED BY <1>5, <4>1 DEF Kept
        <3> QED BY <1>1, <3>1, <3>2 DEF RequestKept, Running
    <2> QED BY <2>1, <2>2
<1>10. ASSUME NEW o \in Requests, o # r PROVE RequestKept(o)'
    <2>1. req'[o] = req[o] /\ RequestKept(o)
        BY <1>1, <1>10 DEF SimilarInv
    <2>2. req[o].pc \in Running => LoadedKept(o)'
        BY <1>8, <2>1
    <2>3. req[o].pc \in Running => Kept(o, req[o].tree)'
        BY <1>5, <1>10, <2>1 DEF RequestKept, Kept
    <2>4. req[o].pc = "done" /\ o \notin excused' => Kept(o, digest.tree)'
        BY <1>5, <1>10, <2>1 DEF RequestKept, Kept
    <2>5. req[o].pc = "idle" => CrawledFor(o)' = {}
        BY <1>3, <1>10, <2>1 DEF RequestKept
    <2> QED BY <2>1, <2>2, <2>3, <2>4, <2>5 DEF RequestKept
<1> QED BY <1>2, <1>9, <1>10 DEF SimilarInv

\* The pages are as they were.
LEMMA NothingStored ==
    ASSUME SimilarInv, UNCHANGED <<fresh, owner>>, NEW r, NEW tree
    PROVE  Crawls(r, tree)
BY DEF SimilarInv, RequestsTyped, Crawls

\* One page is stored.
LEMMA PageStored ==
    ASSUME SimilarInv, NEW r \in Requests, NEW p, NEW how \in {"crawl", "job"}, NEW tree,
           FetchesAndSaves(p, <<r, how>>),
           how = "crawl" => req[r].pc \in Running /\ Links(p) \ {<<>>} \subseteq Ends(tree)
    PROVE  Crawls(r, tree)
<1>1. /\ fresh' \subseteq fresh \cup {p}
      /\ owner' = [q \in DOMAIN owner \cup {p} |-> IF q = p THEN <<r, how>> ELSE owner[q]]
    BY DEF FetchesAndSaves, Stored
<1> QED BY <1>1 DEF SimilarInv, RequestsTyped, Crawls

-----------------------------------------------------------------------------
(* The climb does not touch the tree, but for the anchors it adds.         *)

Like(x, q) == IsRequest(x) /\ x.tree = q.tree /\ x.base = q.base /\ x.url = q.url

LEMMA NextStepLike ==
    ASSUME NEW q, IsRequest(q)
    PROVE  Like(NextStep(q), q) /\ NextStep(q).pc \in {q.pc, "select"}
<1>1. CASE q.i < Len(q.url) + 4
    <2>1. PICK x : x = [q EXCEPT !.i = q.i + 1]
        OBVIOUS
    <2>2. NextStep(q) = x
        BY <1>1, <2>1 DEF NextStep
    <2> QED BY <2>1, <2>2 DEF IsRequest, Like
<1>2. CASE ~(q.i < Len(q.url) + 4) /\ q.j < Len(q.url) - 1
    <2>1. PICK j, at0 : j = q.j + 1 /\ at0 = Dir(q.url)
        OBVIOUS
    <2>2. PICK x : x = [q EXCEPT !.i = 1, !.j = j, !.at = at0]
        OBVIOUS
    <2>3. NextStep(q) = x
        BY <1>2, <2>1, <2>2 DEF NextStep
    <2> QED BY <2>2, <2>3 DEF IsRequest, Like
<1>3. CASE ~(q.i < Len(q.url) + 4) /\ ~(q.j < Len(q.url) - 1)
    <2>1. PICK x : x = [q EXCEPT !.pc = "select"]
        OBVIOUS
    <2>2. NextStep(q) = x
        BY <1>3, <2>1 DEF NextStep
    <2> QED BY <2>1, <2>2 DEF IsRequest, Like
<1> QED BY <1>1, <1>2, <1>3

LEMMA NextRoundLike ==
    ASSUME NEW q, IsRequest(q)
    PROVE  Like(NextRound(q), q) /\ NextRound(q).pc \in {q.pc, "select"}
<1>1. PICK n : n = Len(q.url) + 4
    OBVIOUS
<1>2. PICK x : x = [q EXCEPT !.i = n]
    OBVIOUS
<1>3. NextRound(q) = NextStep(x)
    BY <1>1, <1>2 DEF NextRound
<1>4. Like(x, q) /\ x.pc = q.pc
    BY <1>2 DEF IsRequest, Like
<1> QED BY <1>3, <1>4, NextStepLike DEF Like

LEMMA ClimbLike ==
    ASSUME NEW q, IsRequest(q), NEW head, NEW tree, NEW x, x = Climb(q, head, tree)
    PROVE  /\ IsRequest(x) /\ x.tree = tree /\ x.base = q.base /\ x.url = q.url
           /\ x.pc \in {q.pc, "select"}
<1>1. PICK crawled : crawled = q.crawled \cup {head}
    OBVIOUS
<1>2. CASE ~Found(q.tree, q.at)
    <2>1. PICK y : y = [q EXCEPT !.tree = tree, !.crawled = crawled, !.at = head]
        OBVIOUS
    <2>2. x = NextStep(y)
        BY <1>1, <1>2, <2>1 DEF Climb
    <2>3. IsRequest(y) /\ y.tree = tree /\ y.base = q.base /\ y.url = q.url /\ y.pc = q.pc
        BY <2>1 DEF IsRequest
    <2> QED BY <2>2, <2>3, NextStepLike DEF Like
<1>3. CASE Found(q.tree, q.at)
    <2>1. PICK links, at0 : links = q.links \o LevelLinks(q, tree, head) /\ at0 = Dir(head)
        OBVIOUS
    <2>2. PICK above : above = [q EXCEPT !.tree = tree, !.crawled = crawled, !.links = links,
                                         !.at = at0]
        OBVIOUS
    <2>3. /\ IsRequest(above) /\ above.tree = tree /\ above.base = q.base /\ above.url = q.url
          /\ above.pc = q.pc
        BY <2>2 DEF IsRequest
    <2>4. x = IF Len(links) >= MaxNumber THEN [above EXCEPT !.pc = "select"]
              ELSE IF head = <<>> THEN NextRound(above) ELSE NextStep(above)
        BY <1>1, <1>3, <2>1, <2>2 DEF Climb
    <2>5. CASE Len(links) >= MaxNumber
        <3>1. PICK y : y = [above EXCEPT !.pc = "select"]
            OBVIOUS
        <3> QED BY <2>3, <2>4, <2>5, <3>1 DEF IsRequest
    <2>6. CASE ~(Len(links) >= MaxNumber)
        BY <2>3, <2>4, <2>6, NextStepLike, NextRoundLike DEF Like
    <2> QED BY <2>5, <2>6
<1> QED BY <1>2, <1>3

-----------------------------------------------------------------------------
(* The steps of a request *)

\* The request and what it may become: nothing else of a step need be known.
LEMMA RunningTyped ==
    ASSUME SimilarInv, NEW r \in Requests
    PROVE  IsRequest(req[r])
BY DEF SimilarInv, RequestsTyped

LEMMA AbortKeeps ==
    ASSUME SimilarInv, NEW r \in Requests, req[r].pc \in Running, Abort(r),
           UNCHANGED <<site, fresh, digest, owner>>
    PROVE  SimilarInv'
<1>1. PICK x : x = [req[r] EXCEPT !.pc = "done"]
    OBVIOUS
<1>2. req' = [req EXCEPT ![r] = x] /\ excused' = excused \cup {r}
    BY <1>1 DEF Abort
<1>3. IsRequest(x) /\ x.pc = "done" /\ x.base = req[r].base /\ x.tree = req[r].tree
    <2>1. IsRequest(req[r])
        BY RunningTyped
    <2> QED BY <1>1, <2>1 DEF IsRequest
<1>4. Crawls(r, x.tree)
    BY NothingStored
<1> QED BY <1>2, <1>3, <1>4, RequestGoesOn

LEMMA PagesStay ==
    ASSUME UNCHANGED <<site, fresh, owner>>
    PROVE  /\ \A o : CrawledFor(o)' = CrawledFor(o)
           /\ \A p : Links(p)' = Links(p)
BY DEF CrawledFor, Links, Exists

LEMMA StartKeeps ==
    ASSUME SimilarInv, NEW r \in Requests, NEW u, Start(r, u)
    PROVE  SimilarInv'
<1>1. PICK base : base = {o \in Requests : req[o].pc = "done"}
    OBVIOUS
<1>2. PICK tree, recent : tree = digest.tree /\ recent = digest.recent
    OBVIOUS
<1>3. PICK y : y = [Idle EXCEPT !.pc = "self", !.url = u]
    OBVIOUS
<1>4. PICK x : x = [y EXCEPT !.tree = tree, !.recent = recent, !.base = base]
    OBVIOUS
<1>5. PICK z : /\ z \in {x, y} /\ req' = [req EXCEPT ![r] = z] /\ req[r].pc = "idle"
               /\ UNCHANGED <<site, fresh, digest, owner, excused>>
    BY <1>1, <1>2, <1>3, <1>4 DEF Start, LoadDigest
<1>6. IsRequest(y) /\ y.pc = "self" /\ y.base = {}
    BY <1>3 DEF Idle, IsRequest
<1>7. IsRequest(z) /\ z.pc = "self" /\ (z.base = {} \/ (z.tree = digest.tree /\ z.base = base))
    BY <1>2, <1>4, <1>5, <1>6 DEF IsRequest
<1>8. DOMAIN req' = Requests /\ req'[r] = z /\ \A o \in Requests \ {r} : req'[o] = req[o]
    BY <1>5 DEF SimilarInv, RequestsTyped
<1>9. RequestsTyped'
    BY <1>5, <1>7, <1>8 DEF SimilarInv, RequestsTyped, Running
<1>10. ASSUME NEW o \in Requests, req'[o].pc \in Running, NEW T, T = req'[o].tree,
              \A q \in req'[o].base : /\ q \in Requests /\ req[q].pc = "done"
                                      /\ q \notin excused => Kept(q, T)
       PROVE  LoadedKept(o)'
    BY <1>5, <1>8, <1>10, PagesStay DEF LoadedKept, Kept
<1>11. RequestKept(r)'
    <2>1. CrawledFor(r) = {}
        BY <1>5 DEF SimilarInv, RequestKept
    <2>2. Kept(r, req[r].tree)'
        BY <1>5, <2>1, PagesStay DEF Kept
    <2>3. \A q \in base : q \in Requests /\ req[q].pc = "done" /\ (q \notin excused => Kept(q, digest.tree))
        BY <1>1 DEF SimilarInv, RequestKept
    <2>4. LoadedKept(r)'
        BY <1>7, <1>8, <1>10, <2>3 DEF Running
    <2> QED BY <1>7, <1>8, <2>2, <2>4 DEF RequestKept, Running
<1>12. ASSUME NEW o \in Requests, o # r PROVE RequestKept(o)'
    BY <1>5, <1>8, <1>10, <1>12, PagesStay DEF SimilarInv, RequestKept, LoadedKept, Kept
<1> QED BY <1>9, <1>11, <1>12 DEF SimilarInv

LEMMA SelfKeeps == ASSUME SimilarInv, NEW r \in Requests, Self(r) PROVE SimilarInv'
<1> DEFINE q == req[r]
<1>1. q.pc = "self" /\ q.pc \in Running /\ IsRequest(q) /\ UNCHANGED <<site, digest>>
    BY RunningTyped DEF Self, Running
<1>2. PICK at0, u, pc : /\ at0 = Dir(q.url) /\ u = q.url
                        /\ pc = IF q.url = <<>> THEN "select" ELSE "look"
    OBVIOUS
<1>3. ASSUME NEW tree, NEW recent, Ends(q.tree) \subseteq Ends(tree), Crawls(r, tree),
             UNCHANGED excused,
             req' = [req EXCEPT ![r] =
                       [@ EXCEPT !.pc = pc, !.tree = tree, !.recent = recent, !.at = at0]]
      PROVE  SimilarInv'
    <2>1. PICK x : x = [q EXCEPT !.pc = pc, !.tree = tree, !.recent = recent, !.at = at0]
        OBVIOUS
    <2>2. IsRequest(x) /\ x.pc = pc /\ x.base = q.base /\ x.tree = tree
        BY <1>1, <2>1 DEF IsRequest
    <2>3. req' = [req EXCEPT ![r] = x]
        BY <1>3, <2>1
    <2> QED BY <1>1, <1>2, <1>3, <2>2, <2>3, RequestGoesOn DEF Running
<1>4. CASE UsesExisting(u) /\ UNCHANGED excused
           /\ req' = [req EXCEPT ![r] = [@ EXCEPT !.pc = pc, !.tree = q.tree,
                                                  !.recent = q.recent, !.at = at0]]
    <2>1. Crawls(r, q.tree)
        BY <1>4, NothingStored DEF UsesExisting
    <2> QED BY <1>3, <1>4, <2>1
<1>5. CASE FetchesAndSaves(u, <<r, "crawl">>) /\ UNCHANGED excused
           /\ req' = [req EXCEPT ![r] = [@ EXCEPT !.pc = pc, !.tree = AddAnchors(q.tree, u),
                                                  !.recent = TRUE, !.at = at0]]
    <2>1. PICK tree : tree = AddAnchors(q.tree, u)
        OBVIOUS
    <2>2. Ends(q.tree) \subseteq Ends(tree) /\ Links(u) \ {<<>>} \subseteq Ends(tree)
        BY <2>1, AnchorsAdded DEF SimilarInv
    <2>3. Crawls(r, tree)
        BY <1>1, <1>5, <2>2, PageStored
    <2> QED BY <1>3, <1>5, <2>1, <2>2, <2>3
<1>6. CASE Fails(u) /\ Abort(r)
    BY <1>1, <1>6, AbortKeeps DEF Fails
<1> QED BY <1>2, <1>4, <1>5, <1>6 DEF Self

LEMMA LookKeeps == ASSUME SimilarInv, NEW r \in Requests, Look(r) PROVE SimilarInv'
<1> DEFINE q == req[r]
<1>1. q.pc = "look" /\ q.pc \in Running /\ IsRequest(q) /\ UNCHANGED <<site, digest>>
    BY RunningTyped DEF Look, Running
<1>2. PICK head : head = Head1(q.tree, q.at)
    OBVIOUS
<1>3. ASSUME NEW x, IsRequest(x), x.base = q.base, x.pc \in {"look", "select"},
             Ends(q.tree) \subseteq Ends(x.tree), Crawls(r, x.tree), UNCHANGED excused,
             req' = [req EXCEPT ![r] = x]
      PROVE  SimilarInv'
    BY <1>1, <1>3, RequestGoesOn DEF Running
<1>4. CASE /\ req' = [req EXCEPT ![r] = NextStep([q EXCEPT !.at = head])]
           /\ UNCHANGED <<fresh, owner, excused>>
    <2>1. PICK y : y = [q EXCEPT !.at = head]
        OBVIOUS
    <2>2. Like(y, q) /\ y.pc = q.pc
        BY <1>1, <2>1 DEF IsRequest, Like
    <2>3. PICK x : x = NextStep(y)
        OBVIOUS
    <2>4. Like(x, q) /\ x.pc \in {q.pc, "select"}
        BY <2>2, <2>3, NextStepLike DEF Like
    <2>5. Crawls(r, x.tree)
        BY <1>4, NothingStored
    <2>6. req' = [req EXCEPT ![r] = x]
        BY <1>4, <2>1, <2>3
    <2> QED BY <1>1, <1>3, <1>4, <2>4, <2>5, <2>6 DEF Like
<1>5. CASE /\ UsesExisting(head) /\ req' = [req EXCEPT ![r] = Climb(q, head, q.tree)]
           /\ UNCHANGED excused
    <2>1. PICK x : x = Climb(q, head, q.tree)
        OBVIOUS
    <2>2. IsRequest(x) /\ x.tree = q.tree /\ x.base = q.base /\ x.pc \in {q.pc, "select"}
        BY <1>1, <2>1, ClimbLike
    <2>3. Crawls(r, x.tree)
        BY <1>5, NothingStored DEF UsesExisting
    <2> QED BY <1>1, <1>3, <1>5, <2>1, <2>2, <2>3
<1>6. CASE /\ FetchesAndSaves(head, <<r, "crawl">>) /\ UNCHANGED excused
           /\ req' = [req EXCEPT ![r] = Climb([q EXCEPT !.recent = TRUE], head,
                                              AddAnchors(q.tree, head))]
    <2>1. PICK tree : tree = AddAnchors(q.tree, head)
        OBVIOUS
    <2>2. PICK y : y = [q EXCEPT !.recent = TRUE]
        OBVIOUS
    <2>3. Like(y, q) /\ y.pc = q.pc
        BY <1>1, <2>2 DEF IsRequest, Like
    <2>4. PICK x : x = Climb(y, head, tree)
        OBVIOUS
    <2>5. IsRequest(x) /\ x.tree = tree /\ x.base = y.base /\ x.pc \in {y.pc, "select"}
        BY <2>3, <2>4, ClimbLike DEF Like
    <2>6. Ends(q.tree) \subseteq Ends(tree) /\ Links(head) \ {<<>>} \subseteq Ends(tree)
        BY <2>1, AnchorsAdded DEF SimilarInv
    <2>7. Crawls(r, x.tree)
        BY <1>1, <1>6, <2>5, <2>6, PageStored
    <2>8. req' = [req EXCEPT ![r] = x]
        BY <1>6, <2>1, <2>2, <2>4
    <2> QED BY <1>1, <1>3, <1>6, <2>3, <2>5, <2>6, <2>7, <2>8 DEF Like
<1>7. CASE Fails(head) /\ Abort(r)
    BY <1>1, <1>7, AbortKeeps DEF Fails
<1> QED BY <1>2, <1>4, <1>5, <1>6, <1>7 DEF Look

LEMMA SelectLike ==
    ASSUME SimilarInv, NEW r \in Requests, Select(r)
    PROVE  \E x : Like(x, req[r]) /\ x.pc \in {"select", "save", "fetch"} /\ req' = [req EXCEPT ![r] = x]
<1> DEFINE q == req[r]
           p == q.links[q.k]
           q2 == IF q.k > Len(q.links) THEN q
                 ELSE IF p = q.url THEN [q EXCEPT !.k = @ + 1]
                 ELSE IF p \in fresh \ site.moved
                        THEN [q EXCEPT !.k = @ + 1, !.taken = Append(@, p)]
                 ELSE [q EXCEPT !.k = @ + 1, !.missing = Append(@, p)]
           over == q2.k > Len(q.links) \/ (p # q.url /\ Len(q2.taken) >= Count)
<1>1. q.pc = "select" /\ q.pc \in Running /\ UNCHANGED <<site, digest, fresh, owner, excused>>
    BY DEF Select, Running
<1>2. IsRequest(q)
    BY RunningTyped
<1>3. PICK y : y = q2
    OBVIOUS
<1>4. Like(y, q) /\ y.pc = "select"
    <2>1. CASE y = q
        BY <1>1, <1>2, <2>1 DEF Like
    <2>2. CASE y # q
        <3>1. PICK k, taken, missing :
                 k = q.k + 1 /\ taken = Append(q.taken, p) /\ missing = Append(q.missing, p)
            OBVIOUS
        <3>2. \/ y = [q EXCEPT !.k = k] \/ y = [q EXCEPT !.k = k, !.taken = taken]
              \/ y = [q EXCEPT !.k = k, !.missing = missing]
            BY <1>3, <2>2, <3>1
        <3> QED BY <1>1, <1>2, <3>2 DEF IsRequest, Like
    <2> QED BY <2>1, <2>2
<1>5. PICK pending : pending = 1..Len(y.missing)
    OBVIOUS
<1>6. \/ req' = [req EXCEPT ![r] = y]
      \/ req' = [req EXCEPT ![r] = [y EXCEPT !.pc = "save"]]
      \/ req' = [req EXCEPT ![r] = [y EXCEPT !.pc = "fetch", !.pending = pending]]
    <2>1. req' = [req EXCEPT ![r] =
                    IF ~over THEN y
                    ELSE IF Len(y.taken) >= Count THEN [y EXCEPT !.pc = "save"]
                    ELSE [y EXCEPT !.pc = "fetch", !.pending = 1..Len(y.missing)]]
        BY <1>3 DEF Select
    <2> HIDE DEF over
    <2> QED BY <1>5, <2>1
<1>7. CASE req' = [req EXCEPT ![r] = y]
    BY <1>4, <1>7
<1>8. CASE req' = [req EXCEPT ![r] = [y EXCEPT !.pc = "save"]]
    <2>1. PICK x : x = [y EXCEPT !.pc = "save"]
        OBVIOUS
    <2>2. Like(x, q) /\ x.pc = "save"
        BY <1>4, <2>1 DEF IsRequest, Like
    <2> QED BY <1>8, <2>1, <2>2
<1>9. CASE req' = [req EXCEPT ![r] = [y EXCEPT !.pc = "fetch", !.pending = pending]]
    <2>1. PICK x : x = [y EXCEPT !.pc = "fetch", !.pending = pending]
        OBVIOUS
    <2>2. Like(x, q) /\ x.pc = "fetch"
        BY <1>4, <2>1 DEF IsRequest, Like
    <2> QED BY <1>9, <2>1, <2>2
<1> QED BY <1>6, <1>7, <1>8, <1>9

LEMMA SelectKeeps == ASSUME SimilarInv, NEW r \in Requests, Select(r) PROVE SimilarInv'
<1>1. PICK x : Like(x, req[r]) /\ x.pc \in {"select", "save", "fetch"} /\ req' = [req EXCEPT ![r] = x]
    BY SelectLike
<1>2. req[r].pc = "select" /\ UNCHANGED <<site, digest, fresh, owner, excused>>
    BY DEF Select
<1>3. Crawls(r, x.tree)
    BY <1>2, NothingStored
<1> QED BY <1>1, <1>2, <1>3, RequestGoesOn DEF Like, Running

LEMMA WorkLike ==
    ASSUME SimilarInv, NEW r \in Requests, NEW n, Work(r, n)
    PROVE  \E x : Like(x, req[r]) /\ x.pc = req[r].pc /\ req' = [req EXCEPT ![r] = x]
<1> DEFINE q == req[r]
           p == q.missing[n]
<1>1. PICK done : req' = [req EXCEPT ![r] = [q EXCEPT !.pending = @ \ {n},
                            !.finished = IF p \in site.moved THEN @ ELSE @ \cup done]]
    BY DEF Work
<1>2. IsRequest(q)
    BY RunningTyped
<1>3. PICK pending, finished :
         /\ pending = q.pending \ {n}
         /\ finished = IF p \in site.moved THEN q.finished ELSE q.finished \cup done
    OBVIOUS
<1>4. PICK x : x = [q EXCEPT !.pending = pending, !.finished = finished]
    OBVIOUS
<1>5. Like(x, q) /\ x.pc = q.pc
    BY <1>2, <1>4 DEF IsRequest, Like
<1>6. req' = [req EXCEPT ![r] = x]
    BY <1>1, <1>3, <1>4
<1> QED BY <1>5, <1>6

\* A job stores a page that its request does not answer for.
LEMMA WorkKeeps ==
    ASSUME SimilarInv, NEW r \in Requests, NEW n, Work(r, n)
    PROVE  SimilarInv'
<1>1. PICK x : Like(x, req[r]) /\ x.pc = req[r].pc /\ req' = [req EXCEPT ![r] = x]
    BY WorkLike
<1>2. PICK p : UsesExisting(p) \/ FetchesAndSaves(p, <<r, "job">>) \/ Fails(p)
    BY DEF Work
<1>3. req[r].pc \in {"fetch", "save", "done"} /\ UNCHANGED <<site, digest, excused>>
    BY DEF Work
<1>4. Crawls(r, x.tree)
    <2>1. CASE UNCHANGED <<fresh, owner>>
        BY <2>1, NothingStored
    <2>2. CASE FetchesAndSaves(p, <<r, "job">>)
        BY <2>2, PageStored
    <2> QED BY <1>2, <2>1, <2>2 DEF UsesExisting, Fails
<1> QED BY <1>1, <1>3, <1>4, RequestGoesOn DEF Like

LEMMA CollectKeeps ==
    ASSUME SimilarInv, NEW r \in Requests, NEW S, Collect(r, S)
    PROVE  SimilarInv'
<1> DEFINE q == req[r]
           used == {q.missing[n] : n \in S}
           order == SetToSeq(S)
<1>1. /\ q.pc = "fetch" /\ q.pc \in Running /\ UNCHANGED <<site, fresh, digest, excused>>
      /\ owner' = [p \in DOMAIN owner |-> IF p \in used THEN <<r, "crawl">> ELSE owner[p]]
    BY DEF Collect, Running
<1>2. IsRequest(q)
    BY RunningTyped
<1>3. PICK links : links = UNION {Links(p) : p \in used}
    OBVIOUS
<1>4. PICK tree : tree = Path2DirTree(q.tree, links, FALSE)
    OBVIOUS
<1>5. PICK recent, taken : /\ recent = (q.recent \/ S # {})
                           /\ taken = q.taken \o [m \in 1..Len(order) |-> q.missing[order[m]]]
    OBVIOUS
<1>6. PICK x : x = [q EXCEPT !.pc = "save", !.recent = recent, !.taken = taken, !.tree = tree]
    OBVIOUS
<1>7. req' = [req EXCEPT ![r] = x]
    BY <1>3, <1>4, <1>5, <1>6 DEF Collect
<1>8. IsRequest(x) /\ x.pc = "save" /\ x.tree = tree /\ x.base = q.base
    BY <1>2, <1>6 DEF IsRequest
<1>9. \A p : Links(p) \subseteq Seq(Int)
    BY LinksOfPage DEF SimilarInv
<1>10. links \subseteq Seq(Int) /\ \A p \in used : Links(p) \subseteq links
    BY <1>3, <1>9
<1>11. Ends(q.tree) \subseteq Ends(tree) /\ links \ {<<>>} \subseteq Ends(tree)
    BY <1>4, <1>10, LinksAdded
<1> HIDE DEF used
<1>12. Crawls(r, x.tree)
    BY <1>1, <1>8, <1>10, <1>11 DEF SimilarInv, RequestsTyped, Crawls
<1> QED BY <1>1, <1>7, <1>8, <1>11, <1>12, RequestGoesOn DEF Running

\* The digest becomes the tree of the request, where what the request does not
\* know is overwritten, stays as it is, or cannot be read any more.
LEMMA SaveKeeps == ASSUME SimilarInv, NEW r \in Requests, Save(r) PROVE SimilarInv'
<1> DEFINE q == req[r]
           overwritten == {o \in Requests : req[o].pc = "done"} \ q.base
<1>1. /\ q.pc = "save" /\ q.pc \in Running /\ UNCHANGED <<site, fresh, owner>>
      /\ \/ digest'.tree = q.tree /\ excused' = excused \cup overwritten
         \/ UNCHANGED digest /\ excused' = excused \cup {r}
         \/ excused' = excused \cup {o \in Requests : req[o].pc = "done"} \cup {r}
      /\ digest' = [tree |-> digest'.tree, recent |-> digest'.recent]
    BY DEF Save, Running, SavedDigest, NoDigest, SimilarInv, RequestsTyped
<1>2. PICK x : x = [q EXCEPT !.pc = "done"]
    OBVIOUS
<1>3. req' = [req EXCEPT ![r] = x]
    BY <1>2 DEF Save
<1>4. IsRequest(x) /\ x.pc = "done"
    <2>1. IsRequest(q)
        BY RunningTyped
    <2> QED BY <1>2, <2>1 DEF IsRequest
<1>5. DOMAIN req' = Requests /\ req'[r] = x /\ \A o \in Requests \ {r} : req'[o] = req[o]
    BY <1>3 DEF SimilarInv, RequestsTyped
<1>6. RequestsTyped'
    BY <1>1, <1>4, <1>5 DEF SimilarInv, RequestsTyped, Running
<1>7. \A o \in Requests : req[o].pc = "done" => req'[o].pc = "done"
    BY <1>4, <1>5
<1>8. Kept(r, q.tree) /\ LoadedKept(r)
    BY <1>1 DEF SimilarInv, RequestKept
<1>9. ASSUME NEW o \in Requests, req'[o].pc = "done", o \notin excused' PROVE Kept(o, digest'.tree)
    <2>1. CASE digest'.tree = q.tree /\ excused' = excused \cup overwritten
        <3>1. o = r \/ (o \in q.base /\ o \notin excused)
            BY <1>5, <1>9, <2>1
        <3> QED BY <1>8, <2>1, <3>1 DEF LoadedKept
    <2>2. CASE UNCHANGED digest /\ excused' = excused \cup {r}
        BY <1>5, <1>9, <2>2 DEF SimilarInv, RequestKept
    <2>3. CASE excused' = excused \cup {o2 \in Requests : req[o2].pc = "done"} \cup {r}
        BY <1>5, <1>9, <2>3
    <2> QED BY <1>1, <2>1, <2>2, <2>3
<1>10. ASSUME NEW o \in Requests, req'[o].pc \in Running
       PROVE  Kept(o, req[o].tree)' /\ LoadedKept(o)'
    <2>1. o # r /\ req'[o] = req[o] /\ req[o].pc \in Running
        BY <1>4, <1>5, <1>10 DEF Running
    <2>2. Kept(o, req[o].tree) /\ LoadedKept(o)
        BY <2>1 DEF SimilarInv, RequestKept
    <2> QED BY <1>1, <1>7, <2>1, <2>2, PagesStay DEF Kept, LoadedKept
<1>11. ASSUME NEW o \in Requests, req'[o].pc = "idle" PROVE CrawledFor(o)' = {}
    BY <1>1, <1>4, <1>5, <1>11, PagesStay DEF SimilarInv, RequestKept
<1>12. ASSUME NEW o \in Requests PROVE RequestKept(o)'
    BY <1>1, <1>9, <1>10, <1>11, PagesStay DEF RequestKept, Kept
<1> QED BY <1>6, <1>12 DEF SimilarInv

-----------------------------------------------------------------------------
(* Time *)

LEMMA TimeKeeps == ASSUME SimilarInv, TenSeconds \/ TenHours PROVE SimilarInv'
<1>1. CASE TenSeconds
    <2>1. UNCHANGED <<site, fresh, owner, excused>>
        BY <1>1 DEF TenSeconds
    <2>2. DOMAIN req' = Requests /\ digest' = [digest EXCEPT !.recent = FALSE]
        BY <1>1 DEF TenSeconds
    <2>3. ASSUME NEW o \in Requests PROVE Like(req'[o], req[o]) /\ req'[o].pc = req[o].pc
        <3>1. req'[o] = [req[o] EXCEPT !.recent = FALSE]
            BY <1>1 DEF TenSeconds
        <3>2. IsRequest(req[o])
            BY DEF SimilarInv, RequestsTyped
        <3> QED BY <3>1, <3>2 DEF IsRequest, Like
    <2>4. digest' = [tree |-> digest'.tree, recent |-> digest'.recent] /\ digest'.tree = digest.tree
        BY <2>2 DEF SimilarInv, RequestsTyped
    <2>5. RequestsTyped'
        BY <2>1, <2>2, <2>3, <2>4 DEF SimilarInv, RequestsTyped, Like
    <2>6. ASSUME NEW o \in Requests PROVE RequestKept(o)'
        BY <2>1, <2>3, <2>4, PagesStay DEF SimilarInv, RequestKept, LoadedKept, Kept, Like
    <2> QED BY <2>5, <2>6 DEF SimilarInv
<1>2. CASE TenHours
    <2>1. fresh' = {} /\ UNCHANGED <<site, digest, req, owner, excused>>
        BY <1>2 DEF TenHours
    <2>2. RequestsTyped'
        BY <2>1 DEF SimilarInv, RequestsTyped
    <2>3. \A o : CrawledFor(o)' = {}
        BY <2>1 DEF CrawledFor
    <2>4. ASSUME NEW o \in Requests PROVE RequestKept(o)'
        BY <2>1, <2>3 DEF SimilarInv, RequestKept, LoadedKept, Kept
    <2> QED BY <2>2, <2>4 DEF SimilarInv
<1> QED BY <1>1, <1>2

-----------------------------------------------------------------------------

LEMMA SimilarStarts == SInit => SimilarInv
<1> SUFFICES ASSUME SInit PROVE SimilarInv
    OBVIOUS
<1>1. /\ site \in Sites /\ fresh = {} /\ digest = [tree |-> EmptyTree, recent |-> FALSE]
      /\ req = [r \in Requests |-> Idle] /\ DOMAIN owner = {}
    BY DEF SInit, NoDigest
<1>2. IsRequest(Idle) /\ Idle.pc = "idle"
    BY DEF Idle, IsRequest
<1>3. RequestsTyped
    BY <1>1, <1>2 DEF RequestsTyped
<1>4. \A r \in Requests : RequestKept(r)
    BY <1>1, <1>2 DEF RequestKept, CrawledFor, Running
<1> QED BY <1>3, <1>4 DEF SimilarInv

LEMMA SimilarGoesOn == SimilarInv /\ [SNext]_simvars => SimilarInv'
<1> SUFFICES ASSUME SimilarInv, [SNext]_simvars PROVE SimilarInv'
    OBVIOUS
<1>1. CASE UNCHANGED simvars
    BY <1>1 DEF simvars, SimilarInv, RequestsTyped, RequestKept, LoadedKept, Kept, CrawledFor,
                Links, Exists
<1>2. ASSUME NEW r \in Requests, NEW u \in Urls, Start(r, u) PROVE SimilarInv'
    BY <1>2, StartKeeps
<1>3. ASSUME NEW r \in Requests, Self(r) \/ Look(r) \/ Select(r) \/ Save(r) PROVE SimilarInv'
    BY <1>3, SelfKeeps, LookKeeps, SelectKeeps, SaveKeeps
<1>4. ASSUME NEW r \in Requests, NEW n, Work(r, n) PROVE SimilarInv'
    BY <1>4, WorkKeeps
<1>5. ASSUME NEW r \in Requests, NEW S, Collect(r, S) PROVE SimilarInv'
    BY <1>5, CollectKeeps
<1>6. CASE TenSeconds \/ TenHours
    BY <1>6, TimeKeeps
<1> QED BY <1>1, <1>2, <1>3, <1>4, <1>5, <1>6 DEF SNext

(***************************************************************************)
(* The links of a page that is not fetched again for ten hours are in the  *)
(* digest that FetchSimilar has saved, whatever requests do at the same    *)
(* time, but for an abort, a find older than ten seconds, a save that      *)
(* failed, or a save by a request that had not loaded them.                *)
(***************************************************************************)
THEOREM LinksAreDigested == SSpec => []PagesDigested
<1>1. SimilarInv => PagesDigested
    <2> SUFFICES ASSUME SimilarInv, NEW p \in DOMAIN owner, NEW r, r = owner[p][1], p \in fresh,
                        owner[p][2] = "crawl", req[r].pc = "done", r \notin excused
                 PROVE  Links(p) \ {<<>>} \subseteq Ends(digest.tree)
        BY DEF PagesDigested
    <2>1. owner[p] \in Requests \X {"crawl", "job"}
        BY DEF SimilarInv, RequestsTyped
    <2>2. r \in Requests /\ owner[p] = <<r, "crawl">>
        BY <2>1
    <2>3. Kept(r, digest.tree) /\ p \in CrawledFor(r)
        BY <2>2 DEF SimilarInv, RequestKept, CrawledFor
    <2> QED BY <2>3 DEF Kept
<1> QED BY <1>1, SimilarStarts, SimilarGoesOn, PTL DEF SSpec

-----------------------------------------------------------------------------
(* The order of the search (Before) is total, so that LevelWiseDeeper has   *)
(* a place for every directory it wants.                                    *)

\* Where two paths part.
Part(p, q, n) ==
    /\ n \in 1 .. Len(p) /\ n \in 1 .. Len(q) /\ p[n] # q[n]
    /\ \A m \in 1 .. n - 1 : p[m] = q[m]

\* Which of two paths that part comes first: what ends there, or by name.
First(p, q, n) ==
    \/ Len(p) = n /\ Len(q) # n
    \/ (Len(p) = n <=> Len(q) = n) /\ p[n] < q[n]

LEMMA PrefixByNames ==
    ASSUME NEW p \in Seq(Int), NEW q \in Seq(Int)
    PROVE  IsPrefix(p, q) <=> Len(p) <= Len(q) /\ \A m \in 1 .. Len(p) : p[m] = q[m]
<1> DEFINE a == SubSeq(p, 1, Len(p))
           b == SubSeq(q, 1, Len(p))
<1>1. a = p /\ Len(p) \in Nat /\ Len(q) \in Nat
    BY SubSeqFull, LenProperties
<1>2. ASSUME Len(p) <= Len(q)
      PROVE  b \in Seq(Int) /\ Len(b) = Len(p) /\ \A m \in 1 .. Len(p) : b[m] = q[m]
    <2>1. \A m \in 1 .. Len(p) : q[m] \in Int
        BY <1>1, <1>2, ElementOfSeq
    <2> QED BY <1>1, <1>2, <2>1, SubSeqProperties
<1> HIDE DEF b
<1>3. ASSUME Len(p) <= Len(q) PROVE p = b <=> \A m \in 1 .. Len(p) : p[m] = q[m]
    BY <1>1, <1>2, <1>3, SeqEqual
<1> QED BY <1>1, <1>3 DEF IsPrefix, b

LEMMA PartOrPrefix ==
    ASSUME NEW p \in Seq(Int), NEW q \in Seq(Int)
    PROVE  IsPrefix(p, q) \/ IsPrefix(q, p) \/ \E n \in Nat : Part(p, q, n)
<1>1. Len(p) \in Nat /\ Len(q) \in Nat
    BY LenProperties
<1> DEFINE T == {n \in Nat : n \in 1 .. Len(p) /\ n \in 1 .. Len(q) /\ p[n] # q[n]}
<1>2. CASE T = {}
    <2>1. \A m \in 1 .. Len(p) : m \in 1 .. Len(q) => p[m] = q[m]
        BY <1>1, <1>2
    <2>2. CASE Len(p) <= Len(q)
        BY <1>1, <2>1, <2>2, PrefixByNames
    <2>3. CASE ~(Len(p) <= Len(q))
        <3>1. Len(q) <= Len(p) /\ \A m \in 1 .. Len(q) : q[m] = p[m]
            BY <1>1, <2>1, <2>3
        <3> QED BY <3>1, PrefixByNames
    <2> QED BY <2>2, <2>3
<1>3. CASE T # {}
    <2>1. PICK n \in T : \A m \in T : n <= m
        BY <1>3, Least
    <2>2. \A m \in 1 .. n - 1 : p[m] = q[m]
        <3> SUFFICES ASSUME NEW m \in 1 .. n - 1, p[m] # q[m] PROVE FALSE
            OBVIOUS
        <3>1. m \in T
            BY <1>1
        <3> QED BY <2>1, <3>1
    <2> QED BY <2>1, <2>2 DEF Part
<1> QED BY <1>2, <1>3

LEMMA PartMeans ==
    ASSUME NEW p \in Seq(Int), NEW q \in Seq(Int), NEW n \in Nat, Part(p, q, n)
    PROVE  /\ ~IsPrefix(p, q) /\ ~IsPrefix(q, p)
           /\ Before(p, q) <=> First(p, q, n)
<1>1. Len(p) \in Nat /\ Len(q) \in Nat
    BY LenProperties
<1>2. n \in 1 .. Len(p) /\ n \in 1 .. Len(q) /\ p[n] # q[n] /\ \A m \in 1 .. n - 1 : p[m] = q[m]
    BY DEF Part
<1>3. ~IsPrefix(p, q) /\ ~IsPrefix(q, p)
    BY <1>2, PrefixByNames
<1>4. ASSUME NEW m \in 1 .. Len(p), m <= Len(q)
      PROVE  SubSeq(p, 1, m-1) = SubSeq(q, 1, m-1) <=> \A k \in 1 .. m - 1 : p[k] = q[k]
    <2> DEFINE a == SubSeq(p, 1, m-1)
               b == SubSeq(q, 1, m-1)
    <2>1. /\ \A k \in 1 .. m - 1 : p[k] \in Int /\ q[k] \in Int
          /\ m - 1 \in Int
        BY <1>1, <1>4, ElementOfSeq
    <2>2. a \in Seq(Int) /\ Len(a) = m - 1 /\ \A k \in 1 .. m - 1 : a[k] = p[k]
        BY <1>1, <1>4, <2>1, SubSeqProperties
    <2>3. b \in Seq(Int) /\ Len(b) = m - 1 /\ \A k \in 1 .. m - 1 : b[k] = q[k]
        BY <1>1, <1>4, <2>1, SubSeqProperties
    <2> HIDE DEF a, b
    <2>4. a = b <=> \A k \in 1 .. m - 1 : a[k] = b[k]
        BY <2>1, <2>2, <2>3, SeqEqual
    <2> QED BY <2>2, <2>3, <2>4 DEF a, b
<1>5. p[n] # q[n] /\ SubSeq(p, 1, n-1) = SubSeq(q, 1, n-1)
    BY <1>1, <1>2, <1>4
<1>6. PICK c : c = CHOOSE m \in 1 .. Len(p) : p[m] # q[m] /\ SubSeq(p, 1, m-1) = SubSeq(q, 1, m-1)
    OBVIOUS
<1>7. c \in 1 .. Len(p) /\ p[c] # q[c] /\ SubSeq(p, 1, c-1) = SubSeq(q, 1, c-1)
    BY <1>2, <1>5, <1>6
<1>8. c = n
    <2>1. CASE c < n
        BY <1>1, <1>2, <1>7, <2>1
    <2>2. CASE n < c
        <3>1. c - 1 \in Int /\ n \in 1 .. c - 1 /\ c - 1 <= Len(p)
            BY <1>1, <1>2, <1>7, <2>2
        <3>2. SubSeq(p, 1, c-1)[n] = p[n] /\ SubSeq(q, 1, c-1)[n] = q[n]
            BY <1>1, <3>1
        <3> QED BY <1>2, <1>7, <3>2
    <2> QED BY <1>1, <1>2, <1>7, <2>1, <2>2
<1>9. Before(p, q) <=> IF (Len(p) = n) = (Len(q) = n) THEN p[n] < q[n] ELSE Len(p) = n
    BY <1>3, <1>6, <1>8 DEF Before
<1>10. (Len(p) = n) = (Len(q) = n) <=> (Len(p) = n <=> Len(q) = n)
    OBVIOUS
<1> QED BY <1>3, <1>9, <1>10 DEF First

LEMMA PrefixBefore ==
    ASSUME NEW p \in Seq(Int), NEW q \in Seq(Int), IsPrefix(p, q)
    PROVE  (Before(p, q) <=> p # q) /\ (p # q => ~Before(q, p))
<1>1. IsPrefix(q, p) => p = q
    <2> SUFFICES ASSUME IsPrefix(q, p) PROVE p = q
        OBVIOUS
    <2>1. Len(p) \in Nat /\ Len(q) \in Nat
        BY LenProperties
    <2>2. Len(p) = Len(q) /\ \A m \in 1 .. Len(p) : p[m] = q[m]
        BY <2>1, PrefixByNames
    <2> QED BY <2>2, SeqEqual
<1> QED BY <1>1 DEF Before

LEMMA BeforeIsTotal ==
    ASSUME NEW p \in Seq(Int), NEW q \in Seq(Int)
    PROVE  ~Before(p, p) /\ (p # q => Before(p, q) \/ Before(q, p))
<1>1. ~Before(p, p)
    <2>1. IsPrefix(p, p)
        BY LenProperties, PrefixByNames
    <2> QED BY <2>1, PrefixBefore
<1>2. ASSUME NEW n \in Nat, Part(p, q, n) PROVE Before(p, q) \/ Before(q, p)
    <2>1. Part(q, p, n)
        BY <1>2 DEF Part
    <2>2. p[n] \in Int /\ q[n] \in Int /\ p[n] # q[n]
        BY <1>2, ElementOfSeq DEF Part
    <2>3. (Before(p, q) <=> First(p, q, n)) /\ (Before(q, p) <=> First(q, p, n))
        BY <1>2, <2>1, PartMeans
    <2> QED BY <2>2, <2>3 DEF First
<1> QED BY <1>1, <1>2, PartOrPrefix, PrefixBefore

LEMMA PrefixTransitive ==
    ASSUME NEW p \in Seq(Int), NEW q \in Seq(Int), NEW r \in Seq(Int), IsPrefix(p, q), IsPrefix(q, r)
    PROVE  IsPrefix(p, r)
<1>1. Len(p) \in Nat /\ Len(q) \in Nat /\ Len(r) \in Nat
    BY LenProperties
<1>2. Len(p) <= Len(q) /\ \A m \in 1 .. Len(p) : p[m] = q[m]
    BY PrefixByNames
<1>3. Len(q) <= Len(r) /\ \A m \in 1 .. Len(q) : q[m] = r[m]
    BY PrefixByNames
<1>4. Len(p) <= Len(r) /\ \A m \in 1 .. Len(p) : p[m] = r[m]
    BY <1>1, <1>2, <1>3
<1> QED BY <1>4, PrefixByNames

LEMMA BeforeIsTransitive ==
    ASSUME NEW p \in Seq(Int), NEW q \in Seq(Int), NEW r \in Seq(Int), Before(p, q), Before(q, r)
    PROVE  Before(p, r)
<1>1. Len(p) \in Nat /\ Len(q) \in Nat /\ Len(r) \in Nat
    BY LenProperties
<1>2. p # q /\ q # r
    BY BeforeIsTotal
<1>3. ~IsPrefix(q, p) /\ ~IsPrefix(r, q)
    BY <1>2, PrefixBefore
<1>4. CASE IsPrefix(p, q) /\ IsPrefix(q, r)
    <2>1. IsPrefix(p, r)
        BY <1>4, PrefixTransitive
    <2>2. p # r
        BY <1>3, <1>4
    <2> QED BY <2>1, <2>2, PrefixBefore
<1>5. ASSUME NEW n \in Nat, IsPrefix(p, q), Part(q, r, n) PROVE Before(p, r)
    <2>1. Len(p) <= Len(q) /\ \A m \in 1 .. Len(p) : p[m] = q[m]
        BY <1>5, PrefixByNames
    <2>2. Len(p) # Len(q)
        BY <1>2, <2>1, SeqEqual
    <2>3. n \in 1 .. Len(q) /\ n \in 1 .. Len(r) /\ q[n] # r[n] /\ \A m \in 1 .. n - 1 : q[m] = r[m]
        BY <1>5 DEF Part
    <2>4. First(q, r, n)
        BY <1>5, PartMeans
    <2>5. CASE n <= Len(p)
        <3>1. Part(p, r, n)
            BY <1>1, <2>1, <2>3, <2>5 DEF Part
        <3>2. First(p, r, n)
            BY <1>1, <2>1, <2>2, <2>3, <2>4, <2>5 DEF First
        <3> QED BY <3>1, <3>2, PartMeans
    <2>6. CASE ~(n <= Len(p))
        <3>1. Len(p) <= Len(r) /\ Len(p) # Len(r) /\ \A m \in 1 .. Len(p) : p[m] = r[m]
            BY <1>1, <2>1, <2>3, <2>6
        <3>2. IsPrefix(p, r) /\ p # r
            BY <3>1, PrefixByNames
        <3> QED BY <3>2, PrefixBefore
    <2> QED BY <2>5, <2>6
<1>6. ASSUME NEW n \in Nat, Part(p, q, n), IsPrefix(q, r) PROVE Before(p, r)
    <2>1. Len(q) <= Len(r) /\ \A m \in 1 .. Len(q) : q[m] = r[m]
        BY <1>6, PrefixByNames
    <2>2. Len(q) # Len(r)
        BY <1>2, <2>1, SeqEqual
    <2>3. n \in 1 .. Len(p) /\ n \in 1 .. Len(q) /\ p[n] # q[n] /\ \A m \in 1 .. n - 1 : p[m] = q[m]
        BY <1>6 DEF Part
    <2>4. First(p, q, n)
        BY <1>6, PartMeans
    <2>5. Part(p, r, n)
        BY <1>1, <2>1, <2>3 DEF Part
    <2>6. First(p, r, n)
        BY <1>1, <2>1, <2>2, <2>3, <2>4 DEF First
    <2> QED BY <2>5, <2>6, PartMeans
<1>7. ASSUME NEW n \in Nat, Part(p, q, n), NEW k \in Nat, Part(q, r, k) PROVE Before(p, r)
    <2>1. /\ n \in 1 .. Len(p) /\ n \in 1 .. Len(q) /\ p[n] # q[n]
          /\ \A m \in 1 .. n - 1 : p[m] = q[m]
        BY <1>7 DEF Part
    <2>2. /\ k \in 1 .. Len(q) /\ k \in 1 .. Len(r) /\ q[k] # r[k]
          /\ \A m \in 1 .. k - 1 : q[m] = r[m]
        BY <1>7 DEF Part
    <2>3. First(p, q, n) /\ First(q, r, k)
        BY <1>7, PartMeans
    <2>4. CASE n < k
        <3>1. Part(p, r, n) /\ First(p, r, n)
            BY <1>1, <2>1, <2>2, <2>3, <2>4 DEF Part, First
        <3> QED BY <3>1, PartMeans
    <2>5. CASE k < n
        <3>1. Part(p, r, k) /\ First(p, r, k)
            BY <1>1, <2>1, <2>2, <2>3, <2>5 DEF Part, First
        <3> QED BY <3>1, PartMeans
    <2>6. CASE k = n
        <3>1. p[n] \in Int /\ q[n] \in Int /\ r[n] \in Int
            BY <2>1, <2>2, <2>6, ElementOfSeq
        <3>2. CASE p[n] # r[n]
            <4>1. Part(p, r, n)
                BY <1>1, <2>1, <2>2, <2>6, <3>2 DEF Part
            <4>2. First(p, r, n)
                BY <2>3, <2>6, <3>1, <3>2 DEF First
            <4> QED BY <4>1, <4>2, PartMeans
        <3>3. CASE p[n] = r[n]
            <4>1. Len(p) = n /\ Len(r) # n
                BY <2>3, <2>6, <3>1, <3>3 DEF First
            <4>2. Len(p) <= Len(r) /\ \A m \in 1 .. Len(p) : p[m] = r[m]
                <5>1. n \in 1 .. Len(r) /\ \A m \in 1 .. n - 1 : q[m] = r[m]
                    BY <2>2, <2>6
                <5>2. ASSUME NEW m \in 1 .. n PROVE p[m] = r[m]
                    <6>1. m = n \/ m \in 1 .. n - 1
                        OBVIOUS
                    <6> QED BY <2>1, <3>3, <5>1, <6>1
                <5> QED BY <1>1, <4>1, <5>1, <5>2
            <4>3. IsPrefix(p, r) /\ p # r
                BY <4>1, <4>2, PrefixByNames
            <4> QED BY <4>3, PrefixBefore
        <3> QED BY <3>2, <3>3
    <2> QED BY <2>4, <2>5, <2>6
<1> QED BY <1>3, <1>4, <1>5, <1>6, <1>7, PartOrPrefix

LEMMA PartFinite ==
    ASSUME NEW S, IsFiniteSet(S), NEW T \in SUBSET S
    PROVE  /\ IsFiniteSet(T) /\ Cardinality(T) \in Nat /\ Cardinality(T) <= Cardinality(S)
           /\ T # S => Cardinality(T) < Cardinality(S)
<1>1. IsFiniteSet(T) /\ Cardinality(T) <= Cardinality(S) /\ (Cardinality(S) = Cardinality(T) => S = T)
    BY FS_Subset
<1>2. Cardinality(T) \in Nat /\ Cardinality(S) \in Nat
    BY <1>1, FS_CardinalityType
<1> QED BY <1>1, <1>2

\* In a finite set there is one element at each place of the order.
LEMMA PlacesTaken ==
    ASSUME NEW S \in SUBSET Seq(Int), IsFiniteSet(S)
    PROVE  \A n \in 1 .. Cardinality(S) : \E p \in S : Cardinality({o \in S : Before(o, p)}) = n - 1
<1> DEFINE Ahead(p) == {o \in S : Before(o, p)}
           N == Cardinality(S)
           place == [p \in S |-> Cardinality(Ahead(p)) + 1]
<1>1. N \in Nat
    BY FS_CardinalityType
<1>2. ASSUME NEW p \in S
      PROVE  IsFiniteSet(Ahead(p)) /\ Cardinality(Ahead(p)) \in Nat /\ Cardinality(Ahead(p)) < N
    <2>1. Ahead(p) \in SUBSET S /\ Ahead(p) # S
        BY BeforeIsTotal
    <2> HIDE DEF Ahead
    <2> QED BY <2>1, PartFinite
<1>3. ASSUME NEW p \in S, NEW q \in S, Before(p, q)
      PROVE  Cardinality(Ahead(p)) < Cardinality(Ahead(q))
    <2>1. Ahead(p) \in SUBSET Ahead(q)
        BY <1>3, BeforeIsTransitive
    <2>2. Ahead(p) # Ahead(q)
        BY <1>3, BeforeIsTotal
    <2> HIDE DEF Ahead
    <2> QED BY <1>2, <2>1, <2>2, PartFinite
<1> HIDE DEF Ahead
<1>4. place \in [S -> 1 .. N]
    BY <1>1, <1>2
<1>5. \A p, q \in S : p # q => place[p] # place[q]
    BY <1>2, <1>3, BeforeIsTotal
<1>6. place \in Injection(S, 1 .. N)
    BY <1>4, <1>5 DEF Injection, IsInjective
<1>7. IsFiniteSet(1 .. N) /\ Cardinality(1 .. N) = N
    BY <1>1, FS_Interval
<1>8. place \in Surjection(S, 1 .. N)
    BY <1>6, <1>7, FS_Injection
<1>9. \A n \in 1 .. N : \E p \in S : place[p] = n
    BY <1>8 DEF Surjection
<1>10. ASSUME NEW n \in 1 .. N PROVE \E p \in S : Cardinality(Ahead(p)) = n - 1
    BY <1>2, <1>9
<1> QED BY <1>10 DEF Ahead

\* What the search below a directory returns: paths below it, each once, whose
\* depth below it is wanted.
FoundBelow(found, rump, min, max) ==
    /\ found \in Seq(Seq(Int))
    /\ \A n \in 1 .. Len(found) : /\ IsPrefix(rump, found[n])
                                  /\ Len(found[n]) - Len(rump) \in min .. max
    /\ \A n, m \in 1 .. Len(found) : found[n] = found[m] => n = m

LEMMA SearchFinds ==
    ASSUME NEW tree, DOMAIN tree \subseteq Seq(Int), IsFiniteSet(DOMAIN tree), NEW rump, NEW opt,
           opt.number \in Int, NEW found, found = LevelWiseDeeper(tree, rump, opt)
    PROVE  FoundBelow(found, rump, opt.min, opt.max)
<1> DEFINE wanted == {p \in DOMAIN tree : /\ IsStrictPrefix(rump, p) /\ tree[p].end
                                          /\ p # opt.exclude
                                          /\ Len(p) - Len(rump) \in opt.min..opt.max}
           N == Cardinality(wanted)
           Rank(p) == Cardinality({o \in wanted : Before(o, p)})
           At(n) == CHOOSE p \in wanted : Rank(p) = n - 1
<1>1. wanted \in SUBSET Seq(Int) /\ IsFiniteSet(wanted) /\ N \in Nat
    <2>1. wanted \in SUBSET DOMAIN tree
        OBVIOUS
    <2> HIDE DEF wanted
    <2> QED BY <2>1, PartFinite
<1>2. PICK enough \in Int : enough = (IF opt.number < N THEN opt.number ELSE N) /\ enough <= N
    <2> HIDE DEF N
    <2>1. CASE opt.number < N
        BY <1>1, <2>1
    <2>2. CASE ~(opt.number < N)
        BY <1>1, <2>2
    <2> QED BY <2>1, <2>2
<1>3. found = [n \in 1 .. enough |-> At(n)]
    BY <1>2 DEF LevelWiseDeeper
<1>4. \A p \in wanted : IsPrefix(rump, p) /\ Len(p) - Len(rump) \in opt.min .. opt.max
    BY DEF IsStrictPrefix
<1> HIDE DEF wanted
<1>5. ASSUME NEW n \in 1 .. enough
      PROVE  At(n) \in wanted /\ Rank(At(n)) = n - 1
    <2>1. n \in 1 .. N
        BY <1>1, <1>2
    <2>2. \E p \in wanted : Rank(p) = n - 1
        BY <1>1, <2>1, PlacesTaken
    <2> HIDE DEF Rank
    <2> QED BY <2>2
<1> HIDE DEF At, Rank
<1>6. PICK k \in Nat : 1 .. enough = 1 .. k
    <2>1. CASE enough \in Nat
        BY <2>1
    <2>2. CASE enough \notin Nat
        <3>1. 1 .. enough = 1 .. 0
            BY <2>2
        <3> QED BY <3>1
    <2> QED BY <2>1, <2>2
<1>7. found = [n \in 1 .. k |-> At(n)] /\ \A n \in 1 .. k : At(n) \in Seq(Int)
    BY <1>1, <1>3, <1>5, <1>6
<1>8. found \in Seq(Seq(Int)) /\ Len(found) = k
    <2>1. found \in [1 .. k -> Seq(Int)]
        BY <1>7
    <2>2. found \in Seq(Seq(Int))
        BY <2>1, SeqDef
    <2>3. DOMAIN found = 1 .. Len(found) /\ Len(found) \in Nat
        BY <2>2, LenProperties
    <2> QED BY <2>1, <2>2, <2>3
<1>9. ASSUME NEW n \in 1 .. k, NEW m \in 1 .. k, At(n) = At(m) PROVE n = m
    BY <1>5, <1>6, <1>9
<1> QED BY <1>4, <1>5, <1>6, <1>7, <1>8, <1>9 DEF FoundBelow

-----------------------------------------------------------------------------
(* The climb.  Trees hold directories of links of the host only, so that    *)
(* they are finite.  At each step the climb stands at a page it has been to *)
(* or keeps in step with its counters, and a link is found once at most     *)
(* from each page it has been to.                                           *)

Directories(s) == UNION {PathPrefixes(p) : p \in AllLinks(s)}

Hits(links, v) == {m \in 1 .. Len(links) : links[m] = v}
From(crawled, v) == {h \in crawled : IsPrefix(h, v)}

FoundOnce(q) ==
    \A v \in Seq(Int) : Cardinality(Hits(q.links, v)) <= Cardinality(From(q.crawled, v))

Climbing(q) ==
    /\ q.url # <<>> /\ q.at \in Seq(Int)
    /\ q.i \in 1 .. Len(q.url) + 4 /\ q.j \in 0 .. Len(q.url) - 1
    /\ q.crawled \subseteq Seq(Int) /\ IsFiniteSet(q.crawled)
    /\ q.links \in Seq(Seq(Int))
    /\ \A n \in 1 .. Len(q.links) : Len(q.links[n]) \in (Len(q.url) - q.j) .. Len(q.url)
    /\ FoundOnce(q)

InStep(q) == q.at \in q.crawled \/ Len(q.at) = Len(q.url) - q.i

OnLadder(q, dirs) ==
    /\ DOMAIN q.tree \subseteq dirs
    /\ q.pc # "idle" => q.url \in Seq(Int)
    /\ q.pc = "self" => q.i = 1 /\ q.j = 0 /\ q.crawled = {} /\ q.links = <<>>
    /\ q.pc = "look" => Climbing(q) /\ InStep(q)

LadderInv ==
    /\ DOMAIN digest.tree \subseteq Directories(site)
    /\ \A r \in Requests : OnLadder(req[r], Directories(site))

LEMMA PrefixesOf ==
    ASSUME NEW p \in Seq(Int)
    PROVE  /\ PathPrefixes(p) \subseteq Seq(Int) /\ IsFiniteSet(PathPrefixes(p))
           /\ p # <<>> => p \in PathPrefixes(p)
<1>1. Len(p) \in Nat /\ \A n \in 1 .. Len(p) : p[n] \in Int
    BY LenProperties, ElementOfSeq
<1>2. ASSUME NEW n \in 1 .. Len(p) PROVE SubSeq(p, 1, n) \in Seq(Int)
    BY <1>1, SubSeqProperties
<1> DEFINE f == [n \in 1 .. Len(p) |-> SubSeq(p, 1, n)]
<1>3. f \in Surjection(1 .. Len(p), PathPrefixes(p))
    BY DEF Surjection, PathPrefixes
<1>4. IsFiniteSet(PathPrefixes(p))
    BY <1>1, <1>3, FS_Interval, FS_Surjection
<1>5. ASSUME p # <<>> PROVE p \in PathPrefixes(p)
    <2>1. Len(p) \in 1 .. Len(p) /\ SubSeq(p, 1, Len(p)) = p
        BY <1>1, <1>5, EmptySeq, SubSeqFull
    <2> QED BY <2>1 DEF PathPrefixes
<1> QED BY <1>2, <1>4, <1>5 DEF PathPrefixes

LEMMA DirectoriesFinite ==
    ASSUME NEW s \in Sites
    PROVE  Directories(s) \subseteq Seq(Int) /\ IsFiniteSet(Directories(s))
<1>1. AllLinks(s) \subseteq Seq(Int) /\ IsFiniteSet(AllLinks(s))
    BY LinksAssumption
<1> DEFINE each == {PathPrefixes(p) : p \in AllLinks(s)}
           f == [p \in AllLinks(s) |-> PathPrefixes(p)]
<1>2. f \in Surjection(AllLinks(s), each)
    BY DEF Surjection
<1>3. IsFiniteSet(each)
    BY <1>1, <1>2, FS_Surjection
<1>4. \A T \in each : IsFiniteSet(T)
    BY <1>1, PrefixesOf
<1>5. IsFiniteSet(UNION each)
    BY <1>3, <1>4, FS_UNION
<1> QED BY <1>1, <1>5, PrefixesOf DEF Directories

\* A tree never holds more than the directories of the links of the host.
LEMMA TreeStaysInside ==
    ASSUME NEW tree, NEW links, NEW isRSS, links \subseteq AllLinks(site),
           DOMAIN tree \subseteq Directories(site)
    PROVE  DOMAIN Path2DirTree(tree, links, isRSS) \subseteq Directories(site)
<1>1. UNION {PathPrefixes(p) : p \in links} \subseteq Directories(site)
    BY DEF Directories
<1>2. DOMAIN Path2DirTree(tree, links, isRSS) =
        DOMAIN tree \cup UNION {PathPrefixes(p) : p \in links}
    BY DEF Path2DirTree
<1> QED BY <1>1, <1>2

LEMMA DirOfPath ==
    ASSUME NEW p \in Seq(Int)
    PROVE  Dir(p) \in Seq(Int) /\ (p # <<>> => Len(Dir(p)) = Len(p) - 1)
<1>1. Len(p) \in Nat /\ \A n \in 1 .. Len(p) : p[n] \in Int
    BY LenProperties, ElementOfSeq
<1>2. CASE p # <<>>
    <2>1. Len(p) - 1 \in Nat
        BY <1>1, <1>2, EmptySeq
    <2>2. SubSeq(p, 1, Len(p) - 1) \in Seq(Int) /\ Len(SubSeq(p, 1, Len(p) - 1)) = Len(p) - 1
        <3> DEFINE m == Len(p) - 1
        <3>1. m \in Nat /\ \A n \in 1 .. m : p[n] \in Int
            BY <1>1, <2>1
        <3> HIDE DEF m
        <3>2. SubSeq(p, 1, m) \in Seq(Int) /\ Len(SubSeq(p, 1, m)) = m
            BY <3>1, SubSeqProperties
        <3> QED BY <3>2 DEF m
    <2> QED BY <1>2, <2>2 DEF Dir, Front
<1> QED BY <1>2 DEF Dir

LEMMA HeadOfPath ==
    ASSUME NEW tree, NEW path \in Seq(Int)
    PROVE  Head1(tree, path) \in Seq(Int) /\ (Found(tree, path) => Head1(tree, path) = path)
<1>1. CASE Found(tree, path)
    BY <1>1 DEF Head1
<1>2. CASE ~Found(tree, path)
    <2> DEFINE missing == PathPrefixes(path) \ DOMAIN tree
               T == {Len(q) : q \in missing}
    <2>1. path \in missing /\ missing \subseteq Seq(Int)
        BY <1>2, PrefixesOf DEF Found
    <2>2. T \in SUBSET Nat /\ T # {}
        BY <2>1, LenProperties
    <2>3. PICK n \in T : \A m \in T : n <= m
        BY <2>2, Least
    <2>4. \E q \in missing : \A r \in missing : Len(q) <= Len(r)
        BY <2>3
    <2>5. Head1(tree, path) \in missing
        BY <1>2, <2>4 DEF Head1
    <2> QED BY <1>2, <2>1, <2>5
<1> QED BY <1>1, <1>2

LEMMA HitsFinite ==
    ASSUME NEW links \in Seq(Seq(Int)), NEW v
    PROVE  IsFiniteSet(Hits(links, v)) /\ Cardinality(Hits(links, v)) \in Nat
<1>1. Len(links) \in Nat
    BY LenProperties
<1>2. IsFiniteSet(1 .. Len(links)) /\ Hits(links, v) \in SUBSET (1 .. Len(links))
    BY <1>1, FS_Interval DEF Hits
<1> QED BY <1>2, FS_Subset, FS_CardinalityType

\* Links that differ from each other add one hit at most.
LEMMA HitsAdded ==
    ASSUME NEW links \in Seq(Seq(Int)), NEW more \in Seq(Seq(Int)), NEW v,
           \A n, m \in 1 .. Len(more) : more[n] = more[m] => n = m
    PROVE  LET c == Cardinality(Hits(links, v))
               d == Cardinality(Hits(links \o more, v))
           IN  d <= c \/ (d <= c + 1 /\ \E n \in 1 .. Len(more) : more[n] = v)
<1> DEFINE all == links \o more
           k == Len(links)
<1>1. k \in Nat /\ Len(more) \in Nat
    BY LenProperties
<1>2. /\ all \in Seq(Seq(Int)) /\ Len(all) = k + Len(more)
      /\ \A n \in 1 .. k + Len(more) : all[n] = IF n <= k THEN links[n] ELSE more[n - k]
    BY <1>1, ConcatProperties
<1> HIDE DEF all
<1>3. /\ IsFiniteSet(Hits(links, v)) /\ Cardinality(Hits(links, v)) \in Nat
      /\ IsFiniteSet(Hits(all, v)) /\ Cardinality(Hits(all, v)) \in Nat
    BY <1>2, HitsFinite
<1>4. CASE \A n \in 1 .. Len(more) : more[n] # v
    <2>1. Hits(all, v) \in SUBSET Hits(links, v)
        <3> SUFFICES ASSUME NEW m \in Hits(all, v) PROVE m \in Hits(links, v)
            OBVIOUS
        <3>1. m \in 1 .. k + Len(more) /\ all[m] = v
            BY <1>2 DEF Hits
        <3>2. m <= k
            <4> SUFFICES ASSUME ~(m <= k) PROVE FALSE
                OBVIOUS
            <4>1. m - k \in 1 .. Len(more) /\ more[m - k] = v
                BY <1>1, <1>2, <3>1
            <4> QED BY <1>4, <4>1
        <3> QED BY <1>1, <1>2, <3>1, <3>2 DEF Hits
    <2> QED BY <1>3, <2>1, FS_Subset DEF all
<1>5. ASSUME NEW n \in 1 .. Len(more), more[n] = v
      PROVE  Cardinality(Hits(all, v)) <= Cardinality(Hits(links, v)) + 1
    <2>1. Hits(all, v) \in SUBSET (Hits(links, v) \cup {k + n})
        <3> SUFFICES ASSUME NEW m \in Hits(all, v), m # k + n PROVE m \in Hits(links, v)
            OBVIOUS
        <3>1. m \in 1 .. k + Len(more) /\ all[m] = v
            BY <1>2 DEF Hits
        <3>2. m <= k
            <4> SUFFICES ASSUME ~(m <= k) PROVE FALSE
                OBVIOUS
            <4>1. m - k \in 1 .. Len(more) /\ more[m - k] = v
                BY <1>1, <1>2, <3>1
            <4>2. m - k = n
                BY <1>5, <4>1
            <4> QED BY <1>1, <3>1, <4>2
        <3>3. all[m] = links[m]
            BY <1>2, <3>1, <3>2
        <3>4. m \in 1 .. k
            BY <1>1, <3>1, <3>2
        <3> QED BY <3>1, <3>3, <3>4 DEF Hits
    <2>2. /\ IsFiniteSet(Hits(links, v) \cup {k + n})
          /\ Cardinality(Hits(links, v) \cup {k + n}) <= Cardinality(Hits(links, v)) + 1
        <3>1. PICK H, x : H = Hits(links, v) /\ x = k + n
            OBVIOUS
        <3>2. /\ IsFiniteSet(H \cup {x})
              /\ Cardinality(H \cup {x}) = IF x \in H THEN Cardinality(H) ELSE Cardinality(H) + 1
            BY <1>3, <3>1, FS_AddElement
        <3> QED BY <1>3, <3>1, <3>2
    <2>3. Cardinality(Hits(all, v)) <= Cardinality(Hits(links, v) \cup {k + n})
        BY <2>1, <2>2, FS_Subset
    <2>4. Cardinality(Hits(links, v) \cup {k + n}) \in Nat
        BY <2>2, FS_CardinalityType
    <2> QED BY <1>3, <2>2, <2>3, <2>4
<1> QED BY <1>4, <1>5 DEF all

\* A page more that the climb has been to.
LEMMA FromGrows ==
    ASSUME NEW crawled \in SUBSET Seq(Int), IsFiniteSet(crawled), NEW head \in Seq(Int), NEW v
    PROVE  LET c == Cardinality(From(crawled, v))
               d == Cardinality(From(crawled \cup {head}, v))
           IN  /\ c \in Nat /\ d \in Nat /\ c <= d
               /\ head \notin crawled /\ IsPrefix(head, v) => d = c + 1
<1> DEFINE S == From(crawled, v)
           T == From(crawled \cup {head}, v)
<1>1. S \in SUBSET crawled /\ T = (IF IsPrefix(head, v) THEN S \cup {head} ELSE S)
      /\ (head \notin crawled => head \notin S)
    BY DEF From
<1>2. IsFiniteSet(S) /\ Cardinality(S) \in Nat
    BY <1>1, FS_Subset, FS_CardinalityType
<1> HIDE DEF S, T
<1>3. Cardinality(S \cup {head}) = IF head \in S THEN Cardinality(S) ELSE Cardinality(S) + 1
    BY <1>2, FS_AddElement
<1>4. CASE IsPrefix(head, v)
    <2>1. T = S \cup {head}
        BY <1>1, <1>4
    <2>2. Cardinality(T) = IF head \in S THEN Cardinality(S) ELSE Cardinality(S) + 1
        BY <1>3, <2>1
    <2>3. /\ Cardinality(S) \in Nat /\ Cardinality(T) \in Nat /\ Cardinality(S) <= Cardinality(T)
          /\ head \notin crawled => Cardinality(T) = Cardinality(S) + 1
        BY <1>1, <1>2, <2>2
    <2> QED BY <2>3 DEF S, T
<1>5. CASE ~IsPrefix(head, v)
    <2>1. T = S
        BY <1>1, <1>5
    <2>2. Cardinality(S) \in Nat /\ Cardinality(T) \in Nat /\ Cardinality(S) <= Cardinality(T)
        BY <1>2, <2>1
    <2> QED BY <1>5, <2>2 DEF S, T
<1> QED BY <1>4, <1>5

\* The counters go on, and with them what is asked of the place.
LEMMA CountersGoOn ==
    ASSUME NEW q, IsRequest(q), q.pc = "look", Climbing(q), q.url \in Seq(Int),
           q.i < Len(q.url) + 4 => q.at \in q.crawled \/ Len(q.at) = Len(q.url) - q.i - 1,
           NEW x, x = NextStep(q)
    PROVE  x.url = q.url /\ (x.pc = "look" => Climbing(x) /\ InStep(x))
<1>1. Len(q.url) \in Nat /\ Len(q.url) > 0
    BY EmptySeq, LenProperties DEF Climbing
<1>2. CASE q.i < Len(q.url) + 4
    <2>1. PICK i : i = q.i + 1
        OBVIOUS
    <2>2. x = [q EXCEPT !.i = i]
        BY <1>2, <2>1 DEF NextStep
    <2>3. /\ x.url = q.url /\ x.at = q.at /\ x.i = i /\ x.j = q.j /\ x.crawled = q.crawled
          /\ x.links = q.links
        BY <2>2 DEF IsRequest
    <2>4. Climbing(x)
        BY <1>1, <1>2, <2>1, <2>3 DEF Climbing, FoundOnce
    <2>5. q.i \in Int
        BY <1>1 DEF Climbing
    <2>6. ASSUME Len(q.at) = Len(q.url) - q.i - 1 PROVE Len(x.at) = Len(x.url) - x.i
        <3>1. Len(q.url) - i = Len(q.url) - q.i - 1
            BY <1>1, <2>1, <2>5
        <3> QED BY <2>3, <2>6, <3>1
    <2> QED BY <1>2, <2>3, <2>4, <2>6 DEF InStep
<1>3. CASE ~(q.i < Len(q.url) + 4) /\ q.j < Len(q.url) - 1
    <2>1. PICK j, at0 : j = q.j + 1 /\ at0 = Dir(q.url)
        OBVIOUS
    <2>2. x = [q EXCEPT !.i = 1, !.j = j, !.at = at0]
        BY <1>3, <2>1 DEF NextStep
    <2>3. /\ x.url = q.url /\ x.at = at0 /\ x.i = 1 /\ x.j = j /\ x.crawled = q.crawled
          /\ x.links = q.links
        BY <2>2 DEF IsRequest
    <2>4. at0 \in Seq(Int) /\ Len(at0) = Len(q.url) - 1
        BY <2>1, DirOfPath DEF Climbing
    <2>5. j \in 0 .. Len(q.url) - 1
        BY <1>1, <1>3, <2>1 DEF Climbing
    <2>6. ASSUME NEW n \in 1 .. Len(q.links)
          PROVE  Len(q.links[n]) \in (Len(q.url) - j) .. Len(q.url)
        <3>1. Len(q.links[n]) \in (Len(q.url) - q.j) .. Len(q.url) /\ q.j \in Int
            BY <1>1 DEF Climbing
        <3> QED BY <1>1, <2>1, <3>1
    <2>7. Climbing(x)
        BY <1>1, <2>3, <2>4, <2>5, <2>6 DEF Climbing, FoundOnce
    <2>8. InStep(x)
        BY <2>3, <2>4 DEF InStep
    <2> QED BY <2>3, <2>7, <2>8
<1>4. CASE ~(q.i < Len(q.url) + 4) /\ ~(q.j < Len(q.url) - 1)
    <2>1. x = [q EXCEPT !.pc = "select"]
        BY <1>4 DEF NextStep
    <2>2. /\ x.url = q.url /\ x.at = q.at /\ x.i = q.i /\ x.j = q.j /\ x.crawled = q.crawled
          /\ x.links = q.links /\ x.pc = "select"
        BY <2>1 DEF IsRequest
    <2> QED BY <2>2
<1> QED BY <1>2, <1>3, <1>4

\* Where the climb searches, all links it finds are as deep as it wants.
AllAtDepth(paths, depth) == \A n \in 1 .. Len(paths) : Len(paths[n]) = depth

LEMMA LevelLinksFit ==
    ASSUME NEW q, q.i \in Int, q.j \in Int, NEW tree, DOMAIN tree \subseteq Seq(Int),
           IsFiniteSet(DOMAIN tree), NEW head \in Seq(Int), NEW more,
           more = LevelLinks(q, tree, head)
    PROVE  /\ FoundBelow(more, head, q.i - q.j, q.i - q.j)
           /\ AllAtDepth(more, Len(head) + q.i - q.j)
<1>1. PICK opt : opt = [exclude |-> <<0>>, min |-> q.i - q.j, max |-> q.i - q.j, number |-> MaxNumber]
    OBVIOUS
<1>2. opt.min = q.i - q.j /\ opt.max = q.i - q.j /\ opt.number \in Int
    BY <1>1, NumberAssumption
<1>3. more = LevelWiseDeeper(tree, head, opt)
    BY <1>1 DEF LevelLinks
<1>4. FoundBelow(more, head, opt.min, opt.max)
    BY <1>2, <1>3, SearchFinds
<1>5. ASSUME NEW n \in 1 .. Len(more) PROVE Len(more[n]) = Len(head) + q.i - q.j
    <2>1. more \in Seq(Seq(Int)) /\ Len(more[n]) - Len(head) \in q.i - q.j .. q.i - q.j
        BY <1>2, <1>4 DEF FoundBelow
    <2>2. more[n] \in Seq(Int)
        BY <2>1, ElementOfSeq
    <2>3. Len(more[n]) \in Nat /\ Len(head) \in Nat
        BY <2>2, LenProperties
    <2> QED BY <2>1, <2>3
<1> QED BY <1>2, <1>4, <1>5 DEF AllAtDepth

\* One page more that the climb has been to, and the links found below it.
LEMMA FoundOnceMore ==
    ASSUME NEW q, Climbing(q), NEW head \in Seq(Int), NEW more \in Seq(Seq(Int)),
           \/ Len(more) = 0
           \/ /\ head \notin q.crawled
              /\ \A n \in 1 .. Len(more) : IsPrefix(head, more[n])
              /\ \A n, m \in 1 .. Len(more) : more[n] = more[m] => n = m,
           NEW v \in Seq(Int)
    PROVE  Cardinality(Hits(q.links \o more, v)) <= Cardinality(From(q.crawled \cup {head}, v))
<1> DEFINE c == Cardinality(Hits(q.links, v))
           d == Cardinality(Hits(q.links \o more, v))
           e == Cardinality(From(q.crawled, v))
           f == Cardinality(From(q.crawled \cup {head}, v))
<1>1. q.links \in Seq(Seq(Int)) /\ q.crawled \in SUBSET Seq(Int) /\ IsFiniteSet(q.crawled) /\ c <= e
    BY DEF Climbing, FoundOnce
<1>2. \A n, m \in 1 .. Len(more) : more[n] = more[m] => n = m
    OBVIOUS
<1>3. d <= c \/ (d <= c + 1 /\ \E n \in 1 .. Len(more) : more[n] = v)
    BY <1>1, <1>2, HitsAdded
<1>4. /\ e \in Nat /\ f \in Nat /\ e <= f
      /\ head \notin q.crawled /\ IsPrefix(head, v) => f = e + 1
    BY <1>1, FromGrows
<1>5. q.links \o more \in Seq(Seq(Int))
    BY <1>1, ConcatProperties
<1>6. c \in Nat /\ d \in Nat
    BY <1>1, <1>5, HitsFinite
<1>7. ASSUME NEW n \in 1 .. Len(more), more[n] = v PROVE f = e + 1
    <2>1. head \notin q.crawled /\ IsPrefix(head, v)
        BY <1>7
    <2> QED BY <1>4, <2>1
<1> HIDE DEF c, d, e, f
<1>8. d <= f
    BY <1>1, <1>3, <1>4, <1>6, <1>7
<1> QED BY <1>8 DEF d, f

LEMMA ClimbGoesOn ==
    ASSUME NEW q, IsRequest(q), q.pc = "look", Climbing(q), InStep(q), q.url \in Seq(Int),
           NEW tree, DOMAIN tree \subseteq Seq(Int), IsFiniteSet(DOMAIN tree),
           NEW head, head = Head1(q.tree, q.at), head \notin q.crawled,
           NEW x, x = Climb(q, head, tree)
    PROVE  x.url = q.url /\ (x.pc = "look" => Climbing(x) /\ InStep(x))
<1>1. /\ q.at \in Seq(Int) /\ q.crawled \in SUBSET Seq(Int) /\ IsFiniteSet(q.crawled)
      /\ q.links \in Seq(Seq(Int)) /\ Len(q.url) \in Nat
      /\ q.i \in Int /\ q.j \in Int /\ q.j >= 0
    BY LenProperties DEF Climbing
<1>2. head \in Seq(Int) /\ (Found(q.tree, q.at) => head = q.at)
    BY <1>1, HeadOfPath
<1>3. PICK crawled : crawled = q.crawled \cup {head}
    OBVIOUS
<1>4. crawled \subseteq Seq(Int) /\ IsFiniteSet(crawled) /\ head \in crawled
    BY <1>1, <1>2, <1>3, FS_AddElement
<1>5. CASE ~Found(q.tree, q.at)
    <2>1. PICK y : y = [q EXCEPT !.tree = tree, !.crawled = crawled, !.at = head]
        OBVIOUS
    <2>2. x = NextStep(y)
        BY <1>3, <1>5, <2>1 DEF Climb
    <2>3. /\ IsRequest(y) /\ y.pc = "look" /\ y.url = q.url /\ y.at = head /\ y.i = q.i /\ y.j = q.j
          /\ y.crawled = crawled /\ y.links = q.links
        BY <2>1 DEF IsRequest
    <2>4. FoundOnce(y)
        <3>1. ASSUME NEW v \in Seq(Int)
              PROVE  Cardinality(Hits(q.links, v)) <= Cardinality(From(crawled, v))
            <4>1. Cardinality(Hits(q.links, v)) <= Cardinality(From(q.crawled, v))
                BY DEF Climbing, FoundOnce
            <4>2. /\ Cardinality(From(q.crawled, v)) \in Nat /\ Cardinality(From(crawled, v)) \in Nat
                  /\ Cardinality(From(q.crawled, v)) <= Cardinality(From(crawled, v))
                BY <1>1, <1>2, <1>3, FromGrows
            <4>3. Cardinality(Hits(q.links, v)) \in Nat
                BY <1>1, HitsFinite
            <4> QED BY <4>1, <4>2, <4>3
        <3> QED BY <2>3, <3>1 DEF FoundOnce
    <2>5. Climbing(y)
        BY <1>2, <1>4, <2>3, <2>4 DEF Climbing
    <2>6. y.at \in y.crawled
        BY <1>4, <2>3
    <2> QED BY <2>2, <2>3, <2>5, <2>6, CountersGoOn
<1>6. CASE Found(q.tree, q.at)
    <2>1. PICK more : more = LevelLinks(q, tree, head)
        OBVIOUS
    <2>2. /\ more \in Seq(Seq(Int))
          /\ \A n \in 1 .. Len(more) : IsPrefix(head, more[n])
          /\ \A n, m \in 1 .. Len(more) : more[n] = more[m] => n = m
          /\ \A n \in 1 .. Len(more) : Len(more[n]) = Len(head) + q.i - q.j
        <3>1. /\ FoundBelow(more, head, q.i - q.j, q.i - q.j)
              /\ AllAtDepth(more, Len(head) + q.i - q.j)
            BY <1>1, <1>2, <2>1, LevelLinksFit
        <3> QED BY <3>1 DEF FoundBelow, AllAtDepth
    <2>3. PICK links, at0 : links = q.links \o more /\ at0 = Dir(head)
        OBVIOUS
    <2>4. PICK above : above = [q EXCEPT !.tree = tree, !.crawled = crawled, !.links = links,
                                         !.at = at0]
        OBVIOUS
    <2>5. /\ IsRequest(above) /\ above.pc = "look" /\ above.url = q.url /\ above.at = at0
          /\ above.i = q.i /\ above.j = q.j /\ above.crawled = crawled /\ above.links = links
        BY <2>4 DEF IsRequest
    <2>6. x = IF Len(links) >= MaxNumber THEN [above EXCEPT !.pc = "select"]
              ELSE IF head = <<>> THEN NextRound(above) ELSE NextStep(above)
        BY <1>3, <1>6, <2>1, <2>3, <2>4 DEF Climb
    <2>7. Len(head) = Len(q.url) - q.i
        BY <1>2, <1>6 DEF InStep
    <2>8. links \in Seq(Seq(Int)) /\ \A n \in 1 .. Len(links) :
             Len(links[n]) \in (Len(q.url) - q.j) .. Len(q.url)
        <3>1. /\ links \in Seq(Seq(Int)) /\ Len(links) = Len(q.links) + Len(more)
              /\ \A n \in 1 .. Len(q.links) + Len(more) :
                    links[n] = IF n <= Len(q.links) THEN q.links[n] ELSE more[n - Len(q.links)]
            BY <1>1, <2>2, <2>3, ConcatProperties
        <3>2. Len(q.links) \in Nat /\ Len(more) \in Nat
            BY <1>1, <2>2, LenProperties
        <3>3. ASSUME NEW n \in 1 .. Len(links) PROVE Len(links[n]) \in (Len(q.url) - q.j) .. Len(q.url)
            <4>1. CASE n <= Len(q.links)
                <5>1. n \in 1 .. Len(q.links) /\ links[n] = q.links[n]
                    BY <3>1, <3>2, <4>1
                <5> QED BY <5>1 DEF Climbing
            <4>2. CASE ~(n <= Len(q.links))
                <5>1. PICK m : m = n - Len(q.links)
                    OBVIOUS
                <5>2. m \in 1 .. Len(more) /\ links[n] = more[m]
                    BY <3>1, <3>2, <4>2, <5>1
                <5>3. Len(links[n]) = Len(head) + q.i - q.j
                    BY <2>2, <5>2
                <5>4. Len(links[n]) = Len(q.url) - q.j
                    BY <1>1, <2>7, <5>3
                <5> QED BY <1>1, <5>4
            <4> QED BY <4>1, <4>2
        <3> QED BY <3>1, <3>3
    <2>9. FoundOnce(above)
        <3>1. \A v \in Seq(Int) : Cardinality(Hits(links, v)) <= Cardinality(From(crawled, v))
            BY <1>2, <1>3, <2>2, <2>3, FoundOnceMore
        <3> QED BY <2>5, <3>1 DEF FoundOnce
    <2>10. Climbing(above)
        <3>1. at0 \in Seq(Int)
            BY <1>2, <2>3, DirOfPath
        <3> QED BY <1>4, <2>5, <2>8, <2>9, <3>1 DEF Climbing
    <2>11. CASE Len(links) >= MaxNumber
        <3>1. x = [above EXCEPT !.pc = "select"]
            BY <2>6, <2>11
        <3>2. x.url = above.url /\ x.pc = "select"
            BY <2>5, <3>1 DEF IsRequest
        <3> QED BY <2>5, <3>2
    <2>12. CASE ~(Len(links) >= MaxNumber) /\ head = <<>>
        <3>1. PICK i : i = Len(q.url) + 4
            OBVIOUS
        <3>2. PICK y : y = [above EXCEPT !.i = i]
            OBVIOUS
        <3>3. x = NextStep(y)
            BY <2>5, <2>6, <2>12, <3>1, <3>2 DEF NextRound
        <3>4. /\ IsRequest(y) /\ y.pc = "look" /\ y.url = q.url /\ y.at = above.at
              /\ y.i = i /\ y.j = q.j /\ y.crawled = above.crawled /\ y.links = above.links
            BY <2>5, <3>2 DEF IsRequest
        <3>5. i \in 1 .. Len(q.url) + 4 /\ ~(i < Len(q.url) + 4)
            BY <1>1, <3>1
        <3>6. Climbing(y)
            BY <2>5, <2>10, <3>4, <3>5 DEF Climbing, FoundOnce
        <3> QED BY <3>3, <3>4, <3>5, <3>6, CountersGoOn
    <2>13. CASE ~(Len(links) >= MaxNumber) /\ head # <<>>
        <3>1. x = NextStep(above)
            BY <2>6, <2>13
        <3>2. Len(above.at) = Len(above.url) - above.i - 1
            <4>1. Len(at0) = Len(head) - 1
                BY <1>2, <2>3, <2>13, DirOfPath
            <4> QED BY <1>1, <2>5, <2>7, <4>1
        <3> QED BY <2>5, <2>10, <3>1, <3>2, CountersGoOn
    <2> QED BY <2>11, <2>12, <2>13
<1> QED BY <1>5, <1>6

\* A request goes on, or has gone on, without another touching its climb.
LEMMA LadderGoesOn ==
    ASSUME SimilarInv, LadderInv, NEW r \in Requests, NEW x, req' = [req EXCEPT ![r] = x],
           UNCHANGED site, DOMAIN digest'.tree \subseteq Directories(site),
           OnLadder(x, Directories(site))
    PROVE  LadderInv'
<1>1. /\ DOMAIN req' = Requests /\ req'[r] = x
      /\ \A o \in Requests \ {r} : req'[o] = req[o]
    BY DEF SimilarInv, RequestsTyped
<1>2. PICK dirs : dirs = Directories(site)
    OBVIOUS
<1>3. Directories(site)' = dirs
    BY <1>2 DEF Directories, AllLinks
<1>4. \A o \in Requests : OnLadder(req'[o], dirs)
    BY <1>1, <1>2 DEF LadderInv
<1> QED BY <1>2, <1>3, <1>4 DEF LadderInv

LEMMA RequestOnLadder ==
    ASSUME LadderInv, NEW r \in Requests
    PROVE  OnLadder(req[r], Directories(site)) /\ DOMAIN digest.tree \subseteq Directories(site)
BY DEF LadderInv

LEMMA StartOnLadder ==
    ASSUME SimilarInv, LadderInv, NEW r \in Requests, NEW u \in Urls, Start(r, u)
    PROVE  LadderInv'
<1>1. PICK base : base = {o \in Requests : req[o].pc = "done"}
    OBVIOUS
<1>2. PICK tree, recent : tree = digest.tree /\ recent = digest.recent
    OBVIOUS
<1>3. PICK y : y = [Idle EXCEPT !.pc = "self", !.url = u]
    OBVIOUS
<1>4. PICK x : x = [y EXCEPT !.tree = tree, !.recent = recent, !.base = base]
    OBVIOUS
<1>5. PICK z : z \in {x, y} /\ req' = [req EXCEPT ![r] = z] /\ UNCHANGED <<site, digest>>
    BY <1>1, <1>2, <1>3, <1>4 DEF Start, LoadDigest
<1>6. IsRequest(y) /\ y.pc = "self" /\ y.url = u /\ y.i = 1 /\ y.j = 0 /\ y.crawled = {}
      /\ y.links = <<>> /\ y.tree = EmptyTree
    BY <1>3 DEF Idle, IsRequest
<1>7. z.pc = "self" /\ z.url = u /\ z.tree \in {tree, EmptyTree} /\ z.i = 1 /\ z.j = 0
      /\ z.crawled = {} /\ z.links = <<>>
    BY <1>4, <1>5, <1>6 DEF IsRequest
<1>8. OnLadder(z, Directories(site))
    <2>1. DOMAIN z.tree \subseteq Directories(site)
        BY <1>2, <1>7, RequestOnLadder DEF EmptyTree
    <2> QED BY <1>7, <2>1, UrlsAssumption DEF OnLadder
<1> QED BY <1>5, <1>8, RequestOnLadder, LadderGoesOn

\* Where no climb is under way, only the tree matters.
LEMMA OffLadder ==
    ASSUME SimilarInv, LadderInv, NEW r \in Requests, req[r].pc # "idle", NEW x,
           x.url = req[r].url, x.pc \notin {"idle", "self", "look"},
           DOMAIN x.tree \subseteq Directories(site),
           req' = [req EXCEPT ![r] = x], UNCHANGED site,
           DOMAIN digest'.tree \subseteq Directories(site)
    PROVE  LadderInv'
<1>1. req[r].url \in Seq(Int)
    BY RequestOnLadder DEF OnLadder
<1>2. OnLadder(x, Directories(site))
    BY <1>1 DEF OnLadder
<1> QED BY <1>2, LadderGoesOn

LEMMA AnchorsInside ==
    ASSUME SimilarInv, NEW tree, DOMAIN tree \subseteq Directories(site), NEW p
    PROVE  DOMAIN AddAnchors(tree, p) \subseteq Directories(site)
<1>1. Links(p) \subseteq AllLinks(site)
    BY LinksOfPage DEF SimilarInv
<1> QED BY <1>1, TreeStaysInside DEF AddAnchors

LEMMA AbortOnLadder ==
    ASSUME SimilarInv, LadderInv, NEW r \in Requests, req[r].pc # "idle", Abort(r),
           UNCHANGED <<site, digest>>
    PROVE  LadderInv'
<1>1. PICK x : x = [req[r] EXCEPT !.pc = "done"]
    OBVIOUS
<1>2. req' = [req EXCEPT ![r] = x]
    BY <1>1 DEF Abort
<1>3. x.pc = "done" /\ x.tree = req[r].tree /\ x.url = req[r].url
    <2>1. IsRequest(req[r])
        BY RunningTyped
    <2> QED BY <1>1, <2>1 DEF IsRequest
<1>4. DOMAIN req[r].tree \subseteq Directories(site) /\ DOMAIN digest.tree \subseteq Directories(site)
    BY RequestOnLadder DEF OnLadder
<1> QED BY <1>2, <1>3, <1>4, OffLadder

LEMMA SelfOnLadder ==
    ASSUME SimilarInv, LadderInv, NEW r \in Requests, Self(r)
    PROVE  LadderInv'
<1> DEFINE q == req[r]
<1>1. q.pc = "self" /\ IsRequest(q) /\ UNCHANGED <<site, digest>>
    BY RunningTyped DEF Self
<1>2. /\ DOMAIN q.tree \subseteq Directories(site) /\ q.url \in Seq(Int)
      /\ q.i = 1 /\ q.j = 0 /\ q.crawled = {} /\ q.links = <<>>
      /\ DOMAIN digest.tree \subseteq Directories(site)
    BY <1>1, RequestOnLadder DEF OnLadder
<1>3. PICK at0, u, pc : /\ at0 = Dir(q.url) /\ u = q.url
                        /\ pc = IF q.url = <<>> THEN "select" ELSE "look"
    OBVIOUS
<1>4. ASSUME NEW tree, NEW recent, DOMAIN tree \subseteq Directories(site),
             req' = [req EXCEPT ![r] =
                       [@ EXCEPT !.pc = pc, !.tree = tree, !.recent = recent, !.at = at0]]
      PROVE  LadderInv'
    <2>1. PICK x : x = [q EXCEPT !.pc = pc, !.tree = tree, !.recent = recent, !.at = at0]
        OBVIOUS
    <2>2. req' = [req EXCEPT ![r] = x]
        BY <1>4, <2>1
    <2>3. /\ x.pc = pc /\ x.tree = tree /\ x.url = q.url /\ x.at = at0 /\ x.i = 1 /\ x.j = 0
          /\ x.crawled = {} /\ x.links = <<>>
        BY <1>1, <1>2, <2>1 DEF IsRequest
    <2>4. CASE pc = "look"
        <3>1. q.url # <<>> /\ Len(q.url) \in Nat /\ Len(q.url) > 0
            BY <1>2, <1>3, <2>4, EmptySeq, LenProperties
        <3>2. at0 \in Seq(Int) /\ Len(at0) = Len(q.url) - 1
            BY <1>2, <1>3, <3>1, DirOfPath
        <3>3. FoundOnce(x)
            <4> SUFFICES ASSUME NEW v \in Seq(Int)
                         PROVE  Cardinality(Hits(x.links, v)) <= Cardinality(From(x.crawled, v))
                BY DEF FoundOnce
            <4>1. Len(x.links) = 0 /\ 1 .. 0 = {}
                BY <2>3, EmptySeq
            <4>2. Hits(x.links, v) = {}
                BY <4>1 DEF Hits
            <4>3. x.crawled = {}
                BY <2>3
            <4>4. From(x.crawled, v) \subseteq x.crawled
                BY DEF From
            <4>5. Cardinality({}) = 0 /\ From(x.crawled, v) = {}
                BY <4>3, <4>4, FS_EmptySet
            <4> QED BY <4>2, <4>5
        <3>4. x.links \in Seq(Seq(Int)) /\ Len(x.links) = 0 /\ IsFiniteSet(x.crawled)
            BY <2>3, FS_EmptySet, EmptySeq
        <3>5. Climbing(x)
            BY <2>3, <3>1, <3>2, <3>3, <3>4 DEF Climbing
        <3>6. InStep(x)
            BY <2>3, <3>2 DEF InStep
        <3>7. OnLadder(x, Directories(site))
            BY <1>2, <1>4, <2>3, <2>4, <3>5, <3>6 DEF OnLadder
        <3> QED BY <1>1, <1>2, <2>2, <3>7, LadderGoesOn
    <2>5. CASE pc # "look"
        <3>1. x.pc \notin {"idle", "self", "look"}
            BY <1>3, <2>3, <2>5
        <3> QED BY <1>1, <1>2, <1>4, <2>2, <2>3, <3>1, OffLadder
    <2> QED BY <2>4, <2>5
<1>5. CASE UNCHANGED excused
           /\ req' = [req EXCEPT ![r] = [@ EXCEPT !.pc = pc, !.tree = q.tree,
                                                  !.recent = q.recent, !.at = at0]]
    BY <1>2, <1>4, <1>5
<1>6. CASE UNCHANGED excused
           /\ req' = [req EXCEPT ![r] = [@ EXCEPT !.pc = pc, !.tree = AddAnchors(q.tree, u),
                                                  !.recent = TRUE, !.at = at0]]
    <2>1. PICK tree : tree = AddAnchors(q.tree, u)
        OBVIOUS
    <2>2. DOMAIN tree \subseteq Directories(site)
        BY <1>2, <2>1, AnchorsInside
    <2> QED BY <1>4, <1>6, <2>1, <2>2
<1>7. CASE Abort(r)
    BY <1>1, <1>7, AbortOnLadder
<1> QED BY <1>3, <1>5, <1>6, <1>7 DEF Self

LEMMA LookOnLadder ==
    ASSUME SimilarInv, LadderInv, NEW r \in Requests, Look(r)
    PROVE  LadderInv'
<1> DEFINE q == req[r]
<1>1. q.pc = "look" /\ IsRequest(q) /\ UNCHANGED <<site, digest>>
    BY RunningTyped DEF Look
<1>2. /\ DOMAIN q.tree \subseteq Directories(site) /\ q.url \in Seq(Int)
      /\ Climbing(q) /\ InStep(q) /\ DOMAIN digest.tree \subseteq Directories(site)
    BY <1>1, RequestOnLadder DEF OnLadder
<1>3. Directories(site) \subseteq Seq(Int) /\ IsFiniteSet(Directories(site))
    BY DirectoriesFinite DEF SimilarInv, RequestsTyped
<1>4. PICK head : head = Head1(q.tree, q.at)
    OBVIOUS
<1>5. head \in Seq(Int)
    BY <1>2, <1>4, HeadOfPath DEF Climbing
<1>6. ASSUME NEW x, req' = [req EXCEPT ![r] = x], x.url = q.url, x.pc \in {"look", "select"},
             DOMAIN x.tree \subseteq Directories(site), x.pc = "look" => Climbing(x) /\ InStep(x)
      PROVE  LadderInv'
    <2>1. OnLadder(x, Directories(site))
        BY <1>2, <1>6 DEF OnLadder
    <2> QED BY <1>1, <1>2, <1>6, <2>1, LadderGoesOn
<1>7. CASE head \in q.crawled /\ req' = [req EXCEPT ![r] = NextStep([q EXCEPT !.at = head])]
    <2>1. PICK y : y = [q EXCEPT !.at = head]
        OBVIOUS
    <2>2. /\ IsRequest(y) /\ y.pc = "look" /\ y.tree = q.tree /\ y.url = q.url /\ y.at = head
          /\ y.i = q.i /\ y.j = q.j /\ y.crawled = q.crawled /\ y.links = q.links
        BY <1>1, <2>1 DEF IsRequest
    <2>3. Climbing(y)
        BY <1>2, <1>5, <2>2 DEF Climbing, FoundOnce
    <2>4. PICK x : x = NextStep(y)
        OBVIOUS
    <2>5. x.url = y.url /\ (x.pc = "look" => Climbing(x) /\ InStep(x))
        BY <1>2, <1>7, <2>2, <2>3, <2>4, CountersGoOn
    <2>6. x.tree = y.tree /\ x.pc \in {"look", "select"}
        BY <2>2, <2>4, NextStepLike DEF Like
    <2>7. req' = [req EXCEPT ![r] = x]
        BY <1>7, <2>1, <2>4
    <2> QED BY <1>2, <1>6, <2>2, <2>5, <2>6, <2>7
<1>8. ASSUME head \notin q.crawled, NEW y, IsRequest(y), y.pc = "look", y.tree = q.tree,
             y.url = q.url, y.at = q.at, y.i = q.i, y.j = q.j, y.crawled = q.crawled,
             y.links = q.links, NEW tree, DOMAIN tree \subseteq Directories(site),
             req' = [req EXCEPT ![r] = Climb(y, head, tree)]
      PROVE  LadderInv'
    <2>1. Climbing(y) /\ InStep(y)
        BY <1>2, <1>8 DEF Climbing, InStep, FoundOnce
    <2>2. DOMAIN tree \subseteq Seq(Int) /\ IsFiniteSet(DOMAIN tree)
        BY <1>3, <1>8, FS_Subset
    <2>3. PICK x : x = Climb(y, head, tree)
        OBVIOUS
    <2>4. x.url = y.url /\ (x.pc = "look" => Climbing(x) /\ InStep(x))
        BY <1>2, <1>4, <1>8, <2>1, <2>2, <2>3, ClimbGoesOn
    <2>5. x.tree = tree /\ x.pc \in {"look", "select"}
        BY <1>8, <2>3, ClimbLike
    <2> QED BY <1>6, <1>8, <2>3, <2>4, <2>5
<1>9. CASE head \notin q.crawled /\ req' = [req EXCEPT ![r] = Climb(q, head, q.tree)]
    BY <1>1, <1>2, <1>8, <1>9
<1>10. CASE /\ head \notin q.crawled
            /\ req' = [req EXCEPT ![r] = Climb([q EXCEPT !.recent = TRUE], head,
                                               AddAnchors(q.tree, head))]
    <2>1. PICK tree : tree = AddAnchors(q.tree, head)
        OBVIOUS
    <2>2. PICK y : y = [q EXCEPT !.recent = TRUE]
        OBVIOUS
    <2>3. /\ IsRequest(y) /\ y.pc = "look" /\ y.tree = q.tree /\ y.url = q.url /\ y.at = q.at
          /\ y.i = q.i /\ y.j = q.j /\ y.crawled = q.crawled /\ y.links = q.links
        BY <1>1, <2>2 DEF IsRequest
    <2>4. DOMAIN tree \subseteq Directories(site)
        BY <1>2, <2>1, AnchorsInside
    <2>5. req' = [req EXCEPT ![r] = Climb(y, head, tree)]
        BY <1>10, <2>1, <2>2
    <2> QED BY <1>8, <1>10, <2>3, <2>4, <2>5
<1>11. CASE Abort(r)
    BY <1>1, <1>11, AbortOnLadder
<1> QED BY <1>4, <1>7, <1>9, <1>10, <1>11 DEF Look

LEMMA OthersOnLadder ==
    ASSUME SimilarInv, LadderInv, NEW r \in Requests,
           \/ Select(r) \/ \E n : Work(r, n) \/ \E S : Collect(r, S) \/ Save(r)
    PROVE  LadderInv'
<1> DEFINE q == req[r]
<1>1. IsRequest(q) /\ DOMAIN q.tree \subseteq Directories(site)
      /\ DOMAIN digest.tree \subseteq Directories(site)
    BY RunningTyped, RequestOnLadder DEF OnLadder
<1>2. CASE Select(r)
    <2>1. q.pc = "select" /\ UNCHANGED <<site, digest>>
        BY <1>2 DEF Select
    <2>2. PICK x : Like(x, q) /\ x.pc \in {"select", "save", "fetch"} /\ req' = [req EXCEPT ![r] = x]
        BY <1>2, SelectLike
    <2> QED BY <1>1, <2>1, <2>2, OffLadder DEF Like
<1>3. ASSUME NEW n, Work(r, n) PROVE LadderInv'
    <2>1. q.pc \in {"fetch", "save", "done"} /\ UNCHANGED <<site, digest>>
        BY <1>3 DEF Work
    <2>2. PICK x : Like(x, q) /\ x.pc = q.pc /\ req' = [req EXCEPT ![r] = x]
        BY <1>3, WorkLike
    <2> QED BY <1>1, <2>1, <2>2, OffLadder DEF Like
<1>4. ASSUME NEW S, Collect(r, S) PROVE LadderInv'
    <2> DEFINE used == {q.missing[n] : n \in S}
               order == SetToSeq(S)
    <2>1. PICK links : links = UNION {Links(p) : p \in used}
        OBVIOUS
    <2>2. PICK tree : tree = Path2DirTree(q.tree, links, FALSE)
        OBVIOUS
    <2>3. PICK recent, taken : /\ recent = (q.recent \/ S # {})
                               /\ taken = q.taken \o [m \in 1..Len(order) |-> q.missing[order[m]]]
        OBVIOUS
    <2>4. PICK x : x = [q EXCEPT !.pc = "save", !.recent = recent, !.taken = taken, !.tree = tree]
        OBVIOUS
    <2>5. q.pc = "fetch" /\ UNCHANGED <<site, digest>> /\ req' = [req EXCEPT ![r] = x]
        BY <1>4, <2>1, <2>2, <2>3, <2>4 DEF Collect
    <2>6. x.pc = "save" /\ x.tree = tree /\ x.url = q.url
        BY <1>1, <2>4 DEF IsRequest
    <2>7. \A p : Links(p) \subseteq AllLinks(site)
        BY LinksOfPage DEF SimilarInv
    <2>8. links \subseteq AllLinks(site)
        BY <2>1, <2>7
    <2>9. DOMAIN tree \subseteq Directories(site)
        BY <1>1, <2>2, <2>8, TreeStaysInside
    <2> QED BY <1>1, <2>5, <2>6, <2>9, OffLadder
<1>5. CASE Save(r)
    <2>1. PICK x : x = [q EXCEPT !.pc = "done"]
        OBVIOUS
    <2>2. q.pc = "save" /\ UNCHANGED site /\ req' = [req EXCEPT ![r] = x]
        BY <1>5, <2>1 DEF Save
    <2>3. x.pc = "done" /\ x.tree = q.tree /\ x.url = q.url
        BY <1>1, <2>1 DEF IsRequest
    <2>4. digest'.tree \in {q.tree, digest.tree, EmptyTree}
        BY <1>5 DEF Save, SavedDigest, NoDigest
    <2>5. DOMAIN digest'.tree \subseteq Directories(site)
        BY <1>1, <2>4 DEF EmptyTree
    <2> QED BY <1>1, <2>2, <2>3, <2>5, OffLadder
<1> QED BY <1>2, <1>3, <1>4, <1>5

LEMMA TimeOnLadder == ASSUME SimilarInv, LadderInv, TenSeconds \/ TenHours PROVE LadderInv'
<1>1. CASE TenSeconds
    <2>1. UNCHANGED site /\ digest' = [digest EXCEPT !.recent = FALSE]
        BY <1>1 DEF TenSeconds
    <2>2. digest'.tree = digest.tree
        BY <2>1 DEF SimilarInv, RequestsTyped
    <2>3. PICK dirs : dirs = Directories(site)
        OBVIOUS
    <2>4. Directories(site)' = dirs
        BY <2>1, <2>3 DEF Directories, AllLinks
    <2>5. ASSUME NEW o \in Requests PROVE OnLadder(req'[o], dirs)
        <3>1. PICK q, x : q = req[o] /\ x = req'[o]
            OBVIOUS
        <3>2. x = [q EXCEPT !.recent = FALSE]
            BY <1>1, <3>1 DEF TenSeconds
        <3>3. IsRequest(q) /\ OnLadder(q, dirs)
            BY <2>3, <3>1 DEF SimilarInv, RequestsTyped, LadderInv
        <3>4. /\ x.pc = q.pc /\ x.tree = q.tree /\ x.url = q.url /\ x.at = q.at /\ x.i = q.i
              /\ x.j = q.j /\ x.crawled = q.crawled /\ x.links = q.links
            BY <3>2, <3>3 DEF IsRequest
        <3>5. OnLadder(x, dirs)
            BY <3>3, <3>4 DEF OnLadder, Climbing, InStep, FoundOnce
        <3> QED BY <3>1, <3>5
    <2> QED BY <2>2, <2>3, <2>4, <2>5 DEF LadderInv
<1>2. CASE TenHours
    BY <1>2 DEF TenHours, LadderInv, Directories, AllLinks
<1> QED BY <1>1, <1>2

LEMMA LadderStarts == SInit => LadderInv
<1> SUFFICES ASSUME SInit PROVE LadderInv
    OBVIOUS
<1>1. digest = [tree |-> EmptyTree, recent |-> FALSE] /\ req = [r \in Requests |-> Idle]
    BY DEF SInit, NoDigest
<1>2. DOMAIN EmptyTree = {}
    BY DEF EmptyTree
<1>3. Idle.pc = "idle" /\ Idle.tree = EmptyTree
    BY DEF Idle
<1>4. \A r \in Requests : OnLadder(req[r], Directories(site))
    BY <1>1, <1>2, <1>3 DEF OnLadder
<1> QED BY <1>1, <1>2, <1>4 DEF LadderInv

LEMMA LadderStep == SimilarInv /\ LadderInv /\ [SNext]_simvars => LadderInv'
<1> SUFFICES ASSUME SimilarInv, LadderInv, [SNext]_simvars PROVE LadderInv'
    OBVIOUS
<1>1. CASE UNCHANGED simvars
    BY <1>1 DEF simvars, LadderInv, Directories, AllLinks
<1>2. ASSUME NEW r \in Requests, NEW u \in Urls, Start(r, u) PROVE LadderInv'
    BY <1>2, StartOnLadder
<1>3. ASSUME NEW r \in Requests, Self(r) \/ Look(r) PROVE LadderInv'
    BY <1>3, SelfOnLadder, LookOnLadder
<1>4. ASSUME NEW r \in Requests,
             \/ Select(r) \/ \E n : Work(r, n) \/ \E S : Collect(r, S) \/ Save(r)
      PROVE  LadderInv'
    BY <1>4, OthersOnLadder
<1>5. CASE TenSeconds \/ TenHours
    BY <1>5, TimeOnLadder
<1> QED BY <1>1, <1>2, <1>3, <1>4, <1>5 DEF SNext

(***************************************************************************)
(* The climb of FetchSimilar (8_fetch_similar.go, the loops over j and i)  *)
(* keeps in step with its counters, for any host and any URL: a directory  *)
(* it has yet to crawl and finds in the digest is i above the URL, a link  *)
(* it has found is neither deeper than the URL nor higher than its rounds  *)
(* have come, and no directory contributes a link twice.                   *)
(***************************************************************************)
THEOREM ClimbKeepsInStep == SSpec => []OnTheLadder
<1>1. SimilarInv /\ LadderInv => OnTheLadder
    <2> SUFFICES ASSUME LadderInv, NEW r \in Requests, req[r].pc = "look"
                 PROVE  /\ (Found(req[r].tree, req[r].at) /\ req[r].at \notin req[r].crawled)
                             => Len(req[r].at) = Len(req[r].url) - req[r].i
                        /\ \A n \in 1..Len(req[r].links) :
                             /\ Len(req[r].links[n]) \in
                                  (Len(req[r].url) - req[r].j)..Len(req[r].url)
                             /\ Cardinality({m \in 1..Len(req[r].links) :
                                               req[r].links[m] = req[r].links[n]})
                                  <= Cardinality({h \in req[r].crawled :
                                                    IsPrefix(h, req[r].links[n])})
        BY DEF OnTheLadder
    <2>1. PICK q : q = req[r]
        OBVIOUS
    <2>2. Climbing(q) /\ InStep(q)
        BY <2>1, RequestOnLadder DEF OnLadder
    <2>3. Found(q.tree, q.at) /\ q.at \notin q.crawled => Len(q.at) = Len(q.url) - q.i
        BY <2>2 DEF InStep
    <2>4. ASSUME NEW n \in 1..Len(q.links)
          PROVE  /\ Len(q.links[n]) \in (Len(q.url) - q.j)..Len(q.url)
                 /\ Cardinality({m \in 1..Len(q.links) : q.links[m] = q.links[n]})
                      <= Cardinality({h \in q.crawled : IsPrefix(h, q.links[n])})
        <3>1. q.links[n] \in Seq(Int)
            BY <2>2, ElementOfSeq DEF Climbing
        <3>2. Cardinality(Hits(q.links, q.links[n])) <= Cardinality(From(q.crawled, q.links[n]))
            BY <2>2, <3>1 DEF Climbing, FoundOnce
        <3>3. Len(q.links[n]) \in (Len(q.url) - q.j)..Len(q.url)
            BY <2>2 DEF Climbing
        <3> QED BY <3>2, <3>3 DEF Hits, From
    <2> QED BY <2>1, <2>3, <2>4
<1> QED BY <1>1, SimilarStarts, SimilarGoesOn, LadderStarts, LadderStep, PTL DEF SSpec
=============================================================================
