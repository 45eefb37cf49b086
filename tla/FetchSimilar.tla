---------------------------- MODULE FetchSimilar -----------------------------
(* Similar articles for a URL, net/http/repo/8_fetch_similar.go.  Requests     *)
(* share the file system with the pages fetched so far and the digest of the   *)
(* host; each works on its own copy of the digest and saves it at the end.     *)
EXTENDS DirDigest

CONSTANTS Requests,   \* HTTP requests, each handled in its own goroutine
          Urls,       \* what they ask for
          Sites,      \* what the host may serve: records of the fields below
          Count,      \* "cnt": the number of similar articles wanted
          MaxNumber   \* links that are enough (DesiredNumber + 40)
\* site.links: the pages that exist and the links on each; site.old: those that
\* the host dates back more than ten hours; site.faulty: those that may fail to
\* be fetched or written; site.moved: those whose body only says that a redirect
\* was not followed.

AllLinks(s) == UNION {s.links[p] : p \in DOMAIN s.links}
\* Paths are sequences of the numbers of names; a host has finitely many links.
ASSUME LinksAssumption == \A s \in Sites : AllLinks(s) \subseteq Seq(Int) /\ IsFiniteSet(AllLinks(s))
ASSUME UrlsAssumption == Urls \subseteq Seq(Int)
ASSUME NumberAssumption == MaxNumber \in Nat

VARIABLES site,       \* the host
          fresh,      \* pages that have been on the file system for up to ten hours;
                      \* an older one is fetched again, as if it were not there
          digest,     \* digest2.json and whether it is less than ten seconds old
          req,        \* the requests
          owner,      \* ghost: who stored a page last, and how
          excused     \* ghost: requests whose tree was not, or will not stay, saved
simvars == <<site, fresh, digest, req, owner, excused>>

Idle == [pc |-> "idle", url |-> <<>>, tree |-> EmptyTree, recent |-> FALSE, at |-> <<>>,
         i |-> 1, j |-> 0, crawled |-> {}, links |-> <<>>, k |-> 1, taken |-> <<>>,
         missing |-> <<>>, pending |-> {}, finished |-> {}, base |-> {}]

\* No digest, or a file that cannot be read.
NoDigest == [tree |-> EmptyTree, recent |-> FALSE]

SInit == /\ site \in Sites
         /\ fresh = {}
         /\ digest = NoDigest
         /\ req = [r \in Requests |-> Idle]
         /\ owner = [p \in {} |-> {}] /\ excused = {}

----------------------------------------------------------------------------
(* Files *)

Exists(p) == p \in DOMAIN site.links
Links(p) == IF Exists(p) THEN site.links[p] ELSE {}
\* A page that does not exist is stored as " ... not found ... ", 75 minutes old.
Stored(p) == IF p \in site.old THEN fresh ELSE fresh \cup {p}
AddAnchors(tree, p) == Path2DirTree(tree, Links(p), FALSE)

\* The three ends of fetchSave: a fresh file is used, or the page is fetched
\* and saved, where an error is only logged, or it cannot be fetched.
UsesExisting(p) == p \in fresh /\ UNCHANGED <<fresh, owner>>
FetchesAndSaves(p, who) == /\ p \notin fresh
                           /\ \/ fresh' = Stored(p)
                              \/ p \in site.faulty /\ UNCHANGED fresh
                           /\ owner' = [q \in DOMAIN owner \cup {p} |->
                                          IF q = p THEN who ELSE owner[q]]
Fails(p) == p \in site.faulty \ fresh /\ UNCHANGED <<fresh, owner>>

----------------------------------------------------------------------------
(* A request *)

\* An error in reading, decompressing or parsing is logged, and the request
\* goes on with an empty tree.
LoadDigest(q) ==
  {[q EXCEPT !.tree = digest.tree, !.recent = digest.recent,
             !.base = {o \in Requests : req[o].pc = "done"}],
   q}
SavedDigest(q) == [tree |-> q.tree, recent |-> TRUE]

Start(r, u) == /\ req[r].pc = "idle"
               /\ \E q \in LoadDigest([Idle EXCEPT !.pc = "self", !.url = u]) : req' = [req EXCEPT ![r] = q]
               /\ UNCHANGED <<site, fresh, digest, owner, excused>>

\* It returns without saving what it has found.
Abort(r) == /\ req' = [req EXCEPT ![r] = [@ EXCEPT !.pc = "done"]]
            /\ excused' = excused \cup {r}

Self(r) ==
  LET q == req[r]
      then(tree, recent) == req' = [req EXCEPT ![r] =
             [@ EXCEPT !.pc = IF q.url = <<>> THEN "select" ELSE "look",  \* no round without a slash
                       !.tree = tree, !.recent = recent, !.at = Dir(q.url)]]
  IN /\ q.pc = "self"
     /\ \/ UsesExisting(q.url) /\ then(q.tree, q.recent) /\ UNCHANGED excused
        \/ FetchesAndSaves(q.url, <<r, "crawl">>) /\ then(AddAnchors(q.tree, q.url), TRUE)
           /\ UNCHANGED excused
        \/ Fails(q.url) /\ Abort(r)
     /\ UNCHANGED <<site, digest>>

\* The loops over j and i: srcDepth rounds of srcDepth + 4 steps, each round
\* from the directory of the URL.
NextStep(q) == IF q.i < Len(q.url) + 4 THEN [q EXCEPT !.i = @ + 1]
               ELSE IF q.j < Len(q.url) - 1 THEN [q EXCEPT !.i = 1, !.j = @ + 1, !.at = Dir(q.url)]
               ELSE [q EXCEPT !.pc = "select"]
NextRound(q) == NextStep([q EXCEPT !.i = Len(q.url) + 4])

LevelLinks(q, tree, head) ==
  LevelWiseDeeper(tree, head, [exclude |-> <<0>>, min |-> q.i - q.j,
                               max |-> q.i - q.j, number |-> MaxNumber])
\* The subtree was looked up before the anchors of its page were added, but
\* shares its maps with the tree: new links below it are found at once.
Climb_stepsUpWithoutSubtree(q, head, tree) ==
  LET links == IF Found(q.tree, q.at) THEN q.links \o LevelLinks(q, tree, head) ELSE q.links
      above == [q EXCEPT !.tree = tree, !.crawled = @ \cup {head}, !.links = links, !.at = Dir(head)]
  IN IF Len(links) >= MaxNumber THEN [above EXCEPT !.pc = "select"]
     ELSE IF head = <<>> THEN NextRound(above)
     ELSE NextStep(above)
Climb(q, head, tree) ==
  LET links == q.links \o LevelLinks(q, tree, head)
      above == [q EXCEPT !.tree = tree, !.crawled = @ \cup {head}, !.links = links, !.at = Dir(head)]
  IN IF ~Found(q.tree, q.at) THEN NextStep([q EXCEPT !.tree = tree, !.crawled = @ \cup {head}, !.at = head])
     ELSE IF Len(links) >= MaxNumber THEN [above EXCEPT !.pc = "select"]
     ELSE IF head = <<>> THEN NextRound(above)
     ELSE NextStep(above)

Look(r) ==
  LET q == req[r]
      head == Head1(q.tree, q.at)
      then(q2) == req' = [req EXCEPT ![r] = q2]
  IN /\ q.pc = "look"
     /\ \/ head \in q.crawled /\ then(NextStep([q EXCEPT !.at = head]))
           /\ UNCHANGED <<fresh, owner, excused>>
        \/ /\ head \notin q.crawled
           /\ \/ UsesExisting(head) /\ then(Climb(q, head, q.tree)) /\ UNCHANGED excused
              \/ /\ FetchesAndSaves(head, <<r, "crawl">>)
                 /\ then(Climb([q EXCEPT !.recent = TRUE], head, AddAnchors(q.tree, head)))
                 /\ UNCHANGED excused
              \/ Fails(head) /\ Abort(r)
     /\ UNCHANGED <<site, digest>>

\* One link after the other, until enough of them are on the file system.
Select(r) ==
  LET q == req[r]
      p == q.links[q.k]
      q2 == IF q.k > Len(q.links) THEN q
            ELSE IF p = q.url THEN [q EXCEPT !.k = @ + 1]
            ELSE IF p \in fresh \ site.moved THEN [q EXCEPT !.k = @ + 1, !.taken = Append(@, p)]
            ELSE [q EXCEPT !.k = @ + 1, !.missing = Append(@, p)]
      over == q2.k > Len(q.links) \/ (p # q.url /\ Len(q2.taken) >= Count)
  IN /\ q.pc = "select"
     /\ req' = [req EXCEPT ![r] =
                  IF ~over THEN q2
                  ELSE IF Len(q2.taken) >= Count THEN [q2 EXCEPT !.pc = "save"]
                  ELSE [q2 EXCEPT !.pc = "fetch", !.pending = 1..Len(q2.missing)]]
     /\ UNCHANGED <<site, fresh, digest, owner, excused>>

\* A job of the distribution (Distrib.tla), perhaps after the request that
\* wanted it has been answered.
Work(r, n) ==
  LET q == req[r]
      p == q.missing[n]
      ends(done) == req' = [req EXCEPT ![r] = [q EXCEPT !.pending = @ \ {n},
                      !.finished = IF p \in site.moved THEN @ ELSE @ \cup done]]
  IN /\ q.pc \in {"fetch", "save", "done"} /\ n \in q.pending
     /\ \/ UsesExisting(p) /\ ends({n})
        \/ FetchesAndSaves(p, <<r, "job">>) /\ ends({n})
        \/ Fails(p) /\ ends({})
     /\ UNCHANGED <<site, digest, excused>>

\* The distribution has returned some of the results; up to one more than are
\* missing are used, if they are fresh.
Collect_linksNotAdded(r, S) ==
  LET q == req[r] IN
  /\ q.pc = "fetch" /\ S \subseteq q.finished
  /\ Cardinality(S) <= Count - Len(q.taken) + 1
  /\ req' = [req EXCEPT ![r].pc = "save", ![r].recent = @ \/ S # {}]
  /\ owner' = [p \in DOMAIN owner |->
                 IF \E n \in S : p = q.missing[n] THEN <<r, "crawl">> ELSE owner[p]]
  /\ UNCHANGED <<site, fresh, digest, excused>>
Collect(r, S) ==
  LET q == req[r]
      used == {q.missing[n] : n \in S}
      order == SetToSeq(S)
  IN /\ q.pc = "fetch" /\ S \subseteq q.finished
     /\ \A n \in S : q.missing[n] \notin site.old
     /\ Cardinality(S) <= Count - Len(q.taken) + 1
     /\ req' = [req EXCEPT ![r] =
                  [q EXCEPT !.pc = "save", !.recent = @ \/ S # {},
                            !.taken = @ \o [m \in 1..Len(order) |-> q.missing[order[m]]],
                            !.tree = Path2DirTree(@, UNION {Links(p) : p \in used}, FALSE)]]
     /\ owner' = [p \in DOMAIN owner |->
                    IF p \in used THEN <<r, "crawl">> ELSE owner[p]]
     /\ UNCHANGED <<site, fresh, digest, excused>>

\* The tree is saved if something was found in the last ten seconds, in place
\* of what others have saved since it was loaded, or of all if it was not.  An
\* error is only logged: the old file is still there, or one that is torn.
Save(r) ==
  LET q == req[r]
      done == {o \in Requests : req[o].pc = "done"}
  IN /\ q.pc = "save"
     /\ \/ q.recent /\ digest' = SavedDigest(q) /\ excused' = excused \cup (done \ q.base)
        \/ UNCHANGED digest /\ excused' = excused \cup {r}
        \/ q.recent /\ digest' = NoDigest /\ excused' = excused \cup done \cup {r}
     /\ req' = [req EXCEPT ![r].pc = "done"]
     /\ UNCHANGED <<site, fresh, owner>>

\* Ten seconds after the last find nothing counts as recent any more.
TenSeconds == /\ digest' = [digest EXCEPT !.recent = FALSE]
              /\ req' = [r \in Requests |-> [req[r] EXCEPT !.recent = FALSE]]
              /\ UNCHANGED <<site, fresh, owner, excused>>

TenHours == /\ \A r \in Requests : req[r].pc \in {"idle", "done"}
            /\ fresh # {} /\ fresh' = {}
            /\ UNCHANGED <<site, digest, req, owner, excused>>

SNext == \/ \E r \in Requests : \/ \E u \in Urls : Start(r, u)
                                \/ Self(r) \/ Look(r) \/ Select(r) \/ Save(r)
                                \/ \E n \in req[r].pending : Work(r, n)
                                \/ \E S \in SUBSET req[r].finished : Collect(r, S)
         \/ TenSeconds \/ TenHours
SSpec == SInit /\ [][SNext]_simvars

----------------------------------------------------------------------------
(* Properties *)

Ends(tree) == {p \in DOMAIN tree : tree[p].end}

\* A page that fetchSave has put on the file system is not crawled again for
\* ten hours, so its links must be in the saved digest once the request is over.
\* They miss only after an abort, a find older than ten seconds, a save that
\* failed, a save by a request that had not loaded them, because another was
\* faster or the digest could not be read, or a job whose result the request
\* did not use.
PagesDigested ==
  \A p \in DOMAIN owner :
    LET r == owner[p][1] IN
    (p \in fresh /\ owner[p][2] = "crawl" /\ req[r].pc = "done" /\ r \notin excused)
      => Links(p) \ {<<>>} \subseteq Ends(digest.tree)

\* The climb of FetchSimilar keeps in step with its counters i and j, also where
\* the digest ends below the wanted directory: a directory that is about to be
\* searched is i above the URL, links are never deeper than the URL nor higher
\* than the rounds so far allow, and a link is found at most once from each
\* directory above it.
OnTheLadder ==
  \A r \in Requests :
    LET q == req[r] IN
    q.pc = "look" =>
      /\ (Found(q.tree, q.at) /\ q.at \notin q.crawled) => Len(q.at) = Len(q.url) - q.i
      /\ \A n \in 1..Len(q.links) :
           /\ Len(q.links[n]) \in (Len(q.url) - q.j)..Len(q.url)
           /\ Cardinality({m \in 1..Len(q.links) : q.links[m] = q.links[n]})
                <= Cardinality({h \in q.crawled : IsPrefix(h, q.links[n])})

=============================================================================
