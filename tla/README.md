# Specifications of pbberlin/tools2

TLA+ models of the stateful parts of this repository, checked with TLC, and
theorems about them, proved with TLAPS. Line numbers refer to files under
`src/`. `PROJECT.json` lists for every definition the lines it models, for every
property the run that checks it and a change of the code that would break it.

1. Inventory of the system
2. What is modelled: modules, state, actions
3. The runs: what they check and show
4. Bounds, and why they are enough
5. Fairness
6. Theorems
7. Where code and comments disagree
8. What is not modelled
9. Plan

## 1. Inventory

The repository is a collection of Go packages for Google App Engine: a
distributed file system with several implementations, storage helpers, a small
news crawler and its document processing, a web application and the programs
that publish a site to it, and libraries. Requests run concurrently, on several
instances that share nothing but the datastore and memcache; within a request,
`distrib` and `net/http/repo` start goroutines.

| part | state | operations | interacts with | what is hard | what makes it correct |
|---|---|---|---|---|---|
| `distrib` | atomics `lcnt`, `sent`, `opt.Want`; channels `inn`, `out`, `res`, `fin` | `Distrib()` | called by `net/http/repo/8_fetch_similar.go` with jobs that fetch pages | three stages that signal to each other through atomics, time-outs, tear-down | each result at most once; nothing that was started is forgotten; the call returns; goroutines exit |
| `dsu`, buffered put and get | an entity, its memcache item, a map per instance | `BufPut`, `BufGet`, invalidation by multicast | used by templates, payments, blobstore pages | three copies of a value, side effects inside a transaction that may be run again | what is served was stored; stale only where another instance wrote |
| `dsu`, `McacheSet` | a memcache item | `McacheSet`, `McacheGet`, `McacheIncrement` | used by the counter | compare-and-swap with retries | last one wins, no request fails |
| `dsu/distributed_unancestored` | shard entities, the number of shards, memcached totals | `Increment`, `Count`, `AdjustShards` | `McacheSet`, page counters | retried transactions, queries on a lagging index | no increment lost or counted twice; all use the same shards |
| `os/fsi/dsfs` | directory and file entities, memcached directories, an index | the `fsi.FileSystem` interface, `DeleteAll` | `fsi/common.Walk`; used by upload, file server, `repo` | operations on several entities without a transaction; a cache next to the datastore | no path without its parents; removal is complete; reads agree with the store |
| `os/fsi/memfs` | map of files, a map per directory, an RW lock and a lock per file, a shadow file system | the same interface | `fsi/common`, `repo`, `dedup`, `tplx` | nested locks, unlocked maps, entries in two maps | the maps agree; no deadlock; what is written is read |
| `omap`, `omap/osmap` | a left-leaning red-black tree | `Insert`, `Find`, `Delete`, `Do`, `Len` | sorted output in several packages | the shape of the tree over long sequences of calls | it is an ordered map |
| `omap/osmaps` | the same tree with up to 12 pairs per node, in a linked list | `Insert`, `Find`, `Do` | benchmarks | splitting of nodes | it is an ordered map |
| `net/http/repo` | directory digest, fetch queue, stored articles | `FetchUsingRSS`, `FetchSimilar`, commands | `distrib`, `fetch`, `fsi` | a goroutine pipeline with shared variables and a time-out; requests that share a digest | every article fetched or abandoned, under its own URL; the digest keeps what was found |
| `text/levenshtein` | none | distance, edit script, application of the script | `dedup` | boundary rows, choice among equal costs | the script turns one text into the other at the cost of the distance, and none is cheaper |
| `transposablematrix` | a matrix, its outline, a reservoir of amorphs with indexes | casting, turning, fusion of outline sections, search for matching amorphs | terminal display | many cases of geometry in four perspectives | amorphs are painted whole, over no other, the same from every side |
| `net/http/domclean2`, `dom` | an HTML tree | a fixed sequence of passes | `dedup`, `proxy1` | clones and moves of nodes, order of passes | what is read survives |
| `net/http/dedup` | documents in shared files, the level being compared | `Dedup` | `levenshtein`, `domclean2`, `memfs` | requests share files, their positions and a package variable | an answer is of the article asked for, without what all articles repeat; requests that do not overlap do not meet |
| `net/http/fetch` | none | one request with redirects and fall-backs | `repo`, `proxy1`, `coinbase`, `huprep` | retries | what is asked is sent, and the answer is that of the server |
| `net/http/upload`, `huprep`, `up2ds` | the built site, the files of each target | build, zip, upload, unpack, reset of caches | `dsfs`, file server, `tplx` | several targets, partial failure, overlapping uploads | every target serves the whole site |
| file server, `tplx`, `loghttp` | none (but closing a file saves it); the template in a mutex-guarded map and a memfs | serving files and listings; rendering pages, resetting the template | `dsfs`, `memfs` | a reset under running requests | a page has its template; the program does not end |
| `coinbase` | invoices in the datastore | callbacks, payment requests | `dsu`, `fetch` | notifications repeated, out of order, lost | one invoice per settled order, and none without |
| `appengine/instance_mgt` | the instance's own record | filled on first use and every ten minutes | the multicast of `dsu` | filled without a lock | who is given the record can use it |
| `namespaced_taskqueued_cntr` | an entity in each of two namespaces, a task queue | increments by request and by task, read and reset | | reset outside a transaction, tasks run more than once | nothing committed is lost |
| the rest | none, or one platform call per handler | pages, rendering, conversions, command line tools | | | |

Interactions that matter for correctness: `FetchSimilar` relies on `Distrib`
returning in time; the counter composes `McacheSet` with transactions; `Walk`
runs over any file system and calls back into it between two of its steps;
`RemoveAll` of `dsfs` composes `Walk` with `Remove`; both file systems hand out
files with the same code; `Dedup` composes cleaning, comparison and a shared
file system; a publisher's uploads and a visitor's request meet in the file
system of a target.

The hazards this code has, each at its line and with the properties that would
catch it, are the `hazards` of `PROJECT.json`.

## 2. What is modelled

| module | models | kind |
|---|---|---|
| `Distrib` | `distrib/main.go` | state machine, one action per step of a goroutine |
| `DistribContract` | what callers of `Distrib()` may rely on | abstract specification |
| `DsuBuffer` | `dsu/put_get_buffered.go` | state machine |
| `McacheSet` | `dsu/put_get_memcache.go` | actions, without a specification of its own |
| `ShardedCounter` | `dsu/distributed_unancestored/sharded_counter.go` | state machine, composed with `McacheSet` |
| `DsFs` | `os/fsi/dsfs`, with `os/fsi/common/walk.go` | state machine |
| `MemFs` | `os/fsi/memfs` | state machine, one action per section under the lock |
| `FileObject` | the open files of `memfs` and `dsfs` | state machine |
| `OMap` | `omap/omap`, `omap/osmap` | state machine over a recursive data structure |
| `OSMap` | `omap/osmaps` | the same |
| `OrderedMap` | what these maps promise | abstract specification |
| `DirDigest` | `net/http/repo/6_dir_digest_*.go` | operators on trees |
| `FetchSimilar` | `net/http/repo/8_fetch_similar.go` | state machine, uses `DirDigest` |
| `FetchPipeline` | `net/http/repo/4_fetch.go` | state machine, uses `DirDigest` |
| `Grid`, `Shapes`, `Outline`, `Fusion` | `transposablematrix`, the matrix, the amorphs' shapes and indexes, the outline, the gaps | actions and operators, each on top of the one before |
| `Layout` | `transposablematrix/4*.go`, `50-...go`: heuristics and their application | state machine, composes them |
| `EditDistance` | `text/levenshtein` | operators |
| `Dom`, `DomClean` | `net/http/dom`, `net/http/domclean2` | operators on trees; a state machine, one step per pass |
| `Similar` | text extraction and comparison of `net/http/dedup` | operators |
| `Dedup` | the pipeline of `net/http/dedup` | state machine, composes `DomClean`, `EditDistance` and `Similar` |
| `UrlGetter` | `net/http/fetch` and the handlers that show what it returns | state machine |
| `Payment` | `net/http/coinbase`, with the wrapper of handlers `net/http/loghttp/adapter.go` | state machine |
| `NsCounter` | `appengine/namespaced_taskqueued_cntr` | state machine |
| `InstanceInfo` | `appengine/instance_mgt` | state machine |
| `Publish` | `net/http/upload`, `huprep`, `up2ds` | state machine |
| `FileServer` | `net/http/fileserver` | state machine, composed with `Publish` |
| `Template` | `net/http/tplx` | state machine |
| `MC...` | | compositions and instances for TLC |
| `DistribProofs`, `DsuBufferProofs`, `ShardedCounterProofs`, `DsFsProofs`, `MemFsProofs`, `RepoProofs`, `AlgorithmProofs`, `WebProofs` | | theorems about the module, or the instances, of the name; `AlgorithmProofs` is about `Grid`, `Layout`, `EditDistance` and `OMap` |

`Distrib`, `DsuBuffer` and `ShardedCounter` are checked as they are, with constants
from the configuration. An MC module is there where a run combines independent
components (`MCMemFs`, `MCRepo`, `MCDocs`, `MCWeb`, `MCOMap`) or where inputs are
structured values (`MCDsFs`, `MCLayout`). What they define is as
general as the components: the small instances are definitions that only the
configurations refer to, so that the theorems that extend `MCMemFs`, `MCRepo` and
`MCWeb` do not depend on them.

**Distrib.** The loader (`s1`, `idx`), the workers (`s2`, `held`, `timer`) and
the collector (`s3`, `returns`) are the three stages; `pst` follows each packet
and the goroutine `workWrap` started for it. Channels are unbuffered, so that a
send and the matching receive are one step of two goroutines. `lcnt`, `sent` and
`want` are the atomics: the loader's increment, its store of `idx`, and the
collector's stop signal are separate steps. `CollectRemainder` is an option
of the call and therefore chosen in `Init`; it never changes.
`DistribContract` sees only returned and abandoned tasks and whether the call is
open; `ImplementsContract` is the refinement.

**DsuBuffer.** One key: keys do not interact. A put stores the request's own
name, so that one sees whose value is where. Within the closure of the
transaction, `datastore.Put`, the memcache set, the write to the instance map
and the multicast are steps, as is the commit, which may fail and send the put
back to the beginning. Instances restart (and lose their map) between any two
steps. `Attempts` is how often the platform tries a transaction; `Outrun` marks a
put that lost all of them to other commits. The multicast handler decodes the message and, as in the source, changes
nothing.

**McacheSet, ShardedCounter.** A fetched memcache item carries a hidden version;
the model has a flag `fresh` that falls when anybody changes the item. The
counter's transactions have the optimistic concurrency of the datastore: `behind`
says that another commit came first. Queries see `indexed`, which catches up
with `stored` shard by shard. A query that fails leaves `Count` in its loop for ever
(`QueryFails`): the loop ends at `Done` only, and the iterator of the datastore repeats
its error, which is taken from the library's documentation, as it is not in `src/`. `low` and `counted` are history variables that
only properties read.

**DsFs.** A node is a path below the mount point. A directory entity has its
modification time (the mode is not stored, `20_types.go:41`), a file entity is
there or not; contents play no part. `client[c]` is the operation of a
client: the program counter `pc`, the node worked on (`cur`), the running lookup
(`look`, and `ret`, where to go on) and its result (`hit`), and for `RemoveAll`
the nodes still to visit and those already found. `dirByPath`, `fileByPath` and
`saveDirByPathExt` are written once and used by all operations, as in the
source. `stat` stands for `Stat`, `Lstat` and `Open`, which make the same calls,
`chtimes` for `Chmod` too, `mkdir` for `MkdirAll`, `writeFile` for `Create`.
A result of a query on the index is any set of nodes when the index lags. An
error of memcache yields the empty directory object (`Blank`), an error of the
datastore `Failed`. The conditions of a behaviour (`mode`) are chosen in `Init`.
`cut` and `raced` are history variables.

**MemFs, FileObject.** `fos` maps keys to file objects; a key is a node with the
form of its path, with or without a final slash, because the code keeps
directories under the one and files under the other. `files[i].memDir` is the
directory map of an object. What a client has still to do is a list of tasks
(`todo`), as the calls in the code nest: `Open` within `Mkdir` within `Create`.
`readers` counts the read locks that each client holds, `waiting` are the clients
that have asked for the write lock and so keep new readers out (the rule of
`sync.RWMutex`). Map accesses outside the lock are actions that may happen
between those of another client (`MapRace`: the runtime then ends the program).
`raced` and `cut` are history variables: the paths that two clients made at once, and
which of `RemoveAll`, `Rename` and meeting a nil entry have happened. `io.Copy` from the
file system behind is a task `copy` that takes one of two chunks at a time and may fail
(`Copy`, `CopyFails`); a file of the file system behind holds its path twice, so that one sees a
missing or a misplaced chunk. `torn` is a history variable of a file: its copy has failed, or
somebody has set its position back in the middle (`SetBack`). `FileObject` is one file object with its
shared position, its mutex and its users; it is checked by itself, since what
happens to a file's contents does not depend on the maps.

**OMap, OSMap.** The trees are nested records. Code that changes nodes in place
becomes functions from trees to trees, which is the same because no node is in
two trees once an operation is done. The recursive methods of `OMap` are recursive
functions of the subtree; their domain, `Tree`, is every tree of at most `MaxLength` pairs.
`Pairs` and `DoIn` compute what `Find` and
`Do` return, and are the refinement mapping to `OrderedMap`. In `OSMap` a node
has several pairs in the order of arrival, each with the index of its
successor; an index that leads out of the slice makes the operation panic.

**DirDigest, FetchSimilar, FetchPipeline.** A digest is a function from
directory paths to what is kept of each. Requests of `FetchSimilar` share the
stored pages and the digest; each works on its own copy and saves it at the end.
Errors in reading the digest give an empty one (`LoadDigest`), errors in saving it
leave the old one or one that cannot be read any more (`Save`), and a page that was fetched may
fail to be written; the code only logs them.
Of a stored page counts only whether it is less than ten hours old: `fresh` is the
set of those, and an older page is fetched again as if it were not there.
`Distrib` appears by its contract: any subset of the finished jobs comes back.
In `FetchPipeline`, `cell` is the loop variable whose address is sent through the
channel: the model has a pointer where the code has one, so that workers read
and write what the loop overwrites. `saved` maps the URL of a file to the body that was
written last, for the writes that did not fail.

**Grid ... Layout.** `slot` is the matrix in base coordinates, `persp` and
`centre` say from where it is seen, `outmost` and `limits` are kept by every
`Set` as in the code. The reservoir's indexes are functions of the amorphs in
`stock`. A heuristic is the set of results it may have, since the code takes the
first element of a map; the layout has one action per cast, addition,
restriction, turn and application.

**EditDistance, Dom, DomClean, Similar, Dedup.** A text is a sequence of words,
a tag one word, a URL a sequence of parts. Parsing what was rendered is taken to
yield the same tree. `rows` and `cols` are the two slices that `EditDistance`
compares; its matrix, script and application of a script are operators on them. `doc` goes through `Passes` one by one. A request of `Dedup`
has its own articles and trees; `levelsToProcess` and the files are shared as in
the code: `fos` leads from a name to the object that was created last, `object` holds
its document and whether its position is behind it, and a request that creates a file
goes on with whatever object is under the name after the lock is given back
(`Create`, `Created`). `Written` says what a parser makes of a document that was written
after, or over, another one. `met` is the history of who ran at the same time.

**UrlGetter, Payment, NsCounter, InstanceInfo, Publish, FileServer, Template.**
Every outside party (a server that is asked, Coinbase, the datastore, a task
queue, curl) may answer with anything it can answer with, more than once and
late; the map marks these definitions as external. `Publish` and `FileServer` share the
targets' file systems, so that visits happen in the middle of uploads; a visitor holds the file
as it was opened and may save it back at the end, since `dsfs` closes a file by
saving it (`Close`). In `UrlGetter` a redirect may lead to either scheme, and turn a POST into a GET;
`hop` tells such requests from those that `UrlGetter` makes itself. In
`Template` the mutex and the map are fields of one variable that a reset copies
and replaces (`locked`, `template`); a late `Unlock` may thus meet a mutex that
nobody holds.

## 3. The runs

| run | expects | shows |
|---|---|---|
| `distrib_safety` | pass | With both exit modes and workers that all may time out: each result at most once, abandoned work is not delivered, `sent` means what the exit condition takes it to mean, where a tick may end the loop nothing is missing unless the loader has yet to count its last hand-over, and then one packet is (any one, section 7), at most `Workers + 1` surplus results, and the stop signal survives the loader's increments. |
| `distrib_liveness` | pass | With one worker that never times out, `Distrib()` returns in both modes when there is enough work, closing `fin` releases every goroutine, and the pipeline implements `DistribContract`. |
| `dsu_coherence` | pass | `MemoryCoherent`: if puts do not overlap with other requests of their instance and calls do not fail, the map of an instance is empty, right, or out of date because of other instances only, over retries, evictions and restarts; or it holds the value of a put that other instances outran in every attempt, which nobody takes out again. In all conditions a value that is served and was never stored belongs to a put that reported no success. |
| `counter_safety` | pass | Concurrent `Increment`, `Count` and `AdjustShards` with conflicts, failing transactions and memcache errors: no increment is lost or counted twice, all use the same number of shards, and a count lies between what the index showed when it began and what is stored when it ends. |
| `dsfs_safety` | pass | A cached directory differs from the datastore only because of an identifiable race or failed call. Without failures no file and no directory is ever without its parent, except below one that was removed without a look at its contents, or while a `Mkdir` is on its way up. An undisturbed `RemoveAll` leaves nothing. |
| `memfs_safety` | pass | `Listed`: what is created is found by listing, unless two clients made the same object at once, or its parent was made again, over or beside itself. `HarmedOnlyByRemoval`: deadlocks need a `RemoveAll` or an `Open` that met a nil entry, a nil entry needs a renaming, and panics a removal or a renaming. `ServesShadow`: while nobody removes or renames, a reader of a file of the underlying file system that no request makes gets all of it, unless another client is still copying it, two filled it at once, or the copy failed or was set back on its way by another `Open`. `NothingSkipped`: an open file has all that was written, in order, unless somebody moved its position; a listing says EOF after its entries only. |
| `repo_fetch` | pass | `PagesDigested`: the links of a page that is not to be crawled again are in the saved digest, but for the reasons named there: an abort, an old find, a save that failed, a save by a request that had not loaded them (also because the digest could not be read), a job whose result came too late. `OnTheLadder`: the climb keeps in step with its counters, also where the digest lacks a directory. `AllCollectedSaved`: for every URL under which the collector took articles, the body of the last of them is in the file, unless its write failed, or `Wait` came before `Add`; and nothing else is. `PipelineEnds`: the handler returns and no worker is left at a channel. |
| `repo_own_body` | violation | `OwnBody` fails: the pipeline saves the body of one article under the URL of another (section 7). |
| `omap_safety` | pass | A map that only grows implements the abstract ordered map and stays a balanced left-leaning tree. With deletes, `Find` and `Do` still agree, and `Delete` takes the pair of its key and puts none in. `KeepsPairs`: in a map with several pairs per node, `Do` visits the pair of every insert with its latest value and loses no other; until a node is split for the second time `Find`, `Len` and the answers of `Insert` agree with that and nothing panics. In order `Do` does not visit them (section 7). |
| `layout_safety` | pass | `SameFromEverySide`: every perspective shows the same picture, with the extremes where they are. `StairsFillExactly`: the edges by which an amorph is found are edges of shapes of its size. `PlacedWhole`: a placed amorph is painted whole unless it reaches the border, and over no other, but while all amorphs stand in one column. |
| `docs_safety` | pass | `KeepsText`: no pass but `cleanseDom` and the flattening loses a word, and none adds or moves one. `OptimalScripts`: edit scripts turn rows into columns at the cost of the distance, and however tokens are paired in order, the distance is not more than that costs. `AnswerFromThoseMet`: what overlapping deduplications answer may be mixed, but only of the articles asked for by requests that ran at the same time; alone, a request answers with its own. `CopiesRemoved`: words of a text that both other articles repeat at its level are not in the answer to a request that ran alone, unless they are elsewhere in the article. |
| `web_safety` | pass | Six independent components under all orders of their requests and all failures of what they call: of its own accord `UrlGetter` leaves https only after a certificate problem and repeats a POST only after a refusal, wherever servers redirect it to, and the body is that of the last answer (`FetchesAsAsked`); an invoice is of a completed order, under its key and with its amount, and every settled order has one unless a failure was acknowledged (`InvoicesMatchOrders`); counts add up but for writes between a read and its reset (`CountsAddUp`); the instance record is usable (`InfoUsable`); after a publisher's success every target has all of the archive, but for files that a visitor who had opened them put back, and a listing replaces an index file only after an error (`SiteAsPublished`); pages get a template and the program ends only in the unlocked read (`TemplateServed`). |

Some properties are claimed under conditions that the code does not enforce
(`orderly` in `DsuBuffer`, the modes of `DsFs`), or name the races that may break
them (`raced` in `DsFs` and `MemFs`, `met` in `Dedup`, `torn` in `MemFs`, `spoilt` in
`Publish`). The conditions are part of the state, and the same run explores the
other behaviours too. They say on what the promise of the code depends, and not
that the platform provides it.

## 4. Bounds

The theorems of section 6 remove these bounds for the properties they cover.

- `Distrib`: two workers and 4 or 5 packets. Two workers are enough for every
  order of two time-outs, results and hand-overs; with `Want = 1` and five packets
  the stop signal comes while packets are queued, under way and delivered.
- `DsuBuffer`: three requests on two instances: a get between two puts, on the
  same and on another instance. `Attempts = 2`, three on the platform: two are
  enough for a put that is tried again after a conflict and for one that
  is outrun in all its attempts, which with three would take a fourth request.
- `ShardedCounter`: three clients, two shards, pages of three, both totals in
  memcache. With three clients a shard can be in contention while a third
  request counts.
- `DsFs`: a mount point, a node below and one below that; two times; two
  clients with two operations in all, starting from every tree over these
  nodes, with every subset of directories cached. The tree that earlier
  operations have built is thus an input, and two operations are those that
  interfere. `MaxWalks = 1`: two `RemoveAll` at once are not explored.
  `DeleteLimit = 2` of three nodes makes the 500-entity limit bite. The mode
  `adverse` (overlap and failures together) is in the specification and not in
  the run, for its size.
- `MemFs`: two clients with up to five operations of one of seven `Setups` (making,
  removing, renaming, hiding a directory behind a file, filling from a shadow, filling against removal, sharing an
  open file), over a root, a directory, two files in it and a sibling whose
  name begins with that of the directory. Each setup has the operations that
  touch the same objects. `MaxObjects = 7` bounds the objects made, because a
  client that fills and one that removes may go on for ever. A file of the file system behind
is copied in two chunks: with two, one can miss, be overwritten by the other, or fail to come. `FileObject`: two
  users, `MaxLen = 2` words at a time, `MaxCalls = 4`, directories of no and of
  two entries.
- `FetchSimilar`: two requests on two sites, one with a page that fails and one
  that is old, the other without its middle level and with a redirect; directories
  of two levels, three URLs, one of them without a path, which does not climb; `MaxNumber = 4` for 45. `FetchPipeline`: two workers for three,
  `MaxClimb = 3` for 15, which still lets the loop variable be overwritten while
  both workers hold its address.
- `OMap`: five keys with two values. `MaxLength = 6` bounds `Len()`, which grows
  without end once pairs are lost, since only the counter remembers them.
  `OSMap`: five keys with two values, so that pairs are overwritten; a fan-out of three for twelve and four preallocated slices
  for 1500, so that nodes split twice and the slices run out.
- `Layout`: a matrix of 14 by 14 for 55 by 65, amorphs of 2, 5, 6 or 7 elements
  (straight, one-stair and two-stair shapes), at most six of them; three
  beginnings, from nothing, from two towers with a ledge, from a step; laid out
  from one perspective of each orientation and looked at from the next one.
  All five heuristics place amorphs within these bounds, and the error "no
  neighbour" occurs.
- Documents: pages of one or two out of eight fragments (links around images,
  spans, lists, forms, texts that look like tags) for `DomClean`; for `Dedup` articles of three documents
  and levels up to `StageMax = 2`: two requests with short articles that overlap in every way,
  and one with longer ones that runs alone, on which `CopiesRemoved` depends;
  slices of up to three tokens over three letters for `EditDistance`.
- Web: one request with up to two redirects (ten in the library) from every
  caller and platform; three callbacks about seven orders, two of the same
  buyer and product and five that are incomplete, damaged or not settled; two handlers and two runs of a task for the
  counters; three askers for the instance record, so that one fills while
  another reads and a third comes later; two targets, three uploads in all and
  one visitor; two versions of the template, two pages, two resets.

`CHECK_DEADLOCK FALSE` stands in every run but none hides a stuck system: all
behaviours consist of finitely many requests and end when these are done. Where
being stuck is the question, a property says it (`Termination`, `CleanExit`,
`PipelineEnds`, `HarmedOnlyByRemoval`, `TemplateServed`).

## 5. Fairness

`Distrib` and `FetchPipeline` are checked for liveness, since there a caller
waits for goroutines.

`Fairness` of `Distrib` is weak fairness of each goroutine (the Go scheduler runs
what can run), of each running timer, of `Work()` (a job ends; `repo` passes jobs
with a deadline), and of the collector's `select` for a ready ticker and for a
ready sender: Go chooses uniformly among ready cases, so that a case that stays
ready is chosen at some time. Workers in `Slow` may time out but need not.

`PFairness` of `FetchPipeline` is weak fairness of the steps of all its
goroutines taken together: some goroutine that can run does. Every path ends
because the climb, the articles and the time-out are finite in number, so that
fairness to single goroutines is not needed. Strong fairness is nowhere
assumed. The other components serve requests that need not come; their promises
are safety properties.

## 6. Theorems

Each theorem holds for any values of the constants that satisfy the assumptions
below: any number of clients, workers, requests and instances, any tree, site or
set of requests, any length of behaviour.

| module | theorem | states |
|---|---|---|
| `DistribProofs` | `TypeCorrect` | `TypeOK` |
| | `ExactlyOnce` | `DeliveredOnce`: no packet is returned twice |
| | `AbandonedForGood` | `AbandonedNotReturned`: nor after it was given up; no two workers share a packet |
| | `StopSignalSticks` | `StopIsSticky`: the loader's late increment does not undo the stop signal |
| | `FlushCutsOff` | without `CollectRemainder` the caller gets at most `Want` results |
| | `SentIsAccurate` | `SentAccounting`: the meaning of `sent` |
| | `RemainderIsCollected` | `RemainderCollected`: that a tick exit leaves nothing behind but one packet while the loader has a hand-over to count, and how many surplus results there may be |
| | `ContractImplemented` | `Spec => ImplementsContract`: `Distrib` refines `DistribContract` |
| `DsuBufferProofs` | `MemoryIsCoherent` | `MemoryCoherent` |
| `ShardedCounterProofs` | `IncrementsKept` | `NoIncrementLost` |
| | `CountsInBetween` | `CountBetween` |
| `DsFsProofs` | `CopiesAreRepaired` | `StaleOnlyByRace` |
| | `NoneVirtual` | `NoVirtualDirs` |
| | `NothingRemains` | `Spec => RemoveAllRemoves` |
| `MemFsProofs` | `MapsTyped` | the types of maps, objects, lock and tasks |
| | `HarmOnlyByRemoval` | `HarmedOnlyByRemoval` |
| | `CreatedIsListed` | `Listed` |
| | `ShadowIsServed` | `ServesShadow` |
| | `WritesAreKept` | `NothingSkipped` |
| `RepoProofs` | `CollectedIsSaved` | `AllCollectedSaved` |
| | `LinksAreDigested` | `PagesDigested` |
| | `ClimbKeepsInStep` | `OnTheLadder` |
| `AlgorithmProofs` | `SameFromAnySide` | `GridSpec => []SameFromEverySide`, if the first slot ever painted is not one of row or column 0 |
| | `StairsAreFilled` | `ReservoirSpec => []StairsFillExactly`: amorphs of any size, any placing of them |
| | `ScriptsAreOptimal` | `OptimalScripts`, for any two slices of any tokens |
| | `OrderedTree` | `Spec => []TreeInv`: the inductive invariant of `OMap` |
| | `TreeIsSearched` | `SearchTree`: `Do` visits in order what `Find` finds; a map that only grows is balanced |
| | `MapGrows` | `Spec => GrowsAsAMap`: in a map that only grows `Insert(k, v)` is that of `OrderedMap` with the same key and value, and `Find` finds the latest value |
| | `DeleteIsRight` | `Spec => DeleteRemoves` |
| `WebProofs` | `TemplateIsServed` | `TemplateServed` |
| | `InvoicesAreOfOrders` | `InvoicesMatchOrders` |
| | `InfoIsUsable` | `InfoUsable` |
| | `CountsAreKept` | `CountsAddUp` |
| | `FetchesKeepToTheRequest` | `FetchesAsAsked` |
| | `SiteIsPublished` | `SiteAsPublished` |

**Assumptions.** `DistribAssumption`: there are packets and finitely many workers,
at most as many as packets, and somebody wants a result; the early return and the
curtailing of `Distrib()` see to it. `DsuBufferAssumption`: a transaction is tried
at least once; an empty value, no value and a put are different things.
`CounterAssumption`: there are shards, and a page of the query holds them all
(`batchSize` is 11, and there are 4 shards). `McacheAssumption`: no number is taken for a
missing item. `DsFsAssumption`: finitely many paths, each begins at the mount point; a
time is no missing entity, empty object or error, and these are different.
`TreeAssumption` (`MemFs`): every node but the root has a parent among the nodes,
and requests are well formed. `PathAssumption` (`MemFs`): no path is above itself, and the
underlying file system has nothing below a file. `ObjectAssumption`: the length of a write is a number.
`LinksAssumption`, `UrlsAssumption` and `NumberAssumption` (`FetchSimilar`): a host has finitely many
links, links and URLs are paths, and the number of links that is enough is one. `GridAssumption`: the
matrix has a slot. `OMapAssumption`: keys are numbers and compared as such (finitely many keys of any
strict total order can be numbered in their order), and the bound of `Len()` is one. `SiteAssumption`: every
directory has a name for its index file. TLC evaluates them in the runs.

**How they are proved.** A property is seldom inductive; each proof has an
invariant that is, checked with TLC before, a lemma for the initial states,
one for each action or group of actions, and one that the invariant implies the
property.

- `DeliveryInv` (`Distrib`). That a packet is not handed out again depends on the
  loader's position (`LoaderInv`: every packet from its index on is still
  queued, although the collector overwrites `lcnt`); that two workers do not
  deliver it depends on who holds it (`HolderInv`); `ReturnInv` ties the slice to the
  state of the packets. `SentIsAccurate` argues about cardinalities, action by
  action, above `DeliveryInv`. `RemainderIsCollected` adds `StopInv` (who has been told
  to stop and what is then queued), `DrainInv` and `OverInv` (what is under way or
  busy after the loop, counted). The refinement maps each action to a task
  returned, a task given up, the return, or a stutter.
- `BufferInv` (`DsuBuffer`). A put writes the memory before it commits. Between these
  two steps the memory is neither current nor out of date, and the invariant says
  instead that it is the put's own and that nobody else is at work on the instance.
- `CounterInv`. `NoIncrementLost` is about a sum over the shards. `Sum` is defined as
  the cardinality of a set with one element per unit, so that the lemmas about it
  (an increment of one shard adds one, the sum is monotone) follow from the library's
  facts about finite sets and need no induction. `ShardInv` says that a
  transaction that is not `behind` is about to write one more than is stored;
  `ConfigInv` and `MemcacheInv` that all requests write to the same shards, which holds
  because `McacheSet` only ever stores the number that the entity has.
- `FsInv` (`DsFs`), for stale copies: who is about to cache a value holds the one in
  the datastore or there was a race (`FillInv`); and a copy that is out of date is
  about to be repaired by a client, or was raced.
- `TreeInv` (`DsFs`), for directories without parents: what a client knows from its lookup
  is true or was cut off (`Knows`), also through the cache (`CacheKnows`). For the mode in
  which one client is alone, `RemoveAll` needs more, at each of its steps: `Walks` says
  that what was taken and what is ahead hangs together and nothing is
  taken before its parent, so that a child of what was taken is taken later or
  still ahead; `Unwinds` that on the way back, from the last to the first, a
  directory is empty when its turn comes. `MetInv` adds for `RemoveAllRemoves` what becomes of
  the argument: it is ahead until it is taken, and taken until it is removed or found to be
  gone. With it goes what is below it, for what is left has not lost its parent
  (`NothingBelow`).
- `MemInv` (`MemFs`) is about lists of tasks: where in a list a `RemoveAll` keeps its
  place (`LoopOK`) determines the read locks its client holds (`ReadersInv`). No removals,
  no nil entries (`NilInv`) and no path missing where an earlier task
  does not supply it (`SoundInv`). `ListInv` adds for `Listed` that every list is
  `Formed`, that is, each task of a registration follows the one whose answer it
  builds on, and the first has that answer; and that everything present is entered
  with its parent (`Entered`) or a client is going to do so (`Registers`).
  `ShadowInv` adds for `ServesShadow` what each list has still to copy (`InTurn`): a put of
  the path comes before anything else at it and is followed by its copy, which occurs
  once, with both chunks or, where it is the call at hand, with the second. A client that has put and not yet
  copied all of it is at it alone (`FillsAlone`), with an object that is empty, or holds the first chunk with
  the position behind it, or is torn (`PartThere`); an object that is neither whole nor torn is that
  client's (`Whole`).
- `ObjectInv` (`FileObject`): as long as nobody has moved the position, the position that a
  `Write` read before it took the mutex is the end of the file, and only one has read it.
- `SimilarInv` (`FetchSimilar`) follows the links of a page from the tree of the
  request that crawled it into the digest and into the trees of requests that
  load this digest. That they are not lost when trees are merged rests on lemmas
  about `DirDigest`, which is written without recursion for that reason.
- `LadderInv` (`FetchSimilar`), for the climb: either the directory of the next step is
  as far above the URL as the counter says, or the climb has stopped at one that it has
  crawled (`InStep`), and each directory it has crawled gives each link at most once
  (`FoundOnce`). A crawled directory is not searched again, and its search has each
  result once: `LevelWiseDeeper` places every directory it wants at its rank, so that
  the lemmas about `DirDigest` show that `Before` is a total order on paths
  (`BeforeIsTotal`, `BeforeIsTransitive`), and that in a finite set every rank below its size is
  taken by exactly one (`PlacesTaken`). The paths in the trees are prefixes of links of the host, hence finitely many.
- `PipelineInv` (`FetchPipeline`): once the handler has waited, the collector has ended.
- `GridInv` (`Grid`), under `GridSpec`: any turns, any moves of the centre, any casts, also
  over other amorphs or beyond the border, as long as each has a number of its own. The
  extremes are described once, in base coordinates: each outmost point is the end of its
  line (`EndOf`) and each limit the reach of its outmost points (`Exact`), or nothing is filled
  and they have their first values. `PointPainted` shows that one `Set` keeps this;
  `SlotPainted` the same for the places in an amorph, which lie at one offset from the base coordinates
  during a cast (`InnerMoved`), and that of other amorphs do not change. `Painting` is a recursive
  function: that it exists (`PaintsSome`) and that each place keeps the invariant
  (`PaintingKeeps`) go by the least place where it would fail. From a perspective
  a direction is another one in base coordinates, shifted (`Turning`, `Shifted`), so that all
  perspectives are one case. The rim: an outmost point begins at `<<0, 0>>`, and a first slot
  on that line is not farther (section 7); `OffTheRim` leaves this cast out, and it is used
  for the first slot only.
- `ReservoirInv` (`Layout`), under `ReservoirSpec`: any amorphs, seeds, turns, viewports, and
  any application of the heuristics. The only thing asked of what these compute is that a number of
  elements is an integer (`Counted`), as its Go type says; the integers that come out of the
  outline are not followed. What an amorph is indexed by is not changed by the padding
  (`PlacedKeepsOwn`). For all sizes, each edge comes from a rectangle of at most as many rows and
  columns as elements (`RootWithin`, `RowsWithin`), and cutting a slack of `x * y` out of it leaves
  both limbs and the slack (`EdgesFill`). The shapes of 5 and 6 elements, which the tests of the
  package list, are computed by the provers (`ShapesOfFive`, `ShapesOfSix`).
- `EditDistance` has no steps; its recursive functions are followed by the least place at
  which a claim would fail, and that each of them exists is shown in the same way, by
  extending one that is defined up to there. Each cell satisfies the equation it was filled by
  (`Solved`), from which follows that `backtrace` finds a reason in every cell but the
  first, and takes it to a nearer one (`StepMoves`). `HalfWay` is what a script must have
  made of the rows when it has come to a cell: the columns up to it, followed by the
  remaining rows, with the positions shifted by the difference. The script of each cell
  leads there, at the cost in that cell (`AllRight`). For optimality, `Bounds` says of a cell that no pairing of the
  tokens before it is cheaper; of a pairing, either the last row or the last column is
  unpaired (`UnpairedPaid`), or both are, with each other (`PairedPaid`).
- `TreeInv` (`OMap`): what `Do` visits, as a sequence, is `Rising`, and no longer than what `Len`
  counts; in a map that only grows it is just as long, and the tree `Fits`: it has the same
  number of black nodes on each path and no red node under a red one.
  The recursive functions are shown to exist, as their bodies look at lighter
  trees only (`LightRecursion`), and followed by the lightest tree at which a claim would fail
  (`LightInduction`). A rotation or a colour flip leaves the visit as it was (`SettleSame`,
  `FixUpSame`), so that order is a matter of sequences: what `insert` puts in (`InsertionIs`), what
  `remove` takes out (`RemovalIs`), and where `Find` ends (`FindIs`). A removal compares its key with a
  node, then rotates, and descends from another node; the one that came to the top does not cut off
  the key (`MovesInOrder`). Balance is kept by inserts alone
  (`InsertionBalances`): a node that was split on the way down comes back red, a red node may
  come back with a red child on the left (`Half`), and its parent, which is then black and
  has no red child on the right, settles that (`SettleHalf`). Last, a sorted sequence is the
  only order of the pairs of its map (`MapInOrder`).
- In `WebProofs` each component has an invariant of its own: `TemplateInv` (who holds the
  mutex), `PaymentInv` (a handler that is about to save may), `InfoInv`, `CounterInv` (a
  write comes right after the read that it goes by, and knows what is stored or can tell
  that it does not), `GetterInv`, `SiteInv` (on a target that had its turn and is not
  spoilt at most one upload runs, and brings what the publisher sent).

**What the attempts brought to light.** `MemoryCoherent` did not hold as it was
first stated: with few attempts a put that is outrun by other instances in each of them
fails, but leaves its value in the memory (`put_get_buffered.go` writes it within
the transaction). The property now names this exception, and the run has few
enough attempts to show it. `HarmedOnlyByRemoval` said of a deadlock without `RemoveAll` that the
read lock is kept by a client that has returned; but the client whose `Open` met a nil entry
may come back with the next request and wait for its own lock. The run of
four operations was one too short to find it; it now has five. `Listed` was false as
first stated: a `Create` over a directory, or of a file beside one of the
same name, hides the object that has its entries (section 7). The property now requires
that the parent was made once (`MadeOnce`), and the setup `Hiding` shows why. `ServesShadow` held as first
stated only because the run is short: after a `RemoveAll` a file is filled again
while a reader has the old, empty object, and a request that writes the path replaces
the contents. It now says so (`cut = {}`, `OnlyRead`), and whose copy is to come. The proof
of `NoVirtualDirs` needs that a path begins at the mount point and that an error is
told from a missing entity, which `DsFsAssumption` now says. The proof of `OnTheLadder` met
a URL without a slash: the loop over `j` then makes no round, where the model had let it make one.

**Only model-checked**, and why:

- `Termination`, `CleanExit`, `PipelineEnds`: liveness under fairness.
- `KeepsPairs` (`OSMap`), `KeepsText`, `AnswerFromThoseMet`, `CopiesRemoved` (documents): what
  operators declared `RECURSIVE` compute on nested data.
- `PlacedWhole` (`Layout`): outlines walked and sections sorted by folds, whose result no
  prover can follow.

## 7. Where code and comments disagree

With a run of its own:

- `net/http/repo/4_fetch.go:284` (`repo_own_body`): `stuffStage1` sends the address
  of its loop variable. The next article overwrites it while a worker still
  fetches, so that a body is saved under the URL of another article.

Seen while modelling; the properties of section 3 name these as exceptions or
leave them out:

- `distrib/main.go:216`: `break NextPacket`, commented "skipping this packet",
  ends the worker, as the label is on its loop. When all workers have timed out
  once, nobody takes packets any more and the call hangs. `distrib_liveness`
  therefore has one worker that is never slow, and says nothing of the case that all time out.
- `distrib/main.go:263-280`: without `CollectRemainder` the exit is looked for
  on receipt of a packet only; if the last one arrives before the loader
  has signalled exhaustion the call hangs, although lines 49-50 announce a
  "premature flushing". Lines 24-27 say all sent packets are received; but `sent` is counted after the
  hand-over, while the collector may look at it in between, and one packet is lost. It need not be the
  one that is not counted: with `Want = 1` a first packet is handed over and counted, a second one is handed
  over and comes back before it is counted, and the next tick sees one received of one sent and
  ends, with the first still under way (`RemainderCollected` bounds the loss). Line 185: the time-out of a packet is armed before the
  worker waits for one, so that idle time counts.
- `dsu/put_get_buffered.go:57`: the lookup in the instance map sets the pointer
  to nil that memcache is to decode into; memcache never serves (line 50 says it
  does). `dsu/doc.go:98-106`: the handler of the multicast does not invalidate.
- `dsu/put_get_memcache.go`: after the "brutal" fall-back to `Set` (line 117) the
  loop goes on with the item it fetched at the beginning, and panics after three
  attempts, although "last one wins should apply anyway" (lines 85-87).
- `sharded_counter.go:71` and `84`: `Count` stores under a key it does not
  read; memcache never serves it. Lines 108-128: an error of the
  iterator does not end the loop, and `Count` does not return. Lines 200 and 203: `AdjustShards` writes
  another entity than the one `Increment` reads.
- `os/fsi/dsfs/0_doc.go:21`: "Direct directory reads are always consistent". The
  cache is filled apart from the datastore call (`low_level_dirs.go:44`, `117`),
  and keeps deleted directories. `mcache.go:37`: an error of memcache counts as a
  hit of an empty directory; `Chtimes` then saves the mount point in place of its
  argument. `30_fs_impl.go:54-67`: `Chtimes` stores `atime` as the modification
  time; `Chmod` stores nothing. `40_file_impl.go:20`: `Close` keeps the mutex if
  `Sync` fails. Lines 146: a write past the end drops what was there.
- `os/fsi/memfs/30_fs_impl.go:301`: `Remove` looks for a file called "name" and never
  removes anything. Line 142: `Open` keeps the read lock when it meets a nil entry,
  which `Rename` leaves (352); `Rename` does not touch the directory maps. Line
  328, commented "now readlocked, therefore ok": `RemoveAll` takes the read lock a
  second time, and deadlocks with a client that wants the write lock in between;
  it also removes siblings whose names begin with that of its argument, and panics
  for the root. Line 83: `Create` replaces a directory by an empty file, and a file of the
  name of a directory is found in its place (line 129); what is in it is no longer listed. Lines 39-64: `Chmod` and `Create` read the map without the lock.
  Lines 251-255: when the copy from the file system behind fails, `Open` returns the error, but the file
  stays registered, empty or in part, and every later `Open` serves it; an `Open` of a file that is being
  copied sets the position of the copy back, and the next chunk goes over the first.
- `omap/omap/omap.go:284`, and the same in `osmap`: `insert` leaves nodes with two
  red children, `fixUp` assumes that there are none. Insert 2, 1, 3, delete 5,
  insert 4, delete 5, delete 1: key 3 is gone as well (against lines 122-124).
- `omap/osmaps/osmaps.go:233`: after a split the lists of successors point into the
  old node. `Find` then misses pairs that are there, inserts answer false for new
  keys, indexes run out of range; and `Do`, "in order" by lines 120-122, visits
  the pairs of a node as they arrived. `Delete` is a stub.
- `net/http/repo/8_fetch_similar.go:203`: if one of the pages above cannot be fetched,
  the request returns without saving the digest; its pages are not parsed again
  for ten hours, although line 61 speaks of a full crawl. `6_dir_digest_1.go:194-220`: a digest that cannot be
  read is taken for an empty one and then overwrites the file; lines 256-276: nobody hears of a digest that
  could not be saved. `4_fetch.go:213-236`: nor of articles that could not be; articles with one URL overwrite each other. Lines 59-69: a missing
  directory keeps the round at `j=0`. `6_dir_digest_3.go:91`: the text "not found"
  counts as an article. `4_fetch.go:116`: the collector sets `out` to nil while
  workers select on it.
- `transposablematrix/10-matrix.go:382`: the outmost points begin at the origin, as the remark
  in that line knows; a first slot in the first row or column does not replace those
  on its line, and `FilledMinMax` then returns a point that is not filled (against lines 121-122). No
  program paints there. `30-outline.go:38`: while all slots filled stand in one column
  the matrix is taken for empty, and the next amorph is painted over them, which
  `10-matrix.go:457` wants a panic for. `31-outline-enhance.go:33-39`: two
  perspectives read the viewport with its axes swapped. `22-edges-permutated.go:40`
  says "all conceivable" shapes; those with one stair are missing from seven
  elements on. Amorphs cast by hand stay in the indexes unless their caller
  removes them.
- `net/http/domclean2/01_cleanse.go:191`, `200`: the tests for tags look at the text
  of text nodes too: a text "link" or "style" is removed, "header" becomes "div". Likewise
  "span" and "img" in later passes. `05_breakout_imgs_from_a_trees.go:72-73`: a
  second image in a link is lost. `07_...v3.go`: elements not listed are dropped
  with their contents below level 4. `08_proxify.go:151-164`: a redirect target is
  never made absolute.
- `net/http/dedup/7_pipeline.go:125-127`: distances are summed and not averaged
  when more than two texts are similar; two texts of one document count like
  texts of two. The names of the files do not depend on the request, so that overlapping requests
  write to, read from and set back one another's files. `5_similar_texts.go:197-203`: the estimate by histogram may exceed
  the distance it should stay below. `7_pipeline.go:243`: the condition is inverted.
- `text/levenshtein/levenshtein.go:70-74`: options with other costs break scripts,
  since the borders of the matrix count tokens.
- `net/http/fetch/unified_requester.go:259`: the second attempt of a POST sends a body that
  has been read (against line 215). A cancelled redirect comes back as a body
  without an error; early errors leave `inf.URL` nil, on which handlers panic.
- `net/http/loghttp/adapter.go:145-153`: a panic is answered with status 200; line 169
  looks for the content type in the request.
- `net/http/coinbase/coinbase.go:294-296`: a payment that could not be saved is
  acknowledged, as is an unreadable one. The key of an invoice is buyer and
  product, so that a second purchase overwrites the first.
- `namespaced_taskqueued_cntr`, lines 52-59: the reset is outside of a
  transaction, and sets -1, after which the counter reads one less.
- `appengine/instance_mgt/get.go:70`: `NumInstances` is 0 until line 95 corrects it.
- `net/http/upload/huprep/huprep.go:138`: `rm -rf ./cnt_statified/*` runs without a shell
  and removes nothing, so that deleted pages stay published. Lines 212-216: files
  with unknown extensions are left out. `2_receive.go`: errors of unpacking are answered
  with 200 and do not reach the publisher. No handler of this repository serves
  the request of lines 262-266. Line 189: an error of `Walk` is ignored, and what is uploaded then is
  only the part of the site that it had come to.
- `net/http/fileserver/1_fileserver.go:102-124`: any error on opening `index.html` counts
  as its absence. Lines 88 and 104: the deferred `Close` saves the file that was read
  (`dsfs/40_file_impl.go:12-26`), so that a visitor who opened a page before an upload puts
  the old page back after it, while the publisher has been told of success.
- `net/http/tplx/tpl_from_dsfs.go:33`: the reset copies the mutex. A lock held at that
  moment is never released in the copy, an `Unlock` after the replacement meets
  a mutex that nobody holds. The file system in memory behind the map is not
  reset, so that the next page has the old template. Line 79 reads without the lock.

## 8. What is not modelled

- Data races: concurrent access to an unsynchronised map may end the program.
  `MemFs` and `Template` have this as an outcome; `DsuBuffer`
  (`memoryInstanceStore`) and `FetchPipeline` take such accesses as atomic.
- In `dsfs`: the mount counter, and an operation on the mount point as if it were a
  file (`Create("")`). The global query for files in `DeleteAll` is a single step,
  with any subset of the files as its result if the index lags.
- In `memfs`: times, modes, and names of one letter, which `UnixPather` treats in a
  way of its own.
- In `net/http/repo`: the forms and JSON of the commands, the choice of a file
  system, the condensing of trailing directories, which no host is configured for.
- In `transposablematrix`: labels, drawing, and statistics.
- In `domclean`: the older `domclean1`, variants that nothing calls, `tokenize`,
  `htmlfrag`. In `text/levenshtein`: tokens of runes, which behave like others.
- Of the web application: rendering, forms, routes, login, and the pages that show
  what one call of the platform returns.
- Everything that only renders, converts, parses or logs, third-party code
  (`appengine/login/...`), and the parts listed as `not_modelled` in
  `PROJECT.json`, each with its reason.

## 9. Plan

Done: the models of section 2, and theorems about every safety property of `Distrib`,
`DsuBuffer`, `ShardedCounter`, `DsFs`, `MemFs`, `FetchSimilar`, `Grid`, `EditDistance`, `OMap`, the web
components and the pipeline of `repo`.

Next, theorems, in order of importance:

1. That the steps of `Layout` are those of `GridSpec`, for which the folds over the outline
   have to be followed.
2. `KeepsPairs`, with `OSMap` written like `OMap`: the lists of successors and the counters
   of the nodes are to be followed through splits.

`Dom` and what uses it compute with recursive operators on nested data and stay with TLC.
