------------------------------- MODULE DsFs -------------------------------
(***************************************************************************)
(* The file system on the datastore, package os/fsi/dsfs.                  *)
(*                                                                         *)
(* Directories and files are entities of their own.  A directory is found  *)
(* by its key, through memcache; the children of a directory are found by  *)
(* an index, which lags behind.  An operation is a series of calls of      *)
(* datastore and memcache, every one a step; there are no transactions.    *)
(* A node is a path below the mount point.  Nothing in the code keeps a    *)
(* node from being a directory and a file at the same time.                *)
(***************************************************************************)
EXTENDS Naturals, FiniteSets, SequencesExt

CONSTANTS Clients, Node, Root, Parent,
          Times,                  \* modification times
          Absent, Blank, Failed,  \* what a lookup yields instead of a time
          Modes,                  \* which conditions are explored
          DeleteLimit,            \* DeleteAll takes 500 entities of a kind
          MaxOps,                 \* bound: operations in a behaviour
          MaxWalks                \* bound: RemoveAll that run at a time

ASSUME DsFsAssumption ==
    /\ IsFiniteSet(Node)
    /\ Root \in Node /\ Parent \in [Node -> Node] /\ Parent[Root] = Root
    \* every path begins at the mount point
    /\ \E depth \in [Node -> 0..Cardinality(Node)] :
          \A p \in Node \ {Root} : depth[Parent[p]] < depth[p]
    /\ {Absent, Blank, Failed} \cap Times = {}
    /\ Absent \notin {Blank, Failed} /\ Blank # Failed
    /\ Modes \subseteq {"orderly", "shared", "failing", "adverse"}
    /\ DeleteLimit \in Nat /\ MaxOps \in Nat /\ MaxWalks \in Nat

VARIABLES
    dirs,    \* directory entities: their modification time, or Absent
    files,   \* the nodes that have a file entity
    mcache,  \* the directories in memcache, with their modification time
    client,  \* what every client is doing
    ops,     \* the number of operations begun
    mode,    \* the conditions of this behaviour
    cut,     \* nodes a Remove took although something may be below them
    raced    \* nodes whose cached copy a race or a failure may have spoilt

store == <<dirs, files>>
history == <<cut, raced>>
vars == <<store, mcache, client, ops, mode, history>>

\* "orderly": one client at a time, no failures, an index without delay.
\* "shared":  clients overlap, the index lags.
\* "failing": one client at a time, the index lags, clients stop, calls fail.
\* "adverse": all of that, which is what the platform may do.
Orderly == mode = "orderly"
Overlap == mode \in {"shared", "adverse"}
Failures == mode \in {"failing", "adverse"}

\* What every set of nodes has that holds p, and with a node its parent.
Ancestors ==
    LET Upward == {S \in SUBSET Node : \A n \in S : Parent[n] \in S} IN
    [p \in Node |-> {a \in Node : \A S \in Upward : p \in S => a \in S}]
Below(p) == {q \in Node : p \in Ancestors[q]}

Present == {p \in Node : dirs[p] # Absent}
\* What a query of the index on "Dir" may find.  How far the index lags is not
\* bounded, and every node may have been there before: any set will do.
Found == IF Orderly THEN {Present} ELSE SUBSET Node

Idle == [op |-> "none", arg |-> Root, cur |-> Root, pc |-> "idle", look |-> Root,
         ret |-> "idle", hit |-> Absent, time |-> Absent,
         kids |-> {}, todo |-> <<>>, taken |-> <<>>]

\* The end of a lookup: back to the caller, with what was found.
Return(c, hit) ==
    client' = [client EXCEPT ![c].pc = client[c].ret, ![c].hit = hit,
                             ![c].look = Root, ![c].ret = "idle"]

Lookup(r, p, then) == [r EXCEPT !.pc = "mcacheGet", !.look = p, !.ret = then, !.hit = Absent]
\* From here on all operations that save a directory are the same.
SaveDir(r, p, t) == [r EXCEPT !.op = "mkdir", !.pc = "dirPut", !.cur = p, !.time = t, !.hit = Absent]
FileByPath(r, p) ==
    IF p = Root THEN [r EXCEPT !.pc = "noFile", !.cur = p, !.hit = Absent]
    ELSE Lookup([r EXCEPT !.cur = p], Parent[p], "fileGet")

At(c, pc) == client[c].pc = pc
Goto(c, r) == client' = [client EXCEPT ![c] = r]
Finish(c) == Goto(c, Idle)

\* A write to memcache that is under way, for p.
PendingFill(c, p) ==
    \/ At(c, "mcacheSet") /\ client[c].look = p
    \/ At(c, "dirMcacheSet") /\ client[c].cur = p
\* The step that follows a change of p and that repairs memcache.
Repairs(c, p) ==
    \/ client[c].cur = p /\ client[c].pc \in {"dirMcacheSet", "mcacheDelete"}
    \/ At(c, "flush")
RacedBy(c, P) == raced' = raced \union {p \in P : \E d \in Clients \ {c} : PendingFill(d, p)}

----------------------------------------------------------------------------
(* New() has made the mount point; before that, other requests have built  *)
(* some tree, whose directories memcache may or may not hold.              *)
Init ==
    /\ \E P \in SUBSET Node, F \in SUBSET (Node \ {Root}), t \in Times :
          /\ Root \in P /\ \A p \in P : Parent[p] \in P
          /\ \A f \in F : Parent[f] \in P
          /\ files = F
          /\ dirs = [p \in Node |-> IF p \in P THEN t ELSE Absent]
    /\ \E M \in SUBSET Present : mcache = [p \in Node |-> IF p \in M THEN dirs[p] ELSE Absent]
    /\ client = [c \in Clients |-> Idle]
    /\ ops = 0 /\ mode \in Modes /\ cut = {} /\ raced = {}

----------------------------------------------------------------------------
(* dirByPath: memcache, datastore, and memcache again.                     *)

McacheGet(c) ==
    /\ At(c, "mcacheGet")
    /\ LET r == client[c] IN
       \/ mcache[r.look] # Absent /\ Return(c, mcache[r.look])
       \/ mcache[r.look] = Absent /\ Goto(c, [r EXCEPT !.pc = "datastoreGet"])
       \* any other error of memcache counts as a hit of an empty directory
       \/ Failures /\ Return(c, Blank)
    /\ UNCHANGED <<store, mcache, ops, mode, history>>

DatastoreGet(c) ==
    /\ At(c, "datastoreGet")
    /\ LET r == client[c] IN
       \/ dirs[r.look] = Absent /\ Return(c, Absent)
       \/ dirs[r.look] # Absent /\ Goto(c, [r EXCEPT !.pc = "mcacheSet", !.hit = dirs[r.look]])
       \* the empty object has no name: its MemCacheSet has no key
       \/ Failures /\ Return(c, Failed)
    /\ UNCHANGED <<store, mcache, ops, mode, history>>

McacheSet(c) ==
    /\ At(c, "mcacheSet")
    /\ LET r == client[c] IN
       /\ Return(c, r.hit)
       /\ \/ mcache' = [mcache EXCEPT ![r.look] = r.hit]
          \/ Failures /\ UNCHANGED mcache
    /\ UNCHANGED <<store, ops, mode, history>>

----------------------------------------------------------------------------
(* saveDirByPathExt: the directory first, its parents after.               *)

DirPut(c) ==
    /\ At(c, "dirPut")
    /\ LET r == client[c] IN
       /\ dirs' = [dirs EXCEPT ![r.cur] = r.time]
       /\ RacedBy(c, {r.cur})
       /\ Goto(c, [r EXCEPT !.pc = "dirMcacheSet"])
       /\ cut' = cut \ {r.cur}
    /\ UNCHANGED <<files, mcache, ops, mode>>

DirMcacheSet(c) ==
    /\ At(c, "dirMcacheSet")
    /\ LET r == client[c] IN
       /\ Goto(c, Lookup([r EXCEPT !.time = Absent], Parent[r.cur], "parentSeen"))
       /\ \/ mcache' = [mcache EXCEPT ![r.cur] = r.time] /\ UNCHANGED raced
          \/ Failures /\ raced' = raced \union {r.cur} /\ UNCHANGED mcache
    /\ UNCHANGED <<store, ops, mode, cut>>

\* Mutant: Mkdir leaves the parents alone, as os.Mkdir would.
ParentSeen_never(c) ==
    /\ At(c, "parentSeen")
    /\ Finish(c)
    /\ UNCHANGED <<store, mcache, ops, mode, history>>

\* Only a parent that is known to be missing is saved.
ParentSeen(c) ==
    /\ At(c, "parentSeen")
    /\ LET r == client[c] IN
       \/ r.hit = Absent /\ \E t \in Times : Goto(c, SaveDir(r, Parent[r.cur], t))
       \/ r.hit # Absent /\ Finish(c)
    /\ UNCHANGED <<store, mcache, ops, mode, history>>

----------------------------------------------------------------------------
(* fileByPath, and what the operations do with its result.                 *)

Unread(r) == r.hit \in {Absent, Failed}
HasFile(r) == r.pc = "fileGet" /\ ~Unread(r) /\ r.cur \in files
Removing(r) == r.op \in {"remove", "unwind"}

FileFound(c) ==
    /\ At(c, "fileGet") /\ HasFile(client[c])
    /\ LET r == client[c] IN
       \/ r.op = "stat" /\ Finish(c)
       \/ r.op = "chtimes" /\ Goto(c, Lookup(r, Parent[r.cur], "filePut"))
       \/ r.op = "removeAll" /\ Goto(c, [r EXCEPT !.pc = "walk", !.taken = Append(@, r.cur)])
       \/ Removing(r) /\ Goto(c, [r EXCEPT !.pc = "fileDelete"])
    /\ UNCHANGED <<store, mcache, ops, mode, history>>

\* Any error but "no such entity" is fatal for Stat, and thereby for a walk.
FileMissing(c) ==
    /\ client[c].pc \in {"fileGet", "noFile"}
    /\ LET r == client[c]
           failed == r.hit = Failed \/ (Failures /\ ~Unread(r))
       IN \/ ~HasFile(r) /\ r.hit # Failed /\ Goto(c, Lookup(r, r.cur, "dirGot"))
          \/ failed /\ r.op \in {"stat", "removeAll"} /\ Finish(c)
          \/ failed /\ r.op \notin {"stat", "removeAll"} /\ Goto(c, Lookup(r, r.cur, "dirGot"))
    /\ UNCHANGED <<store, mcache, ops, mode, history>>

\* Chmod and Chtimes of an empty directory object save the mount point.
DirGot(c) ==
    /\ At(c, "dirGot")
    /\ LET r == client[c] IN
       \/ r.op = "stat" /\ Finish(c)
       \/ r.op = "chtimes" /\ Unread(r) /\ Finish(c)
       \/ /\ r.op = "chtimes" /\ ~Unread(r)
          /\ \E t \in Times : Goto(c, SaveDir(r, IF r.hit = Blank THEN Root ELSE r.cur, t))
       \/ r.op = "removeAll" /\ Unread(r) /\ Goto(c, [r EXCEPT !.pc = "walk", !.hit = Absent])
       \/ /\ r.op = "removeAll" /\ ~Unread(r)
          /\ Goto(c, [r EXCEPT !.pc = "readDir", !.hit = Absent, !.taken = Append(@, r.cur)])
       \/ r.op = "remove" /\ Unread(r) /\ Finish(c)
       \/ r.op = "unwind" /\ Unread(r) /\ Goto(c, [r EXCEPT !.pc = "unwind", !.hit = Absent])
       \/ Removing(r) /\ ~Unread(r) /\ Goto(c, [r EXCEPT !.pc = "dirDelete"])
    /\ UNCHANGED <<store, mcache, ops, mode, history>>

\* saveFileByPath, for a new file or for one that was just read.
FilePut(c) ==
    /\ At(c, "filePut")
    /\ files' = IF Unread(client[c]) THEN files ELSE files \union {client[c].cur}
    /\ Finish(c)
    /\ UNCHANGED <<dirs, mcache, ops, mode, history>>

----------------------------------------------------------------------------
(* ReadDir, and the walk of RemoveAll.                                     *)

Children(P, p) == {q \in P \ {Root} : Parent[q] = p}

QueryDirs(c) ==
    /\ At(c, "readDir")
    /\ LET r == client[c] IN
       \E P \in Found :
          LET kids == IF r.op = "readDir" THEN {} ELSE Children(P, r.cur) IN
          Goto(c, Lookup([r EXCEPT !.kids = kids], r.cur, "queryFiles"))
    /\ UNCHANGED <<store, mcache, ops, mode, history>>

\* Directories come first.  Without the directory itself the walk goes no deeper.
QueryFiles(c) ==
    /\ At(c, "queryFiles")
    /\ LET r == client[c]
           found == SetToSeq(r.kids) \o SetToSeq(Children(files, r.cur))
       IN \/ r.op = "readDir" /\ Finish(c)
          \/ /\ r.op = "removeAll"
             /\ Goto(c, [r EXCEPT !.pc = "walk", !.kids = {}, !.hit = Absent,
                                  !.todo = IF Unread(r) THEN @ ELSE found \o @])
    /\ UNCHANGED <<store, mcache, ops, mode, history>>

Walk(c) ==
    /\ At(c, "walk")
    /\ LET r == client[c] IN
       \/ r.todo # <<>> /\ Goto(c, FileByPath([r EXCEPT !.todo = Tail(@)], Head(r.todo)))
       \/ r.todo = <<>> /\ Goto(c, [r EXCEPT !.op = "unwind", !.pc = "unwind"])
    /\ UNCHANGED <<store, mcache, ops, mode, history>>

\* Mutant: what the walk found is removed in the order it was found.
Unwind_forwards(c) ==
    /\ At(c, "unwind")
    /\ LET r == client[c] IN
       \/ r.taken # <<>> /\ Goto(c, FileByPath([r EXCEPT !.taken = Tail(@)], Head(r.taken)))
       \/ r.taken = <<>> /\ Finish(c)
    /\ UNCHANGED <<store, mcache, ops, mode, history>>

Unwind(c) ==
    /\ At(c, "unwind")
    /\ LET r == client[c] IN
       \/ r.taken # <<>> /\ Goto(c, FileByPath([r EXCEPT !.taken = Front(@)], Last(r.taken)))
       \/ r.taken = <<>> /\ Finish(c)
    /\ UNCHANGED <<store, mcache, ops, mode, history>>

----------------------------------------------------------------------------
(* Remove takes the file of that name, and then the directory.             *)

FileDelete(c) ==
    /\ At(c, "fileDelete")
    /\ LET r == client[c] IN
       /\ files' = files \ {r.cur}
       /\ Goto(c, Lookup(r, r.cur, "dirGot"))
       \* a walk that saw a file did not look below the directory of that name
       /\ cut' = IF r.op = "unwind" /\ dirs[r.cur] # Absent THEN cut \union {r.cur} ELSE cut
    /\ UNCHANGED <<dirs, mcache, ops, mode, raced>>

DirDelete(c) ==
    /\ At(c, "dirDelete")
    /\ LET r == client[c] IN
       \/ /\ dirs' = [dirs EXCEPT ![r.cur] = Absent]
          /\ cut' = IF r.op = "unwind" /\ Orderly THEN cut ELSE cut \union {r.cur}
          /\ RacedBy(c, {r.cur})
          /\ Goto(c, [r EXCEPT !.pc = "mcacheDelete"])
       \* memcache is told in any case
       \/ /\ Failures
          /\ Goto(c, [r EXCEPT !.pc = "mcacheDelete", !.op = "remove"])
          /\ UNCHANGED <<dirs, history>>
    /\ UNCHANGED <<files, mcache, ops, mode>>

\* Mutant: Remove forgets the copy in memcache.
McacheDelete_forgotten(c) ==
    /\ At(c, "mcacheDelete")
    /\ LET r == client[c] IN
       \/ r.op = "remove" /\ Finish(c)
       \/ r.op = "unwind" /\ Goto(c, [r EXCEPT !.pc = "unwind", !.hit = Absent])
    /\ UNCHANGED <<store, mcache, ops, mode, history>>

\* The empty object does not know under which key it should be in memcache.
McacheDelete(c) ==
    /\ At(c, "mcacheDelete")
    /\ LET r == client[c] IN
       /\ \/ r.op = "remove" /\ Finish(c)
          \/ r.op = "unwind" /\ Goto(c, [r EXCEPT !.pc = "unwind", !.hit = Absent])
       /\ \/ r.hit # Blank /\ mcache' = [mcache EXCEPT ![r.cur] = Absent] /\ UNCHANGED raced
          \/ (r.hit = Blank \/ Failures) /\ raced' = raced \union {r.cur} /\ UNCHANGED mcache
    /\ UNCHANGED <<store, ops, mode, cut>>

----------------------------------------------------------------------------
(* DeleteAll: files and directories of all mount points, then memcache.    *)

\* What a query for keys finds, cut down to the limit.
Deletable(P) == {S \in SUBSET P : /\ Cardinality(S) <= DeleteLimit
                                  /\ S = P \/ Cardinality(S) = DeleteLimit}

DeleteFiles(c) ==
    /\ At(c, "deleteFiles")
    /\ \E F \in {F \in SUBSET files : Orderly => F = files} :
          \E S \in Deletable(F) : files' = files \ S
    /\ Goto(c, [client[c] EXCEPT !.pc = "deleteDirs"])
    /\ UNCHANGED <<dirs, mcache, ops, mode, history>>

DeleteDirs(c) ==
    /\ At(c, "deleteDirs")
    /\ \E P \in Found : \E S \in Deletable(P) :
          /\ dirs' = [p \in Node |-> IF p \in S THEN Absent ELSE dirs[p]]
          /\ cut' = cut \union S
          /\ RacedBy(c, S)
    /\ Goto(c, [client[c] EXCEPT !.pc = "flush"])
    /\ UNCHANGED <<files, mcache, ops, mode>>

Flush(c) ==
    /\ At(c, "flush")
    /\ mcache' = [p \in Node |-> Absent]
    /\ Finish(c)
    /\ UNCHANGED <<store, ops, mode, history>>

----------------------------------------------------------------------------
(* Operations begin; memcache and the platform act.             *)

Request(op, p) ==
    LET r == [Idle EXCEPT !.op = op, !.cur = p] IN
    CASE op \in {"stat", "chtimes", "remove"} -> {FileByPath(r, p)}
      [] op = "readDir" -> {[r EXCEPT !.pc = "readDir"]}
      [] op = "mkdir" -> {SaveDir(r, p, t) : t \in Times}
      [] op = "writeFile" -> IF p = Root THEN {} ELSE {Lookup(r, Parent[p], "filePut")}
      [] op = "removeAll" -> {[r EXCEPT !.pc = "walk", !.arg = p, !.todo = <<p>>]}
      [] op = "deleteAll" -> IF p = Root THEN {[r EXCEPT !.pc = "deleteFiles"]} ELSE {}

Operations == {"stat", "chtimes", "remove", "readDir", "mkdir", "writeFile",
               "removeAll", "deleteAll"}

Begin(c) ==
    /\ At(c, "idle") /\ ops < MaxOps
    /\ Overlap \/ \A d \in Clients : At(d, "idle")
    /\ ops' = ops + 1
    /\ \E op \in Operations, p \in Node : \E r \in Request(op, p) : Goto(c, r)
    /\ Cardinality({d \in Clients : client'[d].op \in {"removeAll", "unwind"}}) <= MaxWalks
    /\ UNCHANGED <<store, mcache, mode, history>>

\* A deadline, log.Fatalf, or an error of datastore that ends the operation.
Stop(c) ==
    /\ Failures /\ ~At(c, "idle")
    /\ Finish(c)
    /\ raced' = raced \union {p \in Node : Repairs(c, p)}
    /\ UNCHANGED <<store, mcache, ops, mode, cut>>

Evict(p) ==
    /\ mcache[p] # Absent
    /\ mcache' = [mcache EXCEPT ![p] = Absent]
    /\ UNCHANGED <<store, client, ops, mode, history>>

Step(c) ==
    \/ Begin(c) \/ Stop(c)
    \/ McacheGet(c) \/ DatastoreGet(c) \/ McacheSet(c)
    \/ DirPut(c) \/ DirMcacheSet(c) \/ ParentSeen(c)
    \/ FileFound(c) \/ FileMissing(c) \/ DirGot(c) \/ FilePut(c)
    \/ QueryDirs(c) \/ QueryFiles(c) \/ Walk(c) \/ Unwind(c)
    \/ FileDelete(c) \/ DirDelete(c) \/ McacheDelete(c)
    \/ DeleteFiles(c) \/ DeleteDirs(c) \/ Flush(c)

Next == (\E c \in Clients : Step(c)) \/ (\E p \in Node : Evict(p))
Spec == Init /\ [][Next]_vars

----------------------------------------------------------------------------
Pcs == {"idle", "mcacheGet", "datastoreGet", "mcacheSet", "dirPut", "dirMcacheSet",
        "parentSeen", "fileGet", "noFile", "dirGot", "filePut", "readDir", "queryFiles",
        "walk", "unwind", "fileDelete", "dirDelete", "mcacheDelete",
        "deleteFiles", "deleteDirs", "flush"}
Call == [op : Operations \union {"none", "unwind"}, arg : Node, cur : Node, pc : Pcs,
         look : Node, ret : Pcs, hit : Times \union {Absent, Blank, Failed},
         time : Times \union {Absent}, kids : SUBSET Node, todo : Seq(Node),
         taken : Seq(Node)]

(* Types; above all, neither the datastore nor memcache ever holds the     *)
(* empty object of a lookup that failed.                                   *)
TypeOK ==
    /\ dirs \in [Node -> Times \union {Absent}]
    /\ mcache \in [Node -> Times \union {Absent}]
    /\ files \subseteq Node \ {Root}
    /\ client \in [Clients -> Call]
    /\ ops \in 0..MaxOps /\ mode \in Modes
    /\ cut \subseteq Node /\ raced \subseteq Node

(* With all types right, what memcache says of a directory is what the     *)
(* datastore says, unless an operation is about to repair it, or the       *)
(* entity was changed while another client held a value of it that it had  *)
(* not yet cached, or a call that was to repair it failed.  dirByPath,     *)
(* saveDirByPathExt and Remove change the two stores one after the other   *)
(* and without a transaction.                                              *)
StaleOnlyByRace ==
    TypeOK /\ \A p \in Node : mcache[p] \notin {Absent, dirs[p]} =>
        p \in raced \/ \E c \in Clients : Repairs(c, p)

\* c is on its way up from a directory below p, whose parents it will save.
Climbing(c, p) ==
    \/ At(c, "dirPut") /\ client[c].cur = p
    \/ /\ \/ client[c].pc \in {"dirMcacheSet", "parentSeen"}
          \/ ~At(c, "idle") /\ client[c].ret = "parentSeen"
       /\ Parent[client[c].cur] = p

(* No directory and no file is left without its parent directory: "We      *)
(* cannot allow intermittent 'virtual' directories", 0_doc.go.  Two        *)
(* clients that make the same path at once keep to it, and so does         *)
(* RemoveAll, at any moment, if it is alone.  The exceptions are a Mkdir   *)
(* that is still on its way up, and a directory that was removed without a *)
(* look at what is below it, or while something was being put below it.    *)
NoVirtualDirs ==
    ~Failures => \A p \in (Present \union files) \ {Root} :
        \/ dirs[Parent[p]] # Absent
        \/ Parent[p] \in cut
        \/ \E c \in Clients : Climbing(c, Parent[p])

(* RemoveAll that nobody disturbs takes everything below its argument,     *)
(* whatever Remove does one entity at a time; except what hung below a     *)
(* directory that had been cut off, or that shares its name with a file.   *)
RemoveAllRemoves ==
    [][\A c \in Clients : Orderly /\ client[c].op = "unwind" /\ client'[c].op = "none" =>
          \A p \in Below(client[c].arg) :
              \/ dirs'[p] = Absent /\ p \notin files'
              \/ Ancestors[p] \cap cut' # {}]_vars

=============================================================================
