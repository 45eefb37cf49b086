-------------------------------- MODULE MemFs --------------------------------
(* The file system in memory, os/fsi/memfs.  One map, fos, leads from a path   *)
(* to its file object; a directory object holds a second map, memDir, of what  *)
(* is in it.  fos is guarded by one read-write lock, memDir by nothing, and a  *)
(* request consists of several sections with and without the lock.  What a     *)
(* client has yet to do is a list of tasks, as the calls of the code nest.     *)
EXTENDS Integers, Sequences, FiniteSets

CONSTANTS Clients,   \* goroutines using one file system
          Nodes,     \* paths, without their form
          Root,      \* the path of the mount point
          ParentOf,  \* [Nodes -> Nodes], Root is its own parent
          Longer,    \* <<m, n>>: the name of n begins with that of its sibling m
          Setups,    \* [shadow : [some nodes -> {"dir", "file"}], the file system behind,
                     \*  requests : what clients may ask, records [op, k, to, data],
                     \*  ops : bound on the number of requests]
          Bytes,     \* what may be written; a file of the file system behind
                     \* contains its path, twice: it is copied in two chunks
          MaxObjects \* bound on the objects made, when a removal undoes every filling

Absent == 0          \* no entry in a map
Nil == -1            \* an entry without an object: a nil interface
Missing == -2        \* result of a call: ErrFileNotFound
Failed == -3         \* result of a call: another error
Fine == -4           \* result of a call: no object, no error

Key(n, f) == [n |-> n, f |-> f]
Keys == [n : Nodes \ {Root}, f : {"dir", "file"}] \cup {Key(Root, "dir")}
RootDir == Key(Root, "dir")

Operations == {"Open", "Stat", "Create", "WriteFile", "ReadFile", "ReadDir", "Mkdir",
               "Remove", "RemoveAll", "Rename", "Chmod"}

ASSUME TreeAssumption == /\ Root \in Nodes /\ ParentOf \in [Nodes -> Nodes]
                         /\ ParentOf[Root] = Root /\ Nodes \subseteq Bytes
                         /\ \A s \in Setups :
                              /\ DOMAIN s.shadow \subseteq Nodes /\ s.ops \in Nat
                              /\ s.requests \subseteq [op : Operations, k : Keys, to : Keys,
                                                      data : Seq(Bytes)]

VARIABLES setup,     \* how this file system was made and is used; never changes
          fos,       \* [Keys -> object number, Absent or Nil]
          files,     \* the objects ever made
          readers,   \* read locks held, by client
          waiting,   \* clients that called Lock and have not got it
          todo,      \* [Clients -> sequence of tasks]
          res,       \* what the last call returned to the client
          ops,       \* requests begun
          raced,     \* keys whose object was replaced while another client was busy
          cut,       \* what may have undone an entry, or kept the lock: a "RemoveAll"
                     \* or "Rename" that has begun, an Open of a "nil" entry
          panicked   \* why requests have panicked
vars == <<setup, fos, files, readers, waiting, todo, res, ops, raced, cut, panicked>>

Shadow == setup.shadow

IsFile(x) == x > 0
Busy(c) == todo[c] # <<>>
Quiet == \A c \in Clients : ~Busy(c)

Task(t, k) == [t |-> t, k |-> k, to |-> k, obj |-> Absent, must |-> {}, data |-> <<>>]

NewFile(k, isDir) ==
  [dir |-> isDir, name |-> k, data |-> <<>>, at |-> 0, closed |-> FALSE,
   memDir |-> [x \in {} |-> 0],
   torn |-> FALSE]  \* history: a copy into it failed, or was set back on its way

Init == /\ setup \in Setups
        /\ fos = [k \in Keys |-> Absent] /\ files = <<>>
        /\ readers = [c \in Clients |-> 0] /\ waiting = {}
        /\ todo = [c \in Clients |-> <<>>] /\ res = [c \in Clients |-> Fine]
        /\ ops = 0 /\ raced = {} /\ cut = {} /\ panicked = {}

(* ---------------------------------------------------------------- paths *)

Filify(k) == IF k.n = Root THEN k ELSE Key(k.n, "file")
Directorify(k) == Key(k.n, "dir")
Other(k) == IF k.f = "dir" THEN Filify(k) ELSE Directorify(k)
SplitDir(k) == Key(ParentOf[k.n], "dir")

\* What every set of nodes has that holds the parent of n, and with a node its parent.
Above == LET Upward == {S \in SUBSET Nodes : \A n \in S : ParentOf[n] \in S} IN
         [n \in Nodes |-> {a \in Nodes : n # Root /\ \A S \in Upward : ParentOf[n] \in S => a \in S}]
Below(n, a) == a \in Above[n]

\* The way up ends at the root, and below a file there is nothing.
ASSUME PathAssumption ==
  /\ \A n \in Nodes : n \notin Above[n]
  /\ \A s \in Setups : \A n, m \in DOMAIN s.shadow :
       s.shadow[n] = "file" => n # Root /\ ~Below(m, n)

\* strings.HasPrefix of two full paths
HasPrefix(p, name) ==
  \/ p = name \/ Below(p.n, name.n)
  \/ name.f = "file" /\ \E m \in Nodes : /\ m = name.n \/ <<name.n, m>> \in Longer
                                         /\ p.n = m \/ Below(p.n, m)

(* --------------------------------------- registration with the parents *)

\* What a client does next without touching anything shared, given the result
\* r of its last call: registerWithParent looks for the parent (register), makes
\* it if it is missing and looks again (parent), then opens the entry (self).
Settle(tasks, r) ==
  IF tasks = <<>> THEN tasks
  ELSE LET k == Head(tasks).k
           t == Head(tasks).t
           again == <<Task("open", SplitDir(k)), Task("self", k)>> IN
       CASE t = "register" /\ k = RootDir -> <<Task("mkdir", RootDir)>> \o Tail(tasks)
         [] t = "register" /\ k # RootDir ->
              <<Task("open", SplitDir(k)), Task("parent", k)>> \o Tail(tasks)
         [] t = "parent" /\ IsFile(r) -> again \o Tail(tasks)
         [] t = "parent" /\ ~IsFile(r) ->
              <<Task("mkdir", SplitDir(k))>> \o again \o Tail(tasks)
         [] t = "self" /\ IsFile(r) ->
              <<Task("open", k), [Task("enter", k) EXCEPT !.obj = r]>> \o Tail(tasks)
         [] t = "self" /\ ~IsFile(r) -> Tail(tasks)
         [] OTHER -> tasks

(* -------------------------------------------------- tasks and the lock *)

At(c, t) == Busy(c) /\ Head(todo[c]).t = t
Top(c) == Head(todo[c])
\* The call at hand returns r; other tasks take its place.
Gives(c, r, tasks) == /\ res' = [res EXCEPT ![c] = r]
                      /\ todo' = [todo EXCEPT ![c] = Settle(tasks \o Tail(@), r)]
Then(c, tasks) == Gives(c, res[c], tasks)

\* Sections under the lock that make no call are one step, so the lock is seen
\* held for reading only by RemoveAll and by what never gave it back.
RLockFree == waiting = {}
LockFree(c) == \A d \in Clients : readers[d] = 0

Locking == {"put", "putdir", "delete", "move", "touch"}

\* m.lock() up to the point where it waits for the readers
Lock(c) == /\ Busy(c) /\ Top(c).t \in Locking /\ c \notin waiting /\ ~LockFree(c)
           /\ waiting' = waiting \cup {c}
           /\ UNCHANGED <<setup, fos, files, readers, todo, res, ops, raced, cut, panicked>>
Unlock(c) == waiting' = waiting \ {c}

\* A panic ends the request; the deferred calls give the read lock back.
Panics(c, why) == /\ todo' = [todo EXCEPT ![c] = <<>>]
                  /\ readers' = [readers EXCEPT ![c] =
                       IF \E i \in DOMAIN todo[c] : todo[c][i].t = "rmloop" THEN @ - 1 ELSE @]
                  /\ panicked' = panicked \cup {why} /\ UNCHANGED res

(* ------------------------------------------------------------- requests *)

\* The calls that each operation of the FileSystem interface begins with.
Calls(r) ==
  LET T(t) == [Task(t, r.k) EXCEPT !.to = r.to, !.data = r.data] IN
  CASE r.op \in {"Open", "Stat"} -> <<T("open")>>
    [] r.op = "Create"    -> <<T("put"), T("register"), T("created")>>
    [] r.op = "WriteFile" -> <<T("put"), T("register"), T("created"), T("write")>>
    [] r.op = "ReadFile"  -> <<T("open"), T("fetch")>>
    [] r.op = "ReadDir"   -> <<T("open"), T("list"), T("close")>>
    [] r.op = "Mkdir"     -> <<Task("mkdir", Directorify(r.k))>>
    [] r.op = "Remove"    -> <<T("pass")>>
    [] r.op = "RemoveAll" -> <<T("removeall")>>
    [] r.op = "Rename"    -> <<T("rename")>>
    [] r.op = "Chmod"     -> <<T("chmod")>>

Begin(c) ==
  /\ ~Busy(c) /\ ops < setup.ops /\ "fatal" \notin panicked
  /\ \E r \in setup.requests : /\ todo' = [todo EXCEPT ![c] = Calls(r)]
                         /\ cut' = cut \cup ({r.op} \cap {"RemoveAll", "Rename"})
  /\ ops' = ops + 1
  /\ res' = [res EXCEPT ![c] = Fine]
  /\ UNCHANGED <<setup, fos, files, readers, waiting, raced, panicked>>

\* The sections under the write lock: one assignment to fos each.
Put(c) ==
  /\ At(c, "put") \/ At(c, "putdir")
  /\ LockFree(c) /\ Len(files) < MaxObjects
  /\ LET k == Top(c).k IN
       /\ files' = Append(files, NewFile(k, At(c, "putdir")))
       /\ fos' = [fos EXCEPT ![k] = Len(files')]
       /\ raced' = IF fos[k] # Absent /\ (At(c, "putdir") \/ \E d \in Clients \ {c} : Busy(d))
                   THEN raced \cup {k} ELSE raced
  /\ Unlock(c) /\ Then(c, <<>>)
  /\ UNCHANGED <<setup, readers, ops, cut, panicked>>

Delete(c) ==
  /\ At(c, "delete") /\ LockFree(c)
  /\ fos' = [fos EXCEPT ![Top(c).k] = Absent]
  /\ Unlock(c) /\ Then(c, <<>>)
  /\ UNCHANGED <<setup, files, readers, ops, raced, cut, panicked>>

\* The entry may be gone since the check: then nil moves.
Move(c) ==
  /\ At(c, "move") /\ LockFree(c)
  /\ LET k == Top(c).k
         x == IF fos[k] = Absent THEN Nil ELSE fos[k] IN
       fos' = [[fos EXCEPT ![Top(c).to] = x] EXCEPT ![k] = Absent]
  /\ Unlock(c) /\ Then(c, <<Task("pass", Top(c).k)>>)
  /\ UNCHANGED <<setup, files, readers, ops, raced, cut, panicked>>

\* Chmod and Chtimes look up without the lock and then change one attribute.
Chmod(c) ==
  /\ At(c, "chmod")
  /\ Then(c, IF IsFile(fos[Top(c).k]) THEN <<Task("touch", Top(c).k)>> ELSE <<>>)
  /\ UNCHANGED <<setup, fos, files, readers, waiting, ops, raced, cut, panicked>>
Touch(c) ==
  /\ At(c, "touch") /\ LockFree(c)
  /\ Unlock(c) /\ Then(c, <<>>)
  /\ UNCHANGED <<setup, fos, files, readers, ops, raced, cut, panicked>>

\* Open and Close set the position of the object back, which all its users share.
Copying(x) == \E d \in Clients : At(d, "copy") /\ res[d] = x
SetBack(x, closed) == [files EXCEPT ![x].at = 0, ![x].closed = closed,
                                    ![x].torn = @ \/ (files[x].at > 0 /\ Copying(x))]

\* What Open finds: the path as it is given, or in its other form.
Hit(k) == IF fos[k] # Absent THEN fos[k] ELSE fos[Other(k)]

\* Open: a nil entry returns an error, and the read lock is never given back.
\* What is not there is looked up in the file system behind, which may fail.
Open(c) ==
  /\ At(c, "open") /\ RLockFree
  /\ LET k == Top(c).k
         hit == Hit(k)
     IN \/ /\ IsFile(hit)
           /\ files' = SetBack(hit, FALSE) /\ Gives(c, hit, <<>>)
           /\ UNCHANGED <<readers, cut>>
        \/ /\ hit = Nil
           /\ readers' = [readers EXCEPT ![c] = @ + 1]
           /\ Gives(c, Failed, <<>>) /\ cut' = cut \cup {"nil"}
           /\ UNCHANGED files
        \/ /\ hit = Absent /\ k.n \in DOMAIN Shadow
           /\ Then(c, IF Shadow[k.n] = "dir"
                      THEN <<Task("mkdir", Directorify(k)), Task("shadowdir", k)>>
                      ELSE <<Task("mkdir", SplitDir(k)), Task("put", k), Task("register", k),
                             Task("created", k), [Task("copy", k) EXCEPT !.data = <<k.n, k.n>>]>>)
           /\ UNCHANGED <<files, readers, cut>>
        \/ /\ hit = Absent /\ Gives(c, Missing, <<>>)
           /\ UNCHANGED <<files, readers, cut>>
  /\ UNCHANGED <<setup, fos, waiting, ops, raced, panicked>>

\* A directory of the underlying file system was made; path.Dir takes the
\* parent unless the path ended in a slash.
ShadowDir(c) ==
  /\ At(c, "shadowdir") /\ RLockFree
  /\ LET k == Top(c).k
         x == fos[IF k.f = "dir" THEN k ELSE SplitDir(k)]
     IN Gives(c, IF IsFile(x) THEN x ELSE Failed, <<>>)
  /\ UNCHANGED <<setup, fos, files, readers, waiting, ops, raced, cut, panicked>>

Mkdir_unregistered(c) ==
  /\ At(c, "mkdir") /\ RLockFree
  /\ Then(c, IF fos[Top(c).k] # Absent THEN <<>> ELSE <<Task("putdir", Top(c).k)>>)
  /\ UNCHANGED <<setup, fos, files, readers, waiting, ops, raced, cut, panicked>>
Mkdir(c) ==
  /\ At(c, "mkdir") /\ RLockFree
  /\ Then(c, IF fos[Top(c).k] # Absent THEN <<>>
             ELSE <<Task("putdir", Top(c).k), Task("register", Top(c).k)>>)
  /\ UNCHANGED <<setup, fos, files, readers, waiting, ops, raced, cut, panicked>>

\* pDirC.memDir[name] = f, where f is nil if Open found nothing; then the parent
Enter(c) ==
  /\ At(c, "enter")
  /\ LET k == Top(c).k
         d == Top(c).obj
         f == IF IsFile(res[c]) THEN res[c] ELSE Nil
     IN /\ files' = [files EXCEPT ![d].memDir =
                       [x \in DOMAIN @ \cup {k} |-> IF x = k THEN f ELSE @[x]]]
        /\ Then(c, IF files[d].name = RootDir THEN <<>>
                   ELSE <<Task("register", files[d].name)>>)
  /\ UNCHANGED <<setup, fos, readers, waiting, ops, raced, cut, panicked>>

(* --------------------------------------------------- files and listings *)

\* Create returns what fos holds by now.
Created(c) ==
  /\ At(c, "created")
  /\ Gives(c, IF fos[Top(c).k] = Absent THEN Nil ELSE fos[Top(c).k], <<>>)
  /\ UNCHANGED <<setup, fos, files, readers, waiting, ops, raced, cut, panicked>>

\* A write at the position of the file, which is moved to the end.
Written(x, b) ==
  LET f == files[x] IN
  [files EXCEPT ![x].data = SubSeq(f.data, 1, f.at) \o b
                            \o SubSeq(f.data, f.at + Len(b) + 1, Len(f.data)),
                ![x].at = IF f.at + Len(b) > Len(f.data) THEN f.at + Len(b) ELSE Len(f.data)]
Write(c) ==
  /\ At(c, "write")
  /\ IF IsFile(res[c])
     THEN /\ files' = Written(res[c], Top(c).data)
          /\ Then(c, <<>>) /\ UNCHANGED <<readers, panicked>>
     ELSE Panics(c, "write to nil") /\ UNCHANGED files
  /\ UNCHANGED <<setup, fos, waiting, ops, raced, cut>>

\* io.Copy from the file system behind, chunk by chunk; then the file is closed
\* and opened again.  When a chunk cannot be read, Open returns the error, and
\* the file remains as it is by then.
Copy_oneChunk(c) ==
  /\ At(c, "copy")
  /\ IF IsFile(res[c])
     THEN /\ files' = Written(res[c], <<Head(Top(c).data)>>)
          /\ Then(c, <<Task("close", Top(c).k), Task("reopen", Top(c).k)>>)
          /\ UNCHANGED <<readers, panicked>>
     ELSE Panics(c, "write to nil") /\ UNCHANGED files
  /\ UNCHANGED <<setup, fos, waiting, ops, raced, cut>>
CopyFails(c) ==
  /\ At(c, "copy")
  /\ files' = IF IsFile(res[c]) THEN [files EXCEPT ![res[c]].torn = TRUE] ELSE files
  /\ Gives(c, Failed, <<>>)
  /\ UNCHANGED <<setup, fos, readers, waiting, ops, raced, cut, panicked>>
Copy(c) ==
  /\ At(c, "copy")
  /\ IF IsFile(res[c])
     THEN /\ files' = Written(res[c], <<Head(Top(c).data)>>)
          /\ Then(c, IF Len(Top(c).data) > 1
                     THEN <<[Top(c) EXCEPT !.data = Tail(@)]>>
                     ELSE <<Task("close", Top(c).k), Task("reopen", Top(c).k)>>)
          /\ UNCHANGED <<readers, panicked>>
     ELSE Panics(c, "write to nil") /\ UNCHANGED files
  /\ UNCHANGED <<setup, fos, waiting, ops, raced, cut>>

CloseFile(c) ==
  /\ At(c, "close")
  /\ files' = IF IsFile(res[c]) THEN SetBack(res[c], TRUE) ELSE files
  /\ Then(c, <<>>)
  /\ UNCHANGED <<setup, fos, readers, waiting, ops, raced, cut, panicked>>
Reopen(c) ==
  /\ At(c, "reopen")
  /\ files' = IF IsFile(res[c]) THEN SetBack(res[c], FALSE) ELSE files
  /\ Then(c, <<>>)
  /\ UNCHANGED <<setup, fos, readers, waiting, ops, raced, cut, panicked>>

\* ReadFile hands out the bytes as they are now, without a lock.
Fetch(c) ==
  /\ At(c, "fetch") /\ Then(c, <<>>)
  /\ UNCHANGED <<setup, fos, files, readers, waiting, ops, raced, cut, panicked>>

\* Readdir converts each entry; a nil entry does not convert.
List(c) ==
  /\ At(c, "list")
  /\ LET entries == IF IsFile(res[c]) THEN files[res[c]].memDir ELSE [x \in {} |-> 0] IN
     IF \E x \in DOMAIN entries : entries[x] = Nil
     THEN Panics(c, "nil entry listed")
     ELSE Then(c, <<>>) /\ UNCHANGED <<readers, panicked>>
  /\ UNCHANGED <<setup, fos, files, waiting, ops, raced, cut>>

(* ------------------------------------------------- removal and renaming *)

Hold(c, n) == readers' = [readers EXCEPT ![c] = @ + n]
Present == {k \in Keys : fos[k] # Absent}

\* Remove asks for the key "name", which no path has: it takes the lock and leaves.
Pass(c) ==
  /\ At(c, "pass") /\ RLockFree /\ Then(c, <<>>)
  /\ UNCHANGED <<setup, fos, files, readers, waiting, ops, raced, cut, panicked>>

RemoveAll(c) ==
  /\ At(c, "removeall") /\ RLockFree
  /\ Hold(c, 1)
  /\ Then(c, <<[Task("rmloop", Top(c).k) EXCEPT !.must = Present]>>)
  /\ UNCHANGED <<setup, fos, files, waiting, ops, raced, cut, panicked>>

\* The loop over a map visits in any order what it held at the start and still
\* holds; what was added since, it may visit.  The lock is given back to delete.
RemoveNext(c) ==
  /\ At(c, "rmloop")
  /\ \E p \in {p \in Present : HasPrefix(p, Top(c).k)} :
       Then(c, <<Task("delete", p), Task("rmback", Top(c).k),
                 [Top(c) EXCEPT !.must = @ \ {p}]>>)
  /\ Hold(c, -1)
  /\ UNCHANGED <<setup, fos, files, waiting, ops, raced, cut, panicked>>
RemoveDone(c) ==
  /\ At(c, "rmloop")
  /\ ~\E p \in Top(c).must \cap Present : HasPrefix(p, Top(c).k)
  /\ Hold(c, -1) /\ Then(c, <<>>)
  /\ UNCHANGED <<setup, fos, files, waiting, ops, raced, cut, panicked>>

\* With the read lock held again, the argument is unregistered; finding its
\* parent takes the read lock once more.  The root has no parent to convert.
RemoveBack(c) ==
  /\ At(c, "rmback") /\ RLockFree
  /\ IF Top(c).k = RootDir
     THEN /\ todo' = [todo EXCEPT ![c] = <<>>] /\ UNCHANGED res
          /\ panicked' = panicked \cup {"root unregistered"}
          /\ UNCHANGED readers
     ELSE /\ Then(c, <<Task("open", SplitDir(Top(c).k)), Task("unregister", Top(c).k)>>)
          /\ Hold(c, 1) /\ UNCHANGED panicked
  /\ UNCHANGED <<setup, fos, files, waiting, ops, raced, cut>>

Unregister(c) ==
  /\ At(c, "unregister")
  /\ LET k == Top(c).k IN
       files' = IF IsFile(res[c])
                THEN [files EXCEPT ![res[c]].memDir =
                        [x \in DOMAIN @ \ {Directorify(k), Filify(k)} |-> @[x]]]
                ELSE files
  /\ Then(c, <<>>)
  /\ UNCHANGED <<setup, fos, readers, waiting, ops, raced, cut, panicked>>

Rename_keepsReadLock(c) ==
  /\ At(c, "rename") /\ RLockFree
  /\ IF fos[Top(c).k] # Absent /\ fos[Top(c).to] = Absent
     THEN Then(c, <<[Top(c) EXCEPT !.t = "move"]>>) /\ Hold(c, 1)
     ELSE Then(c, <<>>) /\ UNCHANGED readers
  /\ UNCHANGED <<setup, fos, files, waiting, ops, raced, cut, panicked>>
Rename(c) ==
  /\ At(c, "rename") /\ RLockFree
  /\ Then(c, IF fos[Top(c).k] # Absent /\ fos[Top(c).to] = Absent
             THEN <<[Top(c) EXCEPT !.t = "move"]>> ELSE <<>>)
  /\ UNCHANGED <<setup, fos, files, readers, waiting, ops, raced, cut, panicked>>

\* Two accesses to one map, one of them a write, without a common lock: the
\* runtime may notice and ends the process.
UnlockedRead(c) == At(c, "created") \/ At(c, "chmod")
MapRace(c, d) ==
  /\ \/ UnlockedRead(c) /\ Busy(d) /\ Top(d).t \in Locking \ {"touch"} /\ LockFree(d)
     \/ /\ At(c, "enter") \/ (At(c, "unregister") /\ IsFile(res[c]))
        /\ LET obj == IF At(c, "enter") THEN Top(c).obj ELSE res[c] IN
           \/ At(d, "enter") /\ Top(d).obj = obj
           \/ (At(d, "unregister") \/ At(d, "list")) /\ res[d] = obj
  /\ panicked' = panicked \cup {"fatal"}
  /\ todo' = [e \in Clients |-> <<>>]
  /\ readers' = [e \in Clients |-> 0] /\ waiting' = {}
  /\ UNCHANGED <<setup, fos, files, res, ops, raced, cut>>

Next ==
  \/ \E c \in Clients :
       \/ Begin(c) \/ Lock(c) \/ Put(c) \/ Delete(c) \/ Move(c) \/ Chmod(c) \/ Touch(c)
       \/ Open(c) \/ ShadowDir(c) \/ Mkdir(c) \/ Enter(c) \/ Created(c) \/ Write(c) \/ Copy(c) \/ CopyFails(c)
       \/ CloseFile(c) \/ Reopen(c) \/ Fetch(c)
       \/ List(c) \/ Pass(c) \/ RemoveAll(c) \/ RemoveNext(c) \/ RemoveDone(c)
       \/ RemoveBack(c) \/ Unregister(c) \/ Rename(c)
  \/ \E c, d \in Clients : c # d /\ MapRace(c, d)

Spec == Init /\ [][Next]_vars
-----------------------------------------------------------------------------
ClientBusyWith(c, t) == \E i \in DOMAIN todo[c] : todo[c][i].t = t

\* The maps lead to objects, only clients at a locking call wait for the lock.
TypeOK ==
  /\ fos \in [Keys -> {Absent, Nil} \cup DOMAIN files]
  /\ \A i \in DOMAIN files : \A k \in DOMAIN files[i].memDir :
       k \in Keys /\ files[i].memDir[k] \in {Nil} \cup DOMAIN files
  /\ readers \in [Clients -> Nat]
  /\ \A c \in waiting : Busy(c) /\ Top(c).t \in Locking

\* One object was ever made under this path, in either form.
MadeOnce(k) ==
  \A i, j \in DOMAIN files : {files[i].name, files[j].name} \subseteq {k, Other(k)} => i = j

\* The maps are as they should be, and what is created is found by listing: once
\* all clients are done, and nobody removed or renamed, each entry has a parent
\* that can be opened and is in the parent's map, unless two clients made this
\* object at the same time, or the parent was made again, over or beside itself.
Listed ==
  TypeOK /\ (Quiet /\ cut = {} /\ "fatal" \notin panicked =>
    \A k \in Present \ {RootDir} :
      LET p == SplitDir(k) IN
      /\ IsFile(Hit(p))
      /\ k \notin raced /\ MadeOnce(p) =>
           k \in DOMAIN files[Hit(p)].memDir /\ files[Hit(p)].memDir[k] = fos[k])

\* Nobody can go on: everyone who has something to do waits for the lock.
Reading == {"open", "shadowdir", "mkdir", "pass", "removeall", "rmback", "rename"}
Blocked(c) == \/ Busy(c) /\ Top(c).t \in Reading /\ ~RLockFree
              \/ c \in waiting /\ ~LockFree(c)
Deadlocked == /\ \E c \in Clients : Busy(c)
              /\ \A c \in Clients : Busy(c) => Blocked(c)

\* Clients deadlock only by RemoveAll, which takes the read lock twice, or
\* after an Open met a nil entry and kept the read lock, for which a renaming is
\* needed; and requests panic on nil entries only after a removal or a renaming.
HarmedOnlyByRemoval ==
  /\ Deadlocked => "nil" \in cut \/ \E c \in Clients : ClientBusyWith(c, "rmloop")
  /\ "nil" \in cut => "Rename" \in cut
  /\ panicked \ {"fatal"} # {} => cut # {}

\* No request makes the path n, or one below it.
OnlyRead(n) ==
  \A r \in setup.requests :
    r.op \in {"Create", "WriteFile", "Mkdir"} => r.k.n # n /\ ~Below(r.k.n, n)

\* As long as nobody removes or renames, a reader of a file of the underlying file
\* system that no request writes gets all of it, unless another client is still
\* filling it or two filled it at once, or its filling came to an error, or was
\* set back by another client that opened the file before it was whole.
ServesShadow ==
  \A c \in Clients :
    At(c, "fetch") /\ IsFile(res[c]) /\ cut = {} =>
      LET k == Top(c).k IN
      /\ k.n \in DOMAIN Shadow /\ Shadow[k.n] = "file" /\ OnlyRead(k.n)
      /\ raced \cap {k, Other(k)} = {}
      => \/ files[res[c]].data = <<k.n, k.n>> \/ files[res[c]].torn
         \/ \E d \in Clients \ {c} : \E i \in DOMAIN todo[d] :
              todo[d][i].t = "copy" /\ todo[d][i].k.n = k.n

=============================================================================
