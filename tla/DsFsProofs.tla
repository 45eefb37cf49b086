----------------------------- MODULE DsFsProofs -----------------------------
(***************************************************************************)
(* Theorems about DsFs, for every tree, every number of clients and        *)
(* operations, and all conditions, "adverse" included.                     *)
(***************************************************************************)
EXTENDS DsFs, FunctionTheorems, FiniteSetTheorems, SequenceTheorems, TLAPS

-----------------------------------------------------------------------------
(* What a client may look like.                                            *)

\* Where a lookup may return to.
Returns == {"idle", "fileGet", "dirGot", "parentSeen", "filePut", "queryFiles"}

\* Only a lookup has a place to return to; a value to be stored is a time; and
\* the mount point is never saved as a file.
InOrder(r) ==
    /\ r \in Call /\ r.ret \in Returns
    /\ r.pc \in {"mcacheGet", "datastoreGet", "mcacheSet"} \/ r.ret = "idle"
    /\ r.pc = "mcacheSet" => r.hit \in Times
    /\ r.pc \in {"dirPut", "dirMcacheSet"} => r.time \in Times
    /\ r.pc = "filePut" \/ r.ret = "filePut" => r.cur # Root

\* No write to memcache comes next.
Harmless(r) == InOrder(r) /\ r.pc \notin {"mcacheSet", "dirMcacheSet"}

LEMMA IdleInOrder == Harmless(Idle)
  BY DsFsAssumption DEF DsFsAssumption, Harmless, InOrder, Idle, Call, Pcs, Returns, Operations

LEMMA LookupInOrder ==
  ASSUME NEW r, InOrder(r), NEW p \in Node, NEW then \in Returns,
         then = "filePut" => r.cur # Root
  PROVE  Harmless(Lookup(r, p, then))
<1> DEFINE l == Lookup(r, p, then)
<1>1. l \in Call
  BY DEF InOrder, Lookup, Call, Pcs, Returns
<1>2. l.pc = "mcacheGet" /\ l.ret = then /\ l.cur = r.cur
  BY DEF InOrder, Lookup, Call
<1> QED
  BY <1>1, <1>2 DEF Harmless, InOrder

LEMMA SaveDirInOrder ==
  ASSUME NEW r, InOrder(r), NEW p \in Node, NEW t \in Times, r.ret = "idle"
  PROVE  Harmless(SaveDir(r, p, t))
<1> DEFINE l == SaveDir(r, p, t)
<1>1. l \in Call
  BY DEF InOrder, SaveDir, Call, Pcs, Operations
<1>2. l.pc = "dirPut" /\ l.ret = r.ret /\ l.time = t
  BY DEF InOrder, SaveDir, Call
<1> QED
  BY <1>1, <1>2 DEF Harmless, InOrder

LEMMA FileByPathInOrder ==
  ASSUME NEW r, InOrder(r), NEW p \in Node, r.ret = "idle"
  PROVE  Harmless(FileByPath(r, p))
<1>1. CASE p = Root
  <2> DEFINE l == [r EXCEPT !.pc = "noFile", !.cur = p, !.hit = Absent]
  <2>1. l \in Call /\ l.pc = "noFile" /\ l.ret = r.ret
    BY DEF InOrder, Call, Pcs
  <2> QED
    BY <1>1, <2>1 DEF FileByPath, Harmless, InOrder
<1>2. CASE p # Root
  <2> DEFINE l == [r EXCEPT !.cur = p]
  <2>1. l \in Call /\ l.pc = r.pc /\ l.ret = r.ret /\ l.cur = p /\ l.hit = r.hit /\ l.time = r.time
    BY DEF InOrder, Call
  <2>2. InOrder(l)
    BY <1>2, <2>1 DEF InOrder
  <2>3. Parent[p] \in Node
    BY DsFsAssumption DEF DsFsAssumption
  <2> QED
    BY <1>2, <2>2, <2>3, LookupInOrder DEF FileByPath, Returns
<1> QED
  BY <1>1, <1>2

LEMMA ReturnInOrder ==
  ASSUME NEW c \in Clients, NEW hit \in Times \union {Absent, Blank, Failed},
         client \in [Clients -> Call], InOrder(client[c]), Return(c, hit)
  PROVE  \E r : Harmless(r) /\ client' = [client EXCEPT ![c] = r]
<1> DEFINE q == client[c]
           r == [q EXCEPT !.pc = q.ret, !.hit = hit, !.look = Root, !.ret = "idle"]
<1>1. client' = [client EXCEPT ![c] = r]
  BY DEF Return
<1>2. r \in Call /\ r.pc = q.ret /\ r.ret = "idle" /\ r.cur = q.cur
  BY DsFsAssumption DEF DsFsAssumption, InOrder, Call, Pcs, Returns
<1>3. Harmless(r)
  BY <1>2 DEF Harmless, InOrder, Returns
<1> QED
  BY <1>1, <1>3

\* The elements of a finite set can be put into a sequence.
LEMMA SetToSeqIsSeq ==
  ASSUME NEW S, IsFiniteSet(S)
  PROVE  SetToSeq(S) \in Seq(S)
<1> DEFINE n == Cardinality(S)
<1>1. n \in Nat /\ ExistsBijection(1..n, S)
  BY FS_CardinalityType
<1>2. PICK f \in Bijection(1..n, S) : TRUE
  BY <1>1 DEF ExistsBijection
<1>3. f \in [1..n -> S] /\ IsInjective(f)
  BY <1>2 DEF Bijection, Injection
<1>4. SetToSeq(S) \in [1..n -> S]
  BY <1>3 DEF SetToSeq
<1> QED
  BY <1>1, <1>4

-----------------------------------------------------------------------------
(* The inductive invariant.                                                *)

\* Types, and every client in order.
TypeInv == TypeOK /\ \A c \in Clients : InOrder(client[c])

\* A value that is about to be cached is still that of the datastore, unless
\* the entity was changed since.
FillInv ==
    \A c \in Clients :
        /\ At(c, "mcacheSet") =>
              client[c].hit = dirs[client[c].look] \/ client[c].look \in raced
        /\ At(c, "dirMcacheSet") =>
              client[c].time = dirs[client[c].cur] \/ client[c].cur \in raced

\* What StaleOnlyByRace says, without the types.
CopyInv ==
    \A p \in Node : mcache[p] \notin {Absent, dirs[p]} =>
        p \in raced \/ \E c \in Clients : Repairs(c, p)

FsInv == TypeInv /\ FillInv /\ CopyInv

LEMMA FsInvInit == Init => FsInv
<1> SUFFICES ASSUME Init PROVE FsInv
  OBVIOUS
<1> USE DsFsAssumption DEF DsFsAssumption
<1>1. PICK P \in SUBSET Node, t \in Times : dirs = [p \in Node |-> IF p \in P THEN t ELSE Absent]
  BY DEF Init
<1>2. dirs \in [Node -> Times \union {Absent}]
  BY <1>1
<1>3. PICK M \in SUBSET Present : mcache = [p \in Node |-> IF p \in M THEN dirs[p] ELSE Absent]
  BY DEF Init
<1>4. mcache \in [Node -> Times \union {Absent}]
  BY <1>2, <1>3
<1>5. client = [c \in Clients |-> Idle] /\ Idle \in Call /\ InOrder(Idle)
  BY IdleInOrder DEF Init, Harmless, InOrder
<1>6. TypeInv
  BY <1>2, <1>4, <1>5 DEF Init, TypeInv, TypeOK
<1>7. FillInv
  BY <1>5 DEF FillInv, At, Idle
<1>8. CopyInv
  BY <1>3 DEF CopyInv
<1> QED
  BY <1>6, <1>7, <1>8 DEF FsInv

\* A client goes on without a change of the directories or of memcache, and
\* had nothing to repair.
LEMMA QuietStep ==
  ASSUME FsInv, NEW c \in Clients, NEW r, InOrder(r),
         client' = [client EXCEPT ![c] = r], UNCHANGED <<dirs, mcache, mode, raced>>,
         files' \subseteq Node \ {Root}, ops' \in 0..MaxOps, cut' \subseteq Node,
         client[c].pc \notin {"dirMcacheSet", "mcacheDelete", "flush"},
         r.pc # "dirMcacheSet", r.pc = "mcacheSet" => r.hit = dirs[r.look]
  PROVE  FsInv'
<1> USE DEF FsInv
<1>1. client \in [Clients -> Call] /\ r \in Call
  BY DEF TypeInv, TypeOK, InOrder
<1>2. client'[c] = r /\ \A d \in Clients \ {c} : client'[d] = client[d]
  BY <1>1
<1>3. TypeInv'
  <2>1. client' \in [Clients -> Call] /\ \A d \in Clients : InOrder(client'[d])
    BY <1>1, <1>2 DEF TypeInv
  <2> QED
    BY <2>1 DEF TypeInv, TypeOK
<1>4. FillInv'
  BY <1>2 DEF FillInv, At
<1>5. CopyInv'
  <2>1. \A d \in Clients, p \in Node : Repairs(d, p) => Repairs(d, p)'
    BY <1>2 DEF Repairs, At
  <2> QED
    BY <2>1 DEF CopyInv
<1> QED
  BY <1>3, <1>4, <1>5

-----------------------------------------------------------------------------
(* The steps that change neither directories nor memcache.                 *)

LEMMA RequestInOrder ==
  ASSUME NEW op \in Operations, NEW p \in Node, NEW r \in Request(op, p)
  PROVE  Harmless(r)
<1> DEFINE i == [Idle EXCEPT !.op = op, !.cur = p]
<1>1. i \in Call /\ i.pc = "idle" /\ i.ret = "idle" /\ i.cur = p
  BY IdleInOrder DEF Harmless, InOrder, Call, Idle
<1>2. InOrder(i) /\ Harmless(i)
  BY <1>1 DEF Harmless, InOrder, Returns
<1>3. Parent[p] \in Node
  BY DsFsAssumption DEF DsFsAssumption
<1> HIDE DEF i
<1>4. CASE op \in {"stat", "chtimes", "remove"}
  <2>1. r = FileByPath(i, p)
    BY <1>4 DEF Request, i
  <2> QED
    BY <2>1, <1>1, <1>2, FileByPathInOrder
<1>5. CASE op = "readDir"
  <2>1. r = [i EXCEPT !.pc = "readDir"]
    BY <1>5 DEF Request, i
  <2>2. r \in Call /\ r.pc = "readDir" /\ r.ret = "idle"
    BY <2>1, <1>1 DEF Call, Pcs
  <2> QED
    BY <2>2 DEF Harmless, InOrder, Returns
<1>6. CASE op = "mkdir"
  <2>1. PICK t \in Times : r = SaveDir(i, p, t)
    BY <1>6 DEF Request, i
  <2> QED
    BY <2>1, <1>1, <1>2, SaveDirInOrder
<1>7. CASE op = "writeFile"
  <2>1. p # Root /\ r = Lookup(i, Parent[p], "filePut")
    BY <1>7 DEF Request, i
  <2> QED
    BY <2>1, <1>1, <1>2, <1>3, LookupInOrder DEF Returns
<1>8. CASE op = "removeAll"
  <2>1. r = [i EXCEPT !.pc = "walk", !.arg = p, !.todo = <<p>>]
    BY <1>8 DEF Request, i
  <2>2. <<p>> \in Seq(Node)
    OBVIOUS
  <2>3. r \in Call /\ r.pc = "walk" /\ r.ret = "idle"
    BY <2>1, <2>2, <1>1 DEF Call, Pcs
  <2> QED
    BY <2>3 DEF Harmless, InOrder, Returns
<1>9. CASE op = "deleteAll"
  <2>1. r = [i EXCEPT !.pc = "deleteFiles"]
    BY <1>9 DEF Request, i
  <2>2. r \in Call /\ r.pc = "deleteFiles" /\ r.ret = "idle"
    BY <2>1, <1>1 DEF Call, Pcs
  <2> QED
    BY <2>2 DEF Harmless, InOrder, Returns
<1> QED
  BY <1>4, <1>5, <1>6, <1>7, <1>8, <1>9 DEF Operations

LEMMA BeginKeeps ==
  ASSUME FsInv, NEW c \in Clients, Begin(c)
  PROVE  FsInv'
<1>1. PICK op \in Operations, p \in Node : \E r \in Request(op, p) : Goto(c, r)
  BY DEF Begin
<1>2. PICK r \in Request(op, p) : Goto(c, r)
  BY <1>1
<1>3. Harmless(r)
  BY RequestInOrder
<1>4. ops' \in 0..MaxOps
  BY DsFsAssumption DEF DsFsAssumption, Begin, FsInv, TypeInv, TypeOK
<1> QED
  BY <1>2, <1>3, <1>4, QuietStep
     DEF Begin, Goto, Harmless, store, history, At, FsInv, TypeInv, TypeOK

LEMMA LookupKeeps ==
  ASSUME FsInv, NEW c \in Clients, McacheGet(c) \/ DatastoreGet(c)
  PROVE  FsInv'
<1> DEFINE q == client[c]
<1>1. InOrder(q) /\ q \in Call /\ client \in [Clients -> Call]
  BY DEF FsInv, TypeInv, TypeOK, InOrder
<1>2. /\ UNCHANGED <<dirs, mcache, mode, raced>>
      /\ files' \subseteq Node \ {Root} /\ ops' \in 0..MaxOps /\ cut' \subseteq Node
  BY DEF McacheGet, DatastoreGet, store, history, FsInv, TypeInv, TypeOK
<1>3. q.pc \in {"mcacheGet", "datastoreGet"}
  BY DEF McacheGet, DatastoreGet, At
<1>4. ASSUME NEW hit \in Times \union {Absent, Blank, Failed}, Return(c, hit)
      PROVE  FsInv'
  BY <1>1, <1>2, <1>3, <1>4, ReturnInOrder, QuietStep DEF Harmless
<1>5. mcache[q.look] \in Times \union {Absent} /\ dirs[q.look] \in Times \union {Absent}
  BY <1>1 DEF FsInv, TypeInv, TypeOK, Call
<1>6. CASE McacheGet(c)
  <2>1. CASE Goto(c, [q EXCEPT !.pc = "datastoreGet"])
    <3> DEFINE r == [q EXCEPT !.pc = "datastoreGet"]
    <3>1. r \in Call /\ r.pc = "datastoreGet" /\ r.ret = q.ret /\ r.cur = q.cur
      BY <1>1 DEF Call, Pcs
    <3>2. InOrder(r)
      BY <1>1, <3>1 DEF InOrder
    <3> QED
      BY <2>1, <1>2, <1>3, <3>1, <3>2, QuietStep DEF Goto
  <2> QED
    BY <1>6, <2>1, <1>4, <1>5 DEF McacheGet
<1>7. CASE DatastoreGet(c)
  <2>1. CASE dirs[q.look] # Absent /\ Goto(c, [q EXCEPT !.pc = "mcacheSet", !.hit = dirs[q.look]])
    <3> DEFINE r == [q EXCEPT !.pc = "mcacheSet", !.hit = dirs[q.look]]
    <3>1. /\ r \in Call /\ r.pc = "mcacheSet" /\ r.ret = q.ret /\ r.cur = q.cur
          /\ r.hit = dirs[r.look] /\ r.hit \in Times
      BY <1>1, <1>5, <2>1 DEF Call, Pcs
    <3>2. InOrder(r)
      BY <1>1, <3>1 DEF InOrder
    <3> QED
      BY <2>1, <1>2, <1>3, <3>1, <3>2, QuietStep DEF Goto
  <2> QED
    BY <1>7, <2>1, <1>4, <1>5 DEF DatastoreGet
<1> QED
  BY <1>6, <1>7

\* The steps of the operations proper that end in a harmless state.
LEMMA OperationInOrder ==
  ASSUME FsInv, NEW c \in Clients,
         \/ ParentSeen(c) \/ FileFound(c) \/ FileMissing(c) \/ DirGot(c) \/ FilePut(c)
         \/ QueryDirs(c) \/ QueryFiles(c) \/ Walk(c) \/ Unwind(c)
         \/ FileDelete(c) \/ DeleteFiles(c)
  PROVE  \E r : Harmless(r) /\ Goto(c, r)
<1> DEFINE q == client[c]
<1>1. InOrder(q) /\ q \in Call
  BY DEF FsInv, TypeInv, TypeOK, InOrder
<1>2. /\ q.pc \in {"parentSeen", "fileGet", "noFile", "dirGot", "filePut", "readDir",
                   "queryFiles", "walk", "unwind", "fileDelete", "deleteFiles"}
      /\ q.ret = "idle"
  BY <1>1 DEF InOrder, At, ParentSeen, FileFound, FileMissing, DirGot, FilePut, QueryDirs,
              QueryFiles, Walk, Unwind, FileDelete, DeleteFiles
<1>3. Parent[q.cur] \in Node /\ q.cur \in Node /\ Root \in Node
  BY <1>1, DsFsAssumption DEF DsFsAssumption, Call
<1>4. ASSUME NEW p \in Node, NEW then \in {"fileGet", "dirGot", "parentSeen", "queryFiles"}
      PROVE  Harmless(Lookup(q, p, then))
  BY <1>1, LookupInOrder DEF Returns
\* a step that stays within the operation
<1>5. ASSUME NEW r \in Call, r.ret = "idle",
             r.pc \in {"walk", "unwind", "readDir", "queryFiles", "fileDelete", "dirDelete",
                      "deleteDirs"}
      PROVE  Harmless(r)
  BY <1>5 DEF Harmless, InOrder, Returns
<1> HIDE DEF q
<1>6. CASE ParentSeen(c)
  BY <1>6, <1>1, <1>2, <1>3, IdleInOrder, SaveDirInOrder DEF ParentSeen, Finish, q
<1>7. CASE FileFound(c)
  <2>1. CASE q.op = "chtimes" /\ Goto(c, Lookup(q, Parent[q.cur], "filePut"))
    <3>1. q.cur # Root
      BY <1>7 DEF FsInv, TypeInv, TypeOK, FileFound, HasFile, q
    <3> QED
      BY <2>1, <3>1, <1>1, <1>3, LookupInOrder DEF Returns
  <2>2. CASE Goto(c, [q EXCEPT !.pc = "walk", !.taken = Append(@, q.cur)])
    <3> DEFINE r == [q EXCEPT !.pc = "walk", !.taken = Append(@, q.cur)]
    <3>1. Append(q.taken, q.cur) \in Seq(Node)
      BY <1>1, AppendProperties DEF Call
    <3>2. r \in Call /\ r.ret = "idle" /\ r.pc = "walk"
      BY <3>1, <1>1, <1>2 DEF Call, Pcs
    <3> QED
      BY <2>2, <3>2, <1>5
  <2>3. CASE Goto(c, [q EXCEPT !.pc = "fileDelete"])
    <3> DEFINE r == [q EXCEPT !.pc = "fileDelete"]
    <3>1. r \in Call /\ r.ret = "idle" /\ r.pc = "fileDelete"
      BY <1>1, <1>2 DEF Call, Pcs
    <3> QED
      BY <2>3, <3>1, <1>5
  <2> QED
    BY <1>7, <2>1, <2>2, <2>3, IdleInOrder DEF FileFound, Finish, q
<1>8. CASE FileMissing(c)
  BY <1>8, <1>3, <1>4, IdleInOrder DEF FileMissing, Finish, q
<1>9. CASE DirGot(c)
  <2>1. CASE \E t \in Times : Goto(c, SaveDir(q, IF q.hit = Blank THEN Root ELSE q.cur, t))
    BY <2>1, <1>1, <1>2, <1>3, SaveDirInOrder
  <2>2. CASE Goto(c, [q EXCEPT !.pc = "walk", !.hit = Absent])
    <3> DEFINE r == [q EXCEPT !.pc = "walk", !.hit = Absent]
    <3>1. r \in Call /\ r.ret = "idle" /\ r.pc = "walk"
      BY <1>1, <1>2 DEF Call, Pcs
    <3> QED
      BY <2>2, <3>1, <1>5
  <2>3. CASE Goto(c, [q EXCEPT !.pc = "readDir", !.hit = Absent, !.taken = Append(@, q.cur)])
    <3> DEFINE r == [q EXCEPT !.pc = "readDir", !.hit = Absent, !.taken = Append(@, q.cur)]
    <3>1. Append(q.taken, q.cur) \in Seq(Node)
      BY <1>1, AppendProperties DEF Call
    <3>2. r \in Call /\ r.ret = "idle" /\ r.pc = "readDir"
      BY <3>1, <1>1, <1>2 DEF Call, Pcs
    <3> QED
      BY <2>3, <3>2, <1>5
  <2>4. CASE Goto(c, [q EXCEPT !.pc = "unwind", !.hit = Absent])
    <3> DEFINE r == [q EXCEPT !.pc = "unwind", !.hit = Absent]
    <3>1. r \in Call /\ r.ret = "idle" /\ r.pc = "unwind"
      BY <1>1, <1>2 DEF Call, Pcs
    <3> QED
      BY <2>4, <3>1, <1>5
  <2>5. CASE Goto(c, [q EXCEPT !.pc = "dirDelete"])
    <3> DEFINE r == [q EXCEPT !.pc = "dirDelete"]
    <3>1. r \in Call /\ r.ret = "idle" /\ r.pc = "dirDelete"
      BY <1>1, <1>2 DEF Call, Pcs
    <3> QED
      BY <2>5, <3>1, <1>5
  <2> QED
    BY <1>9, <2>1, <2>2, <2>3, <2>4, <2>5, IdleInOrder DEF DirGot, Finish, q
<1>10. CASE FilePut(c)
  BY <1>10, IdleInOrder DEF FilePut, Finish
<1>11. CASE QueryDirs(c)
  <2>1. PICK P \in Found :
           Goto(c, Lookup([q EXCEPT !.kids = IF q.op = "readDir" THEN {} ELSE Children(P, q.cur)],
                          q.cur, "queryFiles"))
    BY <1>11 DEF QueryDirs, q
  <2> DEFINE kids == IF q.op = "readDir" THEN {} ELSE Children(P, q.cur)
             r == [q EXCEPT !.kids = kids]
  <2>2. kids \in SUBSET Node
    BY DEF Found, Present, Children
  <2>3. r \in Call /\ r.ret = "idle" /\ r.pc = "readDir"
    <3>1. q.pc = "readDir"
      BY <1>11 DEF QueryDirs, At, q
    <3> QED
      BY <2>2, <3>1, <1>1, <1>2 DEF Call
  <2>4. InOrder(r)
    BY <2>3, <1>5 DEF Harmless
  <2> QED
    BY <2>1, <2>4, <1>3, LookupInOrder DEF Returns
<1>12. CASE QueryFiles(c)
  <2> DEFINE found == SetToSeq(q.kids) \o SetToSeq(Children(files, q.cur))
             todo == IF Unread(q) THEN q.todo ELSE found \o q.todo
             r == [q EXCEPT !.pc = "walk", !.kids = {}, !.hit = Absent, !.todo = todo]
  <2>1. IsFiniteSet(q.kids) /\ IsFiniteSet(Children(files, q.cur))
    <3>1. q.kids \subseteq Node /\ Children(files, q.cur) \subseteq Node
      BY <1>1 DEF Call, Children, FsInv, TypeInv, TypeOK
    <3> QED
      BY <3>1, FS_Subset, DsFsAssumption DEF DsFsAssumption
  <2>2. SetToSeq(q.kids) \in Seq(Node) /\ SetToSeq(Children(files, q.cur)) \in Seq(Node)
    <3>1. q.kids \subseteq Node /\ Children(files, q.cur) \subseteq Node
      BY <1>1 DEF Call, Children, FsInv, TypeInv, TypeOK
    <3> QED
      BY <2>1, <3>1, SetToSeqIsSeq, SeqMonotonic
  <2>3. todo \in Seq(Node)
    BY <2>2, <1>1, ConcatProperties DEF Call
  <2> HIDE DEF todo
  <2>4. r \in Call /\ r.ret = "idle" /\ r.pc = "walk"
    BY <2>3, <1>1, <1>2 DEF Call, Pcs
  <2>5. Finish(c) \/ Goto(c, r)
    BY <1>12 DEF QueryFiles, todo, q
  <2> QED
    BY <2>4, <2>5, <1>5, IdleInOrder DEF Finish
<1>13. CASE Walk(c)
  <2>1. CASE q.todo # <<>> /\ Goto(c, FileByPath([q EXCEPT !.todo = Tail(@)], Head(q.todo)))
    <3> DEFINE r == [q EXCEPT !.todo = Tail(@)]
    <3>1. Head(q.todo) \in Node /\ Tail(q.todo) \in Seq(Node)
      BY <2>1, <1>1, HeadTailProperties DEF Call
    <3>2. r \in Call /\ r.ret = "idle" /\ r.pc = "walk"
      <4>1. q.pc = "walk"
        BY <1>13 DEF Walk, At, q
      <4> QED
        BY <3>1, <4>1, <1>1, <1>2 DEF Call
    <3>3. InOrder(r)
      BY <3>2, <1>5 DEF Harmless
    <3> QED
      BY <2>1, <3>1, <3>2, <3>3, FileByPathInOrder
  <2>2. CASE Goto(c, [q EXCEPT !.op = "unwind", !.pc = "unwind"])
    <3> DEFINE r == [q EXCEPT !.op = "unwind", !.pc = "unwind"]
    <3>1. r \in Call /\ r.ret = "idle" /\ r.pc = "unwind"
      BY <1>1, <1>2 DEF Call, Pcs
    <3> QED
      BY <2>2, <3>1, <1>5
  <2> QED
    BY <1>13, <2>1, <2>2 DEF Walk, q
<1>14. CASE Unwind(c)
  <2>1. CASE q.taken # <<>> /\ Goto(c, FileByPath([q EXCEPT !.taken = Front(@)], Last(q.taken)))
    <3> DEFINE r == [q EXCEPT !.taken = Front(@)]
    <3>1. Last(q.taken) \in Node /\ Front(q.taken) \in Seq(Node)
      <4>1. q.taken \in Seq(Node) /\ Len(q.taken) \in Nat \ {0}
        BY <2>1, <1>1, EmptySeq DEF Call
      <4>2. \A i \in 1 .. Len(q.taken) : q.taken[i] \in Node
        BY <4>1, ElementOfSeq
      <4>3. SubSeq(q.taken, 1, Len(q.taken) - 1) \in Seq(Node)
        BY <4>1, <4>2, SubSeqProperties
      <4> QED
        BY <4>1, <4>2, <4>3 DEF Front, Last
    <3>2. r \in Call /\ r.ret = "idle" /\ r.pc = "unwind"
      <4>1. q.pc = "unwind"
        BY <1>14 DEF Unwind, At, q
      <4> QED
        BY <3>1, <4>1, <1>1, <1>2 DEF Call
    <3>3. InOrder(r)
      BY <3>2, <1>5 DEF Harmless
    <3> QED
      BY <2>1, <3>1, <3>2, <3>3, FileByPathInOrder
  <2> QED
    BY <1>14, <2>1, IdleInOrder DEF Unwind, Finish, q
<1>15. CASE FileDelete(c)
  BY <1>15, <1>3, <1>4 DEF FileDelete, q
<1>16. CASE DeleteFiles(c)
  <2> DEFINE r == [q EXCEPT !.pc = "deleteDirs"]
  <2>1. r \in Call /\ r.ret = "idle" /\ r.pc = "deleteDirs"
    BY <1>1, <1>2 DEF Call, Pcs
  <2> QED
    BY <1>16, <2>1, <1>5 DEF DeleteFiles, q
<1> QED
  BY <1>6, <1>7, <1>8, <1>9, <1>10, <1>11, <1>12, <1>13, <1>14, <1>15, <1>16

LEMMA OperationKeeps ==
  ASSUME FsInv, NEW c \in Clients,
         \/ ParentSeen(c) \/ FileFound(c) \/ FileMissing(c) \/ DirGot(c) \/ FilePut(c)
         \/ QueryDirs(c) \/ QueryFiles(c) \/ Walk(c) \/ Unwind(c)
         \/ FileDelete(c) \/ DeleteFiles(c)
  PROVE  FsInv'
<1> DEFINE q == client[c]
<1>1. PICK r : Harmless(r) /\ Goto(c, r)
  BY OperationInOrder
<1>2. UNCHANGED <<dirs, mcache, ops, mode, raced>>
  BY DEF ParentSeen, FileFound, FileMissing, DirGot, FilePut, QueryDirs, QueryFiles, Walk,
         Unwind, FileDelete, DeleteFiles, store, history
<1>3. q.pc \notin {"dirMcacheSet", "mcacheDelete", "flush"}
  BY DEF At, ParentSeen, FileFound, FileMissing, DirGot, FilePut, QueryDirs,
         QueryFiles, Walk, Unwind, FileDelete, DeleteFiles
<1>4. InOrder(q)
  BY DEF FsInv, TypeInv
<1>5. files' \subseteq Node \ {Root}
  <2>1. CASE FilePut(c)
    <3>1. q.cur \in Node \ {Root}
      BY <2>1, <1>4 DEF FilePut, At, InOrder, Call
    <3> QED
      BY <2>1, <3>1 DEF FilePut, FsInv, TypeInv, TypeOK
  <2>2. CASE ~FilePut(c)
    BY <2>2 DEF ParentSeen, FileFound, FileMissing, DirGot, QueryDirs, QueryFiles, Walk,
         Unwind, FileDelete, DeleteFiles, store, FsInv, TypeInv, TypeOK
  <2> QED
    BY <2>1, <2>2
<1>6. cut' \subseteq Node
  <2>1. CASE FileDelete(c)
    BY <2>1, <1>4 DEF FileDelete, FsInv, TypeInv, TypeOK, InOrder, Call
  <2>2. CASE ~FileDelete(c)
    BY <2>2 DEF ParentSeen, FileFound, FileMissing, DirGot, FilePut, QueryDirs, QueryFiles, Walk,
         Unwind, DeleteFiles, history, FsInv, TypeInv, TypeOK
  <2> QED
    BY <2>1, <2>2
<1> QED
  BY <1>1, <1>2, <1>3, <1>5, <1>6, QuietStep DEF Goto, Harmless, FsInv, TypeInv, TypeOK

-----------------------------------------------------------------------------
(* The steps that change directories or memcache.                          *)

\* What TypeInv asks of a step of c.
LEMMA TypesKept ==
  ASSUME TypeInv, NEW c \in Clients, NEW r, InOrder(r), client' = [client EXCEPT ![c] = r],
         dirs' \in [Node -> Times \union {Absent}], mcache' \in [Node -> Times \union {Absent}],
         cut' \subseteq Node, raced' \subseteq Node, UNCHANGED <<files, ops, mode>>
  PROVE  /\ TypeInv'
         /\ client'[c] = r /\ \A d \in Clients \ {c} : client'[d] = client[d]
<1>1. client \in [Clients -> Call] /\ r \in Call
  BY DEF TypeInv, TypeOK, InOrder
<1>2. client'[c] = r /\ \A d \in Clients \ {c} : client'[d] = client[d]
  BY <1>1
<1>3. client' \in [Clients -> Call] /\ \A d \in Clients : InOrder(client'[d])
  BY <1>1, <1>2 DEF TypeInv
<1> QED
  BY <1>2, <1>3 DEF TypeInv, TypeOK

\* dirByPath stores what it has read.
LEMMA McacheSetKeeps ==
  ASSUME FsInv, NEW c \in Clients, McacheSet(c)
  PROVE  FsInv'
<1> DEFINE q == client[c]
<1> USE DEF FsInv
<1>1. InOrder(q) /\ q.pc = "mcacheSet" /\ q.hit \in Times /\ q.look \in Node
  BY DEF McacheSet, At, TypeInv, InOrder, Call
<1>2. PICK r : Harmless(r) /\ client' = [client EXCEPT ![c] = r]
  BY <1>1, ReturnInOrder DEF McacheSet, TypeInv, TypeOK
<1>3. mcache' = mcache \/ mcache' = [mcache EXCEPT ![q.look] = q.hit]
  BY DEF McacheSet
<1>4. mcache' \in [Node -> Times \union {Absent}]
  BY <1>1, <1>3 DEF TypeInv, TypeOK
<1>5. UNCHANGED <<dirs, files, ops, mode, cut, raced>>
  BY DEF McacheSet, store, history
<1>6. TypeInv' /\ client'[c] = r /\ \A d \in Clients \ {c} : client'[d] = client[d]
  <2>1. dirs' \in [Node -> Times \union {Absent}] /\ cut' \subseteq Node /\ raced' \subseteq Node
    BY <1>5 DEF TypeInv, TypeOK
  <2> QED
    BY <1>2, <1>4, <1>5, <2>1, TypesKept DEF Harmless
<1>7. FillInv'
  BY <1>2, <1>5, <1>6 DEF FillInv, At, Harmless
<1>8. CopyInv'
  <2> SUFFICES ASSUME NEW p \in Node, mcache'[p] \notin {Absent, dirs'[p]}
               PROVE  p \in raced' \/ \E d \in Clients : Repairs(d, p)'
    BY DEF CopyInv
  <2>1. CASE mcache'[p] = mcache[p]
    <3>1. p \in raced \/ \E d \in Clients : Repairs(d, p)
      BY <2>1, <1>5 DEF CopyInv
    <3>2. \A d \in Clients : Repairs(d, p) => Repairs(d, p)'
      BY <1>1, <1>6 DEF Repairs, At
    <3> QED
      BY <3>1, <3>2, <1>5
  <2>2. CASE mcache'[p] # mcache[p]
    <3>1. p = q.look /\ mcache'[p] = q.hit
      BY <2>2, <1>3, <1>4 DEF TypeInv, TypeOK
    <3> QED
      BY <3>1, <1>1, <1>5 DEF FillInv, At
  <2> QED
    BY <2>1, <2>2
<1> QED
  BY <1>6, <1>7, <1>8

\* Directories change, and c repairs memcache next.
LEMMA ChangeKeeps ==
  ASSUME FsInv, NEW c \in Clients, NEW r, InOrder(r), client' = [client EXCEPT ![c] = r],
         dirs' \in [Node -> Times \union {Absent}],
         NEW P \in SUBSET Node, \A p \in Node \ P : dirs'[p] = dirs[p],
         RacedBy(c, P), cut' \subseteq Node, UNCHANGED <<files, mcache, ops, mode>>,
         client[c].pc \notin {"dirMcacheSet", "mcacheDelete", "flush"},
         (r.pc \in {"dirMcacheSet", "mcacheDelete"} /\ P = {r.cur}) \/ r.pc = "flush",
         r.pc = "dirMcacheSet" => r.time = dirs'[r.cur]
  PROVE  FsInv'
<1> USE DEF FsInv
<1>1. raced' \subseteq Node /\ raced \subseteq raced'
  BY DEF RacedBy, TypeInv, TypeOK
<1>2. TypeInv' /\ client'[c] = r /\ \A d \in Clients \ {c} : client'[d] = client[d]
  <2>1. mcache' \in [Node -> Times \union {Absent}]
    BY DEF TypeInv, TypeOK
  <2> QED
    BY <1>1, <2>1, TypesKept
<1>3. FillInv'
  <2> SUFFICES ASSUME NEW d \in Clients
               PROVE  /\ At(d, "mcacheSet")' => client'[d].hit = dirs'[client'[d].look]
                                                \/ client'[d].look \in raced'
                      /\ At(d, "dirMcacheSet")' => client'[d].time = dirs'[client'[d].cur]
                                                \/ client'[d].cur \in raced'
    BY DEF FillInv
  <2>1. CASE d = c
    BY <2>1, <1>2 DEF At
  <2>2. CASE d # c
    <3>1. client'[d] = client[d] /\ client[d].look \in Node /\ client[d].cur \in Node
      BY <2>2, <1>2 DEF TypeInv, InOrder, Call
    <3>2. At(d, "mcacheSet") /\ client[d].look \in P => client[d].look \in raced'
      BY <2>2, <3>1 DEF RacedBy, PendingFill
    <3>3. At(d, "dirMcacheSet") /\ client[d].cur \in P => client[d].cur \in raced'
      BY <2>2, <3>1 DEF RacedBy, PendingFill
    <3> QED
      BY <3>1, <3>2, <3>3, <1>1 DEF FillInv, At
  <2> QED
    BY <2>1, <2>2
<1>4. CopyInv'
  <2> SUFFICES ASSUME NEW p \in Node, mcache'[p] \notin {Absent, dirs'[p]}
               PROVE  p \in raced' \/ \E d \in Clients : Repairs(d, p)'
    BY DEF CopyInv
  <2>1. CASE p \in P
    <3>1. Repairs(c, p)'
      BY <2>1, <1>2 DEF Repairs, At
    <3> QED
      BY <3>1
  <2>2. CASE p \notin P
    <3>1. p \in raced \/ \E d \in Clients : Repairs(d, p)
      BY <2>2 DEF CopyInv
    <3>2. \A d \in Clients : Repairs(d, p) => Repairs(d, p)'
      BY <1>2 DEF Repairs, At
    <3> QED
      BY <3>1, <3>2, <1>1
  <2> QED
    BY <2>1, <2>2
<1> QED
  BY <1>2, <1>3, <1>4

LEMMA DirPutKeeps ==
  ASSUME FsInv, NEW c \in Clients, DirPut(c)
  PROVE  FsInv'
<1> DEFINE q == client[c]
           r == [q EXCEPT !.pc = "dirMcacheSet"]
<1>1. InOrder(q) /\ q.pc = "dirPut" /\ q.time \in Times /\ q.cur \in Node
  BY DEF FsInv, DirPut, At, TypeInv, InOrder, Call
<1>2. /\ r \in Call /\ r.pc = "dirMcacheSet" /\ r.ret = q.ret /\ r.cur = q.cur
      /\ r.time = q.time
  BY <1>1 DEF InOrder, Call, Pcs
<1>3. InOrder(r)
  BY <1>1, <1>2 DEF InOrder
<1>4. dirs' \in [Node -> Times \union {Absent}] /\ dirs' = [dirs EXCEPT ![q.cur] = q.time]
  BY <1>1 DEF DirPut, FsInv, TypeInv, TypeOK
<1>5. dirs'[q.cur] = q.time /\ \A p \in Node \ {q.cur} : dirs'[p] = dirs[p]
  BY <1>1, <1>4 DEF FsInv, TypeInv, TypeOK
<1>6. cut' \subseteq Node /\ RacedBy(c, {q.cur}) /\ UNCHANGED <<files, mcache, ops, mode>>
  BY DEF DirPut, FsInv, TypeInv, TypeOK
<1>7. client' = [client EXCEPT ![c] = r]
  BY DEF DirPut, Goto
<1> HIDE DEF q, r
<1> QED
  BY <1>1, <1>2, <1>3, <1>4, <1>5, <1>6, <1>7, ChangeKeeps DEF q

LEMMA DirDeleteKeeps ==
  ASSUME FsInv, NEW c \in Clients, DirDelete(c)
  PROVE  FsInv'
<1> DEFINE q == client[c]
<1>1. InOrder(q) /\ q.pc = "dirDelete" /\ q.cur \in Node /\ q.ret = "idle"
  BY DEF FsInv, DirDelete, At, TypeInv, InOrder, Call
<1>2. CASE RacedBy(c, {q.cur}) /\ dirs' = [dirs EXCEPT ![q.cur] = Absent]
           /\ Goto(c, [q EXCEPT !.pc = "mcacheDelete"])
  <2> DEFINE r == [q EXCEPT !.pc = "mcacheDelete"]
  <2>1. r \in Call /\ r.pc = "mcacheDelete" /\ r.ret = q.ret /\ r.cur = q.cur
    BY <1>1 DEF InOrder, Call, Pcs
  <2>2. InOrder(r)
    BY <1>1, <2>1 DEF InOrder
  <2>3. dirs' \in [Node -> Times \union {Absent}] /\ \A p \in Node \ {q.cur} : dirs'[p] = dirs[p]
    BY <1>1, <1>2 DEF FsInv, TypeInv, TypeOK
  <2>4. cut' \subseteq Node /\ UNCHANGED <<files, mcache, ops, mode>>
    BY <1>1 DEF DirDelete, history, FsInv, TypeInv, TypeOK
  <2>5. client' = [client EXCEPT ![c] = r]
    BY <1>2 DEF Goto
  <2> HIDE DEF q, r
  <2> QED
    BY <1>1, <1>2, <2>1, <2>2, <2>3, <2>4, <2>5, ChangeKeeps DEF q
<1>3. CASE UNCHANGED <<dirs, history>>
           /\ Goto(c, [q EXCEPT !.pc = "mcacheDelete", !.op = "remove"])
  <2> DEFINE r == [q EXCEPT !.pc = "mcacheDelete", !.op = "remove"]
  <2>1. r \in Call /\ r.pc = "mcacheDelete" /\ r.ret = q.ret /\ r.cur = q.cur
    BY <1>1 DEF InOrder, Call, Pcs, Operations
  <2>2. InOrder(r)
    BY <1>1, <2>1 DEF InOrder
  <2>3. /\ UNCHANGED <<dirs, mcache, mode, raced>>
        /\ files' \subseteq Node \ {Root} /\ ops' \in 0..MaxOps /\ cut' \subseteq Node
    BY <1>3 DEF DirDelete, history, FsInv, TypeInv, TypeOK
  <2> QED
    BY <1>1, <1>3, <2>1, <2>2, <2>3, QuietStep DEF Goto
<1> QED
  BY <1>2, <1>3 DEF DirDelete

LEMMA DeleteDirsKeeps ==
  ASSUME FsInv, NEW c \in Clients, DeleteDirs(c)
  PROVE  FsInv'
<1> DEFINE q == client[c]
           r == [q EXCEPT !.pc = "flush"]
<1>1. InOrder(q) /\ q.pc = "deleteDirs" /\ q.ret = "idle"
  BY DEF FsInv, DeleteDirs, At, TypeInv, InOrder
<1>2. r \in Call /\ r.pc = "flush" /\ r.ret = q.ret
  BY <1>1 DEF InOrder, Call, Pcs
<1>3. InOrder(r)
  BY <1>1, <1>2 DEF InOrder
<1>4. PICK P \in Found : \E S \in Deletable(P) :
         /\ dirs' = [p \in Node |-> IF p \in S THEN Absent ELSE dirs[p]]
         /\ cut' = cut \union S
         /\ RacedBy(c, S)
  BY DEF DeleteDirs
<1>5. PICK S \in Deletable(P) :
         /\ dirs' = [p \in Node |-> IF p \in S THEN Absent ELSE dirs[p]]
         /\ cut' = cut \union S
         /\ RacedBy(c, S)
  BY <1>4
<1>6. S \in SUBSET Node
  BY DEF Deletable, Found, Present
<1>7. dirs' \in [Node -> Times \union {Absent}] /\ \A p \in Node \ S : dirs'[p] = dirs[p]
  BY <1>5 DEF FsInv, TypeInv, TypeOK
<1>8. cut' \subseteq Node /\ UNCHANGED <<files, mcache, ops, mode>>
  BY <1>5, <1>6 DEF DeleteDirs, FsInv, TypeInv, TypeOK
<1>9. client' = [client EXCEPT ![c] = r]
  BY DEF DeleteDirs, Goto
<1> HIDE DEF q, r
<1> QED
  BY <1>1, <1>2, <1>3, <1>5, <1>6, <1>7, <1>8, <1>9, ChangeKeeps DEF q

\* No copy depends on a repair by c any more.
Settled(c) ==
    \A p \in Node :
        \/ mcache'[p] \in {Absent, dirs[p]}
        \/ p \in raced'
        \/ mcache'[p] = mcache[p] /\ ~Repairs(c, p)

\* A client is through: memcache was repaired, or the repair has failed.
LEMMA RepairKeeps ==
  ASSUME FsInv, NEW c \in Clients, NEW r, Harmless(r), client' = [client EXCEPT ![c] = r],
         mcache' \in [Node -> Times \union {Absent}],
         raced' \subseteq Node, raced \subseteq raced',
         Settled(c),
         UNCHANGED <<dirs, files, ops, mode, cut>>
  PROVE  FsInv'
<1> USE DEF FsInv
<1>1. TypeInv' /\ client'[c] = r /\ \A d \in Clients \ {c} : client'[d] = client[d]
  <2>1. dirs' \in [Node -> Times \union {Absent}] /\ cut' \subseteq Node
    BY DEF TypeInv, TypeOK
  <2> QED
    BY <2>1, TypesKept DEF Harmless
<1>2. FillInv'
  BY <1>1 DEF FillInv, At, Harmless
<1>3. CopyInv'
  <2> SUFFICES ASSUME NEW p \in Node, mcache'[p] \notin {Absent, dirs'[p]}, p \notin raced'
               PROVE  \E d \in Clients : Repairs(d, p)'
    BY DEF CopyInv
  <2>1. mcache'[p] = mcache[p] /\ ~Repairs(c, p) /\ p \notin raced
    BY DEF Settled
  <2>2. PICK d \in Clients \ {c} : Repairs(d, p)
    BY <2>1 DEF CopyInv
  <2>3. Repairs(d, p)'
    BY <2>2, <1>1 DEF Repairs, At
  <2> QED
    BY <2>3
<1> QED
  BY <1>1, <1>2, <1>3

LEMMA DirMcacheSetKeeps ==
  ASSUME FsInv, NEW c \in Clients, DirMcacheSet(c)
  PROVE  FsInv'
<1> DEFINE q == client[c]
           z == [q EXCEPT !.time = Absent]
           r == Lookup(z, Parent[q.cur], "parentSeen")
<1>1. /\ InOrder(q) /\ q.pc = "dirMcacheSet" /\ q.time \in Times /\ q.cur \in Node
      /\ q.ret = "idle" /\ Parent[q.cur] \in Node
  BY DsFsAssumption DEF DsFsAssumption, FsInv, DirMcacheSet, At, TypeInv, InOrder, Call
<1>2. z \in Call /\ z.ret = "idle" /\ z.pc = "dirMcacheSet"
  BY <1>1 DEF InOrder, Call
<1>3. Harmless(r)
  <2> DEFINE l == Lookup(z, Parent[q.cur], "parentSeen")
  <2>1. l \in Call /\ l.pc = "mcacheGet" /\ l.ret = "parentSeen"
    BY <1>1, <1>2 DEF Lookup, Call, Pcs
  <2> QED
    BY <2>1 DEF Harmless, InOrder, Returns
<1>4. client' = [client EXCEPT ![c] = r] /\ UNCHANGED <<dirs, files, ops, mode, cut>>
  BY DEF DirMcacheSet, Goto, store
<1>5. \/ mcache' = [mcache EXCEPT ![q.cur] = q.time] /\ UNCHANGED raced
      \/ raced' = raced \union {q.cur} /\ UNCHANGED mcache
  BY DEF DirMcacheSet
<1>6. mcache' \in [Node -> Times \union {Absent}]
  BY <1>1, <1>5 DEF FsInv, TypeInv, TypeOK
<1>7. raced' \subseteq Node /\ raced \subseteq raced'
  BY <1>1, <1>5 DEF FsInv, TypeInv, TypeOK
<1>8. q.time = dirs[q.cur] \/ q.cur \in raced
  BY <1>1 DEF FsInv, FillInv, At
<1>9. \A p \in Node : ~Repairs(c, p) \/ p = q.cur
  BY <1>1 DEF Repairs, At
<1>10. Settled(c)
  <2>1. CASE mcache' = [mcache EXCEPT ![q.cur] = q.time] /\ UNCHANGED raced
    <3>1. mcache'[q.cur] = q.time /\ \A p \in Node \ {q.cur} : mcache'[p] = mcache[p]
      BY <2>1, <1>1 DEF FsInv, TypeInv, TypeOK
    <3> QED
      BY <2>1, <3>1, <1>8, <1>9 DEF Settled
  <2>2. CASE raced' = raced \union {q.cur} /\ UNCHANGED mcache
    BY <2>2, <1>9 DEF Settled
  <2> QED
    BY <1>5, <2>1, <2>2
<1> HIDE DEF r
<1> QED
  BY <1>3, <1>4, <1>6, <1>7, <1>10, RepairKeeps

LEMMA McacheDeleteKeeps ==
  ASSUME FsInv, NEW c \in Clients, McacheDelete(c)
  PROVE  FsInv'
<1> DEFINE q == client[c]
<1>1. InOrder(q) /\ q.pc = "mcacheDelete" /\ q.cur \in Node /\ q.ret = "idle"
  BY DEF FsInv, McacheDelete, At, TypeInv, InOrder, Call
<1>2. PICK r : Harmless(r) /\ client' = [client EXCEPT ![c] = r]
  <2> DEFINE z == [q EXCEPT !.pc = "unwind", !.hit = Absent]
  <2>1. z \in Call /\ z.pc = "unwind" /\ z.ret = "idle"
    BY <1>1 DEF InOrder, Call, Pcs
  <2>2. Harmless(z)
    BY <2>1 DEF Harmless, InOrder, Returns
  <2> QED
    BY <2>2, IdleInOrder DEF McacheDelete, Finish, Goto
<1>3. \/ mcache' = [mcache EXCEPT ![q.cur] = Absent] /\ UNCHANGED raced
      \/ raced' = raced \union {q.cur} /\ UNCHANGED mcache
  BY DEF McacheDelete
<1>4. mcache' \in [Node -> Times \union {Absent}] /\ raced' \subseteq Node /\ raced \subseteq raced'
  BY <1>1, <1>3 DEF FsInv, TypeInv, TypeOK
<1>5. \A p \in Node : ~Repairs(c, p) \/ p = q.cur
  BY <1>1 DEF Repairs, At
<1>6. Settled(c)
  <2>1. CASE mcache' = [mcache EXCEPT ![q.cur] = Absent]
    <3>1. mcache'[q.cur] = Absent /\ \A p \in Node \ {q.cur} : mcache'[p] = mcache[p]
      BY <2>1, <1>1 DEF FsInv, TypeInv, TypeOK
    <3> QED
      BY <3>1, <1>5 DEF Settled
  <2>2. CASE raced' = raced \union {q.cur} /\ UNCHANGED mcache
    BY <2>2, <1>5 DEF Settled
  <2> QED
    BY <1>3, <2>1, <2>2
<1>7. UNCHANGED <<dirs, files, ops, mode, cut>>
  BY DEF McacheDelete, store
<1> QED
  BY <1>2, <1>4, <1>6, <1>7, RepairKeeps

LEMMA FlushKeeps ==
  ASSUME FsInv, NEW c \in Clients, Flush(c)
  PROVE  FsInv'
<1>1. client' = [client EXCEPT ![c] = Idle] /\ UNCHANGED <<dirs, files, ops, mode, cut, raced>>
  BY DEF Flush, Finish, Goto, store, history
<1>2. mcache' \in [Node -> Times \union {Absent}] /\ \A p \in Node : mcache'[p] = Absent
  BY DEF Flush
<1>3. raced' \subseteq Node /\ raced \subseteq raced' /\ Settled(c)
  BY <1>1, <1>2 DEF FsInv, TypeInv, TypeOK, Settled
<1> QED
  BY <1>1, <1>2, <1>3, IdleInOrder, RepairKeeps

LEMMA StopKeeps ==
  ASSUME FsInv, NEW c \in Clients, Stop(c)
  PROVE  FsInv'
<1>1. client' = [client EXCEPT ![c] = Idle] /\ UNCHANGED <<dirs, files, mcache, ops, mode, cut>>
  BY DEF Stop, Finish, Goto, store
<1>2. raced' = raced \union {p \in Node : Repairs(c, p)}
  BY DEF Stop
<1>3. /\ mcache' \in [Node -> Times \union {Absent}] /\ raced' \subseteq Node
      /\ raced \subseteq raced'
  BY <1>1, <1>2 DEF FsInv, TypeInv, TypeOK
<1>4. Settled(c)
  BY <1>1, <1>2 DEF Settled
<1> QED
  BY <1>1, <1>3, <1>4, IdleInOrder, RepairKeeps

\* Memcache may lose any copy at any time.
LEMMA EvictKeeps ==
  ASSUME FsInv, NEW p \in Node, Evict(p)
  PROVE  FsInv'
<1> USE DEF FsInv
<1>1. mcache' = [mcache EXCEPT ![p] = Absent] /\ UNCHANGED <<dirs, files, client, ops, mode, cut, raced>>
  BY DEF Evict, store, history
<1>2. mcache' \in [Node -> Times \union {Absent}]
  BY <1>1 DEF TypeInv, TypeOK
<1>3. \A n \in Node : mcache'[n] \in {Absent, mcache[n]}
  BY <1>1 DEF TypeInv, TypeOK
<1>4. TypeInv' /\ FillInv'
  BY <1>1, <1>2 DEF TypeInv, TypeOK, FillInv, At
<1>5. CopyInv'
  BY <1>1, <1>3 DEF CopyInv, Repairs, At
<1> QED
  BY <1>4, <1>5

LEMMA FsInvStep == FsInv /\ [Next]_vars => FsInv'
<1> SUFFICES ASSUME FsInv, [Next]_vars PROVE FsInv'
  OBVIOUS
<1>1. ASSUME NEW c \in Clients, Step(c) PROVE FsInv'
  BY <1>1, BeginKeeps, LookupKeeps, OperationKeeps, McacheSetKeeps, DirPutKeeps, DirDeleteKeeps,
     DeleteDirsKeeps, DirMcacheSetKeeps, McacheDeleteKeeps, FlushKeeps, StopKeeps DEF Step
<1>2. ASSUME NEW p \in Node, Evict(p) PROVE FsInv'
  BY <1>2, EvictKeeps
<1>3. CASE UNCHANGED vars
  BY <1>3 DEF vars, store, history, FsInv, TypeInv, TypeOK, FillInv, CopyInv, At, Repairs
<1> QED
  BY <1>1, <1>2, <1>3 DEF Next

\* What a directory's copy in memcache says is what the datastore says, unless a
\* repair is on its way, a value was held while the entity changed, or a repair
\* has failed: dirByPath, saveDirByPathExt, Remove and DeleteAll, however many
\* of them run at once, whatever fails, and wherever they are stopped.
THEOREM CopiesAreRepaired == Spec => []StaleOnlyByRace
<1>1. FsInv => StaleOnlyByRace
  BY DEF FsInv, TypeInv, CopyInv, StaleOnlyByRace
<1> QED
  BY <1>1, FsInvInit, FsInvStep, PTL DEF Spec

-----------------------------------------------------------------------------
(***************************************************************************)
(* No directory without its parents.  Without failures, what anybody knows *)
(* of a directory is true, or the directory was cut off; a client alone    *)
(* knows exactly what the datastore holds.                                 *)
(***************************************************************************)
Sure(p) == dirs[p] # Absent \/ p \in cut
Right(hit, p) == (Orderly => hit = dirs[p]) /\ (hit # Absent => Sure(p))

\* Where a lookup will return to is where its client stands.
Looking(r) == r.pc \in {"mcacheGet", "datastoreGet", "mcacheSet"}
Stage(r) == IF Looking(r) THEN r.ret ELSE r.pc
Answers == Returns \ {"idle"}
\* The directory that is looked up, or was.
Aim(r) == IF Stage(r) \in {"dirGot", "queryFiles"} THEN r.cur ELSE Parent[r.cur]

\* Who does what.
Doing(r) ==
    /\ r.pc = "walk" => r.op = "removeAll"
    /\ r.pc = "unwind" => r.op = "unwind"
    /\ r.pc \in {"fileDelete", "dirDelete"} => Removing(r)
    /\ Stage(r) \in {"readDir", "queryFiles"} => r.op \in {"readDir", "removeAll"}
    /\ r.pc \in {"dirPut", "dirMcacheSet"} => r.op = "mkdir"
    /\ r.pc \in {"deleteFiles", "deleteDirs"} => r.op = "deleteAll"

Knows(r) ==
    /\ r.hit \in Times \union {Absent} /\ Doing(r)
    /\ Looking(r) => r.ret \in Answers /\ r.look = Aim(r)
    /\ r.pc \in Answers \union {"mcacheSet"} => Right(r.hit, Aim(r))
    /\ r.pc = "dirMcacheSet" => Sure(r.cur)
    /\ r.pc = "noFile" => r.cur = Root
    /\ r.pc = "idle" => r = Idle

\* What memcache holds; DirDelete of a client alone is followed by McacheDelete.
CacheKnows ==
    \A p \in Node : mcache[p] # Absent =>
        Sure(p) \/ (Orderly /\ \E c \in Clients : At(c, "mcacheDelete") /\ client[c].cur = p)

Rooted ==
    \A p \in (Present \union files) \ {Root} :
        Sure(Parent[p]) \/ \E c \in Clients : Climbing(c, Parent[p])

-----------------------------------------------------------------------------
(* RemoveAll of a client alone.  It takes every directory before what is   *)
(* below it, so that removing in the opposite order leaves nothing.        *)

InSeq(s) == {s[i] : i \in DOMAIN s}
Live(q) == q \in Present \union files
\* A walk sees the file, and does not look below the directory of that name.
AsFile(p) == p \in files /\ dirs[Parent[p]] # Absent
ChildrenOf(p) == {q \in Node \ {Root} : Parent[q] = p /\ Live(q)}

Depth == CHOOSE depth \in [Node -> 0..Cardinality(Node)] :
             \A p \in Node \ {Root} : depth[Parent[p]] < depth[p]

Visiting(r) == Stage(r) \in {"fileGet", "noFile", "dirGot"}
Reading(r) == Stage(r) \in {"readDir", "queryFiles"}
Ahead(r) == InSeq(r.todo) \union (IF Visiting(r) THEN {r.cur} ELSE {})
Later(r, i, q) == \E j \in DOMAIN r.taken : j > i /\ r.taken[j] = q

\* Nothing is taken before its parent.
InTurn(r) == \A i, j \in DOMAIN r.taken : i < j => Parent[r.taken[i]] # r.taken[j]

\* What is taken, and still ahead, hangs together.
Connected(r) ==
    \A y \in InSeq(r.taken) \union Ahead(r) :
        /\ Depth[y] >= Depth[r.arg]
        /\ \/ y = r.arg
           \/ y # Root /\ Parent[y] \in InSeq(r.taken) /\ ~AsFile(Parent[y])

\* Only what is a file and a directory is met twice.
MetOnce(r) ==
    /\ \A y \in Ahead(r) \intersect InSeq(r.taken) : AsFile(y)
    /\ \A i, j \in DOMAIN r.todo : i # j /\ r.todo[i] = r.todo[j] => AsFile(r.todo[i])
    /\ Visiting(r) /\ r.cur \in InSeq(r.todo) => AsFile(r.cur)
    /\ Stage(r) = "dirGot" => ~AsFile(r.cur)

\* The directory that is being read was taken last.
ReadsLast(r) ==
    Reading(r) => /\ r.taken # <<>> /\ r.taken[Len(r.taken)] = r.cur /\ ~AsFile(r.cur)
                  /\ \A y \in InSeq(r.todo) : Parent[y] # r.cur
                  /\ Stage(r) = "queryFiles" => r.kids = Children(Present, r.cur)

Walks(r) ==
    /\ InTurn(r) /\ Connected(r) /\ MetOnce(r) /\ ReadsLast(r)
    /\ \A i \in DOMAIN r.taken :
          LET p == r.taken[i] IN
          dirs[p] # Absent /\ p \notin cut /\ ~AsFile(p) =>
              \A q \in ChildrenOf(p) : \/ Later(r, i, q) \/ q \in Ahead(r)
                                       \/ Reading(r) /\ i = Len(r.taken)

\* The way back.
Handling(r) == Visiting(r) \/ Stage(r) \in {"fileDelete", "dirDelete", "mcacheDelete"}
Unwinds(r) ==
    /\ InTurn(r)
    /\ \A i \in DOMAIN r.taken :
          LET p == r.taken[i] IN
          dirs[p] # Absent /\ p \notin cut /\ ~AsFile(p) =>
              \A q \in ChildrenOf(p) : Later(r, i, q) \/ (Handling(r) /\ q = r.cur)
    /\ Handling(r) =>
          /\ \A i \in DOMAIN r.taken : Parent[r.taken[i]] # r.cur
          /\ dirs[r.cur] # Absent /\ r.cur \notin cut /\ ~AsFile(r.cur) => ChildrenOf(r.cur) = {}
          /\ Stage(r) \in {"dirGot", "dirDelete", "mcacheDelete"} => ~AsFile(r.cur)
          /\ Stage(r) = "mcacheDelete" => dirs[r.cur] = Absent

Alone ==
    /\ raced = {}
    /\ \A c, b \in Clients : At(c, "idle") \/ At(b, "idle") \/ c = b
    /\ \A c \in Clients : /\ client[c].op = "removeAll" => Walks(client[c])
                          /\ client[c].op = "unwind" => Unwinds(client[c])

TreeInv ==
    ~Failures => /\ \A c \in Clients : Knows(client[c])
                 /\ CacheKnows /\ Rooted
                 /\ Orderly => Alone

-----------------------------------------------------------------------------
(* Steps and the invariant.                                                *)

LEMMA DepthDecreases ==
  /\ Depth \in [Node -> Nat]
  /\ \A p \in Node \ {Root} : Depth[Parent[p]] < Depth[p]
<1>1. \E depth \in [Node -> 0..Cardinality(Node)] :
         \A p \in Node \ {Root} : depth[Parent[p]] < depth[p]
  BY DsFsAssumption DEF DsFsAssumption
<1>2. /\ Depth \in [Node -> 0..Cardinality(Node)]
      /\ \A p \in Node \ {Root} : Depth[Parent[p]] < Depth[p]
  BY <1>1 DEF Depth
<1>3. Cardinality(Node) \in Nat
  BY DsFsAssumption, FS_CardinalityType DEF DsFsAssumption
<1> QED
  BY <1>2, <1>3

\* c is at r and climbs to p.
Climbs(r, p) ==
    \/ r.pc = "dirPut" /\ r.cur = p
    \/ /\ r.pc \in {"dirMcacheSet", "parentSeen"} \/ (r.pc # "idle" /\ r.ret = "parentSeen")
       /\ Parent[r.cur] = p

WalkGoes(r) == (r.op = "removeAll" => Walks(r)) /\ (r.op = "unwind" => Unwinds(r))
OthersIdle(c) == \A b \in Clients \ {c} : At(b, "idle")

LEMMA AloneThen ==
  ASSUME Alone, NEW c \in Clients, ~At(c, "idle")
  PROVE  OthersIdle(c)
BY DEF Alone, OthersIdle

LEMMA TreeStep ==
  ASSUME FsInv, TreeInv, ~Failures, NEW c \in Clients, NEW r, client' = [client EXCEPT ![c] = r],
         UNCHANGED mode, Knows(r)', Rooted',
         Orderly => OthersIdle(c) /\ raced' = {} /\ WalkGoes(r)',
         \A p \in Node : Sure(p) => Sure(p)' \/ (Orderly /\ r.pc = "mcacheDelete" /\ r.cur = p),
         \A p \in Node : mcache'[p] # Absent =>
             \/ Sure(p)'
             \/ mcache[p] # Absent /\ ~(At(c, "mcacheDelete") /\ client[c].cur = p)
  PROVE  TreeInv'
<1>1. client'[c] = r /\ \A b \in Clients \ {c} : client'[b] = client[b]
  BY DEF FsInv, TypeInv, TypeOK
<1>2. /\ \A b \in Clients : Knows(client[b])
      /\ CacheKnows /\ Rooted /\ (Orderly => Alone)
  BY DEF TreeInv
<1>3. (Failures' <=> Failures) /\ (Orderly' <=> Orderly)
  BY DEF Failures, Orderly
<1>4. ASSUME NEW b \in Clients PROVE Knows(client[b])'
  <2>1. CASE b = c
    BY <1>1, <2>1 DEF Knows, Right, Sure, Doing, Removing, Stage, Looking
  <2>2. CASE b # c /\ Orderly
    <3>1. client[b].pc = "idle" /\ client'[b] = client[b] /\ Knows(client[b])
      BY <1>1, <1>2, <2>2 DEF OthersIdle, At
    <3> QED
      BY <3>1 DEF Knows, Looking, Answers, Doing, Stage
  <2>3. CASE b # c /\ ~Orderly
    <3>1. client'[b] = client[b] /\ Knows(client[b])
      BY <1>1, <1>2, <2>3
    <3>2. client[b] \in Call /\ Aim(client[b]) \in Node
      BY DsFsAssumption DEF DsFsAssumption, FsInv, TypeInv, TypeOK, Call, Aim
    <3>3. Sure(Aim(client[b])) => Sure(Aim(client[b]))'
      BY <1>3, <2>3, <3>1, <3>2 DEF Sure, Aim, Stage, Looking
    <3>4. Sure(client[b].cur) => Sure(client[b].cur)'
      <4>1. client[b].cur \in Node
        BY <3>2 DEF Call
      <4> QED
        BY <1>3, <2>3, <3>1, <4>1 DEF Sure
    <3> QED
      BY <1>3, <2>3, <3>1, <3>3, <3>4 DEF Knows, Looking, Aim, Stage, Right, Doing, Removing
  <2> QED
    BY <2>1, <2>2, <2>3
<1>5. CacheKnows'
  <2> SUFFICES ASSUME NEW p \in Node, mcache'[p] # Absent
               PROVE  \/ Sure(p)'
                      \/ Orderly /\ \E b \in Clients : client'[b].pc = "mcacheDelete" /\ client'[b].cur = p
    BY <1>3 DEF CacheKnows, At
  <2>1. CASE mcache[p] # Absent /\ ~(At(c, "mcacheDelete") /\ client[c].cur = p)
    <3>1. CASE Sure(p)
      BY <1>1, <3>1
    <3>2. CASE ~Sure(p)
      <4>1. PICK b \in Clients : Orderly /\ At(b, "mcacheDelete") /\ client[b].cur = p
        BY <1>2, <2>1, <3>2 DEF CacheKnows
      <4> QED
        BY <1>1, <2>1, <4>1 DEF At
    <3> QED
      BY <3>1, <3>2
  <2> QED
    BY <2>1
<1>6. ASSUME Orderly PROVE Alone'
  <2>1. \A b \in Clients \ {c} : client'[b].pc = "idle" /\ client'[b].op = "none"
    <3>1. \A b \in Clients \ {c} : client[b].pc = "idle" /\ client[b] = Idle
      BY <1>2, <1>6 DEF OthersIdle, At, Knows
    <3> QED
      BY <1>1, <3>1 DEF Idle
  <2>2. WalkGoes(client[c])'
    BY <1>1, <1>6 DEF WalkGoes
  <2> QED
    BY <1>6, <2>1, <2>2 DEF Alone, At, WalkGoes
<1> QED
  BY <1>3, <1>4, <1>5, <1>6 DEF TreeInv

\* A step that leaves the datastore alone.
LEMMA TreeRests ==
  ASSUME FsInv, TreeInv, ~Failures, NEW c \in Clients, NEW r, client' = [client EXCEPT ![c] = r],
         UNCHANGED <<dirs, files, cut, mode>>, Knows(r),
         Orderly => OthersIdle(c) /\ raced' = {} /\ WalkGoes(r),
         \A p \in Node : Climbs(client[c], p) => Sure(p) \/ Climbs(r, p),
         ~At(c, "mcacheDelete") \/ mcache'[client[c].cur] = Absent,
         \A p \in Node : mcache'[p] # Absent => Sure(p) \/ mcache'[p] = mcache[p]
  PROVE  TreeInv'
<1>1. client'[c] = r /\ \A b \in Clients \ {c} : client'[b] = client[b]
  BY DEF FsInv, TypeInv, TypeOK
<1>2. /\ \A p : Sure(p)' = Sure(p)
      /\ Present' = Present
  BY DEF Sure, Present
<1>3. Knows(r)'
  BY <1>2 DEF Knows, Right, Orderly, Looking, Stage, Aim, Doing, Removing
<1>4. Rooted'
  <2> SUFFICES ASSUME NEW p \in (Present \union files) \ {Root}
               PROVE  Sure(Parent[p]) \/ \E b \in Clients : Climbing(b, Parent[p])'
    BY <1>2 DEF Rooted
  <2>1. p \in Node /\ Parent[p] \in Node
    BY DsFsAssumption DEF DsFsAssumption, Present, FsInv, TypeInv, TypeOK
  <2>2. CASE ~Sure(Parent[p])
    <3>1. PICK b \in Clients : Climbing(b, Parent[p])
      BY <2>2 DEF TreeInv, Rooted
    <3>2. CASE b = c
      <4>1. Climbs(client[c], Parent[p])
        BY <3>1, <3>2 DEF Climbing, Climbs, At
      <4>2. Climbs(r, Parent[p])
        BY <2>1, <2>2, <4>1
      <4>3. Climbing(c, Parent[p])'
        BY <1>1, <4>2 DEF Climbing, Climbs, At
      <4> QED
        BY <4>3
    <3>3. CASE b # c
      <4>1. Climbing(b, Parent[p])'
        BY <1>1, <3>1, <3>3 DEF Climbing, At
      <4> QED
        BY <4>1
    <3> QED
      BY <3>2, <3>3
  <2> QED
    BY <2>2
<1>5. WalkGoes(r) => WalkGoes(r)'
  BY <1>2 DEF WalkGoes, Walks, InTurn, Connected, MetOnce, ReadsLast, Unwinds, AsFile, ChildrenOf, Live,
     Handling, Visiting, Reading, Ahead, Later, Stage, Looking, Children
<1>6. \A p \in Node : mcache'[p] # Absent =>
          Sure(p)' \/ (mcache[p] # Absent /\ ~(At(c, "mcacheDelete") /\ client[c].cur = p))
  BY <1>2
<1>7. \A p \in Node : Sure(p) => Sure(p)'
  BY <1>2
<1> QED
  BY <1>3, <1>4, <1>5, <1>6, <1>7, TreeStep

\* Nothing but the client changes, and it was neither on its way up nor about to
\* delete a copy in memcache.
LEMMA TreeReads ==
  ASSUME FsInv, TreeInv, ~Failures, NEW c \in Clients, NEW r, client' = [client EXCEPT ![c] = r],
         UNCHANGED <<dirs, files, cut, mode, mcache, raced>>, Knows(r),
         ~At(c, "idle") \/ (Orderly => OthersIdle(c)), Orderly => WalkGoes(r),
         ~At(c, "mcacheDelete"), \A p \in Node : Climbs(client[c], p) => Sure(p) \/ Climbs(r, p)
  PROVE  TreeInv'
<1>1. Orderly => OthersIdle(c) /\ raced' = {} /\ WalkGoes(r)
  BY AloneThen DEF TreeInv, Alone
<1> QED
  BY <1>1, TreeRests

-----------------------------------------------------------------------------
(* Lookups.                                                                *)

\* A client alone finds in memcache what is in the datastore.
LEMMA CopyIsRight ==
  ASSUME FsInv, TreeInv, ~Failures, NEW c \in Clients, At(c, "mcacheGet"), NEW p \in Node,
         mcache[p] # Absent
  PROVE  Right(mcache[p], p)
<1>1. ASSUME Orderly PROVE mcache[p] = dirs[p]
  <2>1. raced = {} /\ OthersIdle(c)
    BY <1>1, AloneThen DEF TreeInv, Alone, At
  <2>2. \A b \in Clients : ~Repairs(b, p)
    BY <2>1 DEF OthersIdle, Repairs, At
  <2> QED
    BY <2>1, <2>2 DEF FsInv, CopyInv
<1>2. Sure(p)
  <2>1. CASE Orderly
    BY <1>1, <2>1 DEF Sure
  <2>2. CASE ~Orderly
    BY <2>2 DEF TreeInv, CacheKnows
  <2> QED
    BY <2>1, <2>2
<1> QED
  BY <1>1, <1>2 DEF Right

\* With another step of a lookup, a client stands where it stood.
LEMMA LookupGoesOn ==
  ASSUME NEW q \in Call, NEW r \in Call, Stage(r) = Stage(q), r.op = q.op, r.arg = q.arg,
         r.cur = q.cur, r.kids = q.kids, r.todo = q.todo, r.taken = q.taken, WalkGoes(q)
  PROVE  WalkGoes(r)
BY DEF WalkGoes, Walks, InTurn, Connected, MetOnce, ReadsLast, Unwinds, Handling, Visiting, Reading,
       Ahead, Later

LEMMA ReturnKeeps ==
  ASSUME FsInv, TreeInv, ~Failures, NEW c \in Clients, Looking(client[c]),
         NEW hit \in Times \union {Absent}, Return(c, hit), Right(hit, client[c].look),
         UNCHANGED <<dirs, files, cut, mode, raced>>,
         \A p \in Node : mcache'[p] # Absent => Sure(p) \/ mcache'[p] = mcache[p]
  PROVE  TreeInv'
<1> DEFINE q == client[c]
           r == [q EXCEPT !.pc = q.ret, !.hit = hit, !.look = Root, !.ret = "idle"]
<1>1. client' = [client EXCEPT ![c] = r]
  BY DEF Return
<1>2. q \in Call /\ InOrder(q) /\ Knows(q)
  BY DEF FsInv, TypeInv, TypeOK, TreeInv
<1>3. q.ret \in Answers /\ q.look = Aim(q) /\ q.ret \in Pcs
  BY <1>2 DEF Knows, Answers, Returns, Pcs
<1>4. /\ r \in Call /\ r.pc = q.ret /\ r.ret = "idle" /\ r.hit = hit /\ r.op = q.op
      /\ r.arg = q.arg /\ r.cur = q.cur /\ r.kids = q.kids /\ r.todo = q.todo /\ r.taken = q.taken
  BY <1>2, <1>3, DsFsAssumption DEF DsFsAssumption, Call, Pcs
<1> HIDE DEF r
<1>5. ~Looking(r) /\ Stage(r) = Stage(q) /\ Aim(r) = Aim(q)
  BY <1>3, <1>4 DEF Looking, Stage, Answers, Returns, Aim
<1>6. Knows(r)
  BY <1>2, <1>3, <1>4, <1>5 DEF Knows, Answers, Returns, Doing
<1>7. Orderly => WalkGoes(q)
  BY DEF TreeInv, Alone, WalkGoes
<1>8. Orderly => WalkGoes(r)
  BY <1>2, <1>4, <1>5, <1>7, LookupGoesOn
<1>9. q.pc # "idle" /\ ~At(c, "mcacheDelete")
  BY DEF Looking, At
<1>10. \A p \in Node : Climbs(q, p) => Climbs(r, p)
  BY <1>3, <1>4 DEF Climbs, Looking, Answers, Returns
<1>11. Orderly => OthersIdle(c) /\ raced' = {} /\ WalkGoes(r)
  BY <1>8, <1>9, AloneThen DEF TreeInv, Alone, At
<1> QED
  BY <1>1, <1>6, <1>9, <1>10, <1>11, TreeRests

LEMMA LookupKeepsTree ==
  ASSUME FsInv, TreeInv, ~Failures, NEW c \in Clients,
         McacheGet(c) \/ DatastoreGet(c) \/ McacheSet(c)
  PROVE  TreeInv'
<1> DEFINE q == client[c]
<1>1. q \in Call /\ InOrder(q) /\ Knows(q) /\ q.look \in Node
  BY DEF FsInv, TypeInv, TypeOK, TreeInv, Call
<1>2. UNCHANGED <<dirs, files, cut, mode, raced>>
  BY DEF McacheGet, DatastoreGet, McacheSet, store, history
<1>3. ASSUME NEW pc \in {"datastoreGet", "mcacheSet"}, NEW hit \in Times \union {Absent},
             pc = "mcacheSet" => Right(hit, q.look), q.pc \in {"mcacheGet", "datastoreGet"},
             Goto(c, [q EXCEPT !.pc = pc, !.hit = hit]), UNCHANGED mcache
      PROVE  TreeInv'
    <2>1. PICK r : r = [q EXCEPT !.pc = pc, !.hit = hit]
      OBVIOUS
    <2>2. /\ r \in Call /\ r.pc = pc /\ r.hit = hit /\ r.op = q.op /\ r.look = q.look /\ r.ret = q.ret
          /\ r.arg = q.arg /\ r.cur = q.cur /\ r.kids = q.kids /\ r.todo = q.todo /\ r.taken = q.taken
      BY <1>1, <2>1 DEF Call, Pcs
    <2>3. Looking(r) /\ Looking(q) /\ Stage(r) = Stage(q) /\ Aim(r) = Aim(q)
      BY <1>3, <2>2 DEF Looking, Stage, Aim
    <2>4. Knows(r)
      BY <1>1, <1>3, <2>2, <2>3 DEF Knows, Answers, Returns, Doing
    <2>5. Orderly => WalkGoes(q)
      BY DEF TreeInv, Alone, WalkGoes
    <2>6. Orderly => WalkGoes(r)
      BY <1>1, <2>2, <2>3, <2>5, LookupGoesOn
    <2>7. \A p \in Node : Climbs(q, p) => Climbs(r, p)
      BY <1>3, <2>2 DEF Climbs
    <2>8. client' = [client EXCEPT ![c] = r]
      BY <1>3, <2>1 DEF Goto
    <2>9. ~At(c, "idle") /\ ~At(c, "mcacheDelete")
      BY <1>3 DEF At
    <2> QED
      BY <1>2, <1>3, <2>4, <2>6, <2>7, <2>8, <2>9, TreeReads
<1>4. CASE McacheGet(c)
  <2>1. At(c, "mcacheGet") /\ Looking(q) /\ UNCHANGED mcache /\ q.hit \in Times \union {Absent}
    BY <1>1, <1>4 DEF McacheGet, At, Looking, Knows
  <2>2. CASE mcache[q.look] # Absent /\ Return(c, mcache[q.look])
    <3>1. Right(mcache[q.look], q.look) /\ mcache[q.look] \in Times \union {Absent}
      BY <1>1, <2>1, <2>2, CopyIsRight DEF FsInv, TypeInv, TypeOK
    <3> QED
      BY <1>2, <2>1, <2>2, <3>1, ReturnKeeps
  <2>3. CASE Goto(c, [q EXCEPT !.pc = "datastoreGet"])
    <3>1. [q EXCEPT !.pc = "datastoreGet", !.hit = q.hit] = [q EXCEPT !.pc = "datastoreGet"]
      BY <1>1 DEF Call
    <3> QED
      BY <1>3, <2>1, <2>3, <3>1 DEF At
  <2> QED
    BY <1>4, <2>2, <2>3 DEF McacheGet
<1>5. CASE DatastoreGet(c)
  <2>1. At(c, "datastoreGet") /\ Looking(q) /\ UNCHANGED mcache
    BY <1>5 DEF DatastoreGet, At, Looking
  <2>2. CASE dirs[q.look] = Absent /\ Return(c, Absent)
    <3>1. Right(Absent, q.look)
      BY <2>2 DEF Right
    <3> QED
      BY <1>2, <2>1, <2>2, <3>1, ReturnKeeps
  <2>3. CASE dirs[q.look] # Absent /\ Goto(c, [q EXCEPT !.pc = "mcacheSet", !.hit = dirs[q.look]])
    <3>1. Right(dirs[q.look], q.look) /\ dirs[q.look] \in Times \union {Absent}
      BY <1>1, <2>3 DEF Right, Sure, FsInv, TypeInv, TypeOK
    <3> QED
      BY <1>3, <2>1, <2>3, <3>1 DEF At
  <2> QED
    BY <1>5, <2>2, <2>3 DEF DatastoreGet
<1>6. CASE McacheSet(c)
  <2>1. /\ At(c, "mcacheSet") /\ Looking(q) /\ Return(c, q.hit)
        /\ mcache' = [mcache EXCEPT ![q.look] = q.hit]
    BY <1>6 DEF McacheSet, At, Looking
  <2>2. q.hit \in Times /\ q.hit # Absent /\ Right(q.hit, q.look)
    BY <1>1, <2>1, DsFsAssumption DEF DsFsAssumption, InOrder, Knows, At, Looking
  <2>3. \A p \in Node : mcache'[p] # Absent => Sure(p) \/ mcache'[p] = mcache[p]
    BY <2>1, <2>2 DEF Right, FsInv, TypeInv, TypeOK
  <2> QED
    BY <1>2, <2>1, <2>2, <2>3, ReturnKeeps
<1> QED
  BY <1>4, <1>5, <1>6

-----------------------------------------------------------------------------
(* Sequences of nodes.                                                     *)

LEMMA SeqElements ==
  ASSUME NEW s \in Seq(Node)
  PROVE  /\ Len(s) \in Nat /\ DOMAIN s = 1..Len(s) /\ InSeq(s) \subseteq Node
         /\ \A i \in 1..Len(s) : s[i] \in InSeq(s)
<1>1. Len(s) \in Nat /\ DOMAIN s = 1..Len(s)
  BY LenProperties
<1>2. \A i \in 1..Len(s) : s[i] \in Node
  BY ElementOfSeq
<1> QED
  BY <1>1, <1>2 DEF InSeq

\* t is s, and x at the end.
Extends(t, s, x) ==
    /\ t \in Seq(Node) /\ Len(t) = Len(s) + 1 /\ t[Len(s) + 1] = x
    /\ \A i \in 1..Len(s) : t[i] = s[i]
    /\ InSeq(t) = InSeq(s) \union {x}

LEMMA Appended ==
  ASSUME NEW s \in Seq(Node), NEW x \in Node, NEW t, t = Append(s, x)
  PROVE  Extends(t, s, x)
<1>1. /\ t \in Seq(Node) /\ Len(t) = Len(s) + 1 /\ t[Len(s) + 1] = x
      /\ \A i \in 1..Len(s) : t[i] = s[i]
  BY AppendProperties
<1>2. Len(s) \in Nat /\ DOMAIN s = 1..Len(s) /\ DOMAIN t = 1..(Len(s) + 1)
  BY <1>1, LenProperties
<1>3. ASSUME NEW i \in 1..(Len(s) + 1) PROVE i \in 1..Len(s) \/ i = Len(s) + 1
  BY <1>2
<1>4. \A i \in 1..Len(s) : i \in 1..(Len(s) + 1)
  BY <1>2
<1>5. Len(s) + 1 \in 1..(Len(s) + 1)
  BY <1>2
<1>6. InSeq(t) \subseteq InSeq(s) \union {x}
  BY <1>1, <1>2, <1>3 DEF InSeq
<1>7. InSeq(s) \union {x} \subseteq InSeq(t)
  BY <1>1, <1>2, <1>4, <1>5 DEF InSeq
<1> QED
  BY <1>1, <1>6, <1>7 DEF Extends

\* u is s, and t after it.
Joins(u, s, t) ==
    /\ u \in Seq(Node) /\ InSeq(u) = InSeq(s) \union InSeq(t)
    /\ Len(s) \in Nat /\ DOMAIN u \subseteq Nat
    /\ \A i \in DOMAIN u : \/ i \in DOMAIN s /\ u[i] = s[i]
                           \/ i - Len(s) \in DOMAIN t /\ u[i] = t[i - Len(s)]

LEMMA Joined ==
  ASSUME NEW s \in Seq(Node), NEW t \in Seq(Node), NEW u, u = s \o t
  PROVE  Joins(u, s, t)
<1>1. /\ u \in Seq(Node) /\ Len(u) = Len(s) + Len(t)
      /\ \A i \in 1 .. Len(s) + Len(t) : u[i] = IF i <= Len(s) THEN s[i] ELSE t[i - Len(s)]
  BY ConcatProperties
<1>2. /\ Len(s) \in Nat /\ Len(t) \in Nat
      /\ DOMAIN s = 1..Len(s) /\ DOMAIN t = 1..Len(t) /\ DOMAIN u = 1..(Len(s) + Len(t))
  BY <1>1, LenProperties
<1>3. \A i \in DOMAIN u : \/ i \in DOMAIN s /\ u[i] = s[i]
                          \/ i - Len(s) \in DOMAIN t /\ u[i] = t[i - Len(s)]
  BY <1>1, <1>2
<1>4. InSeq(u) \subseteq InSeq(s) \union InSeq(t)
  BY <1>3 DEF InSeq
<1>5. ASSUME NEW i \in DOMAIN s PROVE s[i] \in InSeq(u)
  <2>1. i \in DOMAIN u /\ u[i] = s[i]
    BY <1>1, <1>2
  <2> QED
    BY <2>1 DEF InSeq
<1>6. ASSUME NEW i \in DOMAIN t PROVE t[i] \in InSeq(u)
  <2>1. i + Len(s) \in DOMAIN u /\ u[i + Len(s)] = t[(i + Len(s)) - Len(s)]
    BY <1>1, <1>2
  <2>2. (i + Len(s)) - Len(s) = i
    BY <1>2
  <2>3. u[i + Len(s)] = t[i]
    BY <2>1, <2>2
  <2> QED
    BY <2>1, <2>3 DEF InSeq
<1>7. InSeq(s) \union InSeq(t) \subseteq InSeq(u)
  BY <1>5, <1>6 DEF InSeq
<1> QED
  BY <1>1, <1>2, <1>3, <1>4, <1>7 DEF Joins

\* No element comes twice.
Distinct(s) == \A i, j \in DOMAIN s : s[i] = s[j] => i = j

LEMMA SetToSeqGives ==
  ASSUME NEW S \in SUBSET Node, NEW s, s = SetToSeq(S)
  PROVE  s \in Seq(Node) /\ InSeq(s) = S /\ Distinct(s)
<1> DEFINE n == Cardinality(S)
<1>1. IsFiniteSet(S)
  BY FS_Subset, DsFsAssumption DEF DsFsAssumption
<1>2. n \in Nat /\ ExistsBijection(1..n, S)
  BY <1>1, FS_CardinalityType
<1>3. PICK f \in Bijection(1..n, S) : TRUE
  BY <1>2 DEF ExistsBijection
<1>4. f \in [1..n -> S] /\ IsInjective(f)
  BY <1>3 DEF Bijection, Injection
<1>5. s \in [1..n -> S] /\ IsInjective(s)
  BY <1>4 DEF SetToSeq
<1>6. s \in Seq(Node) /\ DOMAIN s = 1..n
  BY <1>2, <1>5
<1>7. IsFiniteSet(1..n) /\ Cardinality(1..n) = n
  BY <1>2, FS_Interval
<1>8. s \in Injection(1..n, S)
  BY <1>5 DEF Injection
<1>9. s \in Surjection(1..n, S)
  BY <1>1, <1>7, <1>8, FS_Injection
<1> QED
  BY <1>5, <1>6, <1>9 DEF InSeq, Distinct, Surjection, IsInjective

-----------------------------------------------------------------------------
(* The walk of RemoveAll: r is the client before the step, s after it.     *)

\* s has taken and has ahead what r had.
Follows(s, r) == s.taken = r.taken /\ s.todo = r.todo /\ s.arg = r.arg

\* What is visited is not the parent of anything that was met before it.
LEMMA NotBelow ==
  ASSUME FsInv, NEW r \in Call, Walks(r), Visiting(r),
         NEW y \in InSeq(r.taken) \union InSeq(r.todo)
  PROVE  Parent[y] # r.cur
<1> SUFFICES ASSUME Parent[y] = r.cur PROVE FALSE
  OBVIOUS
<1>1. ~AsFile(Root) /\ Parent[Root] = Root /\ r.cur \in Ahead(r)
  BY DsFsAssumption DEF DsFsAssumption, FsInv, TypeInv, TypeOK, AsFile, Ahead
<1>2. y \in Node /\ r.arg \in Node /\ r.cur \in Node
  <2>1. InSeq(r.taken) \subseteq Node /\ InSeq(r.todo) \subseteq Node
    BY SeqElements DEF Call
  <2> QED
    BY <2>1 DEF Call
<1>3. y \in InSeq(r.taken) \union Ahead(r)
  BY DEF Ahead
<1>4. CASE y = Root
  <2>1. r.cur = Root
    BY <1>1, <1>4
  <2> QED
    BY <1>1, <1>4, <2>1 DEF Walks, MetOnce
<1>5. CASE y # Root /\ y = r.arg
  <2>1. Depth[r.cur] < Depth[y]
    BY <1>2, <1>5, DepthDecreases
  <2>2. Depth[r.cur] >= Depth[r.arg]
    BY <1>1 DEF Walks, Connected
  <2> QED
    BY <1>2, <1>5, <2>1, <2>2, DepthDecreases
<1>6. CASE y # r.arg
  <2>1. r.cur \in InSeq(r.taken) /\ ~AsFile(r.cur)
    BY <1>3, <1>6 DEF Walks, Connected
  <2> QED
    BY <1>1, <2>1 DEF Walks, MetOnce
<1> QED
  BY <1>4, <1>5, <1>6

\* A file is taken, or a directory, which is read next.
LEMMA Takes ==
  ASSUME FsInv, NEW r \in Call, NEW s \in Call, Walks(r), Visiting(r),
         s.taken = Append(r.taken, r.cur), s.todo = r.todo, s.arg = r.arg,
         \/ s.pc = "walk" /\ AsFile(r.cur)
         \/ s.pc = "readDir" /\ s.cur = r.cur /\ ~AsFile(r.cur)
  PROVE  Walks(s)
<1>1. ~Visiting(s) /\ Ahead(s) = InSeq(r.todo) /\ Ahead(r) = InSeq(r.todo) \union {r.cur}
  BY DEF Visiting, Stage, Looking, Ahead
<1>2. /\ Stage(s) \in {"walk", "readDir"} /\ ~Reading(r)
      /\ Reading(s) => Stage(s) = "readDir" /\ s.cur = r.cur /\ ~AsFile(r.cur)
  BY DEF Visiting, Stage, Looking, Reading
<1>3. r.taken \in Seq(Node) /\ r.cur \in Node
  BY DEF Call
<1> DEFINE n == Len(r.taken)
<1>4. /\ Len(s.taken) = n + 1 /\ s.taken[n + 1] = r.cur /\ s.taken \in Seq(Node)
      /\ \A i \in 1..n : s.taken[i] = r.taken[i]
      /\ InSeq(s.taken) = InSeq(r.taken) \union {r.cur}
  <2>1. Extends(s.taken, r.taken, r.cur)
    BY <1>3, Appended
  <2> QED
    BY <2>1 DEF Extends
<1>5. n \in Nat /\ DOMAIN r.taken = 1..n /\ DOMAIN s.taken = 1..(n + 1)
      /\ \A i \in 1..n : r.taken[i] \in InSeq(r.taken)
  BY <1>3, <1>4, SeqElements
<1>6. \A i \in 1..(n + 1) : i \in 1..n \/ i = n + 1
  BY <1>5
<1>7. InTurn(s)
  <2> SUFFICES ASSUME NEW i \in 1..(n + 1), NEW j \in 1..(n + 1), i < j
               PROVE  Parent[s.taken[i]] # s.taken[j]
    BY <1>5 DEF InTurn
  <2>1. i \in 1..n /\ s.taken[i] = r.taken[i]
    BY <1>4, <1>5
  <2>2. CASE j = n + 1
    BY <1>4, <1>5, <2>1, <2>2, NotBelow
  <2>3. CASE j \in 1..n
    BY <1>4, <1>5, <2>1, <2>3 DEF Walks, InTurn
  <2> QED
    BY <1>6, <2>2, <2>3
<1>8. Connected(s)
  BY <1>1, <1>4 DEF Walks, Connected
<1>9. MetOnce(s)
  BY <1>1, <1>2, <1>4 DEF Walks, MetOnce
<1>10. ReadsLast(s)
  <2>1. s.taken # <<>>
    BY <1>4, <1>5
  <2>2. Reading(s) => \A y \in InSeq(s.todo) : Parent[y] # s.cur
    BY <1>2, NotBelow
  <2> QED
    BY <1>2, <1>4, <2>1, <2>2 DEF ReadsLast
<1>11. ASSUME NEW i \in 1..(n + 1), dirs[s.taken[i]] # Absent, s.taken[i] \notin cut, ~AsFile(s.taken[i]),
              NEW q \in ChildrenOf(s.taken[i])
       PROVE  Later(s, i, q) \/ q \in Ahead(s) \/ (Reading(s) /\ i = Len(s.taken))
  <2>1. CASE i \in 1..n
    <3>1. Later(r, i, q) \/ q \in Ahead(r)
      BY <1>2, <1>4, <1>5, <1>11, <2>1 DEF Walks
    <3>2. ASSUME Later(r, i, q) PROVE Later(s, i, q)
      <4>1. PICK j \in 1..n : j > i /\ r.taken[j] = q
        BY <1>5, <3>2 DEF Later
      <4>2. j \in 1..(n + 1) /\ s.taken[j] = q
        BY <1>4, <1>5, <4>1
      <4> QED
        BY <1>5, <4>1, <4>2 DEF Later
    <3>3. ASSUME q = r.cur PROVE Later(s, i, q)
      <4>1. n + 1 \in 1..(n + 1) /\ n + 1 > i
        BY <1>5, <2>1
      <4> QED
        BY <1>4, <1>5, <3>3, <4>1 DEF Later
    <3> QED
      BY <1>1, <3>1, <3>2, <3>3
  <2>2. CASE i = n + 1
    BY <1>4, <1>11, <2>2 DEF Reading, Stage, Looking
  <2> QED
    BY <1>6, <2>1, <2>2
<1> QED
  BY <1>5, <1>7, <1>8, <1>9, <1>10, <1>11 DEF Walks

\* Neither a file nor a directory is there.
LEMMA PassesBy ==
  ASSUME NEW r \in Call, NEW s \in Call, Walks(r), Visiting(r), Follows(s, r), s.pc = "walk",
         dirs[r.cur] = Absent, ~AsFile(r.cur)
  PROVE  Walks(s)
<1>1. ~Visiting(s) /\ ~Reading(s) /\ ~Reading(r) /\ Stage(s) = "walk"
  BY DEF Visiting, Stage, Looking, Reading
<1>2. Ahead(s) = InSeq(r.todo) /\ Ahead(r) = InSeq(r.todo) \union {r.cur}
  BY <1>1 DEF Ahead, Follows
<1>3. InTurn(s) /\ Connected(s) /\ MetOnce(s) /\ ReadsLast(s)
  BY <1>1, <1>2 DEF Walks, InTurn, Connected, MetOnce, ReadsLast, Follows
<1>4. \A p \in Node : dirs[p] # Absent => r.cur \notin ChildrenOf(p)
  BY DEF ChildrenOf, Live, Present, AsFile
<1>5. \A i \in DOMAIN s.taken : s.taken[i] \in Node
  BY DEF Call
<1>6. \A i, q : Later(s, i, q) = Later(r, i, q)
  BY DEF Later, Follows
<1> QED
  BY <1>1, <1>2, <1>3, <1>4, <1>5, <1>6 DEF Walks, Follows

\* No file is there; the directory is looked up.
LEMMA LooksFurther ==
  ASSUME NEW r \in Call, NEW s \in Call, Walks(r), Stage(r) \in {"fileGet", "noFile"}, Follows(s, r),
         Stage(s) = "dirGot", s.cur = r.cur, ~AsFile(r.cur)
  PROVE  Walks(s)
<1>1. Visiting(r) /\ Visiting(s) /\ ~Reading(s) /\ ~Reading(r) /\ Ahead(s) = Ahead(r)
  BY DEF Visiting, Reading, Ahead, Follows
<1>2. InTurn(s) /\ Connected(s) /\ MetOnce(s) /\ ReadsLast(s)
  BY <1>1 DEF Walks, InTurn, Connected, MetOnce, ReadsLast, Follows
<1>3. \A i, q : Later(s, i, q) = Later(r, i, q)
  BY DEF Later, Follows
<1> QED
  BY <1>1, <1>2, <1>3 DEF Walks, Follows

\* The directories below are known; the files are not yet.
LEMMA SeesDirs ==
  ASSUME NEW r \in Call, NEW s \in Call, Walks(r), r.pc = "readDir", Follows(s, r),
         Stage(s) = "queryFiles", s.cur = r.cur, s.kids = Children(Present, r.cur)
  PROVE  Walks(s)
<1>1. ~Visiting(r) /\ ~Visiting(s) /\ Reading(r) /\ Reading(s) /\ Ahead(s) = Ahead(r)
  BY DEF Visiting, Reading, Ahead, Follows, Stage, Looking
<1>2. InTurn(s) /\ Connected(s) /\ MetOnce(s) /\ ReadsLast(s)
  BY <1>1 DEF Walks, InTurn, Connected, MetOnce, ReadsLast, Follows
<1>3. \A i, q : Later(s, i, q) = Later(r, i, q)
  BY DEF Later, Follows
<1> QED
  BY <1>1, <1>2, <1>3 DEF Walks, Follows

\* The directory that was read has gone.
LEMMA SeesNothing ==
  ASSUME NEW r \in Call, NEW s \in Call, Walks(r), Reading(r), Follows(s, r), s.pc = "walk",
         dirs[r.cur] = Absent
  PROVE  Walks(s)
<1>1. ~Visiting(s) /\ ~Reading(s) /\ ~Visiting(r) /\ Stage(s) = "walk" /\ Ahead(s) = Ahead(r)
  BY DEF Visiting, Reading, Ahead, Follows, Stage, Looking
<1>2. InTurn(s) /\ Connected(s) /\ MetOnce(s) /\ ReadsLast(s)
  BY <1>1 DEF Walks, InTurn, Connected, MetOnce, ReadsLast, Follows
<1>3. \A i, q : Later(s, i, q) = Later(r, i, q)
  BY DEF Later, Follows
<1>4. dirs[r.taken[Len(r.taken)]] = Absent
  BY DEF Walks, ReadsLast
<1> QED
  BY <1>1, <1>2, <1>3, <1>4 DEF Walks, Follows

\* What a directory holds comes before what was still ahead.
LEMMA SeesFiles ==
  ASSUME FsInv, NEW r \in Call, NEW s \in Call, Walks(r), Stage(r) = "queryFiles",
         s.taken = r.taken, s.arg = r.arg, s.pc = "walk", dirs[r.cur] # Absent,
         s.todo = (SetToSeq(r.kids) \o SetToSeq(Children(files, r.cur))) \o r.todo
  PROVE  Walks(s)
<1> DEFINE x == r.cur
<1>1. PICK K, F : K = r.kids /\ F = Children(files, x)
  OBVIOUS
<1>2. /\ ~Visiting(s) /\ ~Reading(s) /\ ~Visiting(r) /\ Reading(r) /\ Stage(s) = "walk"
      /\ Ahead(s) = InSeq(s.todo) /\ Ahead(r) = InSeq(r.todo)
  BY DEF Visiting, Reading, Ahead, Stage, Looking
<1>3. /\ K = Children(Present, x) /\ r.taken # <<>> /\ r.taken[Len(r.taken)] = x /\ ~AsFile(x)
      /\ \A y \in InSeq(r.todo) : Parent[y] # x
  BY <1>1, <1>2 DEF Walks, ReadsLast
<1>4. K \in SUBSET Node /\ F \in SUBSET Node
  BY <1>1, <1>3 DEF Children, Present, FsInv, TypeInv, TypeOK
<1>5. /\ K \union F = ChildrenOf(x)
      /\ \A y \in K \union F : y \in Node \ {Root} /\ Parent[y] = x
      /\ \A y \in K \intersect F : AsFile(y)
  BY <1>1, <1>3, <1>4 DEF ChildrenOf, Children, Live, AsFile
<1>6. PICK ks, fs : ks = SetToSeq(K) /\ fs = SetToSeq(F)
  OBVIOUS
<1>7. ks \in Seq(Node) /\ InSeq(ks) = K /\ Distinct(ks)
  BY <1>4, <1>6, SetToSeqGives
<1>8. fs \in Seq(Node) /\ InSeq(fs) = F /\ Distinct(fs)
  BY <1>4, <1>6, SetToSeqGives
<1>9. PICK gs : gs = ks \o fs
  OBVIOUS
<1>10. Joins(gs, ks, fs)
  BY <1>7, <1>8, <1>9, Joined
<1>11. gs \in Seq(Node) /\ InSeq(gs) = ChildrenOf(x)
  BY <1>5, <1>7, <1>8, <1>10 DEF Joins
<1>12. Joins(s.todo, gs, r.todo)
  <2>1. s.todo = gs \o r.todo /\ r.todo \in Seq(Node)
    BY <1>1, <1>6, <1>9 DEF Call
  <2> QED
    BY <1>11, <2>1, Joined
<1>13. Ahead(s) = ChildrenOf(x) \union Ahead(r)
  BY <1>2, <1>11, <1>12 DEF Joins
<1> DEFINE n == Len(r.taken)
<1>14. n \in Nat /\ DOMAIN r.taken = 1..n /\ n \in 1..n /\ InSeq(r.taken) \subseteq Node
       /\ x \in InSeq(r.taken) /\ x \in Node
  <2>1. r.taken \in Seq(Node)
    BY DEF Call
  <2>2. n \in Nat /\ DOMAIN r.taken = 1..n /\ InSeq(r.taken) \subseteq Node
    BY <2>1, SeqElements
  <2>3. n # 0
    BY <1>3, <2>1, EmptySeq
  <2> QED
    BY <1>3, <2>2, <2>3 DEF InSeq
<1>15. \A y \in ChildrenOf(x) : y \notin InSeq(r.taken)
  <2> SUFFICES ASSUME NEW i \in 1..n, r.taken[i] \in ChildrenOf(x) PROVE FALSE
    BY <1>14 DEF InSeq
  <2>1. r.taken[i] \in Node \ {Root} /\ Parent[r.taken[i]] = x
    BY <1>5
  <2>2. CASE i = n
    BY <1>3, <1>14, <2>1, <2>2, DepthDecreases
  <2>3. CASE i < n
    BY <1>3, <1>14, <2>1, <2>3 DEF Walks, InTurn
  <2> QED
    BY <1>14, <2>2, <2>3
<1>16. InTurn(s)
  BY DEF Walks, InTurn
<1>17. Connected(s)
  <2>1. ASSUME NEW y \in ChildrenOf(x)
        PROVE  /\ Depth[y] >= Depth[s.arg]
               /\ y # Root /\ Parent[y] \in InSeq(s.taken) /\ ~AsFile(Parent[y])
    <3>1. Depth[x] < Depth[y] /\ Parent[y] = x /\ y # Root /\ y \in Node
      BY <1>5, DepthDecreases
    <3>2. Depth[x] >= Depth[r.arg] /\ r.arg \in Node
      BY <1>14 DEF Walks, Connected, Call
    <3>3. Depth[y] \in Nat /\ Depth[x] \in Nat /\ Depth[r.arg] \in Nat
      BY <1>14, <3>1, <3>2, DepthDecreases
    <3> QED
      BY <1>3, <1>14, <3>1, <3>2, <3>3
  <2> QED
    BY <1>13, <2>1 DEF Walks, Connected
<1>18. MetOnce(s)
  <2>1. \A y \in Ahead(s) \intersect InSeq(s.taken) : AsFile(y)
    BY <1>13, <1>15 DEF Walks, MetOnce
  <2>2. ASSUME NEW i \in DOMAIN s.todo, NEW j \in DOMAIN s.todo, i # j, s.todo[i] = s.todo[j]
        PROVE  AsFile(s.todo[i])
    <3>1. /\ i \in Nat /\ j \in Nat /\ Len(gs) \in Nat /\ Len(ks) \in Nat
          /\ \/ i \in DOMAIN gs /\ s.todo[i] = gs[i]
             \/ i - Len(gs) \in DOMAIN r.todo /\ s.todo[i] = r.todo[i - Len(gs)]
          /\ \/ j \in DOMAIN gs /\ s.todo[j] = gs[j]
             \/ j - Len(gs) \in DOMAIN r.todo /\ s.todo[j] = r.todo[j - Len(gs)]
      BY <1>10, <1>12, <2>2 DEF Joins
    <3>2. CASE /\ i - Len(gs) \in DOMAIN r.todo /\ s.todo[i] = r.todo[i - Len(gs)]
               /\ j - Len(gs) \in DOMAIN r.todo /\ s.todo[j] = r.todo[j - Len(gs)]
      <4>1. i - Len(gs) # j - Len(gs)
        BY <2>2, <3>1
      <4> QED
        BY <2>2, <3>2, <4>1 DEF Walks, MetOnce
    <3>3. CASE /\ i \in DOMAIN gs /\ s.todo[i] = gs[i]
               /\ j - Len(gs) \in DOMAIN r.todo /\ s.todo[j] = r.todo[j - Len(gs)]
      <4>1. s.todo[i] \in ChildrenOf(x) /\ s.todo[i] \in InSeq(r.todo)
        BY <1>11, <2>2, <3>3 DEF InSeq
      <4> QED
        BY <1>3, <1>5, <4>1
    <3>4. CASE /\ j \in DOMAIN gs /\ s.todo[j] = gs[j]
               /\ i - Len(gs) \in DOMAIN r.todo /\ s.todo[i] = r.todo[i - Len(gs)]
      <4>1. s.todo[i] \in ChildrenOf(x) /\ s.todo[i] \in InSeq(r.todo)
        BY <1>11, <2>2, <3>4 DEF InSeq
      <4> QED
        BY <1>3, <1>5, <4>1
    <3>5. CASE i \in DOMAIN gs /\ s.todo[i] = gs[i] /\ j \in DOMAIN gs /\ s.todo[j] = gs[j]
      <4>1. /\ \/ i \in DOMAIN ks /\ gs[i] = ks[i]
               \/ i - Len(ks) \in DOMAIN fs /\ gs[i] = fs[i - Len(ks)]
            /\ \/ j \in DOMAIN ks /\ gs[j] = ks[j]
               \/ j - Len(ks) \in DOMAIN fs /\ gs[j] = fs[j - Len(ks)]
        BY <1>10, <3>5 DEF Joins
      <4>2. CASE i \in DOMAIN ks /\ gs[i] = ks[i] /\ j \in DOMAIN ks /\ gs[j] = ks[j]
        BY <1>7, <2>2, <3>5, <4>2 DEF Distinct
      <4>3. CASE /\ i - Len(ks) \in DOMAIN fs /\ gs[i] = fs[i - Len(ks)]
                 /\ j - Len(ks) \in DOMAIN fs /\ gs[j] = fs[j - Len(ks)]
        <5>1. i - Len(ks) = j - Len(ks)
          BY <1>8, <2>2, <3>5, <4>3 DEF Distinct
        <5> QED
          BY <2>2, <3>1, <5>1
      <4>4. CASE gs[i] \in K /\ gs[i] \in F
        BY <1>5, <3>5, <4>4
      <4>5. gs[i] = gs[j]
        BY <2>2, <3>5
      <4>6. /\ \A k \in DOMAIN ks : ks[k] \in K
            /\ \A k \in DOMAIN fs : fs[k] \in F
        BY <1>7, <1>8 DEF InSeq
      <4> QED
        BY <4>1, <4>2, <4>3, <4>4, <4>5, <4>6
    <3> QED
      BY <3>1, <3>2, <3>3, <3>4, <3>5
  <2> QED
    BY <1>2, <2>1, <2>2 DEF MetOnce
<1>19. ReadsLast(s)
  BY <1>2 DEF ReadsLast
<1>20. ASSUME NEW i \in DOMAIN s.taken, dirs[s.taken[i]] # Absent, s.taken[i] \notin cut,
              ~AsFile(s.taken[i]), NEW q \in ChildrenOf(s.taken[i])
       PROVE  Later(s, i, q) \/ q \in Ahead(s)
  <2>1. CASE i = n
    BY <1>3, <1>13, <1>20, <2>1
  <2>2. CASE i # n
    <3>1. Later(r, i, q) \/ q \in Ahead(r)
      BY <1>20, <2>2 DEF Walks
    <3>2. Later(r, i, q) => Later(s, i, q)
      BY DEF Later
    <3> QED
      BY <1>13, <3>1, <3>2
  <2> QED
    BY <2>1, <2>2
<1> QED
  BY <1>16, <1>17, <1>18, <1>19, <1>20 DEF Walks

\* The next that is ahead is visited.
LEMMA NextUp ==
  ASSUME NEW r \in Call, NEW s \in Call, Walks(r), r.pc = "walk", r.todo # <<>>,
         s.taken = r.taken, s.arg = r.arg, Stage(s) \in {"fileGet", "noFile"},
         s.todo = Tail(r.todo), s.cur = Head(r.todo)
  PROVE  Walks(s)
<1> DEFINE n == Len(r.todo)
<1>1. ~Visiting(r) /\ ~Reading(r) /\ Visiting(s) /\ ~Reading(s) /\ Stage(s) # "dirGot"
  BY DEF Visiting, Reading, Stage, Looking
<1>2. /\ r.todo \in Seq(Node) /\ n \in Nat \ {0} /\ DOMAIN r.todo = 1..n
      /\ s.todo \in Seq(Node) /\ DOMAIN s.todo = 1..(n - 1) /\ s.cur = r.todo[1]
      /\ \A i \in 1..(n - 1) : s.todo[i] = r.todo[i + 1]
  <2>1. r.todo \in Seq(Node) /\ n \in Nat /\ DOMAIN r.todo = 1..n
    BY SeqElements DEF Call
  <2>2. n # 0
    BY <2>1, EmptySeq
  <2>3. /\ s.todo \in Seq(Node) /\ Len(s.todo) = n - 1
        /\ \A i \in 1..Len(s.todo) : s.todo[i] = r.todo[i + 1]
    BY <2>1, HeadTailProperties
  <2>4. DOMAIN s.todo = 1..(n - 1)
    BY <2>3, SeqElements
  <2>5. s.cur = r.todo[1]
    BY <2>1
  <2> QED
    BY <2>1, <2>2, <2>3, <2>4, <2>5
<1>3. Ahead(s) = Ahead(r)
  <2>1. Ahead(r) = InSeq(r.todo) /\ Ahead(s) = InSeq(s.todo) \union {s.cur}
    BY <1>1 DEF Ahead
  <2>2. ASSUME NEW i \in 1..n PROVE r.todo[i] \in InSeq(s.todo) \union {s.cur}
    <3>1. CASE i = 1
      BY <1>2, <3>1
    <3>2. CASE i # 1
      <4>1. i - 1 \in 1..(n - 1) /\ (i - 1) + 1 = i
        BY <1>2, <3>2
      <4>2. s.todo[i - 1] = r.todo[i]
        BY <1>2, <4>1
      <4> QED
        BY <1>2, <4>1, <4>2 DEF InSeq
    <3> QED
      BY <3>1, <3>2
  <2>3. ASSUME NEW i \in 1..(n - 1) PROVE s.todo[i] \in InSeq(r.todo)
    BY <1>2 DEF InSeq
  <2>4. s.cur \in InSeq(r.todo)
    BY <1>2 DEF InSeq
  <2>5. InSeq(r.todo) \subseteq InSeq(s.todo) \union {s.cur}
    BY <1>2, <2>2 DEF InSeq
  <2>6. InSeq(s.todo) \subseteq InSeq(r.todo)
    BY <1>2, <2>3 DEF InSeq
  <2> QED
    BY <2>1, <2>4, <2>5, <2>6
<1>4. InTurn(s) /\ Connected(s) /\ ReadsLast(s)
  BY <1>1, <1>3 DEF Walks, InTurn, Connected, ReadsLast
<1>5. MetOnce(s)
  <2>1. \A y \in Ahead(s) \intersect InSeq(s.taken) : AsFile(y)
    BY <1>3 DEF Walks, MetOnce
  <2>2. \A i, j \in DOMAIN s.todo : i # j /\ s.todo[i] = s.todo[j] => AsFile(s.todo[i])
    <3> SUFFICES ASSUME NEW i \in 1..(n - 1), NEW j \in 1..(n - 1), i # j, s.todo[i] = s.todo[j]
                 PROVE  AsFile(s.todo[i])
      BY <1>2
    <3>1. i + 1 \in 1..n /\ j + 1 \in 1..n /\ i + 1 # j + 1
      BY <1>2
    <3>2. s.todo[i] = r.todo[i + 1] /\ s.todo[j] = r.todo[j + 1]
      BY <1>2
    <3> QED
      BY <1>2, <3>1, <3>2 DEF Walks, MetOnce
  <2>3. s.cur \in InSeq(s.todo) => AsFile(s.cur)
    <3> SUFFICES ASSUME NEW i \in 1..(n - 1), s.todo[i] = s.cur PROVE AsFile(s.cur)
      BY <1>2 DEF InSeq
    <3>1. i + 1 \in 1..n /\ 1 \in 1..n /\ i + 1 # 1 /\ r.todo[i + 1] = r.todo[1]
      BY <1>2
    <3> QED
      BY <1>2, <3>1 DEF Walks, MetOnce
  <2> QED
    BY <1>1, <2>1, <2>2, <2>3 DEF MetOnce
<1>6. \A i, q : Later(s, i, q) = Later(r, i, q)
  BY DEF Later
<1> QED
  BY <1>1, <1>3, <1>4, <1>5, <1>6 DEF Walks

\* RemoveAll begins with its argument.
LEMMA SetsOut ==
  ASSUME NEW s \in Call, s.pc = "walk", s.todo = <<s.arg>>, s.taken = <<>>
  PROVE  Walks(s)
<1>1. ~Visiting(s) /\ ~Reading(s) /\ Stage(s) = "walk"
  BY DEF Visiting, Reading, Stage, Looking
<1>2. DOMAIN s.taken = {} /\ InSeq(s.taken) = {}
  BY DEF InSeq
<1>3. DOMAIN s.todo = {1} /\ s.todo[1] = s.arg
  OBVIOUS
<1>4. Ahead(s) = {s.arg}
  BY <1>1, <1>3 DEF Ahead, InSeq
<1>5. Depth[s.arg] >= Depth[s.arg]
  <2>1. Depth[s.arg] \in Nat
    BY DepthDecreases DEF Call
  <2> QED
    BY <2>1
<1>6. InTurn(s) /\ ReadsLast(s)
  BY <1>1, <1>2 DEF InTurn, ReadsLast
<1>7. Connected(s)
  BY <1>2, <1>4, <1>5 DEF Connected
<1>8. MetOnce(s)
  BY <1>1, <1>2, <1>3 DEF MetOnce
<1> QED
  BY <1>2, <1>6, <1>7, <1>8 DEF Walks

-----------------------------------------------------------------------------
(* The way back.                                                           *)

\* Everything was found; what was taken is removed from the end.
LEMMA TurnsBack ==
  ASSUME NEW r \in Call, NEW s \in Call, Walks(r), r.pc = "walk", r.todo = <<>>,
         s.taken = r.taken, s.pc = "unwind"
  PROVE  Unwinds(s)
<1>1. ~Visiting(r) /\ ~Reading(r) /\ ~Handling(s)
  BY DEF Visiting, Reading, Handling, Stage, Looking
<1>2. Ahead(r) = {}
  BY <1>1 DEF Ahead, InSeq
<1>3. \A i, q : Later(s, i, q) = Later(r, i, q)
  BY DEF Later
<1> QED
  BY <1>1, <1>2, <1>3 DEF Walks, Unwinds, InTurn

\* The last that was taken is removed next.
LEMMA TakesBack ==
  ASSUME NEW r \in Call, NEW s \in Call, Unwinds(r), r.pc = "unwind", r.taken # <<>>,
         s.taken = Front(r.taken), s.cur = Last(r.taken), Stage(s) \in {"fileGet", "noFile"}
  PROVE  Unwinds(s)
<1> DEFINE n == Len(r.taken)
<1>1. ~Handling(r) /\ Handling(s)
  BY DEF Visiting, Handling, Stage, Looking
<1>2. /\ r.taken \in Seq(Node) /\ n \in Nat \ {0} /\ DOMAIN r.taken = 1..n
      /\ s.taken \in Seq(Node) /\ DOMAIN s.taken = 1..(n - 1) /\ s.cur = r.taken[n]
      /\ \A i \in 1..(n - 1) : s.taken[i] = r.taken[i]
  <2>1. r.taken \in Seq(Node) /\ n \in Nat /\ DOMAIN r.taken = 1..n
    BY SeqElements DEF Call
  <2>2. n # 0
    BY <2>1, EmptySeq
  <2>3. \A i \in 1..(n - 1) : r.taken[i] \in Node
    BY <2>1, ElementOfSeq
  <2>4. s.taken = SubSeq(r.taken, 1, n - 1) /\ s.cur = r.taken[n]
    BY DEF Front, Last
  <2>5. /\ s.taken \in Seq(Node)
        /\ Len(s.taken) = IF 1 <= n - 1 THEN (n - 1) - 1 + 1 ELSE 0
        /\ \A i \in 1..((n - 1) - 1 + 1) : s.taken[i] = r.taken[1 + i - 1]
    BY <2>1, <2>3, <2>4, SubSeqProperties
  <2>6. Len(s.taken) = n - 1 /\ \A i \in 1..(n - 1) : s.taken[i] = r.taken[i]
    BY <2>1, <2>2, <2>5
  <2>7. DOMAIN s.taken = 1..(n - 1)
    BY <2>5, <2>6, SeqElements
  <2> QED
    BY <2>1, <2>2, <2>4, <2>5, <2>6, <2>7
<1>3. InTurn(s) /\ \A i \in DOMAIN s.taken : Parent[s.taken[i]] # s.cur
  <2>1. \A i \in 1..(n - 1) : i \in 1..n /\ i < n /\ n \in 1..n
    BY <1>2
  <2>2. \A i, j \in 1..n : i < j => Parent[r.taken[i]] # r.taken[j]
    BY <1>2 DEF Unwinds, InTurn
  <2>3. \A i, j \in 1..(n - 1) : i < j => Parent[s.taken[i]] # s.taken[j]
    BY <1>2, <2>1, <2>2
  <2>4. \A i \in 1..(n - 1) : Parent[s.taken[i]] # s.cur
    BY <1>2, <2>1, <2>2
  <2> QED
    BY <1>2, <2>3, <2>4 DEF InTurn
<1>4. ASSUME NEW i \in DOMAIN s.taken, NEW q, Later(r, i, q)
      PROVE  Later(s, i, q) \/ q = s.cur
  <2>1. PICK j \in 1..n : j > i /\ r.taken[j] = q
    BY <1>2, <1>4 DEF Later
  <2>2. j = n \/ j \in 1..(n - 1)
    BY <1>2
  <2> QED
    BY <1>2, <2>1, <2>2 DEF Later
<1>5. ASSUME NEW i \in DOMAIN s.taken, dirs[s.taken[i]] # Absent, s.taken[i] \notin cut,
             ~AsFile(s.taken[i]), NEW q \in ChildrenOf(s.taken[i])
      PROVE  Later(s, i, q) \/ q = s.cur
  <2>1. i \in 1..n /\ s.taken[i] = r.taken[i]
    BY <1>2
  <2>2. Later(r, i, q)
    BY <1>1, <1>2, <1>5, <2>1 DEF Unwinds
  <2> QED
    BY <1>4, <2>2
<1>6. dirs[s.cur] # Absent /\ s.cur \notin cut /\ ~AsFile(s.cur) => ChildrenOf(s.cur) = {}
  <2>1. n \in DOMAIN r.taken /\ \A q : ~Later(r, n, q)
    BY <1>2 DEF Later
  <2> QED
    BY <1>1, <1>2, <2>1 DEF Unwinds
<1> QED
  BY <1>1, <1>3, <1>5, <1>6 DEF Unwinds

\* One step further with the same node, of which a file is no longer seen where
\* that matters.
LEMMA HandlesFurther ==
  ASSUME NEW r \in Call, NEW s \in Call, Unwinds(r), Handling(r), Handling(s),
         s.taken = r.taken, s.cur = r.cur,
         Stage(s) \in {"dirGot", "dirDelete", "mcacheDelete"} => ~AsFile(r.cur),
         Stage(s) # "mcacheDelete"
  PROVE  Unwinds(s)
<1>1. \A i, q : Later(s, i, q) = Later(r, i, q)
  BY DEF Later
<1> QED
  BY <1>1 DEF Unwinds, InTurn

\* The node is gone; the next one follows.
LEMMA HandledOne ==
  ASSUME NEW r \in Call, NEW s \in Call, Unwinds(r), s.taken = r.taken, s.pc = "unwind",
         dirs[r.cur] = Absent, ~AsFile(r.cur)
  PROVE  Unwinds(s)
<1>1. ~Handling(s)
  BY DEF Handling, Visiting, Stage, Looking
<1>2. \A p \in Node : dirs[p] # Absent => r.cur \notin ChildrenOf(p)
  BY DEF ChildrenOf, Live, Present, AsFile
<1>3. \A i \in DOMAIN s.taken : s.taken[i] \in Node
  BY DEF Call
<1>4. \A i, q : Later(s, i, q) = Later(r, i, q)
  BY DEF Later
<1> QED
  BY <1>1, <1>2, <1>3, <1>4 DEF Unwinds, InTurn

-----------------------------------------------------------------------------
(* What a client knows when it goes on.                                    *)

LEMMA IdleKnows == Knows(Idle)
  BY DEF Knows, Doing, Idle, Looking, Stage, Answers, Returns

\* What is asked for with the intention to go on at then.
Asked(then, cur) == IF then \in {"dirGot", "queryFiles"} THEN cur ELSE Parent[cur]

\* l is q with that lookup ahead of it.
Asks(l, q, then) ==
    /\ l \in Call /\ Knows(l) /\ Stage(l) = then
    /\ l.op = q.op /\ l.arg = q.arg /\ l.cur = q.cur /\ l.kids = q.kids
    /\ l.todo = q.todo /\ l.taken = q.taken

LEMMA LookupKnows ==
  ASSUME NEW q \in Call, NEW then \in Answers, NEW p \in Node, p = Asked(then, q.cur),
         then = "queryFiles" => q.op \in {"readDir", "removeAll"},
         NEW l, l = Lookup(q, p, then)
  PROVE  Asks(l, q, then)
<1>1. then \in Pcs
  BY DEF Answers, Returns, Pcs
<1>2. /\ l \in Call /\ l.pc = "mcacheGet" /\ l.ret = then /\ l.look = p /\ l.hit = Absent
      /\ l.op = q.op /\ l.arg = q.arg /\ l.cur = q.cur /\ l.kids = q.kids
      /\ l.todo = q.todo /\ l.taken = q.taken
  <2>1. l = [q EXCEPT !.pc = "mcacheGet", !.look = p, !.ret = then, !.hit = Absent]
    BY DEF Lookup
  <2>2. l \in Call
    BY <1>1, <2>1 DEF Call, Pcs
  <2>3. l.pc = "mcacheGet" /\ l.ret = then /\ l.look = p /\ l.hit = Absent
    BY <2>1 DEF Call
  <2>4. l.op = q.op /\ l.arg = q.arg /\ l.cur = q.cur /\ l.kids = q.kids
    BY <2>1 DEF Call
  <2>5. l.todo = q.todo /\ l.taken = q.taken
    BY <2>1 DEF Call
  <2> QED
    BY <2>2, <2>3, <2>4, <2>5
<1>3. Stage(l) = then /\ Looking(l) /\ Aim(l) = p
  BY <1>2 DEF Stage, Looking, Aim, Asked
<1>4. Doing(l)
  BY <1>2, <1>3 DEF Doing, Answers, Returns
<1>5. Knows(l)
  BY <1>2, <1>3, <1>4 DEF Knows, Answers, Returns
<1> QED
  BY <1>2, <1>3, <1>5 DEF Asks

\* l is q with the lookup of a file ahead of it.
Visits(l, q, p) ==
    /\ l \in Call /\ Knows(l) /\ Stage(l) \in {"fileGet", "noFile"} /\ l.cur = p
    /\ l.op = q.op /\ l.arg = q.arg /\ l.kids = q.kids /\ l.todo = q.todo /\ l.taken = q.taken

LEMMA FileByPathKnows ==
  ASSUME NEW q \in Call, q.ret = "idle", NEW p \in Node, NEW l, l = FileByPath(q, p)
  PROVE  Visits(l, q, p)
<1>1. CASE p = Root
  <2>1. l = [q EXCEPT !.pc = "noFile", !.cur = p, !.hit = Absent]
    BY <1>1 DEF FileByPath
  <2>2. /\ l \in Call /\ l.pc = "noFile" /\ l.cur = p /\ l.hit = Absent
        /\ l.op = q.op /\ l.arg = q.arg /\ l.kids = q.kids /\ l.todo = q.todo /\ l.taken = q.taken
    BY <2>1 DEF Call, Pcs
  <2>3. Stage(l) = "noFile" /\ ~Looking(l)
    BY <2>2 DEF Stage, Looking
  <2>4. Knows(l)
    BY <1>1, <2>2, <2>3 DEF Knows, Doing, Answers, Returns
  <2> QED
    BY <2>2, <2>3, <2>4 DEF Visits
<1>2. CASE p # Root
  <2>1. PICK z : z = [q EXCEPT !.cur = p]
    OBVIOUS
  <2>2. /\ z \in Call /\ z.cur = p /\ z.op = q.op /\ z.arg = q.arg /\ z.kids = q.kids
        /\ z.todo = q.todo /\ z.taken = q.taken
    BY <2>1 DEF Call
  <2>3. l = Lookup(z, Parent[p], "fileGet")
    BY <1>2, <2>1 DEF FileByPath
  <2>4. PICK then : then = "fileGet"
    OBVIOUS
  <2>5. Parent[p] \in Node /\ Parent[p] = Asked(then, z.cur) /\ then \in Answers /\ then # "queryFiles"
    BY <2>2, <2>4, DsFsAssumption DEF DsFsAssumption, Asked, Answers, Returns
  <2>6. Asks(l, z, then)
    BY <2>2, <2>3, <2>4, <2>5, LookupKnows
  <2> QED
    BY <2>2, <2>4, <2>6 DEF Asks, Visits
<1> QED
  BY <1>1, <1>2

\* What is not the answer to a lookup needs no knowledge.
LEMMA PlainKnows ==
  ASSUME NEW r, r.hit \in Times \union {Absent}, Doing(r),
         r.pc \in {"walk", "unwind", "readDir", "fileDelete", "dirDelete", "mcacheDelete",
                   "deleteFiles", "deleteDirs", "flush", "dirPut"}
  PROVE  Knows(r)
BY DEF Knows, Looking, Answers, Returns

\* A step that does not touch the stores, and not for a directory on its way up.
LEMMA GoesOn ==
  ASSUME FsInv, TreeInv, ~Failures, NEW c \in Clients, NEW r, Goto(c, r), Knows(r),
         UNCHANGED <<store, mcache, ops, mode, history>>, Orderly => WalkGoes(r),
         client[c].pc \in {"fileGet", "noFile", "dirGot", "readDir", "queryFiles", "walk", "unwind"}
  PROVE  TreeInv'
<1>1. client[c].ret = "idle"
  BY DEF FsInv, TypeInv, InOrder
<1>2. \A p \in Node : ~Climbs(client[c], p)
  BY <1>1 DEF Climbs
<1>3. ~At(c, "idle") /\ ~At(c, "mcacheDelete")
  BY DEF At
<1>4. client' = [client EXCEPT ![c] = r] /\ UNCHANGED <<dirs, files, cut, mode, mcache, raced>>
  BY DEF Goto, store, history
<1> QED
  BY <1>2, <1>3, <1>4, TreeReads

LEMMA IdleGoes == WalkGoes(Idle) /\ Idle.pc = "idle"
  BY DEF WalkGoes, Idle

\* What the invariant says of a client.
LEMMA OfClient ==
  ASSUME FsInv, TreeInv, ~Failures, NEW c \in Clients
  PROVE  /\ client[c] \in Call /\ InOrder(client[c]) /\ Knows(client[c])
         /\ Orderly => WalkGoes(client[c])
         /\ client[c].cur \in Node /\ Parent[client[c].cur] \in Node
BY DsFsAssumption DEF DsFsAssumption, FsInv, TypeInv, TypeOK, TreeInv, Alone, WalkGoes, Call

\* An operation that ends in time.
LEMMA EndsWell ==
  ASSUME FsInv, TreeInv, ~Failures, NEW c \in Clients, Finish(c),
         UNCHANGED <<store, mcache, ops, mode, history>>,
         client[c].pc \in {"fileGet", "noFile", "dirGot", "readDir", "queryFiles", "walk", "unwind"}
  PROVE  TreeInv'
BY IdleKnows, IdleGoes, GoesOn DEF Finish

-----------------------------------------------------------------------------
(* The steps that only read.                                               *)

\* Whether a file is there, a client alone knows.
LEMMA SeesFile ==
  ASSUME FsInv, TreeInv, ~Failures, Orderly, NEW c \in Clients, At(c, "fileGet") \/ At(c, "noFile")
  PROVE  HasFile(client[c]) <=> AsFile(client[c].cur)
<1> DEFINE q == client[c]
<1>1. q \in Call /\ Knows(q)
  BY OfClient
<1>2. CASE q.pc = "fileGet"
  <2>1. Aim(q) = Parent[q.cur]
    BY <1>2 DEF Aim, Stage, Looking
  <2>2. q.hit = dirs[Parent[q.cur]]
    BY <1>1, <1>2, <2>1 DEF Knows, Answers, Returns, Right
  <2>3. q.hit # Failed /\ (Unread(q) <=> q.hit = Absent)
    BY <1>1, DsFsAssumption DEF DsFsAssumption, Knows, Unread
  <2> QED
    BY <1>2, <2>2, <2>3 DEF HasFile, AsFile
<1>3. CASE q.pc = "noFile"
  BY <1>1, <1>3 DEF Knows, HasFile, AsFile, FsInv, TypeInv, TypeOK
<1> QED
  BY <1>2, <1>3 DEF At

LEMMA FileFoundKeepsTree ==
  ASSUME FsInv, TreeInv, ~Failures, NEW c \in Clients, FileFound(c)
  PROVE  TreeInv'
<1> DEFINE q == client[c]
<1>1. /\ q \in Call /\ Knows(q) /\ q.pc = "fileGet" /\ q.cur \in Node /\ Parent[q.cur] \in Node
      /\ UNCHANGED <<store, mcache, ops, mode, history>> /\ HasFile(q)
      /\ q.hit \in Times \union {Absent}
  BY OfClient DEF FileFound, At, Knows
<1>2. Orderly => AsFile(q.cur) /\ WalkGoes(q)
  BY <1>1, SeesFile, OfClient DEF At
<1>3. Visiting(q) /\ Handling(q)
  BY <1>1 DEF Visiting, Handling, Stage, Looking
<1>4. CASE Finish(c)
  BY <1>1, <1>4, EndsWell
<1>5. CASE q.op = "chtimes" /\ Goto(c, Lookup(q, Parent[q.cur], "filePut"))
  <2>1. PICK r, then, p : then = "filePut" /\ p = Parent[q.cur] /\ r = Lookup(q, p, then)
    OBVIOUS
  <2>2. p = Asked(then, q.cur) /\ then \in Answers /\ then # "queryFiles" /\ p \in Node
    BY <1>1, <2>1 DEF Asked, Answers, Returns
  <2>3. Asks(r, q, then)
    BY <1>1, <2>1, <2>2, LookupKnows
  <2>4. WalkGoes(r) /\ Knows(r) /\ Goto(c, r)
    BY <1>5, <2>1, <2>3 DEF WalkGoes, Asks
  <2> QED
    BY <1>1, <2>4, GoesOn
<1>6. CASE q.op = "removeAll" /\ Goto(c, [q EXCEPT !.pc = "walk", !.taken = Append(@, q.cur)])
  <2>1. PICK r : r = [q EXCEPT !.pc = "walk", !.taken = Append(q.taken, q.cur)]
    OBVIOUS
  <2>2. Append(q.taken, q.cur) \in Seq(Node)
    BY <1>1, AppendProperties DEF Call
  <2>3. r \in Call
    BY <1>1, <2>1, <2>2 DEF Call, Pcs
  <2>4. /\ r.pc = "walk" /\ r.taken = Append(q.taken, q.cur) /\ r.todo = q.todo /\ r.arg = q.arg
        /\ r.op = q.op /\ r.hit = q.hit
    BY <1>1, <2>1 DEF Call
  <2>5. Doing(r)
    BY <1>6, <2>4 DEF Doing, Stage, Looking
  <2>6. Knows(r)
    BY <1>1, <2>4, <2>5, PlainKnows
  <2>7. Orderly => Walks(r)
    <3>1. Orderly => Walks(q)
      BY <1>2, <1>6 DEF WalkGoes
    <3> QED
      BY <1>1, <1>2, <1>3, <2>3, <2>4, <3>1, Takes
  <2>8. Orderly => WalkGoes(r)
    BY <1>6, <2>4, <2>7 DEF WalkGoes
  <2>9. Goto(c, r)
    BY <1>6, <2>1
  <2> QED
    BY <1>1, <2>6, <2>8, <2>9, GoesOn
<1>7. CASE Removing(q) /\ Goto(c, [q EXCEPT !.pc = "fileDelete"])
  <2>1. PICK r : r = [q EXCEPT !.pc = "fileDelete"]
    OBVIOUS
  <2>2. r \in Call
    BY <1>1, <2>1 DEF Call, Pcs
  <2>3. /\ r.pc = "fileDelete" /\ r.taken = q.taken /\ r.cur = q.cur
        /\ r.op = q.op /\ r.hit = q.hit
    BY <1>1, <2>1 DEF Call
  <2>4. Stage(r) = "fileDelete" /\ Handling(r)
    BY <2>3 DEF Stage, Looking, Handling
  <2>5. Doing(r)
    BY <1>7, <2>3, <2>4 DEF Doing, Removing
  <2>6. Knows(r)
    BY <1>1, <2>3, <2>5, PlainKnows
  <2>7. Orderly /\ Unwinds(q) => Unwinds(r)
    BY <1>1, <1>3, <2>2, <2>3, <2>4, HandlesFurther
  <2>8. Orderly => WalkGoes(r)
    BY <1>2, <1>7, <2>3, <2>7 DEF WalkGoes, Removing
  <2>9. Goto(c, r)
    BY <1>7, <2>1
  <2> QED
    BY <1>1, <2>6, <2>8, <2>9, GoesOn
<1> QED
  BY <1>4, <1>5, <1>6, <1>7 DEF FileFound

LEMMA FileMissingKeepsTree ==
  ASSUME FsInv, TreeInv, ~Failures, NEW c \in Clients, FileMissing(c)
  PROVE  TreeInv'
<1> DEFINE q == client[c]
<1>1. /\ q \in Call /\ Knows(q) /\ q.pc \in {"fileGet", "noFile"} /\ q.cur \in Node
      /\ UNCHANGED <<store, mcache, ops, mode, history>>
  BY OfClient DEF FileMissing, Knows
<1>2. q.hit # Failed
  BY <1>1, DsFsAssumption DEF DsFsAssumption, Knows
<1>3. ~HasFile(q) /\ Goto(c, Lookup(q, q.cur, "dirGot"))
  BY <1>2 DEF FileMissing
<1>4. Orderly => ~AsFile(q.cur) /\ WalkGoes(q)
  BY <1>1, <1>3, SeesFile, OfClient DEF At
<1>5. Visiting(q) /\ Handling(q) /\ Stage(q) \in {"fileGet", "noFile"}
  BY <1>1 DEF Visiting, Handling, Stage, Looking
<1>6. PICK r, then, p : then = "dirGot" /\ p = q.cur /\ r = Lookup(q, p, then)
  OBVIOUS
<1>7. p = Asked(then, q.cur) /\ then \in Answers /\ then # "queryFiles" /\ p \in Node
  BY <1>1, <1>6 DEF Asked, Answers, Returns
<1>8. /\ r \in Call /\ Knows(r) /\ Stage(r) = then
      /\ r.op = q.op /\ r.arg = q.arg /\ r.cur = q.cur /\ r.todo = q.todo /\ r.taken = q.taken
  <2>1. Asks(r, q, then)
    BY <1>1, <1>6, <1>7, LookupKnows
  <2> QED
    BY <2>1 DEF Asks
<1>9. Handling(r) /\ Follows(r, q) /\ Stage(r) = "dirGot"
  BY <1>6, <1>8 DEF Handling, Visiting, Follows
<1>10. Orderly /\ Walks(q) => Walks(r)
  BY <1>1, <1>4, <1>5, <1>8, <1>9, LooksFurther
<1>11. Orderly /\ Unwinds(q) => Unwinds(r)
  BY <1>1, <1>4, <1>5, <1>8, <1>9, HandlesFurther
<1>12. Orderly => WalkGoes(r)
  BY <1>4, <1>8, <1>10, <1>11 DEF WalkGoes
<1>13. Goto(c, r)
  BY <1>3, <1>6
<1> QED
  BY <1>1, <1>8, <1>12, <1>13, GoesOn

\* A client stays with its node, and goes on with it.
LEMMA PlainGoes ==
  ASSUME FsInv, TreeInv, ~Failures, NEW c \in Clients, NEW r \in Call, Goto(c, r),
         UNCHANGED <<store, mcache, ops, mode, history>>,
         client[c].pc \in {"fileGet", "noFile", "dirGot", "readDir", "queryFiles", "walk", "unwind"},
         r.hit \in Times \union {Absent}, r.op \in {"removeAll", "unwind", "remove"},
         \/ r.pc \in {"walk", "readDir"} /\ r.op = "removeAll" /\ (Orderly => Walks(r))
         \/ r.pc = "unwind" /\ r.op = "unwind" /\ (Orderly => Unwinds(r))
         \/ r.pc = "dirDelete" /\ Removing(r) /\ (r.op = "unwind" /\ Orderly => Unwinds(r))
  PROVE  TreeInv'
<1>1. Doing(r)
  BY DEF Doing, Stage, Looking
<1>2. Knows(r)
  BY <1>1, PlainKnows
<1>3. Orderly => WalkGoes(r)
  BY DEF WalkGoes, Removing
<1> QED
  BY <1>2, <1>3, GoesOn

LEMMA DirGotKeepsTree ==
  ASSUME FsInv, TreeInv, ~Failures, NEW c \in Clients, DirGot(c)
  PROVE  TreeInv'
<1> DEFINE q == client[c]
<1>1. /\ q \in Call /\ Knows(q) /\ InOrder(q) /\ q.pc = "dirGot" /\ q.cur \in Node
      /\ UNCHANGED <<store, mcache, ops, mode, history>>
      /\ q.hit \in Times \union {Absent} /\ Root \in Node
  BY OfClient, DsFsAssumption DEF DsFsAssumption, DirGot, At, Knows
<1>2. Visiting(q) /\ Handling(q) /\ Stage(q) = "dirGot" /\ Aim(q) = q.cur
  BY <1>1 DEF Visiting, Handling, Stage, Looking, Aim
<1>3. Orderly => WalkGoes(q) /\ (Unread(q) => dirs[q.cur] = Absent)
  <2>1. Orderly => q.hit = dirs[q.cur]
    BY <1>1, <1>2 DEF Knows, Answers, Returns, Right
  <2>2. Unread(q) => q.hit = Absent
    BY <1>1, DsFsAssumption DEF DsFsAssumption, Unread
  <2> QED
    BY <2>1, <2>2, OfClient
<1>4. /\ Walks(q) => ~AsFile(q.cur)
      /\ Unwinds(q) => ~AsFile(q.cur)
  BY <1>2 DEF Walks, MetOnce, Unwinds
<1>5. CASE Finish(c)
  BY <1>1, <1>5, EndsWell
<1>6. CASE \E t \in Times : Goto(c, SaveDir(q, IF q.hit = Blank THEN Root ELSE q.cur, t))
  <2>1. PICK t \in Times : Goto(c, SaveDir(q, IF q.hit = Blank THEN Root ELSE q.cur, t))
    BY <1>6
  <2>2. PICK p, r : p = (IF q.hit = Blank THEN Root ELSE q.cur) /\ r = SaveDir(q, p, t)
    OBVIOUS
  <2>3. r = [q EXCEPT !.op = "mkdir", !.pc = "dirPut", !.cur = p, !.time = t, !.hit = Absent]
    BY <2>2 DEF SaveDir
  <2>4. r.op = "mkdir" /\ r.pc = "dirPut" /\ r.hit = Absent
    BY <1>1, <2>3 DEF Call
  <2>5. Doing(r)
    BY <2>4 DEF Doing, Stage, Looking
  <2>6. Knows(r)
    BY <2>4, <2>5, PlainKnows
  <2>7. WalkGoes(r) /\ Goto(c, r)
    BY <2>1, <2>2, <2>4 DEF WalkGoes
  <2> QED
    BY <1>1, <2>6, <2>7, GoesOn
<1>7. ASSUME q.op = "removeAll", Unread(q), Goto(c, [q EXCEPT !.pc = "walk", !.hit = Absent])
      PROVE  TreeInv'
  <2>1. PICK r : r = [q EXCEPT !.pc = "walk", !.hit = Absent]
    OBVIOUS
  <2>2. r \in Call
    BY <1>1, <2>1 DEF Call, Pcs
  <2>3. /\ r.pc = "walk" /\ r.hit = Absent /\ r.op = q.op
        /\ r.taken = q.taken /\ r.todo = q.todo /\ r.arg = q.arg
    BY <1>1, <2>1 DEF Call
  <2>4. Orderly /\ Walks(q) => Walks(r)
    BY <1>1, <1>2, <1>3, <1>4, <1>7, <2>2, <2>3, PassesBy DEF Follows
  <2>5. Orderly => Walks(r)
    BY <1>3, <1>7, <2>4 DEF WalkGoes
  <2>6. Goto(c, r)
    BY <1>7, <2>1
  <2> QED
    BY <1>1, <1>7, <2>2, <2>3, <2>5, <2>6, PlainGoes
<1>8. ASSUME q.op = "removeAll",
             Goto(c, [q EXCEPT !.pc = "readDir", !.hit = Absent, !.taken = Append(@, q.cur)])
      PROVE  TreeInv'
  <2>1. PICK r : r = [q EXCEPT !.pc = "readDir", !.hit = Absent, !.taken = Append(q.taken, q.cur)]
    OBVIOUS
  <2>2. Append(q.taken, q.cur) \in Seq(Node)
    BY <1>1, AppendProperties DEF Call
  <2>3. r \in Call
    BY <1>1, <2>1, <2>2 DEF Call, Pcs
  <2>4. /\ r.pc = "readDir" /\ r.hit = Absent /\ r.op = q.op /\ r.cur = q.cur
        /\ r.taken = Append(q.taken, q.cur) /\ r.todo = q.todo /\ r.arg = q.arg
    BY <1>1, <2>1 DEF Call
  <2>5. Walks(q) => Walks(r)
    BY <1>1, <1>2, <1>4, <2>3, <2>4, Takes
  <2>6. Orderly => Walks(r)
    BY <1>3, <1>8, <2>5 DEF WalkGoes
  <2>7. Goto(c, r)
    BY <1>8, <2>1
  <2> QED
    BY <1>1, <1>8, <2>3, <2>4, <2>6, <2>7, PlainGoes
<1>9. ASSUME q.op = "unwind", Unread(q), Goto(c, [q EXCEPT !.pc = "unwind", !.hit = Absent])
      PROVE  TreeInv'
  <2>1. PICK r : r = [q EXCEPT !.pc = "unwind", !.hit = Absent]
    OBVIOUS
  <2>2. r \in Call
    BY <1>1, <2>1 DEF Call, Pcs
  <2>3. r.pc = "unwind" /\ r.hit = Absent /\ r.op = q.op /\ r.taken = q.taken
    BY <1>1, <2>1 DEF Call
  <2>4. Orderly /\ Unwinds(q) => Unwinds(r)
    BY <1>1, <1>3, <1>4, <1>9, <2>2, <2>3, HandledOne
  <2>5. Orderly => Unwinds(r)
    BY <1>3, <1>9, <2>4 DEF WalkGoes
  <2>6. Goto(c, r)
    BY <1>9, <2>1
  <2> QED
    BY <1>1, <1>9, <2>2, <2>3, <2>5, <2>6, PlainGoes
<1>10. ASSUME Removing(q), Goto(c, [q EXCEPT !.pc = "dirDelete"])
       PROVE  TreeInv'
  <2>1. PICK r : r = [q EXCEPT !.pc = "dirDelete"]
    OBVIOUS
  <2>2. r \in Call
    BY <1>1, <2>1 DEF Call, Pcs
  <2>3. /\ r.pc = "dirDelete" /\ r.hit = q.hit /\ r.op = q.op /\ r.cur = q.cur
        /\ r.taken = q.taken
    BY <1>1, <2>1 DEF Call
  <2>4. Handling(r) /\ Stage(r) = "dirDelete" /\ Removing(r)
    BY <1>10, <2>3 DEF Handling, Stage, Looking, Removing
  <2>5. Unwinds(q) => Unwinds(r)
    BY <1>1, <1>2, <1>4, <2>2, <2>3, <2>4, HandlesFurther
  <2>6. r.op = "unwind" /\ Orderly => Unwinds(r)
    BY <1>3, <2>3, <2>5 DEF WalkGoes
  <2>7. Goto(c, r) /\ r.op \in {"removeAll", "unwind", "remove"}
    BY <1>10, <2>1, <2>3 DEF Removing
  <2> QED
    BY <1>1, <2>2, <2>3, <2>4, <2>6, <2>7, PlainGoes
<1> QED
  BY <1>5, <1>6, <1>7, <1>8, <1>9, <1>10 DEF DirGot

LEMMA QueryDirsKeepsTree ==
  ASSUME FsInv, TreeInv, ~Failures, NEW c \in Clients, QueryDirs(c)
  PROVE  TreeInv'
<1> DEFINE q == client[c]
<1>1. /\ q \in Call /\ Knows(q) /\ q.pc = "readDir" /\ q.cur \in Node
      /\ UNCHANGED <<store, mcache, ops, mode, history>>
      /\ Orderly => WalkGoes(q)
  BY OfClient DEF QueryDirs, At
<1>2. q.op \in {"readDir", "removeAll"}
  BY <1>1 DEF Knows, Doing, Stage, Looking
<1>3. PICK P \in Found :
         Goto(c, Lookup([q EXCEPT !.kids = IF q.op = "readDir" THEN {} ELSE Children(P, q.cur)],
                        q.cur, "queryFiles"))
  BY DEF QueryDirs
<1>4. PICK kids : kids = IF q.op = "readDir" THEN {} ELSE Children(P, q.cur)
  OBVIOUS
<1>5. kids \in SUBSET Node
  BY <1>4 DEF Found, Present, Children
<1>6. PICK z, then, p, r : z = [q EXCEPT !.kids = kids] /\ then = "queryFiles" /\ p = q.cur
                           /\ r = Lookup(z, p, then)
  OBVIOUS
<1>7. z \in Call
  BY <1>1, <1>5, <1>6 DEF Call
<1>8. /\ z.kids = kids /\ z.op = q.op /\ z.arg = q.arg /\ z.cur = q.cur
      /\ z.todo = q.todo /\ z.taken = q.taken
  BY <1>1, <1>6 DEF Call
<1>9. p = Asked(then, z.cur) /\ then \in Answers /\ p \in Node /\ z.op \in {"readDir", "removeAll"}
  BY <1>1, <1>2, <1>6, <1>8 DEF Asked, Answers, Returns
<1>10. Asks(r, z, then)
  BY <1>6, <1>7, <1>9, LookupKnows
<1>11. /\ r \in Call /\ Knows(r) /\ r.kids = kids /\ r.op = q.op /\ r.cur = q.cur
       /\ Follows(r, q) /\ Stage(r) = "queryFiles"
  BY <1>6, <1>8, <1>10 DEF Asks, Follows
<1>12. Orderly /\ q.op = "removeAll" => Walks(r)
  <2>1. Orderly => P = Present
    BY DEF Found
  <2>2. Orderly /\ q.op = "removeAll" => Walks(q) /\ kids = Children(Present, q.cur)
    BY <1>1, <1>4, <2>1 DEF WalkGoes
  <2> QED
    BY <1>1, <1>11, <2>2, SeesDirs
<1>13. Orderly => WalkGoes(r)
  BY <1>2, <1>11, <1>12 DEF WalkGoes
<1>14. Goto(c, r)
  BY <1>3, <1>4, <1>6
<1> QED
  BY <1>1, <1>11, <1>13, <1>14, GoesOn

LEMMA QueryFilesKeepsTree ==
  ASSUME FsInv, TreeInv, ~Failures, NEW c \in Clients, QueryFiles(c)
  PROVE  TreeInv'
<1> DEFINE q == client[c]
<1>1. /\ q \in Call /\ Knows(q) /\ q.pc = "queryFiles" /\ q.cur \in Node
      /\ UNCHANGED <<store, mcache, ops, mode, history>>
      /\ Orderly => WalkGoes(q)
      /\ q.hit \in Times \union {Absent}
  BY OfClient DEF QueryFiles, At, Knows
<1>2. Reading(q) /\ Stage(q) = "queryFiles" /\ Aim(q) = q.cur
  BY <1>1 DEF Reading, Stage, Looking, Aim
<1>3. Orderly => (Unread(q) <=> dirs[q.cur] = Absent)
  <2>1. Orderly => q.hit = dirs[q.cur]
    BY <1>1, <1>2 DEF Knows, Answers, Returns, Right
  <2>2. Unread(q) <=> q.hit = Absent
    BY <1>1, DsFsAssumption DEF DsFsAssumption, Unread
  <2> QED
    BY <2>1, <2>2
<1>4. CASE Finish(c)
  BY <1>1, <1>4, EndsWell
<1>5. CASE ~Finish(c)
  <2>1. PICK found, todo :
           /\ found = SetToSeq(q.kids) \o SetToSeq(Children(files, q.cur))
           /\ todo = IF Unread(q) THEN q.todo ELSE found \o q.todo
    OBVIOUS
  <2>2. q.op = "removeAll"
    BY <1>5 DEF QueryFiles
  <2>3. PICK r : r = [q EXCEPT !.pc = "walk", !.kids = {}, !.hit = Absent, !.todo = todo]
    OBVIOUS
  <2>4. Goto(c, r)
    BY <1>5, <2>1, <2>3 DEF QueryFiles
  <2>5. r \in Call
    <3>1. q.kids \in SUBSET Node /\ Children(files, q.cur) \in SUBSET Node
      BY <1>1 DEF Call, Children, FsInv, TypeInv, TypeOK
    <3>2. SetToSeq(q.kids) \in Seq(Node) /\ SetToSeq(Children(files, q.cur)) \in Seq(Node)
      BY <3>1, SetToSeqGives
    <3>3. found \in Seq(Node)
      BY <2>1, <3>2, ConcatProperties
    <3>4. todo \in Seq(Node)
      BY <1>1, <2>1, <3>3, ConcatProperties DEF Call
    <3> QED
      BY <1>1, <2>3, <3>4 DEF Call, Pcs
  <2>6. /\ r.pc = "walk" /\ r.hit = Absent /\ r.op = q.op
        /\ r.taken = q.taken /\ r.todo = todo /\ r.arg = q.arg
    BY <1>1, <2>3 DEF Call
  <2>7. Orderly => Walks(q)
    BY <1>1, <2>2 DEF WalkGoes
  <2>8. ASSUME Orderly, Unread(q) PROVE Walks(r)
    <3>1. Follows(r, q)
      BY <2>1, <2>6, <2>8 DEF Follows
    <3> QED
      BY <1>1, <1>2, <1>3, <2>5, <2>6, <2>7, <2>8, <3>1, SeesNothing
  <2>9. ASSUME Orderly, ~Unread(q) PROVE Walks(r)
    <3>1. r.todo = (SetToSeq(q.kids) \o SetToSeq(Children(files, q.cur))) \o q.todo
      BY <2>1, <2>6, <2>9
    <3> QED
      BY <1>1, <1>2, <1>3, <2>5, <2>6, <2>7, <2>9, <3>1, SeesFiles
  <2> QED
    BY <1>1, <2>2, <2>4, <2>5, <2>6, <2>8, <2>9, PlainGoes
<1> QED
  BY <1>4, <1>5

LEMMA WalkKeepsTree ==
  ASSUME FsInv, TreeInv, ~Failures, NEW c \in Clients, Walk(c)
  PROVE  TreeInv'
<1> DEFINE q == client[c]
<1>1. /\ q \in Call /\ InOrder(q) /\ Knows(q) /\ q.pc = "walk" /\ q.op = "removeAll"
      /\ UNCHANGED <<store, mcache, ops, mode, history>>
      /\ Orderly => Walks(q)
      /\ q.hit \in Times \union {Absent} /\ q.ret = "idle"
  BY OfClient DEF Walk, At, Knows, Doing, WalkGoes, InOrder
<1>2. CASE q.todo # <<>> /\ Goto(c, FileByPath([q EXCEPT !.todo = Tail(@)], Head(q.todo)))
  <2>1. PICK z, p, r : /\ z = [q EXCEPT !.todo = Tail(q.todo)] /\ p = Head(q.todo)
                       /\ r = FileByPath(z, p)
    OBVIOUS
  <2>2. p \in Node /\ Tail(q.todo) \in Seq(Node)
    BY <1>1, <1>2, <2>1, HeadTailProperties DEF Call
  <2>3. z \in Call
    BY <1>1, <2>1, <2>2 DEF Call
  <2>4. /\ z.ret = "idle" /\ z.op = q.op /\ z.arg = q.arg /\ z.taken = q.taken
        /\ z.todo = Tail(q.todo)
    BY <1>1, <2>1 DEF Call
  <2>5. /\ r \in Call /\ Knows(r) /\ Stage(r) \in {"fileGet", "noFile"} /\ r.cur = p
        /\ r.op = z.op /\ r.arg = z.arg /\ r.kids = z.kids /\ r.todo = z.todo /\ r.taken = z.taken
    <3>1. Visits(r, z, p)
      BY <2>1, <2>2, <2>3, <2>4, FileByPathKnows
    <3> QED
      BY <3>1 DEF Visits
  <2>6. Orderly => Walks(r)
    BY <1>1, <1>2, <2>1, <2>4, <2>5, NextUp
  <2>7. Orderly => WalkGoes(r)
    BY <1>1, <2>4, <2>5, <2>6 DEF WalkGoes
  <2>8. Goto(c, r)
    BY <1>2, <2>1
  <2> QED
    BY <1>1, <2>5, <2>7, <2>8, GoesOn
<1>3. CASE q.todo = <<>> /\ Goto(c, [q EXCEPT !.op = "unwind", !.pc = "unwind"])
  <2>1. PICK r : r = [q EXCEPT !.op = "unwind", !.pc = "unwind"]
    OBVIOUS
  <2>2. r \in Call
    BY <1>1, <2>1 DEF Call, Pcs
  <2>3. r.pc = "unwind" /\ r.op = "unwind" /\ r.hit = q.hit /\ r.taken = q.taken
    BY <1>1, <2>1 DEF Call
  <2>4. Orderly => Unwinds(r)
    BY <1>1, <1>3, <2>2, <2>3, TurnsBack
  <2>5. Goto(c, r)
    BY <1>3, <2>1
  <2> QED
    BY <1>1, <2>2, <2>3, <2>4, <2>5, PlainGoes
<1> QED
  BY <1>2, <1>3 DEF Walk

LEMMA UnwindKeepsTree ==
  ASSUME FsInv, TreeInv, ~Failures, NEW c \in Clients, Unwind(c)
  PROVE  TreeInv'
<1> DEFINE q == client[c]
<1>1. /\ q \in Call /\ InOrder(q) /\ Knows(q) /\ q.pc = "unwind" /\ q.op = "unwind"
      /\ UNCHANGED <<store, mcache, ops, mode, history>>
      /\ Orderly => Unwinds(q)
      /\ q.ret = "idle"
  BY OfClient DEF Unwind, At, Knows, Doing, WalkGoes, InOrder
<1>2. CASE q.taken # <<>> /\ Goto(c, FileByPath([q EXCEPT !.taken = Front(@)], Last(q.taken)))
  <2>1. PICK z, p, r : /\ z = [q EXCEPT !.taken = Front(q.taken)] /\ p = Last(q.taken)
                       /\ r = FileByPath(z, p)
    OBVIOUS
  <2>2. p \in Node /\ Front(q.taken) \in Seq(Node)
    <3>1. q.taken \in Seq(Node) /\ Len(q.taken) \in Nat \ {0}
      BY <1>1, <1>2, EmptySeq DEF Call
    <3>2. \A i \in 1 .. Len(q.taken) : q.taken[i] \in Node
      BY <3>1, ElementOfSeq
    <3>3. SubSeq(q.taken, 1, Len(q.taken) - 1) \in Seq(Node)
      BY <3>1, <3>2, SubSeqProperties
    <3> QED
      BY <2>1, <3>1, <3>2, <3>3 DEF Front, Last
  <2>3. z \in Call
    BY <1>1, <2>1, <2>2 DEF Call
  <2>4. z.ret = "idle" /\ z.op = q.op /\ z.taken = Front(q.taken)
    BY <1>1, <2>1 DEF Call
  <2>5. /\ r \in Call /\ Knows(r) /\ Stage(r) \in {"fileGet", "noFile"} /\ r.cur = p
        /\ r.op = z.op /\ r.arg = z.arg /\ r.kids = z.kids /\ r.todo = z.todo /\ r.taken = z.taken
    <3>1. Visits(r, z, p)
      BY <2>1, <2>2, <2>3, <2>4, FileByPathKnows
    <3> QED
      BY <3>1 DEF Visits
  <2>6. Orderly => Unwinds(r)
    BY <1>1, <1>2, <2>1, <2>4, <2>5, TakesBack
  <2>7. Orderly => WalkGoes(r)
    BY <1>1, <2>4, <2>5, <2>6 DEF WalkGoes
  <2>8. Goto(c, r)
    BY <1>2, <2>1
  <2> QED
    BY <1>1, <2>5, <2>7, <2>8, GoesOn
<1>3. CASE Finish(c)
  BY <1>1, <1>3, EndsWell
<1> QED
  BY <1>2, <1>3 DEF Unwind

LEMMA ParentSeenKeepsTree ==
  ASSUME FsInv, TreeInv, ~Failures, NEW c \in Clients, ParentSeen(c)
  PROVE  TreeInv'
<1> DEFINE q == client[c]
<1>1. /\ q \in Call /\ Knows(q) /\ q.pc = "parentSeen" /\ Parent[q.cur] \in Node
      /\ UNCHANGED <<dirs, files, cut, mode, mcache, raced>> /\ q.ret = "idle"
  BY OfClient DEF ParentSeen, At, InOrder, store, history
<1>2. \A p : Climbs(q, p) => p = Parent[q.cur]
  BY <1>1 DEF Climbs
<1>3. ~At(c, "idle") /\ ~At(c, "mcacheDelete")
  BY <1>1 DEF At
<1>4. ASSUME NEW t \in Times, Goto(c, SaveDir(q, Parent[q.cur], t)) PROVE TreeInv'
  <2>1. PICK r, p : p = Parent[q.cur] /\ r = SaveDir(q, p, t)
    OBVIOUS
  <2>2. r = [q EXCEPT !.op = "mkdir", !.pc = "dirPut", !.cur = p, !.time = t, !.hit = Absent]
    BY <2>1 DEF SaveDir
  <2>3. r.op = "mkdir" /\ r.pc = "dirPut" /\ r.hit = Absent /\ r.cur = p
    BY <1>1, <2>2 DEF Call
  <2>4. Doing(r)
    BY <2>3 DEF Doing, Stage, Looking
  <2>5. Knows(r)
    BY <2>3, <2>4, PlainKnows
  <2>6. WalkGoes(r) /\ client' = [client EXCEPT ![c] = r]
    BY <1>4, <2>1, <2>3 DEF WalkGoes, Goto
  <2>7. \A n \in Node : Climbs(q, n) => Sure(n) \/ Climbs(r, n)
    BY <1>2, <2>1, <2>3 DEF Climbs
  <2> QED
    BY <1>1, <1>3, <2>5, <2>6, <2>7, TreeReads
<1>5. CASE q.hit # Absent /\ Finish(c)
  <2>1. Aim(q) = Parent[q.cur]
    BY <1>1 DEF Aim, Stage, Looking
  <2>2. Sure(Parent[q.cur])
    BY <1>1, <1>5, <2>1 DEF Knows, Answers, Returns, Right
  <2>3. \A n \in Node : Climbs(q, n) => Sure(n) \/ Climbs(Idle, n)
    BY <1>2, <2>2
  <2>4. client' = [client EXCEPT ![c] = Idle]
    BY <1>5 DEF Finish, Goto
  <2> QED
    BY <1>1, <1>3, <2>3, <2>4, IdleKnows, IdleGoes, TreeReads
<1> QED
  BY <1>4, <1>5 DEF ParentSeen

\* What an operation begins with.
LEMMA RequestKnows ==
  ASSUME NEW op \in Operations, NEW p \in Node, NEW r \in Request(op, p)
  PROVE  Knows(r) /\ WalkGoes(r)
<1>1. PICK i : i = [Idle EXCEPT !.op = op, !.cur = p]
  OBVIOUS
<1>2. Idle \in Call
  BY IdleInOrder DEF Harmless, InOrder
<1>3. i \in Call
  BY <1>1, <1>2 DEF Call
<1>4. /\ i.op = op /\ i.cur = p /\ i.pc = "idle" /\ i.ret = "idle" /\ i.hit = Absent
      /\ i.taken = <<>>
  BY <1>1 DEF Idle
<1>5. Parent[p] \in Node
  BY DsFsAssumption DEF DsFsAssumption
<1>6. CASE op \in {"stat", "chtimes", "remove"}
  <2>1. r = FileByPath(i, p)
    BY <1>1, <1>6 DEF Request
  <2>2. Visits(r, i, p)
    BY <1>3, <1>4, <2>1, FileByPathKnows
  <2> QED
    BY <1>4, <1>6, <2>2 DEF Visits, WalkGoes
<1>7. CASE op = "readDir"
  <2>1. r = [i EXCEPT !.pc = "readDir"]
    BY <1>1, <1>7 DEF Request
  <2>2. r.pc = "readDir" /\ r.op = "readDir" /\ r.hit = Absent
    BY <1>3, <1>4, <1>7, <2>1 DEF Call
  <2>3. Doing(r) /\ WalkGoes(r)
    BY <2>2 DEF Doing, WalkGoes, Stage, Looking
  <2> QED
    BY <2>2, <2>3, PlainKnows
<1>8. CASE op = "mkdir"
  <2>1. PICK t \in Times : r = SaveDir(i, p, t)
    BY <1>1, <1>8 DEF Request
  <2>2. r = [i EXCEPT !.op = "mkdir", !.pc = "dirPut", !.cur = p, !.time = t, !.hit = Absent]
    BY <2>1 DEF SaveDir
  <2>3. r.pc = "dirPut" /\ r.op = "mkdir" /\ r.hit = Absent
    BY <1>3, <2>2 DEF Call
  <2>4. Doing(r) /\ WalkGoes(r)
    BY <2>3 DEF Doing, WalkGoes, Stage, Looking
  <2> QED
    BY <2>3, <2>4, PlainKnows
<1>9. CASE op = "writeFile"
  <2>1. r = Lookup(i, Parent[p], "filePut")
    BY <1>1, <1>9 DEF Request
  <2>2. PICK then, d : then = "filePut" /\ d = Parent[p]
    OBVIOUS
  <2>3. d = Asked(then, i.cur) /\ then \in Answers /\ then # "queryFiles" /\ d \in Node
    BY <1>4, <1>5, <2>2 DEF Asked, Answers, Returns
  <2>4. Asks(r, i, then)
    BY <1>3, <2>1, <2>2, <2>3, LookupKnows
  <2> QED
    BY <1>4, <1>9, <2>4 DEF Asks, WalkGoes
<1>10. CASE op = "removeAll"
  <2>1. r = [i EXCEPT !.pc = "walk", !.arg = p, !.todo = <<p>>]
    BY <1>1, <1>10 DEF Request
  <2>2. <<p>> \in Seq(Node)
    OBVIOUS
  <2>3. r \in Call
    BY <1>3, <2>1, <2>2 DEF Call, Pcs
  <2>4. /\ r.pc = "walk" /\ r.op = "removeAll" /\ r.hit = Absent
        /\ r.arg = p /\ r.todo = <<p>> /\ r.taken = <<>>
    BY <1>3, <1>4, <1>10, <2>1 DEF Call
  <2>5. Walks(r)
    BY <2>3, <2>4, SetsOut
  <2>6. Doing(r) /\ WalkGoes(r)
    BY <2>4, <2>5 DEF Doing, WalkGoes, Stage, Looking
  <2> QED
    BY <2>4, <2>6, PlainKnows
<1>11. CASE op = "deleteAll"
  <2>1. r = [i EXCEPT !.pc = "deleteFiles"]
    BY <1>1, <1>11 DEF Request
  <2>2. r.pc = "deleteFiles" /\ r.op = "deleteAll" /\ r.hit = Absent
    BY <1>3, <1>4, <1>11, <2>1 DEF Call
  <2>3. Doing(r) /\ WalkGoes(r)
    BY <2>2 DEF Doing, WalkGoes, Stage, Looking
  <2> QED
    BY <2>2, <2>3, PlainKnows
<1> QED
  BY <1>6, <1>7, <1>8, <1>9, <1>10, <1>11 DEF Operations

LEMMA BeginKeepsTree ==
  ASSUME FsInv, TreeInv, ~Failures, NEW c \in Clients, Begin(c)
  PROVE  TreeInv'
<1>1. PICK op \in Operations, p \in Node : \E r \in Request(op, p) : Goto(c, r)
  BY DEF Begin
<1>2. PICK r \in Request(op, p) : Goto(c, r)
  BY <1>1
<1>3. Knows(r) /\ WalkGoes(r)
  BY RequestKnows
<1>4. UNCHANGED <<dirs, files, cut, mode, mcache, raced>> /\ client' = [client EXCEPT ![c] = r]
  BY <1>2 DEF Begin, Goto, store, history
<1>5. Orderly => OthersIdle(c)
  BY DEF Begin, Orderly, Overlap, OthersIdle
<1>6. ~At(c, "mcacheDelete") /\ \A n \in Node : ~Climbs(client[c], n)
  BY DEF Begin, At, Climbs
<1> QED
  BY <1>3, <1>4, <1>5, <1>6, TreeReads

-----------------------------------------------------------------------------
(* The steps that write.                                                   *)

\* A client alone spoils no copy.
LEMMA NoRace ==
  ASSUME TreeInv, ~Failures, Orderly, NEW c \in Clients, ~At(c, "idle")
  PROVE  /\ raced = {} /\ OthersIdle(c)
         /\ \A P : RacedBy(c, P) => raced' = {}
<1>1. raced = {} /\ OthersIdle(c)
  BY AloneThen DEF TreeInv, Alone
<1>2. \A d \in Clients \ {c}, p \in Node : ~PendingFill(d, p)
  BY <1>1 DEF OthersIdle, PendingFill, At
<1>3. \A d \in Clients \ {c} : \A p : ~PendingFill(d, p)
  BY <1>1 DEF OthersIdle, PendingFill, At
<1> QED
  BY <1>1, <1>3 DEF RacedBy

\* Nothing loses its parent.
LEMMA RootedStill ==
  ASSUME FsInv, Rooted, NEW c \in Clients, NEW r, client' = [client EXCEPT ![c] = r],
         dirs' \in [Node -> Times \union {Absent}], files' \subseteq Node,
         \A p \in Node : Climbs(client[c], p) => Sure(p)' \/ Climbs(r, p),
         \A p \in Node \ {Root} : Live(p)' /\ ~Live(p) => Sure(Parent[p])' \/ Climbs(r, Parent[p]),
         \A p \in Node \ {Root} : Live(p)' /\ Live(p) /\ Sure(Parent[p]) => Sure(Parent[p])'
  PROVE  Rooted'
<1>1. client'[c] = r /\ \A b \in Clients \ {c} : client'[b] = client[b]
  BY DEF FsInv, TypeInv, TypeOK
<1> SUFFICES ASSUME NEW p \in (Present' \union files') \ {Root}, ~Sure(Parent[p])'
             PROVE  \E b \in Clients : Climbing(b, Parent[p])'
  BY DEF Rooted
<1>2. p \in Node \ {Root} /\ Live(p)' /\ Parent[p] \in Node
  BY DsFsAssumption DEF DsFsAssumption, Present, Live
<1>3. ASSUME Climbs(r, Parent[p]) PROVE Climbing(c, Parent[p])'
  BY <1>1, <1>3 DEF Climbing, Climbs, At
<1>4. CASE ~Live(p)
  BY <1>2, <1>3, <1>4
<1>5. CASE Live(p)
  <2>1. ~Sure(Parent[p])
    BY <1>2, <1>5
  <2>2. PICK b \in Clients : Climbing(b, Parent[p])
    BY <1>2, <1>5, <2>1 DEF Rooted, Live
  <2>3. CASE b = c
    <3>1. Climbs(client[c], Parent[p])
      BY <2>2, <2>3 DEF Climbing, Climbs, At
    <3> QED
      BY <1>2, <1>3, <3>1
  <2>4. CASE b # c
    <3>1. Climbing(b, Parent[p])'
      BY <1>1, <2>2, <2>4 DEF Climbing, At
    <3> QED
      BY <3>1
  <2> QED
    BY <2>3, <2>4
<1> QED
  BY <1>4, <1>5

LEMMA DirPutKeepsTree ==
  ASSUME FsInv, TreeInv, ~Failures, NEW c \in Clients, DirPut(c)
  PROVE  TreeInv'
<1> DEFINE q == client[c]
<1>1. /\ q \in Call /\ Knows(q) /\ InOrder(q) /\ q.pc = "dirPut" /\ q.cur \in Node
      /\ q.time \in Times /\ q.op = "mkdir" /\ q.ret = "idle"
  BY OfClient DEF DirPut, At, InOrder, Knows, Doing
<1>2. PICK r, x : r = [q EXCEPT !.pc = "dirMcacheSet"] /\ x = q.cur
  OBVIOUS
<1>3. /\ r.pc = "dirMcacheSet" /\ r.op = "mkdir" /\ r.hit = q.hit /\ r.cur = q.cur
  BY <1>1, <1>2 DEF Call
<1>4. /\ dirs' = [dirs EXCEPT ![q.cur] = q.time] /\ cut' = cut \ {q.cur} /\ RacedBy(c, {q.cur})
      /\ client' = [client EXCEPT ![c] = r] /\ UNCHANGED <<files, mcache, mode>>
  BY <1>2 DEF DirPut, Goto
<1>5. dirs'[q.cur] # Absent /\ \A p \in Node \ {q.cur} : dirs'[p] = dirs[p]
  BY <1>1, <1>4, DsFsAssumption DEF DsFsAssumption, FsInv, TypeInv, TypeOK
<1>6. dirs' \in [Node -> Times \union {Absent}] /\ files' \subseteq Node
  BY <1>1, <1>4 DEF FsInv, TypeInv, TypeOK
<1>7. \A p \in Node : Sure(p) => Sure(p)'
  BY <1>4, <1>5 DEF Sure
<1>8. Sure(x)' /\ x = r.cur
  BY <1>2, <1>3, <1>5 DEF Sure
<1>9. Rooted'
  <2>1. \A p \in Node : Climbs(q, p) => Sure(p)' \/ Climbs(r, p)
    BY <1>1, <1>2, <1>8 DEF Climbs
  <2>2. \A p \in Node \ {Root} : Live(p)' /\ ~Live(p) => p = q.cur
    BY <1>4, <1>5 DEF Live, Present
  <2>3. \A p \in Node \ {Root} : Live(p)' /\ ~Live(p) => Sure(Parent[p])' \/ Climbs(r, Parent[p])
    BY <1>3, <2>2 DEF Climbs
  <2>4. \A p \in Node \ {Root} : Live(p)' /\ Live(p) /\ Sure(Parent[p]) => Sure(Parent[p])'
    <3>1. \A p \in Node : Parent[p] \in Node
      BY DsFsAssumption DEF DsFsAssumption
    <3> QED
      BY <1>7, <3>1
  <2>5. Rooted
    BY DEF TreeInv
  <2> QED
    BY <1>4, <1>6, <2>1, <2>3, <2>4, <2>5, RootedStill
<1>10. Knows(r)'
  <2>1. /\ r.hit \in Times \union {Absent} /\ ~Looking(r) /\ Stage(r) = "dirMcacheSet"
        /\ Sure(r.cur)'
    BY <1>1, <1>3, <1>8 DEF Knows, Looking, Stage
  <2> QED
    BY <1>3, <2>1 DEF Knows, Doing, Removing, Looking, Stage, Answers, Returns, Right, Sure
<1>11. Orderly => OthersIdle(c) /\ raced' = {} /\ WalkGoes(r)'
  <2>1. WalkGoes(r)'
    BY <1>3 DEF WalkGoes
  <2> QED
    BY <1>1, <1>4, <2>1, NoRace DEF At
<1>12. \A p \in Node : mcache'[p] # Absent =>
           Sure(p)' \/ (mcache[p] # Absent /\ ~(At(c, "mcacheDelete") /\ client[c].cur = p))
  BY <1>1, <1>4 DEF At
<1> QED
  BY <1>4, <1>7, <1>9, <1>10, <1>11, <1>12, TreeStep

\* A step of an operation that writes neither memcache nor a directory on its way up.
LEMMA TreeWrites ==
  ASSUME FsInv, TreeInv, ~Failures, NEW c \in Clients, NEW r, client' = [client EXCEPT ![c] = r],
         UNCHANGED <<mcache, mode>>, Knows(r)',
         dirs' \in [Node -> Times \union {Absent}], files' \subseteq Node,
         client[c].pc \in {"filePut", "fileDelete", "dirDelete", "deleteFiles", "deleteDirs"},
         Orderly => raced' = {} /\ WalkGoes(r)',
         \A p \in Node : Sure(p) => Sure(p)' \/ (Orderly /\ r.pc = "mcacheDelete" /\ r.cur = p),
         \A p \in Node \ {Root} : Live(p)' /\ ~Live(p) => Sure(Parent[p])',
         \A p \in Node \ {Root} : Live(p)' /\ Live(p) /\ Sure(Parent[p]) => Sure(Parent[p])'
  PROVE  TreeInv'
<1>1. client[c].ret = "idle"
  BY DEF FsInv, TypeInv, InOrder
<1>2. \A p \in Node : Climbs(client[c], p) => Sure(p)' \/ Climbs(r, p)
  BY <1>1 DEF Climbs
<1>3. ~At(c, "idle") /\ ~At(c, "mcacheDelete")
  BY DEF At
<1>4. \A p \in Node \ {Root} : Live(p)' /\ ~Live(p) => Sure(Parent[p])' \/ Climbs(r, Parent[p])
  OBVIOUS
<1>5. Rooted
  BY DEF TreeInv
<1>6. Rooted'
  BY <1>2, <1>4, <1>5, RootedStill
<1>7. Orderly => OthersIdle(c) /\ raced' = {} /\ WalkGoes(r)'
  BY <1>3, NoRace
<1>8. \A p \in Node : mcache'[p] # Absent =>
          Sure(p)' \/ (mcache[p] # Absent /\ ~(At(c, "mcacheDelete") /\ client[c].cur = p))
  BY <1>3
<1> QED
  BY <1>6, <1>7, <1>8, TreeStep

LEMMA FilePutKeepsTree ==
  ASSUME FsInv, TreeInv, ~Failures, NEW c \in Clients, FilePut(c)
  PROVE  TreeInv'
<1> DEFINE q == client[c]
<1>1. /\ q \in Call /\ Knows(q) /\ InOrder(q) /\ q.pc = "filePut" /\ q.cur \in Node
      /\ UNCHANGED <<dirs, cut, mcache, mode, raced>>
      /\ q.hit \in Times \union {Absent}
  BY OfClient DEF FilePut, At, Knows, history
<1>2. files' = (IF Unread(q) THEN files ELSE files \union {q.cur})
      /\ client' = [client EXCEPT ![c] = Idle]
  BY DEF FilePut, Finish, Goto
<1>3. PICK r : r = Idle
  OBVIOUS
<1>4. Knows(r)' /\ WalkGoes(r)'
  <2>1. r.pc = "idle" /\ r.op = "none" /\ r.hit = Absent /\ r = Idle
    BY <1>3 DEF Idle
  <2> QED
    BY <2>1 DEF Knows, Doing, WalkGoes, Looking, Stage, Answers, Returns
<1>5. ~Unread(q) => Sure(Parent[q.cur])
  <2>1. Aim(q) = Parent[q.cur]
    BY <1>1 DEF Aim, Stage, Looking
  <2> QED
    BY <1>1, <2>1 DEF Knows, Answers, Returns, Right, Unread
<1>6. \A p : Sure(p)' = Sure(p)
  BY <1>1 DEF Sure
<1>7. \A p \in Node \ {Root} : Live(p)' /\ ~Live(p) => Sure(Parent[p])'
  <2>1. \A p \in Node \ {Root} : Live(p)' /\ ~Live(p) => p = q.cur /\ ~Unread(q)
    BY <1>1, <1>2 DEF Live, Present
  <2> QED
    BY <1>5, <1>6, <2>1
<1>8. /\ dirs' \in [Node -> Times \union {Absent}] /\ files' \subseteq Node
      /\ Orderly => raced' = {}
  BY <1>1, <1>2 DEF FsInv, TypeInv, TypeOK, TreeInv, Alone
<1> QED
  BY <1>1, <1>2, <1>3, <1>4, <1>6, <1>7, <1>8, TreeWrites

\* Remove has taken the file; the directory of that name was cut off, if there is one.
LEMMA FileGone ==
  ASSUME NEW r \in Call, NEW s \in Call, Unwinds(r), r.pc = "fileDelete",
         s.taken = r.taken, s.cur = r.cur, Stage(s) = "dirGot",
         files' = files \ {r.cur}, dirs' = dirs,
         cut' = IF dirs[r.cur] # Absent THEN cut \union {r.cur} ELSE cut
  PROVE  Unwinds(s)'
<1>1. Handling(r) /\ Handling(s) /\ Visiting(s)
  BY DEF Handling, Visiting, Stage, Looking
<1>2. \A i, q : Later(s, i, q) = Later(r, i, q)
  BY DEF Later
<1>3. \A p \in Node : ChildrenOf(p)' \subseteq ChildrenOf(p)
  BY DEF ChildrenOf, Live, Present
<1>4. \A p \in Node : dirs'[p] # Absent /\ p \notin cut' /\ ~AsFile(p)' =>
          p # r.cur /\ dirs[p] # Absent /\ p \notin cut /\ ~AsFile(p)
  BY DEF AsFile
<1>5. \A i \in DOMAIN s.taken : s.taken[i] \in Node
  BY DEF Call
<1>6. InTurn(s)'
  BY DEF Unwinds, InTurn
<1>7. ASSUME NEW i \in DOMAIN s.taken, NEW p, p = s.taken[i],
             dirs'[p] # Absent /\ p \notin cut' /\ ~AsFile(p)', NEW q \in ChildrenOf(p)'
      PROVE  Later(s, i, q) \/ q = s.cur
  <2>1. p \in Node /\ q \in ChildrenOf(p)
    BY <1>3, <1>5, <1>7
  <2>2. dirs[p] # Absent /\ p \notin cut /\ ~AsFile(p)
    BY <1>4, <1>7, <2>1
  <2> QED
    BY <1>1, <1>2, <1>7, <2>1, <2>2 DEF Unwinds
<1>8. /\ \A i \in DOMAIN s.taken : Parent[s.taken[i]] # s.cur
      /\ ~(dirs'[s.cur] # Absent /\ s.cur \notin cut') /\ ~AsFile(s.cur)'
  BY <1>1 DEF Unwinds, AsFile
<1>9. \A i, q : Later(s, i, q)' = Later(s, i, q)
  BY DEF Later
<1>10. ASSUME NEW i \in DOMAIN s.taken, dirs'[s.taken[i]] # Absent, s.taken[i] \notin cut',
              ~AsFile(s.taken[i])', NEW q \in ChildrenOf(s.taken[i])'
       PROVE  Later(s, i, q)' \/ q = s.cur
  BY <1>7, <1>9, <1>10
<1> QED
  BY <1>1, <1>6, <1>8, <1>10 DEF Unwinds, Handling, Visiting, Stage, Looking

\* Remove has taken the directory, with nothing left below it.
LEMMA DirGone ==
  ASSUME FsInv, NEW r \in Call, NEW s \in Call, Unwinds(r), r.pc = "dirDelete",
         s.taken = r.taken, s.cur = r.cur, s.pc = "mcacheDelete",
         dirs' = [dirs EXCEPT ![r.cur] = Absent], UNCHANGED <<files, cut>>
  PROVE  Unwinds(s)'
<1>1. Handling(r) /\ Handling(s) /\ Stage(s) = "mcacheDelete" /\ Stage(r) = "dirDelete"
  BY DEF Handling, Visiting, Stage, Looking
<1>2. r.cur \in Node /\ dirs'[r.cur] = Absent /\ \A p \in Node \ {r.cur} : dirs'[p] = dirs[p]
  BY DEF Call, FsInv, TypeInv, TypeOK
<1>3. \A i, q : Later(s, i, q)' = Later(r, i, q)
  BY DEF Later
<1>4. \A p \in Node : ChildrenOf(p)' \subseteq ChildrenOf(p)
  BY <1>2 DEF ChildrenOf, Live, Present
<1>5. \A p \in Node : Parent[p] \in Node
  BY DsFsAssumption DEF DsFsAssumption
<1>6. \A i \in DOMAIN s.taken : s.taken[i] \in Node /\ Parent[s.taken[i]] # s.cur
  BY <1>1 DEF Unwinds, Call
<1>7. \A p \in Node : Parent[p] # r.cur => AsFile(p)' = AsFile(p)
  BY <1>2, <1>5 DEF AsFile
<1>8. InTurn(s)'
  BY DEF Unwinds, InTurn
<1>9. ASSUME NEW i \in DOMAIN s.taken, dirs'[s.taken[i]] # Absent, s.taken[i] \notin cut',
             ~AsFile(s.taken[i])', NEW q \in ChildrenOf(s.taken[i])'
      PROVE  Later(s, i, q)' \/ q = s.cur
  <2>1. PICK p : p = s.taken[i]
    OBVIOUS
  <2>2. p \in Node /\ Parent[p] # r.cur /\ p # r.cur /\ dirs[p] # Absent /\ p \notin cut
    BY <1>2, <1>6, <1>9, <2>1
  <2>3. ~AsFile(p)
    BY <1>7, <1>9, <2>1, <2>2
  <2>4. q \in ChildrenOf(p)
    BY <1>4, <1>9, <2>1, <2>2
  <2>5. Later(r, i, q) \/ q = r.cur
    BY <2>1, <2>2, <2>3, <2>4 DEF Unwinds
  <2> QED
    BY <1>3, <2>5
<1>10. dirs'[s.cur] = Absent /\ ~AsFile(s.cur)'
  <2>1. ~AsFile(r.cur)
    BY <1>1 DEF Unwinds
  <2>2. dirs'[Parent[r.cur]] # Absent => dirs[Parent[r.cur]] # Absent
    BY <1>2, <1>5
  <2> QED
    BY <1>2, <2>1, <2>2 DEF AsFile
<1> QED
  BY <1>1, <1>6, <1>8, <1>9, <1>10 DEF Unwinds, Handling, Visiting, Stage, Looking

LEMMA FileDeleteKeepsTree ==
  ASSUME FsInv, TreeInv, ~Failures, NEW c \in Clients, FileDelete(c)
  PROVE  TreeInv'
<1> DEFINE q == client[c]
<1>1. /\ q \in Call /\ Knows(q) /\ q.pc = "fileDelete" /\ q.cur \in Node /\ Removing(q)
      /\ UNCHANGED <<dirs, mcache, mode, raced>> /\ files' = files \ {q.cur}
      /\ cut' = IF q.op = "unwind" /\ dirs[q.cur] # Absent THEN cut \union {q.cur} ELSE cut
      /\ Orderly => WalkGoes(q)
  BY OfClient DEF FileDelete, At, Knows, Doing
<1>2. PICK r, then, p : then = "dirGot" /\ p = q.cur /\ r = Lookup(q, p, then)
  OBVIOUS
<1>3. p = Asked(then, q.cur) /\ then \in Answers /\ then # "queryFiles" /\ p \in Node
  BY <1>1, <1>2 DEF Asked, Answers, Returns
<1>4. Asks(r, q, then)
  BY <1>1, <1>2, <1>3, LookupKnows
<1>5. /\ r \in Call /\ Knows(r) /\ Stage(r) = "dirGot" /\ r.op = q.op /\ r.cur = q.cur
      /\ r.taken = q.taken
  BY <1>2, <1>4 DEF Asks
<1>6. r.pc = "mcacheGet" /\ r.ret = "dirGot" /\ r.look = q.cur /\ r.hit = Absent
  BY <1>1, <1>2 DEF Lookup, Call
<1>7. Knows(r)'
  BY <1>5, <1>6 DEF Knows, Doing, Removing, Looking, Stage, Aim, Answers, Returns
<1>8. Orderly => raced' = {} /\ WalkGoes(r)'
  <2>1. Orderly /\ q.op = "unwind" => Unwinds(r)'
    <3>1. Orderly /\ q.op = "unwind" => Unwinds(q)
      BY <1>1 DEF WalkGoes
    <3>2. q.op = "unwind" => cut' = IF dirs[q.cur] # Absent THEN cut \union {q.cur} ELSE cut
      BY <1>1
    <3> QED
      BY <1>1, <1>5, <3>1, <3>2, FileGone
  <2>2. Orderly => WalkGoes(r)'
    BY <1>1, <1>5, <2>1 DEF WalkGoes, Removing
  <2> QED
    BY <1>1, <2>2 DEF TreeInv, Alone
<1>9. \A n \in Node : Sure(n) => Sure(n)'
  BY <1>1 DEF Sure
<1>10. \A n \in Node : Live(n)' => Live(n)
  BY <1>1 DEF Live, Present
<1>11. \A n \in Node : Parent[n] \in Node
  BY DsFsAssumption DEF DsFsAssumption
<1>12. /\ dirs' \in [Node -> Times \union {Absent}] /\ files' \subseteq Node
       /\ client' = [client EXCEPT ![c] = r]
  BY <1>1, <1>2 DEF FsInv, TypeInv, TypeOK, FileDelete, Goto
<1> QED
  BY <1>1, <1>7, <1>8, <1>9, <1>10, <1>11, <1>12, TreeWrites

LEMMA DirDeleteKeepsTree ==
  ASSUME FsInv, TreeInv, ~Failures, NEW c \in Clients, DirDelete(c)
  PROVE  TreeInv'
<1> DEFINE q == client[c]
<1>1. /\ q \in Call /\ Knows(q) /\ q.pc = "dirDelete" /\ q.cur \in Node /\ Removing(q)
      /\ UNCHANGED <<files, mcache, mode>> /\ RacedBy(c, {q.cur})
      /\ dirs' = [dirs EXCEPT ![q.cur] = Absent]
      /\ cut' = IF q.op = "unwind" /\ Orderly THEN cut ELSE cut \union {q.cur}
      /\ Orderly => WalkGoes(q)
      /\ q.hit \in Times \union {Absent}
  BY OfClient DEF DirDelete, At, Knows, Doing
<1>2. PICK r : r = [q EXCEPT !.pc = "mcacheDelete"]
  OBVIOUS
<1>3. r \in Call
  BY <1>1, <1>2 DEF Call, Pcs
<1>4. /\ r.pc = "mcacheDelete" /\ r.op = q.op /\ r.cur = q.cur /\ r.hit = q.hit
      /\ r.taken = q.taken
  BY <1>1, <1>2 DEF Call
<1>5. client' = [client EXCEPT ![c] = r]
  BY <1>2 DEF DirDelete, Goto
<1>6. dirs'[q.cur] = Absent /\ \A n \in Node \ {q.cur} : dirs'[n] = dirs[n]
  BY <1>1 DEF FsInv, TypeInv, TypeOK
<1>7. Knows(r)'
  BY <1>1, <1>4 DEF Knows, Doing, Removing, Looking, Stage, Answers, Returns
<1>8. Orderly => raced' = {} /\ WalkGoes(r)'
  <2>1. Orderly => raced' = {}
    BY <1>1, NoRace DEF At
  <2>2. Orderly /\ q.op = "unwind" => Unwinds(r)'
    <3>1. Orderly /\ q.op = "unwind" => Unwinds(q) /\ UNCHANGED <<files, cut>>
      BY <1>1 DEF WalkGoes
    <3> QED
      BY <1>1, <1>3, <1>4, <3>1, DirGone
  <2>3. Orderly => WalkGoes(r)'
    BY <1>1, <1>4, <2>2 DEF WalkGoes, Removing
  <2> QED
    BY <2>1, <2>3
<1>9. \A n \in Node : Sure(n) => Sure(n)' \/ (Orderly /\ r.pc = "mcacheDelete" /\ r.cur = n)
  BY <1>1, <1>4, <1>6 DEF Sure
<1>10. \A n \in Node : Live(n)' => Live(n)
  BY <1>1, <1>6 DEF Live, Present
<1>11. \A n \in Node \ {Root} : Live(n)' /\ Live(n) /\ Sure(Parent[n]) => Sure(Parent[n])'
  <2> SUFFICES ASSUME NEW n \in Node \ {Root}, Live(n), Sure(Parent[n]) PROVE Sure(Parent[n])'
    OBVIOUS
  <2>1. Parent[n] \in Node
    BY DsFsAssumption DEF DsFsAssumption
  <2>2. CASE Parent[n] # q.cur \/ ~(q.op = "unwind" /\ Orderly)
    BY <1>1, <1>6, <2>1, <2>2 DEF Sure
  <2>3. CASE Parent[n] = q.cur /\ q.op = "unwind" /\ Orderly
    <3>1. Unwinds(q) /\ Stage(q) = "dirDelete" /\ Handling(q)
      BY <1>1, <2>3 DEF WalkGoes, Stage, Looking, Handling
    <3>2. n \in ChildrenOf(q.cur)
      BY <2>3 DEF ChildrenOf
    <3>3. dirs[q.cur] = Absent \/ q.cur \in cut
      BY <3>1, <3>2 DEF Unwinds
    <3>4. q.cur \in cut /\ cut' = cut
      BY <1>1, <2>3, <3>3 DEF Sure
    <3> QED
      BY <2>3, <3>4 DEF Sure
  <2> QED
    BY <2>2, <2>3
<1>12. dirs' \in [Node -> Times \union {Absent}] /\ files' \subseteq Node
  BY <1>1 DEF FsInv, TypeInv, TypeOK
<1> QED
  BY <1>1, <1>5, <1>7, <1>8, <1>9, <1>10, <1>11, <1>12, TreeWrites

LEMMA DeleteFilesKeepsTree ==
  ASSUME FsInv, TreeInv, ~Failures, NEW c \in Clients, DeleteFiles(c)
  PROVE  TreeInv'
<1> DEFINE q == client[c]
<1>1. /\ q \in Call /\ Knows(q) /\ q.pc = "deleteFiles" /\ q.op = "deleteAll"
      /\ UNCHANGED <<dirs, cut, mcache, mode, raced>> /\ files' \subseteq files
      /\ q.hit \in Times \union {Absent}
  BY OfClient DEF DeleteFiles, At, Knows, Doing, history
<1>2. PICK r : r = [q EXCEPT !.pc = "deleteDirs"]
  OBVIOUS
<1>3. r.pc = "deleteDirs" /\ r.op = "deleteAll" /\ r.hit = q.hit
  BY <1>1, <1>2 DEF Call
<1>4. client' = [client EXCEPT ![c] = r]
  BY <1>2 DEF DeleteFiles, Goto
<1>5. Knows(r)' /\ WalkGoes(r)'
  BY <1>1, <1>3 DEF Knows, Doing, WalkGoes, Looking, Stage, Answers, Returns
<1>6. \A n \in Node : Sure(n)' = Sure(n)
  BY <1>1 DEF Sure
<1>7. \A n \in Node : Live(n)' => Live(n)
  BY <1>1 DEF Live, Present
<1>8. \A n \in Node : Parent[n] \in Node
  BY DsFsAssumption DEF DsFsAssumption
<1>9. /\ dirs' \in [Node -> Times \union {Absent}] /\ files' \subseteq Node
      /\ Orderly => raced' = {}
  BY <1>1 DEF FsInv, TypeInv, TypeOK, TreeInv, Alone
<1> QED
  BY <1>1, <1>4, <1>5, <1>6, <1>7, <1>8, <1>9, TreeWrites

LEMMA DeleteDirsKeepsTree ==
  ASSUME FsInv, TreeInv, ~Failures, NEW c \in Clients, DeleteDirs(c)
  PROVE  TreeInv'
<1> DEFINE q == client[c]
<1>1. /\ q \in Call /\ Knows(q) /\ q.pc = "deleteDirs" /\ q.op = "deleteAll"
      /\ UNCHANGED <<files, mcache, mode>> /\ q.hit \in Times \union {Absent}
  BY OfClient DEF DeleteDirs, At, Knows, Doing
<1>2. PICK r : r = [q EXCEPT !.pc = "flush"]
  OBVIOUS
<1>3. r.pc = "flush" /\ r.op = "deleteAll" /\ r.hit = q.hit
  BY <1>1, <1>2 DEF Call
<1>4. client' = [client EXCEPT ![c] = r]
  BY <1>2 DEF DeleteDirs, Goto
<1>5. PICK P \in Found : \E S \in Deletable(P) :
         /\ dirs' = [p \in Node |-> IF p \in S THEN Absent ELSE dirs[p]]
         /\ cut' = cut \union S
         /\ RacedBy(c, S)
  BY DEF DeleteDirs
<1>6. PICK S \in Deletable(P) :
         /\ dirs' = [p \in Node |-> IF p \in S THEN Absent ELSE dirs[p]]
         /\ cut' = cut \union S
         /\ RacedBy(c, S)
  BY <1>5
<1>7. Knows(r)' /\ WalkGoes(r)'
  BY <1>1, <1>3 DEF Knows, Doing, WalkGoes, Looking, Stage, Answers, Returns
<1>8. \A n \in Node : Sure(n) => Sure(n)'
  BY <1>6 DEF Sure
<1>9. \A n \in Node : Live(n)' => Live(n)
  BY <1>1, <1>6 DEF Live, Present
<1>10. \A n \in Node : Parent[n] \in Node
  BY DsFsAssumption DEF DsFsAssumption
<1>11. dirs' \in [Node -> Times \union {Absent}] /\ files' \subseteq Node
  BY <1>1, <1>6 DEF FsInv, TypeInv, TypeOK
<1>12. Orderly => raced' = {}
  BY <1>1, <1>6, NoRace DEF At
<1> QED
  BY <1>1, <1>4, <1>7, <1>8, <1>9, <1>10, <1>11, <1>12, TreeWrites

LEMMA DirMcacheSetKeepsTree ==
  ASSUME FsInv, TreeInv, ~Failures, NEW c \in Clients, DirMcacheSet(c)
  PROVE  TreeInv'
<1> DEFINE q == client[c]
<1>1. /\ q \in Call /\ Knows(q) /\ InOrder(q) /\ q.pc = "dirMcacheSet" /\ q.op = "mkdir"
      /\ q.cur \in Node /\ Parent[q.cur] \in Node /\ q.ret = "idle" /\ Sure(q.cur)
      /\ UNCHANGED <<dirs, files, cut, mode, raced>>
      /\ mcache' = [mcache EXCEPT ![q.cur] = q.time]
  BY OfClient DEF DirMcacheSet, At, Knows, Doing, InOrder, store
<1>2. PICK z, then, p, r : /\ z = [q EXCEPT !.time = Absent] /\ then = "parentSeen"
                           /\ p = Parent[q.cur] /\ r = Lookup(z, p, then)
  OBVIOUS
<1>3. z \in Call /\ z.cur = q.cur /\ z.op = q.op
  BY <1>1, <1>2 DEF Call
<1>4. p = Asked(then, z.cur) /\ then \in Answers /\ then # "queryFiles" /\ p \in Node
  BY <1>1, <1>2, <1>3 DEF Asked, Answers, Returns
<1>5. Asks(r, z, then)
  BY <1>2, <1>3, <1>4, LookupKnows
<1>6. Knows(r) /\ WalkGoes(r) /\ r.cur = q.cur
  BY <1>1, <1>3, <1>5 DEF Asks, WalkGoes
<1>7. r.pc = "mcacheGet" /\ r.ret = "parentSeen"
  BY <1>2, <1>3 DEF Lookup, Call
<1>8. \A n \in Node : Climbs(q, n) => Sure(n) \/ Climbs(r, n)
  BY <1>1, <1>6, <1>7 DEF Climbs
<1>9. Orderly => OthersIdle(c) /\ raced' = {} /\ WalkGoes(r)
  BY <1>1, <1>6, NoRace DEF At
<1>10. \A n \in Node : mcache'[n] # Absent => Sure(n) \/ mcache'[n] = mcache[n]
  BY <1>1 DEF FsInv, TypeInv, TypeOK
<1>11. client' = [client EXCEPT ![c] = r] /\ ~At(c, "mcacheDelete")
  BY <1>1, <1>2 DEF DirMcacheSet, Goto, At
<1> QED
  BY <1>1, <1>6, <1>8, <1>9, <1>10, <1>11, TreeRests

LEMMA McacheDeleteKeepsTree ==
  ASSUME FsInv, TreeInv, ~Failures, NEW c \in Clients, McacheDelete(c)
  PROVE  TreeInv'
<1> DEFINE q == client[c]
<1>1. /\ q \in Call /\ Knows(q) /\ InOrder(q) /\ q.pc = "mcacheDelete" /\ q.cur \in Node
      /\ q.ret = "idle" /\ q.hit # Blank
      /\ UNCHANGED <<dirs, files, cut, mode>>
      /\ Orderly => WalkGoes(q)
  BY OfClient, DsFsAssumption DEF DsFsAssumption, McacheDelete, At, Knows, InOrder, store
<1>2. mcache' = [mcache EXCEPT ![q.cur] = Absent] /\ UNCHANGED raced
  BY <1>1 DEF McacheDelete
<1>3. /\ mcache'[q.cur] = Absent
      /\ \A n \in Node : mcache'[n] # Absent => Sure(n) \/ mcache'[n] = mcache[n]
  BY <1>1, <1>2 DEF FsInv, TypeInv, TypeOK
<1>4. \A n \in Node : ~Climbs(q, n)
  BY <1>1 DEF Climbs
<1>5. Orderly => OthersIdle(c) /\ raced' = {}
  BY <1>1, <1>2, NoRace DEF At
<1>6. CASE Finish(c)
  <2>1. client' = [client EXCEPT ![c] = Idle]
    BY <1>6 DEF Finish, Goto
  <2>2. Orderly => OthersIdle(c) /\ raced' = {} /\ WalkGoes(Idle)
    BY <1>5, IdleGoes
  <2> QED
    BY <1>1, <1>3, <1>4, <2>1, <2>2, IdleKnows, TreeRests
<1>7. CASE q.op = "unwind" /\ Goto(c, [q EXCEPT !.pc = "unwind", !.hit = Absent])
  <2>1. PICK r : r = [q EXCEPT !.pc = "unwind", !.hit = Absent]
    OBVIOUS
  <2>2. r \in Call
    BY <1>1, <2>1 DEF Call, Pcs
  <2>3. r.pc = "unwind" /\ r.hit = Absent /\ r.op = q.op /\ r.taken = q.taken
    BY <1>1, <2>1 DEF Call
  <2>4. Unwinds(q) => dirs[q.cur] = Absent /\ ~AsFile(q.cur)
    BY <1>1 DEF Unwinds, Handling, Stage, Looking
  <2>5. Unwinds(q) => Unwinds(r)
    BY <1>1, <2>2, <2>3, <2>4, HandledOne
  <2>6. Orderly => WalkGoes(r)
    BY <1>1, <1>7, <2>3, <2>5 DEF WalkGoes
  <2>7. Doing(r)
    BY <1>7, <2>3 DEF Doing, Stage, Looking
  <2>8. Knows(r)
    BY <2>3, <2>7, PlainKnows
  <2>9. client' = [client EXCEPT ![c] = r] /\ (Orderly => OthersIdle(c) /\ raced' = {} /\ WalkGoes(r))
    BY <1>5, <1>7, <2>1, <2>6 DEF Goto
  <2> QED
    BY <1>1, <1>3, <1>4, <2>8, <2>9, TreeRests
<1> QED
  BY <1>6, <1>7 DEF McacheDelete

LEMMA FlushKeepsTree ==
  ASSUME FsInv, TreeInv, ~Failures, NEW c \in Clients, Flush(c)
  PROVE  TreeInv'
<1>1. /\ client' = [client EXCEPT ![c] = Idle] /\ UNCHANGED <<dirs, files, cut, mode, raced>>
      /\ client[c].pc = "flush" /\ InOrder(client[c])
  BY OfClient DEF Flush, Finish, Goto, At, store, history
<1>2. \A n \in Node : mcache'[n] = Absent
  BY DEF Flush
<1>3. \A n \in Node : ~Climbs(client[c], n)
  BY <1>1 DEF Climbs, InOrder
<1>4. Orderly => OthersIdle(c) /\ raced' = {} /\ WalkGoes(Idle)
  BY <1>1, NoRace, IdleGoes DEF At
<1>5. ~At(c, "mcacheDelete") /\ \A n \in Node : mcache'[n] # Absent => Sure(n) \/ mcache'[n] = mcache[n]
  BY <1>1, <1>2 DEF At
<1> QED
  BY <1>1, <1>3, <1>4, <1>5, IdleKnows, TreeRests

\* Memcache loses copies, or nothing happens.
LEMMA LossKeepsTree ==
  ASSUME TreeInv, UNCHANGED <<dirs, files, client, cut, mode, raced>>,
         \A p \in Node : mcache'[p] \in {Absent, mcache[p]}
  PROVE  TreeInv'
<1>1. \A b \in Clients : Knows(client[b]) => Knows(client[b])'
  BY DEF Knows, Right, Sure, Orderly, Looking, Stage, Aim, Doing, Removing
<1>2. CacheKnows => CacheKnows'
  BY DEF CacheKnows, Sure, Orderly, At
<1>3. Rooted => Rooted'
  BY DEF Rooted, Sure, Climbing, At, Present
<1>4. \A b \in Clients : Walks(client[b]) => Walks(client[b])'
  BY DEF Walks, InTurn, Connected, MetOnce, ReadsLast, AsFile, ChildrenOf, Live, Present,
     Visiting, Reading, Ahead, Later, Stage, Looking, Children
<1>5. \A b \in Clients : Unwinds(client[b]) => Unwinds(client[b])'
  BY DEF Unwinds, InTurn, AsFile, ChildrenOf, Live, Present, Handling, Visiting, Later, Stage, Looking
<1>6. Alone => Alone'
  BY <1>4, <1>5 DEF Alone, At
<1> QED
  BY <1>1, <1>2, <1>3, <1>6 DEF TreeInv, Failures, Orderly

LEMMA TreeInvInit == Init => TreeInv
<1> SUFFICES ASSUME Init PROVE TreeInv
  OBVIOUS
<1>1. PICK P \in SUBSET Node, F \in SUBSET (Node \ {Root}), t \in Times :
         /\ \A p \in P : Parent[p] \in P
         /\ \A f \in F : Parent[f] \in P
         /\ files = F
         /\ dirs = [p \in Node |-> IF p \in P THEN t ELSE Absent]
  BY DEF Init
<1>2. t # Absent
  BY DsFsAssumption DEF DsFsAssumption
<1>3. \A c \in Clients : client[c] = Idle
  BY DEF Init
<1>4. \A c \in Clients : Knows(client[c])
  BY <1>3, IdleKnows
<1>5. Rooted
  <2>1. \A p \in Present \union files : Parent[p] \in Node /\ dirs[Parent[p]] = t
    BY <1>1, <1>2, DsFsAssumption DEF DsFsAssumption, Present
  <2> QED
    BY <1>2, <2>1 DEF Rooted, Sure
<1>6. CacheKnows
  <2>1. PICK M \in SUBSET Present : mcache = [p \in Node |-> IF p \in M THEN dirs[p] ELSE Absent]
    BY DEF Init
  <2> QED
    BY <2>1 DEF CacheKnows, Sure
<1>7. Alone
  BY <1>3 DEF Alone, At, Init, Idle
<1> QED
  BY <1>4, <1>5, <1>6, <1>7 DEF TreeInv

LEMMA TreeInvStep == FsInv /\ TreeInv /\ [Next]_vars => TreeInv'
<1> SUFFICES ASSUME FsInv, TreeInv, [Next]_vars PROVE TreeInv'
  OBVIOUS
<1>1. mode' = mode
  BY DEF Next, Step, vars, Begin, Stop, McacheGet, DatastoreGet, McacheSet, DirPut, DirMcacheSet,
     ParentSeen, FileFound, FileMissing, DirGot, FilePut, QueryDirs, QueryFiles, Walk, Unwind,
     FileDelete, DirDelete, McacheDelete, DeleteFiles, DeleteDirs, Flush, Evict
<1>2. CASE Failures
  BY <1>1, <1>2 DEF TreeInv, Failures
<1>3. CASE ~Failures
  <2>1. ASSUME NEW c \in Clients, Step(c) PROVE TreeInv'
    <3>1. ~Stop(c)
      BY <1>3 DEF Stop
    <3> QED
      BY <1>3, <2>1, <3>1, BeginKeepsTree, LookupKeepsTree, DirPutKeepsTree, DirMcacheSetKeepsTree,
         ParentSeenKeepsTree, FileFoundKeepsTree, FileMissingKeepsTree, DirGotKeepsTree,
         FilePutKeepsTree, QueryDirsKeepsTree, QueryFilesKeepsTree, WalkKeepsTree, UnwindKeepsTree,
         FileDeleteKeepsTree, DirDeleteKeepsTree, McacheDeleteKeepsTree, DeleteFilesKeepsTree,
         DeleteDirsKeepsTree, FlushKeepsTree DEF Step
  <2>2. ASSUME NEW p \in Node, Evict(p) PROVE TreeInv'
    <3>1. /\ mcache' = [mcache EXCEPT ![p] = Absent]
          /\ UNCHANGED <<dirs, files, client, cut, mode, raced>>
      BY <2>2 DEF Evict, store, history
    <3>2. \A n \in Node : mcache'[n] \in {Absent, mcache[n]}
      BY <3>1 DEF FsInv, TypeInv, TypeOK
    <3> QED
      BY <3>1, <3>2, LossKeepsTree
  <2>3. CASE UNCHANGED vars
    <3>1. UNCHANGED <<dirs, files, client, cut, mode, raced, mcache>>
      BY <2>3 DEF vars, store, history
    <3> QED
      BY <3>1, LossKeepsTree
  <2> QED
    BY <2>1, <2>2, <2>3 DEF Next
<1> QED
  BY <1>2, <1>3

\* As long as nothing fails, no directory and no file is left without its parent,
\* but for a Mkdir on its way up, and below a directory that was removed without a
\* look, or against one: whatever clients do at once; and with a client alone,
\* RemoveAll keeps to it at each of its steps.
THEOREM NoneVirtual == Spec => []NoVirtualDirs
<1>1. FsInv /\ TreeInv => NoVirtualDirs
  BY DEF TreeInv, Rooted, Sure, NoVirtualDirs
<1>2. Init => FsInv /\ TreeInv
  BY FsInvInit, TreeInvInit
<1>3. FsInv /\ TreeInv /\ [Next]_vars => (FsInv /\ TreeInv)'
  BY FsInvStep, TreeInvStep
<1> QED
  BY <1>1, <1>2, <1>3, PTL DEF Spec

-----------------------------------------------------------------------------
(***************************************************************************)
(* RemoveAll leaves nothing.  Its argument is ahead of the walk until it   *)
(* is taken, and taken until it is removed or turns out to be gone; and    *)
(* when it is gone, so is what hung below it, for no node that is left has *)
(* lost its parent.                                                        *)
(***************************************************************************)
Removal(r) == r.op \in {"removeAll", "unwind"}
There == {"walk", "fileGet", "noFile", "dirGot", "readDir", "queryFiles"}
Back == {"unwind", "fileGet", "noFile", "dirGot", "fileDelete", "dirDelete", "mcacheDelete"}

\* The argument is still to be looked at, or to be removed.
Held(r) ==
    \/ r.arg \in InSeq(r.taken)
    \/ r.op = "removeAll" /\ r.arg \in Ahead(r)
    \/ r.op = "unwind" /\ Handling(r) /\ r.cur = r.arg

CutOff(p) == Ancestors[p] \cap cut # {}
Gone(p) == ~Live(p) \/ CutOff(p)

Met(r) ==
    /\ r.op = "removeAll" => Stage(r) \in There
    /\ r.op = "unwind" => Stage(r) \in Back
    /\ Removal(r) => Gone(r.arg) \/ Held(r)
MetInv == Orderly => \A c \in Clients : Met(client[c])

\* A node is its own ancestor; the other ones are those of its parent.
LEMMA AncestorsOfParent ==
  ASSUME NEW p \in Node
  PROVE  /\ Parent[p] \in Node /\ p \in Ancestors[p] /\ Parent[p] \in Ancestors[p]
         /\ Ancestors[Parent[p]] \subseteq Ancestors[p]
         /\ \A a \in Ancestors[p] : a = p \/ a \in Ancestors[Parent[p]]
<1> DEFINE Upward == {S \in SUBSET Node : \A n \in S : Parent[n] \in S}
           Over(n) == {a \in Node : \A S \in Upward : n \in S => a \in S}
<1>1. Ancestors = [n \in Node |-> Over(n)]
  BY DEF Ancestors
<1>2. Parent[p] \in Node
  BY DsFsAssumption DEF DsFsAssumption
<1>3. Ancestors[p] = Over(p) /\ Ancestors[Parent[p]] = Over(Parent[p])
  BY <1>1, <1>2
<1>4. p \in Over(p) /\ Parent[p] \in Over(p) /\ Over(Parent[p]) \subseteq Over(p)
  BY <1>2
<1>5. ASSUME NEW a \in Over(p), a # p, NEW S \in Upward, Parent[p] \in S
      PROVE  a \in S
  <2>1. S \union {p} \in Upward
    BY <1>5
  <2>2. a \in S \union {p}
    BY <1>5, <2>1
  <2> QED
    BY <1>5, <2>2
<1>6. \A a \in Over(p) : a = p \/ a \in Over(Parent[p])
  BY <1>5
<1> QED
  BY <1>2, <1>3, <1>4, <1>6

\* Nodes only go, and those that were cut off stay so.
LEMMA GoneStays ==
  ASSUME NEW p \in Node, Live(p)' => Live(p), cut \subseteq cut', Gone(p)
  PROVE  Gone(p)'
BY DEF Gone, CutOff, Ancestors

\* While RemoveAll runs alone nobody climbs.
LEMMA NobodyClimbs ==
  ASSUME FsInv, TreeInv, ~Failures, Orderly, NEW c \in Clients, Removal(client[c]), Met(client[c])
  PROVE  /\ ~At(c, "idle")
         /\ \A b \in Clients, p \in Node : ~Climbing(b, p)
<1>1. client[c].pc # "idle"
  BY OfClient DEF Removal, Knows, Idle
<1>2. OthersIdle(c)
  BY <1>1, NoRace DEF At
<1>3. ASSUME NEW p \in Node PROVE ~Climbing(c, p)
  BY OfClient DEF Climbing, At, Met, Removal, There, Back, Stage, Looking, InOrder
<1> QED
  BY <1>1, <1>2, <1>3 DEF OthersIdle, At, Climbing

\* What was found neither as a file nor as a directory is gone.
LEMMA GoneIfAbsent ==
  ASSUME FsInv, TreeInv, ~Failures, NEW p \in Node, dirs[p] = Absent, ~AsFile(p),
         \A b \in Clients, n \in Node : ~Climbing(b, n)
  PROVE  Gone(p)
<1> SUFFICES ASSUME p \in files PROVE CutOff(p)
  BY DEF Gone, Live, Present
<1>1. p # Root /\ dirs[Parent[p]] = Absent
  BY DEF FsInv, TypeInv, TypeOK, AsFile
<1>2. Parent[p] \in Ancestors[p] /\ Parent[p] \in Node
  BY AncestorsOfParent
<1>3. Parent[p] \in cut
  BY <1>1, <1>2 DEF TreeInv, Rooted, Sure
<1> QED
  BY <1>2, <1>3 DEF CutOff

\* Below a node that is gone there is nothing but what was cut off.
LEMMA NothingBelow ==
  ASSUME FsInv, TreeInv, ~Failures, NEW a \in Node, Gone(a),
         \A b \in Clients, n \in Node : ~Climbing(b, n), NEW p \in Below(a)
  PROVE  Gone(p)
<1> DEFINE Left == {q \in Below(a) : ~Gone(q)}
<1>1. Below(a) \subseteq Node
  BY DEF Below
<1>2. ASSUME NEW q \in Left PROVE Parent[q] \in Left
  <2>1. q \in Node /\ a \in Ancestors[q] /\ Live(q) /\ ~CutOff(q) /\ ~Gone(q)
    BY DEF Below, Gone
  <2>2. q # a
    BY <2>1
  <2>3. Parent[q] \in Node /\ a \in Ancestors[Parent[q]] /\ Parent[q] \in Ancestors[q]
        /\ Ancestors[Parent[q]] \subseteq Ancestors[q]
    BY <2>1, <2>2, AncestorsOfParent
  <2>4. q # Root
    <3>1. ASSUME q = Root PROVE a \in {Root}
      <4>1. {Root} \in SUBSET Node /\ \A n \in {Root} : Parent[n] \in {Root}
        BY DsFsAssumption DEF DsFsAssumption
      <4> QED
        BY <2>1, <3>1, <4>1 DEF Ancestors
    <3> QED
      BY <2>2, <3>1
  <2>5. ~CutOff(Parent[q]) /\ Parent[q] \notin cut
    BY <2>1, <2>3 DEF CutOff
  <2>6. dirs[Parent[q]] # Absent
    BY <2>1, <2>3, <2>4, <2>5 DEF TreeInv, Rooted, Sure, Live
  <2>7. Parent[q] \in Left
    BY <2>3, <2>5, <2>6 DEF Below, Gone, Live, Present
  <2> QED
    BY <2>7
<1>3. Left \in SUBSET Node /\ \A q \in Left : Parent[q] \in Left
  BY <1>1, <1>2
<1>4. p \in Left => a \in Left
  <2>1. a \in Ancestors[p] /\ p \in Node
    BY DEF Below
  <2> QED
    BY <1>3, <2>1 DEF Ancestors
<1> QED
  BY <1>4

-----------------------------------------------------------------------------
(* Steps of a removal: q is the client before, s after.                    *)

LEMMA MetOn ==
  ASSUME NEW q, NEW s, Met(q), Removal(q), s.arg = q.arg, Gone(q.arg) => Gone(q.arg)',
         s.op = "removeAll" => Stage(s) \in There,
         s.op = "unwind" => Stage(s) \in Back,
         Removal(s) /\ Held(q) => Held(s) \/ Gone(q.arg)'
  PROVE  Met(s)'
BY DEF Met, Held, Removal, There, Back, Stage, Looking, Ahead, Visiting, Handling

\* The client stays at its node, or, where it reads, leaves it to what it took.
LEMMA MetStays ==
  ASSUME NEW q, NEW s, Met(q), Removal(q), Follows(s, q), s.op = q.op, s.cur = q.cur,
         Gone(q.arg) => Gone(q.arg)',
         \/ Stage(s) = Stage(q)
         \/ q.op = "unwind" /\ Handling(s) /\ Stage(s) \in Back
         \/ q.op = "removeAll" /\ Visiting(s)
         \/ q.op = "removeAll" /\ ~Visiting(q) /\ Stage(s) \in There
  PROVE  Met(s)'
<1>1. s.op = "removeAll" => Stage(s) \in There
  BY DEF Met, Visiting, There
<1>2. s.op = "unwind" => Stage(s) \in Back
  BY DEF Met
<1>3. Held(q) => Held(s)
  BY DEF Held, Ahead, Handling, Visiting, Follows
<1> QED
  BY <1>1, <1>2, <1>3, MetOn DEF Follows

\* The client leaves its node, which is gone.
LEMMA MetLeaves ==
  ASSUME NEW q, NEW s, Met(q), Removal(q), Follows(s, q), s.op = q.op,
         s.pc = IF q.op = "unwind" THEN "unwind" ELSE "walk",
         Gone(q.arg) => Gone(q.arg)', Gone(q.cur)'
  PROVE  Met(s)'
<1>1. Stage(s) = s.pc
  BY DEF Stage, Looking
<1>2. /\ s.op = "removeAll" => Stage(s) \in There
      /\ s.op = "unwind" => Stage(s) \in Back
  BY <1>1 DEF There, Back
<1>3. ASSUME Held(q), q.cur # q.arg PROVE Held(s)
  BY <1>3 DEF Held, Ahead, Follows
<1>4. q.cur = q.arg => Gone(q.arg)'
  OBVIOUS
<1> QED
  BY <1>2, <1>3, <1>4, MetOn DEF Follows

\* One step of the removal: what a client does that is at q.
Proceeds(c) ==
    \E s \in Call :
        /\ client' = [client EXCEPT ![c] = s] /\ Met(s)'
        /\ client[c].op = "unwind" /\ s.op # "unwind" => At(c, "unwind") /\ client[c].taken = <<>>

LEMMA Proceeding ==
  ASSUME FsInv, FsInv', NEW c \in Clients, NEW s, Goto(c, s), Met(s)',
         client[c].op = "unwind" /\ s.op # "unwind" => At(c, "unwind") /\ client[c].taken = <<>>
  PROVE  Proceeds(c)
<1>1. client' = [client EXCEPT ![c] = s] /\ s = client'[c]
  BY DEF Goto, FsInv, TypeInv, TypeOK
<1>2. s \in Call
  BY <1>1 DEF FsInv, TypeInv, TypeOK
<1> QED
  BY <1>1, <1>2 DEF Proceeds

\* Where nothing is written, what is gone is gone.
LEMMA GoneUnlessWritten ==
  ASSUME NEW p, UNCHANGED <<dirs, files, cut>>
  PROVE  Gone(p)' = Gone(p)
BY DEF Gone, Live, Present, CutOff, Ancestors

LEMMA LookupProceeds ==
  ASSUME FsInv, FsInv', TreeInv, ~Failures, NEW c \in Clients, NEW q, q = client[c], Met(q),
         McacheGet(c) \/ DatastoreGet(c) \/ McacheSet(c)
  PROVE  Proceeds(c)
<1>1. /\ q \in Call /\ InOrder(q) /\ Knows(q) /\ q.pc \in {"mcacheGet", "datastoreGet", "mcacheSet"}
      /\ UNCHANGED <<dirs, files, cut>>
  BY OfClient DEF McacheGet, DatastoreGet, McacheSet, At, store, history
<1>2. q.ret \in Answers /\ Stage(q) = q.ret
  BY <1>1 DEF Knows, Looking, Stage
<1>3. Gone(q.arg)' = Gone(q.arg)
  BY <1>1, GoneUnlessWritten
<1>4. ASSUME NEW s, Goto(c, s), Follows(s, q), s.op = q.op, s.cur = q.cur, Stage(s) = Stage(q)
      PROVE  Proceeds(c)
  <2>1. CASE Removal(q)
    <3>1. Met(s)'
      BY <1>3, <1>4, <2>1, MetStays
    <3> QED
      BY <1>4, <3>1, Proceeding
  <2>2. CASE ~Removal(q)
    <3>1. Met(s)'
      BY <1>4, <2>2 DEF Met, Removal
    <3> QED
      BY <1>4, <3>1, Proceeding
  <2> QED
    BY <2>1, <2>2
<1>5. ASSUME NEW hit, Return(c, hit) PROVE Proceeds(c)
  <2>1. PICK s : s = [q EXCEPT !.pc = q.ret, !.hit = hit, !.look = Root, !.ret = "idle"]
    OBVIOUS
  <2>2. Goto(c, s)
    BY <1>5, <2>1 DEF Return, Goto
  <2>3. /\ s.pc = q.ret /\ s.op = q.op /\ s.cur = q.cur
        /\ s.taken = q.taken /\ s.todo = q.todo /\ s.arg = q.arg
    BY <1>1, <2>1 DEF Call
  <2>4. Stage(s) = q.ret
    BY <1>2, <2>3 DEF Stage, Looking, Answers, Returns
  <2> QED
    BY <1>2, <1>4, <2>2, <2>3, <2>4 DEF Follows
<1>6. ASSUME Goto(c, [q EXCEPT !.pc = "datastoreGet"]) PROVE Proceeds(c)
  <2>1. PICK s : s = [q EXCEPT !.pc = "datastoreGet"]
    OBVIOUS
  <2>2. /\ s.pc = "datastoreGet" /\ s.op = q.op /\ s.cur = q.cur /\ s.ret = q.ret
        /\ s.taken = q.taken /\ s.todo = q.todo /\ s.arg = q.arg
    BY <1>1, <2>1 DEF Call
  <2>3. Stage(s) = q.ret
    BY <2>2 DEF Stage, Looking
  <2> QED
    BY <1>2, <1>4, <1>6, <2>1, <2>2, <2>3 DEF Follows
<1>7. ASSUME Goto(c, [q EXCEPT !.pc = "mcacheSet", !.hit = dirs[q.look]]) PROVE Proceeds(c)
  <2>1. PICK s : s = [q EXCEPT !.pc = "mcacheSet", !.hit = dirs[q.look]]
    OBVIOUS
  <2>2. /\ s.pc = "mcacheSet" /\ s.op = q.op /\ s.cur = q.cur /\ s.ret = q.ret
        /\ s.taken = q.taken /\ s.todo = q.todo /\ s.arg = q.arg
    BY <1>1, <2>1 DEF Call
  <2>3. Stage(s) = q.ret
    BY <2>2 DEF Stage, Looking
  <2> QED
    BY <1>2, <1>4, <1>7, <2>1, <2>2, <2>3 DEF Follows
<1>8. McacheGet(c) => Proceeds(c)
  BY <1>5, <1>6 DEF McacheGet
<1>9. DatastoreGet(c) => Proceeds(c)
  BY <1>5, <1>7 DEF DatastoreGet
<1>10. McacheSet(c) => Proceeds(c)
  BY <1>5 DEF McacheSet
<1> QED
  BY <1>8, <1>9, <1>10

\* What every removal of a client alone starts from.
LEMMA OfRemoval ==
  ASSUME FsInv, TreeInv, ~Failures, Orderly, NEW c \in Clients,
         NEW q, q = client[c], Removal(q), Met(q)
  PROVE  /\ q \in Call /\ InOrder(q) /\ Knows(q) /\ q.cur \in Node
         /\ q.op = "removeAll" => Walks(q)
         /\ q.op = "unwind" => Unwinds(q)
         /\ q.op \in {"removeAll", "unwind"} /\ q.arg \in Node
         /\ q.hit \in Times \union {Absent}
         /\ OthersIdle(c) /\ \A b \in Clients, n \in Node : ~Climbing(b, n)
BY OfClient, NobodyClimbs, NoRace DEF WalkGoes, Removal, Knows, Call

LEMMA FileFoundProceeds ==
  ASSUME FsInv, FsInv', TreeInv, ~Failures, Orderly, NEW c \in Clients,
         NEW q, q = client[c], Removal(q), Met(q), FileFound(c)
  PROVE  Proceeds(c)
<1>1. /\ q \in Call /\ q.op \in {"removeAll", "unwind"} /\ q.pc = "fileGet"
      /\ UNCHANGED <<dirs, files, cut>>
  BY OfRemoval DEF FileFound, At, store, history
<1>2. Gone(q.arg)' = Gone(q.arg)
  BY <1>1, GoneUnlessWritten
<1>3. CASE q.op = "removeAll" /\ Goto(c, [q EXCEPT !.pc = "walk", !.taken = Append(@, q.cur)])
  <2>1. PICK s : s = [q EXCEPT !.pc = "walk", !.taken = Append(q.taken, q.cur)]
    OBVIOUS
  <2>2. /\ s.pc = "walk" /\ s.op = q.op /\ s.arg = q.arg /\ s.todo = q.todo
        /\ s.taken = Append(q.taken, q.cur)
    BY <1>1, <2>1 DEF Call
  <2>3. InSeq(s.taken) = InSeq(q.taken) \union {q.cur}
    <3>1. q.taken \in Seq(Node) /\ q.cur \in Node
      BY <1>1 DEF Call
    <3>2. Extends(s.taken, q.taken, q.cur)
      BY <2>2, <3>1, Appended
    <3> QED
      BY <3>2 DEF Extends
  <2>4. Stage(s) \in There
    BY <2>2 DEF Stage, Looking, There
  <2>5. Held(q) => Held(s)
    BY <1>3, <2>2, <2>3 DEF Held, Ahead
  <2>6. Met(s)'
    BY <1>2, <1>3, <2>2, <2>4, <2>5, MetOn
  <2> QED
    BY <1>3, <2>1, <2>2, <2>6, Proceeding
<1>4. CASE q.op = "unwind" /\ Goto(c, [q EXCEPT !.pc = "fileDelete"])
  <2>1. PICK s : s = [q EXCEPT !.pc = "fileDelete"]
    OBVIOUS
  <2>2. /\ s.pc = "fileDelete" /\ s.op = q.op /\ s.cur = q.cur /\ Follows(s, q)
    BY <1>1, <2>1 DEF Call, Follows
  <2>3. Handling(s) /\ Stage(s) \in Back
    BY <2>2 DEF Stage, Looking, Handling, Back
  <2>4. Met(s)'
    BY <1>2, <1>4, <2>2, <2>3, MetStays
  <2> QED
    BY <1>4, <2>1, <2>2, <2>4, Proceeding
<1> QED
  BY <1>1, <1>3, <1>4 DEF FileFound, Removing

LEMMA FileMissingProceeds ==
  ASSUME FsInv, FsInv', TreeInv, ~Failures, Orderly, NEW c \in Clients,
         NEW q, q = client[c], Removal(q), Met(q), FileMissing(c)
  PROVE  Proceeds(c)
<1>1. /\ q \in Call /\ q.op \in {"removeAll", "unwind"} /\ q.pc \in {"fileGet", "noFile"}
      /\ UNCHANGED <<dirs, files, cut>> /\ q.hit # Failed /\ q.cur \in Node
  BY OfRemoval, DsFsAssumption DEF DsFsAssumption, FileMissing, At, store, history
<1>2. Gone(q.arg)' = Gone(q.arg)
  BY <1>1, GoneUnlessWritten
<1>3. PICK s, then, p : then = "dirGot" /\ p = q.cur /\ s = Lookup(q, p, then)
  OBVIOUS
<1>4. Asks(s, q, then)
  <2>1. then \in Answers /\ p \in Node /\ p = Asked(then, q.cur) /\ then # "queryFiles"
    BY <1>1, <1>3 DEF Asked, Answers, Returns
  <2> QED
    BY <1>1, <1>3, <2>1, LookupKnows
<1>5. Stage(s) = "dirGot" /\ s.op = q.op /\ s.cur = q.cur /\ Follows(s, q)
  BY <1>3, <1>4 DEF Asks, Follows
<1>6. Handling(s) /\ Stage(s) \in Back /\ Visiting(s)
  BY <1>5 DEF Handling, Visiting, Back
<1>7. Met(s)'
  BY <1>1, <1>2, <1>5, <1>6, MetStays
<1>8. Goto(c, s)
  BY <1>1, <1>3 DEF FileMissing
<1> QED
  BY <1>5, <1>7, <1>8, Proceeding

LEMMA DirGotProceeds ==
  ASSUME FsInv, FsInv', TreeInv, ~Failures, Orderly, NEW c \in Clients,
         NEW q, q = client[c], Removal(q), Met(q), DirGot(c)
  PROVE  Proceeds(c)
<1>1. /\ q \in Call /\ Knows(q) /\ q.op \in {"removeAll", "unwind"} /\ q.pc = "dirGot"
      /\ UNCHANGED <<dirs, files, cut>> /\ q.hit \in Times \union {Absent} /\ q.cur \in Node
  BY OfRemoval DEF DirGot, At, store, history
<1>2. Gone(q.arg)' = Gone(q.arg) /\ Gone(q.cur)' = Gone(q.cur)
  BY <1>1, GoneUnlessWritten
<1>3. Stage(q) = "dirGot" /\ Aim(q) = q.cur /\ Handling(q)
  BY <1>1 DEF Stage, Looking, Aim, Handling, Visiting
<1>4. Unread(q) => Gone(q.cur)
  <2>1. q.hit = dirs[q.cur]
    BY <1>1, <1>3 DEF Knows, Answers, Returns, Right
  <2>2. Unread(q) => q.hit = Absent
    BY <1>1, DsFsAssumption DEF DsFsAssumption, Unread
  <2>3. ~AsFile(q.cur)
    BY <1>1, <1>3, OfRemoval DEF Walks, MetOnce, Unwinds
  <2> QED
    BY <1>1, <2>1, <2>2, <2>3, OfRemoval, GoneIfAbsent
<1>5. ASSUME Unread(q), NEW pc, pc = (IF q.op = "unwind" THEN "unwind" ELSE "walk"),
             Goto(c, [q EXCEPT !.pc = pc, !.hit = Absent])
      PROVE  Proceeds(c)
  <2>1. PICK s : s = [q EXCEPT !.pc = pc, !.hit = Absent]
    OBVIOUS
  <2>2. s.pc = pc /\ s.op = q.op /\ Follows(s, q)
    BY <1>1, <2>1 DEF Call, Follows
  <2>3. Met(s)'
    BY <1>2, <1>4, <1>5, <2>2, MetLeaves
  <2> QED
    BY <1>5, <2>1, <2>2, <2>3, Proceeding
<1>6. CASE q.op = "removeAll" /\ Goto(c, [q EXCEPT !.pc = "readDir", !.hit = Absent, !.taken = Append(@, q.cur)])
  <2>1. PICK s : s = [q EXCEPT !.pc = "readDir", !.hit = Absent, !.taken = Append(q.taken, q.cur)]
    OBVIOUS
  <2>2. /\ s.pc = "readDir" /\ s.op = q.op /\ s.arg = q.arg /\ s.todo = q.todo
        /\ s.taken = Append(q.taken, q.cur)
    BY <1>1, <2>1 DEF Call
  <2>3. InSeq(s.taken) = InSeq(q.taken) \union {q.cur}
    <3>1. q.taken \in Seq(Node) /\ q.cur \in Node
      BY <1>1 DEF Call
    <3>2. Extends(s.taken, q.taken, q.cur)
      BY <2>2, <3>1, Appended
    <3> QED
      BY <3>2 DEF Extends
  <2>4. Stage(s) \in There
    BY <2>2 DEF Stage, Looking, There
  <2>5. Held(q) => Held(s)
    BY <1>6, <2>2, <2>3 DEF Held, Ahead
  <2>6. Met(s)'
    BY <1>2, <1>6, <2>2, <2>4, <2>5, MetOn
  <2> QED
    BY <1>6, <2>1, <2>2, <2>6, Proceeding
<1>7. CASE q.op = "unwind" /\ Goto(c, [q EXCEPT !.pc = "dirDelete"])
  <2>1. PICK s : s = [q EXCEPT !.pc = "dirDelete"]
    OBVIOUS
  <2>2. s.pc = "dirDelete" /\ s.op = q.op /\ s.cur = q.cur /\ Follows(s, q)
    BY <1>1, <2>1 DEF Call, Follows
  <2>3. Handling(s) /\ Stage(s) \in Back
    BY <2>2 DEF Stage, Looking, Handling, Back
  <2>4. Met(s)'
    BY <1>2, <1>7, <2>2, <2>3, MetStays
  <2> QED
    BY <1>7, <2>1, <2>2, <2>4, Proceeding
<1> QED
  BY <1>1, <1>5, <1>6, <1>7 DEF DirGot, Removing

LEMMA QueriesProceed ==
  ASSUME FsInv, FsInv', TreeInv, ~Failures, Orderly, NEW c \in Clients,
         NEW q, q = client[c], Removal(q), Met(q), QueryDirs(c) \/ QueryFiles(c)
  PROVE  Proceeds(c)
<1>1. /\ q \in Call /\ Knows(q) /\ q.op = "removeAll" /\ q.pc \in {"readDir", "queryFiles"}
      /\ UNCHANGED <<dirs, files, cut>> /\ q.cur \in Node
  <2>1. /\ q \in Call /\ Knows(q) /\ q.op \in {"removeAll", "unwind"} /\ q.cur \in Node
        /\ q.pc \in {"readDir", "queryFiles"} /\ UNCHANGED <<dirs, files, cut>>
    BY OfRemoval DEF QueryDirs, QueryFiles, At, store, history
  <2> QED
    BY <2>1 DEF Knows, Doing, Stage, Looking
<1>2. Gone(q.arg)' = Gone(q.arg)
  BY <1>1, GoneUnlessWritten
<1>3. ~Visiting(q)
  BY <1>1 DEF Visiting, Stage, Looking
<1>4. ASSUME QueryDirs(c) PROVE Proceeds(c)
  <2>1. PICK P \in Found : Goto(c, Lookup([q EXCEPT !.kids = Children(P, q.cur)], q.cur, "queryFiles"))
    BY <1>1, <1>4 DEF QueryDirs
  <2>2. PICK z, then, p, s : /\ z = [q EXCEPT !.kids = Children(P, q.cur)] /\ then = "queryFiles"
                             /\ p = q.cur /\ s = Lookup(z, p, then)
    OBVIOUS
  <2>3. Children(P, q.cur) \in SUBSET Node
    BY DEF Found, Present, Children
  <2>4. /\ z \in Call /\ z.op = q.op /\ z.arg = q.arg /\ z.cur = q.cur
        /\ z.todo = q.todo /\ z.taken = q.taken
    BY <1>1, <2>2, <2>3 DEF Call
  <2>5. p = Asked(then, z.cur) /\ then \in Answers /\ p \in Node /\ z.op \in {"readDir", "removeAll"}
    BY <1>1, <2>2, <2>4 DEF Asked, Answers, Returns
  <2>6. Asks(s, z, then)
    BY <2>2, <2>4, <2>5, LookupKnows
  <2>7. Stage(s) = "queryFiles" /\ s.op = q.op /\ s.cur = q.cur /\ Follows(s, q)
    BY <2>2, <2>4, <2>6 DEF Asks, Follows
  <2>8. Stage(s) \in There
    BY <2>7 DEF There
  <2>9. Met(s)'
    BY <1>1, <1>2, <1>3, <2>7, <2>8, MetStays
  <2>10. Goto(c, s)
    BY <2>1, <2>2
  <2> QED
    BY <2>7, <2>9, <2>10, Proceeding
<1>5. ASSUME QueryFiles(c) PROVE Proceeds(c)
  <2>1. PICK found, todo :
           /\ found = SetToSeq(q.kids) \o SetToSeq(Children(files, q.cur))
           /\ todo = IF Unread(q) THEN q.todo ELSE found \o q.todo
    OBVIOUS
  <2>2. PICK s : s = [q EXCEPT !.pc = "walk", !.kids = {}, !.hit = Absent, !.todo = todo]
    OBVIOUS
  <2>3. Goto(c, s)
    BY <1>1, <1>5, <2>1, <2>2 DEF QueryFiles
  <2>4. /\ s.pc = "walk" /\ s.op = q.op /\ s.arg = q.arg /\ s.taken = q.taken /\ s.todo = todo
    BY <1>1, <2>2 DEF Call
  <2>5. InSeq(q.todo) \subseteq InSeq(todo)
    <3>1. q.kids \in SUBSET Node /\ Children(files, q.cur) \in SUBSET Node /\ q.todo \in Seq(Node)
      BY <1>1 DEF Call, Children, FsInv, TypeInv, TypeOK
    <3>2. SetToSeq(q.kids) \in Seq(Node) /\ SetToSeq(Children(files, q.cur)) \in Seq(Node)
      BY <3>1, SetToSeqGives
    <3>3. found \in Seq(Node)
      BY <2>1, <3>2, ConcatProperties
    <3>4. PICK u : u = found \o q.todo
      OBVIOUS
    <3>5. Joins(u, found, q.todo)
      BY <3>1, <3>3, <3>4, Joined
    <3> QED
      BY <2>1, <3>4, <3>5 DEF Joins
  <2>6. Stage(s) \in There
    BY <2>4 DEF Stage, Looking, There
  <2>7. Held(q) => Held(s)
    BY <1>1, <1>3, <2>4, <2>5 DEF Held, Ahead
  <2>8. Met(s)'
    BY <1>1, <1>2, <2>4, <2>6, <2>7, MetOn
  <2> QED
    BY <1>1, <2>3, <2>4, <2>8, Proceeding
<1> QED
  BY <1>4, <1>5

LEMMA WalkProceeds ==
  ASSUME FsInv, FsInv', TreeInv, ~Failures, Orderly, NEW c \in Clients,
         NEW q, q = client[c], Removal(q), Met(q), Walk(c)
  PROVE  Proceeds(c)
<1>1. /\ q \in Call /\ InOrder(q) /\ Knows(q) /\ q.op = "removeAll" /\ q.pc = "walk"
      /\ UNCHANGED <<dirs, files, cut>> /\ q.todo \in Seq(Node)
  <2>1. /\ q \in Call /\ InOrder(q) /\ Knows(q) /\ q.pc = "walk" /\ UNCHANGED <<dirs, files, cut>>
    BY OfRemoval DEF Walk, At, store, history
  <2> QED
    BY <2>1 DEF Knows, Doing, Call
<1>2. Gone(q.arg)' = Gone(q.arg)
  BY <1>1, GoneUnlessWritten
<1>3. ~Visiting(q) /\ q.ret = "idle"
  BY <1>1 DEF Visiting, Stage, Looking, InOrder
<1>4. CASE q.todo # <<>> /\ Goto(c, FileByPath([q EXCEPT !.todo = Tail(@)], Head(q.todo)))
  <2>1. PICK z, p, s : /\ z = [q EXCEPT !.todo = Tail(q.todo)] /\ p = Head(q.todo)
                       /\ s = FileByPath(z, p)
    OBVIOUS
  <2>2. p \in Node /\ Tail(q.todo) \in Seq(Node)
    BY <1>1, <1>4, <2>1, HeadTailProperties
  <2>3. /\ z \in Call /\ z.ret = "idle" /\ z.op = q.op /\ z.arg = q.arg /\ z.taken = q.taken
        /\ z.todo = Tail(q.todo)
    BY <1>1, <1>3, <2>1, <2>2 DEF Call
  <2>4. Visits(s, z, p)
    BY <2>1, <2>2, <2>3, FileByPathKnows
  <2>5. /\ Stage(s) \in {"fileGet", "noFile"} /\ s.cur = p /\ s.op = q.op /\ s.arg = q.arg
        /\ s.todo = Tail(q.todo) /\ s.taken = q.taken
    BY <2>3, <2>4 DEF Visits
  <2>6. InSeq(q.todo) \subseteq InSeq(s.todo) \union {p}
    <3> DEFINE n == Len(q.todo)
    <3>1. n \in Nat \ {0} /\ DOMAIN q.todo = 1..n /\ p = q.todo[1]
      BY <1>1, <1>4, <2>1, EmptySeq, LenProperties
    <3>2. Len(s.todo) = n - 1 /\ \A i \in 1..(n - 1) : s.todo[i] = q.todo[i + 1]
      BY <1>1, <1>4, <2>5, HeadTailProperties
    <3>3. DOMAIN s.todo = 1..(n - 1)
      BY <2>2, <2>5, <3>2, LenProperties
    <3>4. \A i \in 1..n : i = 1 \/ (i - 1 \in 1..(n - 1) /\ (i - 1) + 1 = i)
      BY <3>1
    <3>5. ASSUME NEW i \in 1..n, i # 1 PROVE q.todo[i] \in InSeq(s.todo)
      <4>1. i - 1 \in DOMAIN s.todo /\ q.todo[i] = s.todo[i - 1]
        BY <3>2, <3>3, <3>4, <3>5
      <4> QED
        BY <4>1 DEF InSeq
    <3> QED
      BY <3>1, <3>5 DEF InSeq
  <2>7. Visiting(s) /\ Stage(s) \in There
    BY <2>5 DEF Visiting, There
  <2>8. Held(q) => Held(s)
    BY <1>1, <1>3, <2>5, <2>6, <2>7 DEF Held, Ahead
  <2>9. Met(s)'
    BY <1>1, <1>2, <2>5, <2>7, <2>8, MetOn
  <2>10. Goto(c, s)
    BY <1>4, <2>1
  <2> QED
    BY <1>1, <2>5, <2>9, <2>10, Proceeding
<1>5. CASE q.todo = <<>> /\ Goto(c, [q EXCEPT !.op = "unwind", !.pc = "unwind"])
  <2>1. PICK s : s = [q EXCEPT !.op = "unwind", !.pc = "unwind"]
    OBVIOUS
  <2>2. s.pc = "unwind" /\ s.op = "unwind" /\ s.arg = q.arg /\ s.taken = q.taken
    BY <1>1, <2>1 DEF Call
  <2>3. Ahead(q) = {}
    BY <1>3, <1>5 DEF Ahead, InSeq
  <2>4. Stage(s) \in Back
    BY <2>2 DEF Stage, Looking, Back
  <2>5. Held(q) => Held(s)
    BY <1>1, <2>2, <2>3 DEF Held
  <2>6. Met(s)'
    BY <1>1, <1>2, <2>2, <2>4, <2>5, MetOn
  <2>7. Goto(c, s)
    BY <1>5, <2>1
  <2> QED
    BY <1>1, <2>6, <2>7, Proceeding
<1> QED
  BY <1>4, <1>5 DEF Walk

LEMMA UnwindProceeds ==
  ASSUME FsInv, FsInv', TreeInv, ~Failures, Orderly, NEW c \in Clients,
         NEW q, q = client[c], Removal(q), Met(q), Unwind(c)
  PROVE  Proceeds(c)
<1>1. /\ q \in Call /\ InOrder(q) /\ Knows(q) /\ q.op = "unwind" /\ q.pc = "unwind"
      /\ UNCHANGED <<dirs, files, cut>> /\ q.taken \in Seq(Node)
  <2>1. /\ q \in Call /\ InOrder(q) /\ Knows(q) /\ q.pc = "unwind" /\ UNCHANGED <<dirs, files, cut>>
    BY OfRemoval DEF Unwind, At, store, history
  <2> QED
    BY <2>1 DEF Knows, Doing, Call
<1>2. Gone(q.arg)' = Gone(q.arg)
  BY <1>1, GoneUnlessWritten
<1>3. ~Handling(q) /\ q.ret = "idle"
  BY <1>1 DEF Handling, Visiting, Stage, Looking, InOrder
<1>4. CASE q.taken # <<>> /\ Goto(c, FileByPath([q EXCEPT !.taken = Front(@)], Last(q.taken)))
  <2>1. PICK z, p, s : /\ z = [q EXCEPT !.taken = Front(q.taken)] /\ p = Last(q.taken)
                       /\ s = FileByPath(z, p)
    OBVIOUS
  <2>2. /\ p \in Node /\ Front(q.taken) \in Seq(Node)
        /\ InSeq(q.taken) \subseteq InSeq(Front(q.taken)) \union {p}
    <3> DEFINE n == Len(q.taken)
    <3>1. n \in Nat \ {0} /\ DOMAIN q.taken = 1..n
      BY <1>1, <1>4, EmptySeq, LenProperties
    <3>2. \A i \in 1..n : q.taken[i] \in Node
      BY <1>1, <3>1, ElementOfSeq
    <3>3. p = q.taken[n] /\ Front(q.taken) = SubSeq(q.taken, 1, n - 1)
      BY <2>1 DEF Front, Last
    <3>4. /\ Front(q.taken) \in Seq(Node)
          /\ Len(Front(q.taken)) = n - 1
          /\ \A i \in 1..(n - 1) : Front(q.taken)[i] = q.taken[i]
      <4>1. \A i \in 1..(n - 1) : q.taken[i] \in Node
        BY <3>1, <3>2
      <4>2. /\ SubSeq(q.taken, 1, n - 1) \in Seq(Node)
            /\ Len(SubSeq(q.taken, 1, n - 1)) = IF 1 <= n - 1 THEN (n - 1) - 1 + 1 ELSE 0
            /\ \A i \in 1..((n - 1) - 1 + 1) : SubSeq(q.taken, 1, n - 1)[i] = q.taken[1 + i - 1]
        BY <1>1, <3>1, <4>1, SubSeqProperties
      <4> QED
        BY <3>1, <3>3, <4>2
    <3>5. DOMAIN Front(q.taken) = 1..(n - 1)
      BY <3>4, LenProperties
    <3>6. \A i \in 1..n : i = n \/ i \in 1..(n - 1)
      BY <3>1
    <3>7. InSeq(q.taken) \subseteq InSeq(Front(q.taken)) \union {p}
      BY <3>1, <3>3, <3>4, <3>5, <3>6 DEF InSeq
    <3> QED
      BY <3>1, <3>2, <3>3, <3>4, <3>7
  <2>3. /\ z \in Call /\ z.ret = "idle" /\ z.op = q.op /\ z.arg = q.arg /\ z.taken = Front(q.taken)
    BY <1>1, <1>3, <2>1, <2>2 DEF Call
  <2>4. Visits(s, z, p)
    BY <2>1, <2>2, <2>3, FileByPathKnows
  <2>5. /\ Stage(s) \in {"fileGet", "noFile"} /\ s.cur = p /\ s.op = q.op /\ s.arg = q.arg
        /\ s.taken = Front(q.taken)
    BY <2>3, <2>4 DEF Visits
  <2>6. Handling(s) /\ Stage(s) \in Back
    BY <2>5 DEF Handling, Visiting, Back
  <2>7. Held(q) => Held(s)
    BY <1>1, <1>3, <2>2, <2>5, <2>6 DEF Held
  <2>8. Met(s)'
    BY <1>1, <1>2, <2>5, <2>6, <2>7, MetOn
  <2>9. Goto(c, s)
    BY <1>4, <2>1
  <2> QED
    BY <1>1, <2>5, <2>8, <2>9, Proceeding
<1>5. CASE q.taken = <<>> /\ Finish(c)
  <2>1. Met(Idle)'
    BY DEF Met, Removal, Idle
  <2> QED
    BY <1>1, <1>5, <2>1, Proceeding DEF Finish, At
<1> QED
  BY <1>4, <1>5 DEF Unwind

LEMMA FileDeleteProceeds ==
  ASSUME FsInv, FsInv', TreeInv, ~Failures, Orderly, NEW c \in Clients,
         NEW q, q = client[c], Removal(q), Met(q), FileDelete(c)
  PROVE  Proceeds(c)
<1>1. /\ q \in Call /\ Knows(q) /\ q.op = "unwind" /\ q.pc = "fileDelete" /\ q.cur \in Node
      /\ UNCHANGED dirs /\ files' \subseteq files /\ cut \subseteq cut'
  <2>1. /\ q \in Call /\ Knows(q) /\ q.pc = "fileDelete" /\ q.cur \in Node
        /\ UNCHANGED dirs /\ files' \subseteq files /\ cut \subseteq cut'
    BY OfRemoval DEF FileDelete, At
  <2> QED
    BY <2>1 DEF Knows, Doing, Removal, Removing
<1>2. Gone(q.arg) => Gone(q.arg)'
  BY <1>1 DEF Gone, Live, Present, CutOff, Ancestors
<1>3. PICK s, then, p : then = "dirGot" /\ p = q.cur /\ s = Lookup(q, p, then)
  OBVIOUS
<1>4. Asks(s, q, then)
  <2>1. then \in Answers /\ p \in Node /\ p = Asked(then, q.cur) /\ then # "queryFiles"
    BY <1>1, <1>3 DEF Asked, Answers, Returns
  <2> QED
    BY <1>1, <1>3, <2>1, LookupKnows
<1>5. Stage(s) = "dirGot" /\ s.op = q.op /\ s.cur = q.cur /\ Follows(s, q)
  BY <1>3, <1>4 DEF Asks, Follows
<1>6. Handling(s) /\ Stage(s) \in Back
  BY <1>5 DEF Handling, Visiting, Back
<1>7. Met(s)'
  BY <1>1, <1>2, <1>5, <1>6, MetStays
<1>8. Goto(c, s)
  BY <1>3 DEF FileDelete
<1> QED
  BY <1>5, <1>7, <1>8, Proceeding

LEMMA DirDeleteProceeds ==
  ASSUME FsInv, FsInv', TreeInv, ~Failures, Orderly, NEW c \in Clients,
         NEW q, q = client[c], Removal(q), Met(q), DirDelete(c)
  PROVE  Proceeds(c)
<1>1. /\ q \in Call /\ q.op = "unwind" /\ q.pc = "dirDelete" /\ q.cur \in Node
      /\ UNCHANGED files /\ cut \subseteq cut' /\ dirs' = [dirs EXCEPT ![q.cur] = Absent]
      /\ Goto(c, [q EXCEPT !.pc = "mcacheDelete"])
  <2>1. /\ q \in Call /\ Knows(q) /\ q.pc = "dirDelete" /\ q.cur \in Node
        /\ UNCHANGED files /\ cut \subseteq cut' /\ dirs' = [dirs EXCEPT ![q.cur] = Absent]
        /\ Goto(c, [q EXCEPT !.pc = "mcacheDelete"])
    BY OfRemoval DEF DirDelete, At
  <2> QED
    BY <2>1 DEF Knows, Doing, Removal, Removing
<1>2. Gone(q.arg) => Gone(q.arg)'
  <2>1. \A n \in Node : dirs'[n] # Absent => dirs[n] # Absent
    BY <1>1 DEF FsInv, TypeInv, TypeOK
  <2> QED
    BY <1>1, <2>1 DEF Gone, Live, Present, CutOff, Ancestors
<1>3. PICK s : s = [q EXCEPT !.pc = "mcacheDelete"]
  OBVIOUS
<1>4. s.pc = "mcacheDelete" /\ s.op = q.op /\ s.cur = q.cur /\ Follows(s, q)
  BY <1>1, <1>3 DEF Call, Follows
<1>5. Handling(s) /\ Stage(s) \in Back
  BY <1>4 DEF Handling, Stage, Looking, Back
<1>6. Met(s)'
  BY <1>1, <1>2, <1>4, <1>5, MetStays
<1> QED
  BY <1>1, <1>3, <1>4, <1>6, Proceeding

LEMMA McacheDeleteProceeds ==
  ASSUME FsInv, FsInv', TreeInv, ~Failures, Orderly, NEW c \in Clients,
         NEW q, q = client[c], Removal(q), Met(q), McacheDelete(c)
  PROVE  Proceeds(c)
<1>1. /\ q \in Call /\ q.op = "unwind" /\ q.pc = "mcacheDelete" /\ q.cur \in Node
      /\ UNCHANGED <<dirs, files, cut>> /\ Unwinds(q)
      /\ Goto(c, [q EXCEPT !.pc = "unwind", !.hit = Absent])
  <2>1. /\ q \in Call /\ q.pc = "mcacheDelete" /\ q.cur \in Node
        /\ UNCHANGED <<dirs, files, cut>> /\ (q.op = "unwind" => Unwinds(q))
    BY OfRemoval DEF McacheDelete, At, store
  <2>2. q.op = "unwind"
    BY <2>1 DEF Met, Removal, Stage, Looking, There
  <2> QED
    BY <2>1, <2>2 DEF McacheDelete
<1>2. Gone(q.arg)' = Gone(q.arg) /\ Gone(q.cur)' = Gone(q.cur)
  BY <1>1, GoneUnlessWritten
<1>3. dirs[q.cur] = Absent /\ ~AsFile(q.cur)
  BY <1>1 DEF Unwinds, Handling, Stage, Looking
<1>4. Gone(q.cur)
  BY <1>1, <1>3, OfRemoval, GoneIfAbsent
<1>5. PICK s : s = [q EXCEPT !.pc = "unwind", !.hit = Absent]
  OBVIOUS
<1>6. s.pc = "unwind" /\ s.op = q.op /\ Follows(s, q)
  BY <1>1, <1>5 DEF Call, Follows
<1>7. Met(s)'
  BY <1>1, <1>2, <1>4, <1>6, MetLeaves
<1> QED
  BY <1>1, <1>5, <1>6, <1>7, Proceeding

-----------------------------------------------------------------------------
(* All steps together.                                                     *)

\* Who removes nothing does not start to, but in Begin.
LEMMA OthersProceed ==
  ASSUME FsInv, FsInv', TreeInv, ~Failures, NEW c \in Clients, NEW q, q = client[c],
         ~Removal(q), Step(c), ~Begin(c)
  PROVE  Proceeds(c)
<1>1. q \in Call /\ Knows(q)
  BY OfClient
<1>2. ASSUME NEW s, Goto(c, s), s.op \notin {"removeAll", "unwind"} PROVE Proceeds(c)
  <2>1. Met(s)'
    BY <1>2 DEF Met, Removal
  <2> QED
    BY <1>2, <2>1, Proceeding DEF Removal
<1>3. Finish(c) => Proceeds(c)
  <2>1. Idle.op = "none"
    BY DEF Idle
  <2> QED
    BY <1>2, <2>1 DEF Finish
<1>4. ASSUME NEW z \in Call, z.op = q.op, NEW p, NEW then, Goto(c, Lookup(z, p, then)) PROVE Proceeds(c)
  <2>1. PICK s : s = Lookup(z, p, then)
    OBVIOUS
  <2>2. s.op = q.op
    BY <1>4, <2>1 DEF Lookup, Call
  <2> QED
    BY <1>2, <1>4, <2>1, <2>2 DEF Removal
<1>5. ASSUME NEW p, NEW t, Goto(c, SaveDir(q, p, t)) PROVE Proceeds(c)
  <2>1. PICK s : s = SaveDir(q, p, t)
    OBVIOUS
  <2>2. s.op = "mkdir"
    BY <1>1, <2>1 DEF SaveDir, Call
  <2> QED
    BY <1>2, <1>5, <2>1, <2>2
<1>6. ASSUME NEW pc, Goto(c, [q EXCEPT !.pc = pc]) PROVE Proceeds(c)
  <2>1. [q EXCEPT !.pc = pc].op = q.op
    BY <1>1 DEF Call
  <2> QED
    BY <1>2, <1>6, <2>1 DEF Removal
<1>7. McacheGet(c) \/ DatastoreGet(c) \/ McacheSet(c) => Proceeds(c)
  <2>1. Met(q)
    BY DEF Met, Removal
  <2> QED
    BY <2>1, LookupProceeds
<1>8. DirPut(c) => Proceeds(c)
  BY <1>6 DEF DirPut
<1>9. DirMcacheSet(c) => Proceeds(c)
  <2>1. [q EXCEPT !.time = Absent] \in Call /\ [q EXCEPT !.time = Absent].op = q.op
    BY <1>1 DEF Call
  <2> QED
    BY <1>4, <2>1 DEF DirMcacheSet
<1>10. ParentSeen(c) => Proceeds(c)
  BY <1>3, <1>5 DEF ParentSeen
<1>11. FileFound(c) => Proceeds(c)
  BY <1>1, <1>3, <1>4, <1>6 DEF FileFound, Removal
<1>12. FileMissing(c) => Proceeds(c)
  BY <1>1, <1>3, <1>4 DEF FileMissing
<1>13. DirGot(c) => Proceeds(c)
  BY <1>1, <1>3, <1>5, <1>6 DEF DirGot, Removal
<1>14. FilePut(c) => Proceeds(c)
  BY <1>3 DEF FilePut
<1>15. QueryDirs(c) => Proceeds(c)
  <2>1. ASSUME QueryDirs(c) PROVE Proceeds(c)
    <3> PICK P \in Found :
           Goto(c, Lookup([q EXCEPT !.kids = IF q.op = "readDir" THEN {} ELSE Children(P, q.cur)],
                          q.cur, "queryFiles"))
      BY <2>1 DEF QueryDirs
    <3>1. PICK kids : kids = IF q.op = "readDir" THEN {} ELSE Children(P, q.cur)
      OBVIOUS
    <3>2. kids \in SUBSET Node
      BY <3>1 DEF Found, Present, Children
    <3>3. [q EXCEPT !.kids = kids] \in Call /\ [q EXCEPT !.kids = kids].op = q.op
      BY <1>1, <3>2 DEF Call
    <3> QED
      BY <1>4, <3>1, <3>3
  <2> QED
    BY <2>1
<1>16. QueryFiles(c) => Proceeds(c)
  BY <1>3 DEF QueryFiles, Removal
<1>17. ~Walk(c) /\ ~Unwind(c)
  BY <1>1 DEF Walk, Unwind, At, Knows, Doing, Removal
<1>18. FileDelete(c) => Proceeds(c)
  BY <1>1, <1>4 DEF FileDelete
<1>19. DirDelete(c) => Proceeds(c)
  BY <1>6 DEF DirDelete
<1>20. McacheDelete(c) => Proceeds(c)
  BY <1>3 DEF McacheDelete, Removal
<1>21. DeleteFiles(c) => Proceeds(c)
  BY <1>6 DEF DeleteFiles
<1>22. DeleteDirs(c) => Proceeds(c)
  BY <1>6 DEF DeleteDirs
<1>23. Flush(c) => Proceeds(c)
  BY <1>3 DEF Flush
<1>24. ~Stop(c)
  BY DEF Stop
<1> QED
  BY <1>7, <1>8, <1>9, <1>10, <1>11, <1>12, <1>13, <1>14, <1>15, <1>16, <1>17, <1>18, <1>19,
     <1>20, <1>21, <1>22, <1>23, <1>24 DEF Step

\* RemoveAll begins with its argument ahead.
LEMMA BeginProceeds ==
  ASSUME FsInv, FsInv', NEW c \in Clients, Begin(c), client[c] = Idle
  PROVE  Proceeds(c)
<1> PICK op \in Operations, p \in Node : \E r \in Request(op, p) : Goto(c, r)
  BY DEF Begin
<1>1. PICK r \in Request(op, p) : Goto(c, r)
  OBVIOUS
<1>2. client[c].op # "unwind"
  BY DEF Idle
<1>3. Idle \in Call
  BY IdleInOrder DEF Harmless, InOrder
<1>4. PICK i : i = [Idle EXCEPT !.op = op, !.cur = p]
  OBVIOUS
<1>5. i \in Call /\ i.op = op /\ i.taken = <<>> /\ i.ret = "idle"
  BY <1>3, <1>4 DEF Call, Idle
<1>6. CASE op = "removeAll"
  <2>1. r = [i EXCEPT !.pc = "walk", !.arg = p, !.todo = <<p>>]
    BY <1>1, <1>4, <1>6 DEF Request
  <2>2. r.pc = "walk" /\ r.op = "removeAll" /\ r.arg = p /\ r.todo = <<p>>
    BY <1>5, <1>6, <2>1 DEF Call
  <2>3. Stage(r) \in There
    BY <2>2 DEF Stage, Looking, There
  <2>4. p \in InSeq(<<p>>)
    BY DEF InSeq
  <2>5. Held(r)
    BY <2>2, <2>4 DEF Held, Ahead
  <2>6. Met(r)'
    BY <2>2, <2>3, <2>5 DEF Met, Held, Removal, Stage, Looking, There, Ahead, Visiting
  <2> QED
    BY <1>1, <1>2, <2>6, Proceeding
<1>7. CASE op # "removeAll"
  <2>1. ~Removal(r)
    <3>2. CASE op \in {"stat", "chtimes", "remove"}
      <4>1. r = FileByPath(i, p)
        BY <1>1, <1>4, <3>2 DEF Request
      <4>2. Visits(r, i, p)
        BY <1>5, <4>1, FileByPathKnows
      <4> QED
        BY <1>5, <3>2, <4>2 DEF Visits, Removal
    <3>3. CASE op = "readDir"
      <4>1. r = [i EXCEPT !.pc = "readDir"]
        BY <1>1, <1>4, <3>3 DEF Request
      <4>2. r.op = op
        BY <1>5, <4>1 DEF Call
      <4> QED
        BY <3>3, <4>2 DEF Removal
    <3>4. CASE op = "mkdir"
      <4>1. PICK t \in Times : r = SaveDir(i, p, t)
        BY <1>1, <1>4, <3>4 DEF Request
      <4>2. r.op = "mkdir"
        BY <1>5, <4>1 DEF Call, SaveDir
      <4> QED
        BY <4>2 DEF Removal
    <3>5. CASE op = "writeFile"
      <4>1. r = Lookup(i, Parent[p], "filePut")
        BY <1>1, <1>4, <3>5 DEF Request
      <4>2. r.op = op
        BY <1>5, <4>1 DEF Call, Lookup
      <4> QED
        BY <3>5, <4>2 DEF Removal
    <3>6. CASE op = "deleteAll"
      <4>1. r = [i EXCEPT !.pc = "deleteFiles"]
        BY <1>1, <1>4, <3>6 DEF Request
      <4>2. r.op = op
        BY <1>5, <4>1 DEF Call
      <4> QED
        BY <3>6, <4>2 DEF Removal
    <3> QED
      BY <1>7, <3>2, <3>3, <3>4, <3>5, <3>6 DEF Operations
  <2>2. Met(r)'
    BY <2>1 DEF Met, Removal
  <2> QED
    BY <1>1, <1>2, <2>2, Proceeding
<1> QED
  BY <1>6, <1>7

LEMMA StepProceeds ==
  ASSUME FsInv, FsInv', TreeInv, ~Failures, Orderly, NEW c \in Clients, Met(client[c]), Step(c)
  PROVE  Proceeds(c) /\ OthersIdle(c)
<1>1. PICK q : q = client[c]
  OBVIOUS
<1>2. Met(q) /\ Knows(q) /\ InOrder(q)
  BY <1>1, OfClient
<1>3. CASE Begin(c)
  <2>1. q = Idle
    BY <1>1, <1>2, <1>3 DEF Begin, At, Knows
  <2>2. OthersIdle(c)
    BY <1>3 DEF Begin, Orderly, Overlap, OthersIdle
  <2> QED
    BY <1>1, <1>3, <2>1, <2>2, BeginProceeds
<1>4. CASE ~Begin(c)
  <2>1. ~At(c, "idle")
    BY <1>4 DEF Step, At, Stop, McacheGet, DatastoreGet, McacheSet, DirPut, DirMcacheSet,
       ParentSeen, FileFound, FileMissing, DirGot, FilePut, QueryDirs, QueryFiles, Walk, Unwind,
       FileDelete, DirDelete, McacheDelete, DeleteFiles, DeleteDirs, Flush
  <2>2. OthersIdle(c)
    BY <2>1, NoRace
  <2>3. CASE ~Removal(q)
    BY <1>1, <1>4, <2>2, <2>3, OthersProceed
  <2>4. CASE Removal(q)
    <3>1. Stage(q) \in There \union Back
      BY <1>2, <2>4 DEF Met, Removal
    <3>2. q.pc \in There \union Back \union {"mcacheGet", "datastoreGet", "mcacheSet"}
      BY <3>1 DEF Stage, Looking
    <3>3. /\ ~DirPut(c) /\ ~DirMcacheSet(c) /\ ~ParentSeen(c) /\ ~FilePut(c)
          /\ ~DeleteFiles(c) /\ ~DeleteDirs(c) /\ ~Flush(c) /\ ~Stop(c)
      BY <1>1, <3>2 DEF There, Back, DirPut, DirMcacheSet, ParentSeen, FilePut, DeleteFiles,
         DeleteDirs, Flush, Stop, At
    <3> QED
      BY <1>1, <1>2, <1>4, <2>2, <2>4, <3>3, LookupProceeds, FileFoundProceeds,
         FileMissingProceeds, DirGotProceeds, QueriesProceed, WalkProceeds, UnwindProceeds,
         FileDeleteProceeds, DirDeleteProceeds, McacheDeleteProceeds DEF Step
  <2> QED
    BY <2>3, <2>4
<1> QED
  BY <1>3, <1>4

LEMMA MetInvStep == FsInv /\ TreeInv /\ MetInv /\ [Next]_vars => MetInv'
<1> SUFFICES ASSUME FsInv, TreeInv, MetInv, [Next]_vars, Orderly' PROVE \A b \in Clients : Met(client[b])'
  BY DEF MetInv
<1>1. mode' = mode
  BY DEF Next, Step, vars, Begin, Stop, McacheGet, DatastoreGet, McacheSet, DirPut, DirMcacheSet,
     ParentSeen, FileFound, FileMissing, DirGot, FilePut, QueryDirs, QueryFiles, Walk, Unwind,
     FileDelete, DirDelete, McacheDelete, DeleteFiles, DeleteDirs, Flush, Evict
<1>2. FsInv' /\ Orderly /\ ~Failures /\ \A b \in Clients : Met(client[b])
  BY <1>1, FsInvStep DEF Orderly, Failures, MetInv
<1>3. ASSUME NEW c \in Clients, Step(c), NEW b \in Clients PROVE Met(client[b])'
  <2>1. Proceeds(c) /\ OthersIdle(c)
    BY <1>2, <1>3, StepProceeds
  <2>2. PICK s \in Call : client' = [client EXCEPT ![c] = s] /\ Met(s)'
    BY <2>1 DEF Proceeds
  <2>3. client'[c] = s /\ \A d \in Clients \ {c} : client'[d] = client[d]
    BY <2>2 DEF FsInv, TypeInv, TypeOK
  <2>4. CASE b = c
    BY <2>2, <2>3, <2>4 DEF Met
  <2>5. CASE b # c
    <3>1. client[b] = Idle
      BY <1>2, <2>1, <2>5, OfClient DEF OthersIdle, At, Knows
    <3>2. client'[b].op = "none"
      BY <2>3, <2>5, <3>1 DEF Idle
    <3> QED
      BY <3>2 DEF Met, Removal
  <2> QED
    BY <2>4, <2>5
<1>4. ASSUME UNCHANGED <<dirs, files, cut, client>>, NEW b \in Clients PROVE Met(client[b])'
  <2>1. Met(client[b])
    BY <1>2
  <2> QED
    BY <1>4, <2>1 DEF Met, Gone, Live, Present, CutOff, Ancestors
<1>5. (\E p \in Node : Evict(p)) \/ UNCHANGED vars => UNCHANGED <<dirs, files, cut, client>>
  BY DEF Evict, vars, store, history
<1> QED
  BY <1>3, <1>4, <1>5 DEF Next

\* When a RemoveAll that nobody disturbs comes back, nothing is left below its
\* argument, which Remove took apart one entity at a time and in the order opposite
\* to that of the walk, but what hung below a directory that had been cut off, or
\* that shares its name with a file.
THEOREM NothingRemains == Spec => RemoveAllRemoves
<1>1. Init => FsInv /\ TreeInv /\ MetInv
  <2>1. Init => MetInv
    BY DEF Init, MetInv, Met, Removal, Idle
  <2> QED
    BY <2>1, FsInvInit, TreeInvInit
<1>2. FsInv /\ TreeInv /\ MetInv /\ [Next]_vars => (FsInv /\ TreeInv /\ MetInv)'
  BY FsInvStep, TreeInvStep, MetInvStep
<1>3. ASSUME FsInv, TreeInv, MetInv, [Next]_vars
      PROVE  [\A c \in Clients : Orderly /\ client[c].op = "unwind" /\ client'[c].op = "none" =>
                 \A p \in Below(client[c].arg) :
                     \/ dirs'[p] = Absent /\ p \notin files'
                     \/ Ancestors[p] \cap cut' # {}]_vars
  <2> SUFFICES ASSUME Next, NEW c \in Clients, Orderly, client[c].op = "unwind", client'[c].op = "none",
                      NEW p \in Below(client[c].arg)
               PROVE  \/ dirs'[p] = Absent /\ p \notin files'
                      \/ Ancestors[p] \cap cut' # {}
    BY <1>3
  <2>1. FsInv' /\ ~Failures /\ Met(client[c]) /\ client'[c] # client[c]
    BY <1>3, FsInvStep DEF Orderly, Failures, MetInv
  <2>2. PICK d \in Clients : Step(d)
    BY <2>1 DEF Next, Evict
  <2>3. Met(client[d])
    BY <1>3 DEF MetInv
  <2>4. Proceeds(d)
    BY <1>3, <2>1, <2>2, <2>3, StepProceeds
  <2>5. PICK s \in Call :
           /\ client' = [client EXCEPT ![d] = s]
           /\ client[d].op = "unwind" /\ s.op # "unwind" => At(d, "unwind") /\ client[d].taken = <<>>
    BY <2>4 DEF Proceeds
  <2>6. d = c /\ client'[c] = s
    BY <1>3, <2>1, <2>5 DEF FsInv, TypeInv, TypeOK
  <2>7. At(c, "unwind") /\ client[c].taken = <<>>
    BY <2>5, <2>6
  <2>8. UNCHANGED <<dirs, files, cut>>
    BY <2>2, <2>6, <2>7 DEF At, Step, Begin, Stop, McacheGet, DatastoreGet, McacheSet, DirPut,
       DirMcacheSet, ParentSeen, FileFound, FileMissing, DirGot, FilePut, QueryDirs, QueryFiles,
       Walk, Unwind, FileDelete, DirDelete, McacheDelete, DeleteFiles, DeleteDirs, Flush, store, history
  <2>9. PICK q : q = client[c]
    OBVIOUS
  <2>10. Met(q) /\ q.op = "unwind" /\ Removal(q) /\ q.pc = "unwind" /\ q.taken = <<>>
    BY <2>1, <2>7, <2>9 DEF Removal, At
  <2>11. ~Held(q)
    BY <2>10 DEF Held, Handling, Visiting, Stage, Looking, InSeq
  <2>12. Gone(q.arg) /\ q.arg \in Node
    BY <1>3, <2>1, <2>9, <2>10, <2>11, OfRemoval DEF Met
  <2>13. \A b \in Clients, n \in Node : ~Climbing(b, n)
    BY <1>3, <2>1, <2>9, <2>10, OfRemoval
  <2>14. Gone(p)
    BY <1>3, <2>1, <2>9, <2>12, <2>13, NothingBelow
  <2>15. p \in Node
    BY DEF Below
  <2> QED
    BY <2>8, <2>14, <2>15 DEF Gone, Live, Present, CutOff
<1> QED
  BY <1>1, <1>2, <1>3, PTL DEF Spec, RemoveAllRemoves

=============================================================================
