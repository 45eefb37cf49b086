----------------------------- MODULE MemFsProofs -----------------------------
(***************************************************************************)
(* Theorems about MemFs, for every tree, file system behind, set of        *)
(* requests and number of clients.                                         *)
(***************************************************************************)
EXTENDS MCMemFs, FunctionTheorems, SequenceTheorems, TLAPS

-----------------------------------------------------------------------------
(* Lists of tasks.                                                         *)

\* Tasks with which a RemoveAll keeps its place.
LoopTags == {"removeall", "rmloop", "rmback"}
\* Tasks that only a RemoveAll or a Rename has.
Removals == LoopTags \cup {"delete", "unregister", "rename", "move"}
Tags == Removals \cup Locking
        \cup {"register", "parent", "self", "enter", "open", "mkdir", "shadowdir", "created",
              "write", "copy", "fetch", "list", "close", "reopen", "pass", "chmod"}

MemDirs(n) == UNION {[D -> {Nil} \cup 1..n] : D \in SUBSET Keys}
File(n) == [dir : BOOLEAN, name : Keys, data : Seq(Bytes), at : Nat, closed : BOOLEAN,
            memDir : MemDirs(n), torn : BOOLEAN]
\* With n objects made; who enters an entry knows the directory, and who copies
\* has a chunk to copy.
Tasks(n) == {x \in [t : Tags, k : Keys, to : Keys, obj : 0..n, must : SUBSET Keys,
                    data : Seq(Bytes)] : /\ x.t = "enter" => x.obj # 0
                                         /\ x.t = "copy" => x.data # <<>>}
Results(n) == {Nil, Missing, Failed, Fine} \cup 1..n

NoTag(q, T) == \A i \in DOMAIN q : q[i].t \notin T

\* A loop is the last of a list; with the lock given back, only what takes it
\* again is before it.
LoopOK(q) ==
  \A i \in DOMAIN q :
    /\ q[i].t = "removeall" => Len(q) = 1
    /\ q[i].t = "rmloop" => i = Len(q)
    /\ q[i].t = "rmback" => /\ i + 1 = Len(q) /\ q[Len(q)].t = "rmloop"
                            /\ i = 1 \/ (i = 2 /\ q[1].t = "delete")
Holding(q) ==
  IF (\E i \in DOMAIN q : q[i].t = "rmloop") /\ NoTag(q, {"rmback"}) THEN 1 ELSE 0

\* The path of a task is in the map f, or an earlier task will see to it.
Suppliers == {"put", "putdir", "mkdir"}
Supplied(f, q, i) ==
  f[q[i].k] # Absent \/ \E j \in 1..(i - 1) : q[j].t \in Suppliers /\ q[j].k = q[i].k
\* Without removals, nothing is missing where it is needed.
Sound(f, q, r) ==
  \A i \in DOMAIN q :
    /\ q[i].t \notin Removals
    /\ q[i].t \in {"register", "parent", "self", "enter", "created"} => Supplied(f, q, i)
    /\ q[i].t = "enter" => IF i = 1 THEN IsFile(r)
                           ELSE q[i - 1].t = "open" /\ q[i - 1].k = q[i].k
    /\ q[i].t \in {"write", "copy"} => IF i = 1 THEN IsFile(r) ELSE q[i - 1].t = "created"

-----------------------------------------------------------------------------
(* The inductive invariant.                                                *)

\* The objects, and the map that leads to them.
Objects ==
  /\ files \in Seq(File(Len(files)))
  /\ \A i \in DOMAIN files : files[i].at <= Len(files[i].data)
  /\ fos \in [Keys -> {Absent, Nil} \cup 1..Len(files)]
TypeInv ==
  /\ setup \in Setups /\ Objects
  /\ readers \in [Clients -> Nat]
  /\ waiting \in SUBSET Clients /\ \A c \in waiting : Busy(c) /\ Top(c).t \in Locking
  /\ todo \in [Clients -> Seq(Tasks(Len(files)))]
  /\ res \in [Clients -> Results(Len(files))]
  /\ cut \subseteq {"RemoveAll", "Rename", "nil"}

\* Read locks that clients hold from one step to the next.
ReadersInv ==
  \A c \in Clients : /\ LoopOK(todo[c]) /\ readers[c] >= Holding(todo[c])
                     /\ "nil" \notin cut => readers[c] = Holding(todo[c])

\* Nil entries come from renaming.
NilInv ==
  /\ "nil" \in cut => "Rename" \in cut
  /\ "Rename" \notin cut => /\ \A k \in Keys : fos[k] # Nil
                            /\ \A c \in Clients : NoTag(todo[c], {"rename", "move"})

\* What an object is called has an entry, and the maps of directories have no nil.
Filled ==
  \A i \in DOMAIN files :
    fos[files[i].name] # Absent /\ \A k \in DOMAIN files[i].memDir : files[i].memDir[k] # Nil
SoundInv ==
  cut = {} => /\ panicked \subseteq {"fatal"} /\ Filled
              /\ \A c \in Clients : Sound(fos, todo[c], res[c])

MemInv == TypeInv /\ ReadersInv /\ NilInv /\ SoundInv

-----------------------------------------------------------------------------
(* Tasks take the place of the first of a list.                            *)

LEMMA SpliceSeq ==
  ASSUME NEW S, NEW q \in Seq(S), q # <<>>, NEW tasks \in Seq(S)
  PROVE  LET s == tasks \o Tail(q) IN
         /\ s \in Seq(S) /\ Len(q) \in Nat /\ Len(q) >= 1 /\ Len(tasks) \in Nat
         /\ DOMAIN q = 1..Len(q) /\ DOMAIN tasks = 1..Len(tasks)
         /\ Len(s) = Len(tasks) + Len(q) - 1 /\ DOMAIN s = 1..(Len(tasks) + Len(q) - 1)
         /\ \A i \in 1..Len(tasks) : s[i] = tasks[i]
         /\ \A i \in (Len(tasks) + 1)..(Len(tasks) + Len(q) - 1) : s[i] = q[i - Len(tasks) + 1]
         /\ Head(q) = q[1]
<1> DEFINE s == tasks \o Tail(q)
<1>1. Len(q) \in Nat \ {0} /\ Len(tasks) \in Nat
  BY EmptySeq, LenProperties
<1>2. /\ Tail(q) \in Seq(S) /\ Len(Tail(q)) = Len(q) - 1
      /\ \A i \in 1..(Len(q) - 1) : Tail(q)[i] = q[i + 1]
  BY <1>1, HeadTailProperties
<1>3. /\ s \in Seq(S) /\ Len(s) = Len(tasks) + (Len(q) - 1)
      /\ \A i \in 1..(Len(tasks) + (Len(q) - 1)) :
            s[i] = IF i <= Len(tasks) THEN tasks[i] ELSE Tail(q)[i - Len(tasks)]
  BY <1>2, ConcatProperties
<1>4. \A i \in 1..Len(tasks) : s[i] = tasks[i]
  BY <1>1, <1>3
<1>5. ASSUME NEW i \in (Len(tasks) + 1)..(Len(tasks) + Len(q) - 1)
      PROVE  s[i] = q[i - Len(tasks) + 1]
  <2>1. i \in 1..(Len(tasks) + (Len(q) - 1)) /\ ~(i <= Len(tasks))
    BY <1>1
  <2>2. s[i] = Tail(q)[i - Len(tasks)]
    BY <2>1, <1>3
  <2>3. i - Len(tasks) \in 1..(Len(q) - 1)
    BY <1>1
  <2> QED
    BY <2>2, <2>3, <1>1, <1>2
<1>6. DOMAIN q = 1..Len(q) /\ DOMAIN tasks = 1..Len(tasks) /\ DOMAIN s = 1..Len(s)
  BY <1>3, LenProperties
<1>7. Head(q) = q[1]
  BY <1>1
<1> HIDE DEF s
<1> QED
  BY <1>1, <1>3, <1>4, <1>5, <1>6, <1>7 DEF s

LEMMA SpliceNoTag ==
  ASSUME NEW S, NEW q \in Seq(S), q # <<>>, NEW tasks \in Seq(S), NEW T,
         NoTag(q, T), NoTag(tasks, T)
  PROVE  NoTag(tasks \o Tail(q), T)
<1> DEFINE s == tasks \o Tail(q)
<1>1. \A i \in DOMAIN s : (i \in DOMAIN tasks /\ s[i] = tasks[i]) \/ (\E j \in DOMAIN q : s[i] = q[j])
  BY SpliceSeq
<1> QED
  BY <1>1 DEF NoTag

LEMMA SpliceLoop ==
  ASSUME NEW S, NEW q \in Seq(S), q # <<>>, NEW tasks \in Seq(S), NoTag(tasks, LoopTags), LoopOK(q),
         q[1].t \notin LoopTags, q[1].t = "delete" => tasks = <<>>
  PROVE  LoopOK(tasks \o Tail(q)) /\ Holding(tasks \o Tail(q)) = Holding(q)
<1> DEFINE s == tasks \o Tail(q)
           n == Len(tasks)
           m == Len(q)
<1>1. /\ m \in Nat /\ m >= 1 /\ n \in Nat /\ DOMAIN q = 1..m /\ DOMAIN tasks = 1..n
      /\ Len(s) = n + m - 1 /\ DOMAIN s = 1..(n + m - 1)
      /\ \A i \in 1..n : s[i] = tasks[i]
      /\ \A i \in (n + 1)..(n + m - 1) : s[i] = q[i - n + 1]
  BY SpliceSeq
<1> HIDE DEF s, n, m
<1>2. \A i \in 1..n : s[i].t \notin LoopTags
  BY <1>1 DEF NoTag
<1>3. LoopOK(s)
  <2> SUFFICES ASSUME NEW i \in DOMAIN s, s[i].t \in LoopTags
               PROVE  /\ s[i].t = "removeall" => Len(s) = 1
                      /\ s[i].t = "rmloop" => i = Len(s)
                      /\ s[i].t = "rmback" => /\ i + 1 = Len(s) /\ s[Len(s)].t = "rmloop"
                                              /\ i = 1 \/ (i = 2 /\ s[1].t = "delete")
    BY DEF LoopOK, LoopTags
  <2>1. i \in (n + 1)..(n + m - 1) /\ s[i] = q[i - n + 1]
    BY <1>1, <1>2
  <2> DEFINE j == i - n + 1
  <2>2. j \in 2..m /\ j \in DOMAIN q
    BY <2>1, <1>1
  <2>3. CASE s[i].t = "removeall"
    BY <2>1, <2>2, <2>3, <1>1 DEF LoopOK, m
  <2>4. CASE s[i].t = "rmloop"
    <3>1. j = m
      BY <2>1, <2>2, <2>4 DEF LoopOK, m
    <3> QED
      BY <2>1, <2>4, <3>1, <1>1
  <2>5. CASE s[i].t = "rmback"
    <3>1. j + 1 = m /\ q[m].t = "rmloop" /\ j = 2 /\ q[1].t = "delete"
      BY <2>1, <2>2, <2>5 DEF LoopOK, m
    <3>2. n = 0 /\ m = 3 /\ i = 1
      BY <2>1, <3>1, <1>1, EmptySeq DEF n
    <3>3. s[2] = q[3]
      BY <1>1, <3>2
    <3> QED
      BY <2>5, <3>1, <3>2, <3>3, <1>1
  <2> QED
    BY <2>3, <2>4, <2>5 DEF LoopTags
<1>4. ASSUME NEW t \in LoopTags
      PROVE  (\E i \in DOMAIN s : s[i].t = t) <=> (\E i \in DOMAIN q : q[i].t = t)
  <2>1. ASSUME NEW i \in DOMAIN s, s[i].t = t PROVE \E j \in DOMAIN q : q[j].t = t
    <3>1. i \in (n + 1)..(n + m - 1) /\ s[i] = q[i - n + 1]
      BY <2>1, <1>1, <1>2
    <3>2. i - n + 1 \in DOMAIN q
      BY <3>1, <1>1
    <3> QED
      BY <2>1, <3>1, <3>2
  <2>2. ASSUME NEW j \in DOMAIN q, q[j].t = t PROVE \E i \in DOMAIN s : s[i].t = t
    <3>1. j # 1
      BY <2>2
    <3>2. j + n - 1 \in (n + 1)..(n + m - 1) /\ (j + n - 1) - n + 1 = j
      BY <3>1, <1>1
    <3>3. s[j + n - 1] = q[j]
      BY <3>2, <1>1
    <3> QED
      BY <2>2, <3>2, <3>3, <1>1
  <2> QED
    BY <2>1, <2>2
<1>5. Holding(s) = Holding(q)
  BY <1>4 DEF Holding, NoTag, LoopTags
<1> QED
  BY <1>3, <1>5 DEF s

LEMMA SpliceSound ==
  ASSUME NEW S, NEW q \in Seq(S), q # <<>>, NEW tasks \in Seq(S),
         NEW f, NEW g, NEW r0, NEW r,
         \A x \in S : f[x.k] # Absent => g[x.k] # Absent,
         Sound(f, q, r0), Sound(g, tasks, r),
         \* what the first task was to see to is there, or among the new ones
         q[1].t \in Suppliers =>
            g[q[1].k] # Absent \/ \E j \in DOMAIN tasks : tasks[j].t \in Suppliers /\ tasks[j].k = q[1].k,
         \* what the next task may build on
         q[1].t = "open" /\ f[q[1].k] # Absent => tasks = <<>> /\ IsFile(r),
         q[1].t = "created" => tasks = <<>> /\ IsFile(r)
  PROVE  Sound(g, tasks \o Tail(q), r)
<1> DEFINE s == tasks \o Tail(q)
           n == Len(tasks)
           m == Len(q)
<1>1. /\ m \in Nat /\ m >= 1 /\ n \in Nat /\ DOMAIN q = 1..m /\ DOMAIN tasks = 1..n
      /\ s \in Seq(S) /\ Len(s) = n + m - 1 /\ DOMAIN s = 1..(n + m - 1)
      /\ \A i \in 1..n : s[i] = tasks[i]
      /\ \A i \in (n + 1)..(n + m - 1) : s[i] = q[i - n + 1]
  BY SpliceSeq
<1>e. tasks = <<>> <=> n = 0
  BY EmptySeq
<1>q. \A i \in 1..m : q[i] \in S
  BY <1>1, ElementOfSeq
<1> HIDE DEF s, n, m
<1>2. ASSUME NEW i \in 1..n
      PROVE  /\ s[i].t \notin Removals
             /\ s[i].t \in {"register", "parent", "self", "enter", "created"} => Supplied(g, s, i)
             /\ s[i].t = "enter" => IF i = 1 THEN IsFile(r)
                                    ELSE s[i - 1].t = "open" /\ s[i - 1].k = s[i].k
             /\ s[i].t \in {"write", "copy"} => IF i = 1 THEN IsFile(r) ELSE s[i - 1].t = "created"
  <2>1. s[i] = tasks[i] /\ \A j \in 1..(i - 1) : j \in 1..n /\ s[j] = tasks[j]
    BY <1>1
  <2>2. Supplied(g, tasks, i) => Supplied(g, s, i)
    BY <2>1 DEF Supplied
  <2>3. i # 1 => i - 1 \in 1..(i - 1)
    BY <1>1
  <2> QED
    BY <1>1, <2>1, <2>2, <2>3 DEF Sound
<1>3. ASSUME NEW i \in (n + 1)..(n + m - 1)
      PROVE  /\ s[i].t \notin Removals
             /\ s[i].t \in {"register", "parent", "self", "enter", "created"} => Supplied(g, s, i)
             /\ s[i].t = "enter" => IF i = 1 THEN IsFile(r)
                                    ELSE s[i - 1].t = "open" /\ s[i - 1].k = s[i].k
             /\ s[i].t \in {"write", "copy"} => IF i = 1 THEN IsFile(r) ELSE s[i - 1].t = "created"
  <2> DEFINE j == i - n + 1
  <2>1. s[i] = q[j] /\ j \in 2..m /\ j \in DOMAIN q /\ j # 1 /\ j - 1 \in 1..m
    BY <1>1
  <2>2. j # 2 => i - 1 \in (n + 1)..(n + m - 1) /\ (i - 1) - n + 1 = j - 1 /\ i # 1
    BY <2>1, <1>1
  <2>3. j # 2 => s[i - 1] = q[j - 1]
    BY <2>2, <1>1
  <2>4. ASSUME Supplied(f, q, j) PROVE Supplied(g, s, i)
    <3>1. CASE f[q[j].k] # Absent
      BY <2>1, <3>1, <1>q DEF Supplied
    <3>2. CASE \E l \in 1..(j - 1) : q[l].t \in Suppliers /\ q[l].k = q[j].k
      <4>1. PICK l \in 1..(j - 1) : q[l].t \in Suppliers /\ q[l].k = q[j].k
        BY <3>2
      <4>2. CASE l = 1
        <5>1. CASE g[q[1].k] # Absent
          BY <4>1, <4>2, <5>1, <2>1 DEF Supplied
        <5>2. CASE \E x \in DOMAIN tasks : tasks[x].t \in Suppliers /\ tasks[x].k = q[1].k
          <6>1. PICK x \in 1..n : tasks[x].t \in Suppliers /\ tasks[x].k = q[1].k
            BY <5>2, <1>1
          <6>2. x \in 1..(i - 1) /\ s[x] = tasks[x]
            BY <1>1
          <6> QED
            BY <6>1, <6>2, <4>1, <4>2, <2>1 DEF Supplied
        <5> QED
          BY <4>1, <4>2, <5>1, <5>2
      <4>3. CASE l # 1
        <5>1. l + n - 1 \in (n + 1)..(n + m - 1) /\ l + n - 1 \in 1..(i - 1) /\ (l + n - 1) - n + 1 = l
          BY <4>3, <2>1, <1>1
        <5>2. s[l + n - 1] = q[l]
          BY <5>1, <1>1
        <5> QED
          BY <5>1, <5>2, <4>1, <2>1 DEF Supplied
      <4> QED
        BY <4>2, <4>3
    <3> QED
      BY <2>4, <3>1, <3>2 DEF Supplied
  <2>5. /\ q[j].t \notin Removals
        /\ q[j].t \in {"register", "parent", "self", "enter", "created"} => Supplied(f, q, j)
        /\ q[j].t = "enter" => q[j - 1].t = "open" /\ q[j - 1].k = q[j].k
        /\ q[j].t \in {"write", "copy"} => q[j - 1].t = "created"
    BY <2>1 DEF Sound
  <2>6. ASSUME q[j].t = "enter", j = 2 PROVE i = 1 /\ IsFile(r)
    <3>1. q[1].t = "open" /\ q[1].k = q[j].k /\ Supplied(f, q, j)
      BY <2>5, <2>6
    <3>2. f[q[1].k] # Absent
      <4>1. \A l \in 1..(j - 1) : l = 1
        BY <2>6
      <4>2. \A l \in 1..(j - 1) : q[l].t \notin Suppliers
        BY <3>1, <4>1 DEF Suppliers
      <4> QED
        BY <3>1, <4>2 DEF Supplied
    <3>3. n = 0
      BY <3>1, <3>2, <1>e
    <3> QED
      BY <3>1, <3>2, <3>3, <2>6, <1>1
  <2>7. ASSUME q[j].t \in {"write", "copy"}, j = 2 PROVE i = 1 /\ IsFile(r)
    <3>1. q[1].t = "created"
      BY <2>5, <2>7
    <3> QED
      BY <3>1, <2>7, <1>1, <1>e
  <2> QED
    BY <2>1, <2>2, <2>3, <2>4, <2>5, <2>6, <2>7
<1>4. DOMAIN s = 1..n \cup (n + 1)..(n + m - 1)
  BY <1>1
<1>5. Sound(g, s, r)
  BY <1>2, <1>3, <1>4 DEF Sound
<1> QED
  BY <1>5 DEF s

-----------------------------------------------------------------------------
(* What a client does next without touching anything shared.               *)

\* Objects are only added.
LEMMA TasksGrow ==
  ASSUME NEW n \in Nat, NEW m \in Nat, n <= m
  PROVE  /\ Tasks(n) \subseteq Tasks(m) /\ Results(n) \subseteq Results(m)
         /\ Seq(Tasks(n)) \subseteq Seq(Tasks(m))
<1>1. 0..n \subseteq 0..m /\ 1..n \subseteq 1..m
  OBVIOUS
<1>2. Tasks(n) \subseteq Tasks(m)
  BY <1>1 DEF Tasks
<1>3. Results(n) \subseteq Results(m)
  BY <1>1 DEF Results
<1>4. Seq(Tasks(n)) \subseteq Seq(Tasks(m))
  BY <1>2
<1> QED
  BY <1>2, <1>3, <1>4

LEMMA KeysHave ==
  /\ RootDir \in Keys
  /\ \A k \in Keys : SplitDir(k) \in Keys /\ Directorify(k) \in Keys /\ Filify(k) \in Keys
                    /\ Other(k) \in Keys /\ k.n \in Nodes
BY TreeAssumption DEF Keys, Key, RootDir, SplitDir, Directorify, Filify, Other

LEMMA TaskTyped ==
  ASSUME NEW n \in Nat, NEW t \in Tags, t \notin {"enter", "copy"}, NEW k \in Keys
  PROVE  Task(t, k) \in Tasks(n) /\ Task(t, k).t = t /\ Task(t, k).k = k
<1>1. << >> \in Seq(Bytes) /\ {} \in SUBSET Keys /\ 0 \in 0..n
  OBVIOUS
<1> QED
  BY <1>1 DEF Tasks, Task, Absent

\* The first steps of a registration.
Opening(pre, x, r) ==
  \A i \in DOMAIN pre :
    /\ pre[i].t \in {"open", "mkdir", "parent", "self", "enter"}
    /\ pre[i].k \in {x.k, SplitDir(x.k)}
    /\ pre[i].t \in {"parent", "self", "enter"} => pre[i].k = x.k
    /\ pre[i].t = "mkdir" => pre[i].k = SplitDir(x.k)
    /\ pre[i].t = "enter" => i = 2 /\ pre[1].t = "open" /\ pre[1].k = x.k

\* A registration goes on with a few tasks in the place of the first.
LEMMA SettleForm ==
  ASSUME NEW n \in Nat, NEW q \in Seq(Tasks(n)), NEW r \in Results(n)
  PROVE  \/ Settle(q, r) = q
         \/ /\ q # <<>> /\ q[1].t \in {"register", "parent", "self"}
            /\ \E pre \in Seq(Tasks(n)) : Settle(q, r) = pre \o Tail(q) /\ Opening(pre, q[1], r)
<1> DEFINE x == q[1]
           k == x.k
<1>1. CASE q = <<>>
  BY <1>1 DEF Settle
<1>2. CASE q # <<>>
  <2>1. Head(q) = x /\ x \in Tasks(n) /\ Tail(q) \in Seq(Tasks(n))
    BY <1>2, HeadTailProperties
  <2>2. k \in Keys /\ SplitDir(k) \in Keys /\ RootDir \in Keys
    BY <2>1, KeysHave DEF Tasks
  <2> DEFINE up == Task("open", SplitDir(k))
             mk == Task("mkdir", SplitDir(k))
             pa == Task("parent", k)
             se == Task("self", k)
             op == Task("open", k)
             en == [Task("enter", k) EXCEPT !.obj = r]
             mr == Task("mkdir", RootDir)
             Step(pre) == Settle(q, r) = pre \o Tail(q)
  <2>3. /\ up \in Tasks(n) /\ mk \in Tasks(n) /\ pa \in Tasks(n) /\ se \in Tasks(n)
        /\ op \in Tasks(n) /\ mr \in Tasks(n)
        /\ up.t = "open" /\ mk.t = "mkdir" /\ pa.t = "parent" /\ se.t = "self" /\ op.t = "open"
        /\ mr.t = "mkdir" /\ pa.k = k /\ se.k = k /\ op.k = k
        /\ up.k = SplitDir(k) /\ mk.k = SplitDir(k) /\ mr.k = RootDir
    <3>1. /\ "open" \in Tags /\ "open" # "enter" /\ "mkdir" \in Tags /\ "mkdir" # "enter"
          /\ "parent" \in Tags /\ "parent" # "enter" /\ "self" \in Tags /\ "self" # "enter"
      BY DEF Tags
    <3> HIDE DEF k
    <3> QED
      BY <2>2, <3>1, TaskTyped
  <2>4. IsFile(r) => en \in Tasks(n)
    <3> SUFFICES ASSUME IsFile(r) PROVE en \in Tasks(n)
      OBVIOUS
    <3>1. r \in 0..n /\ r # 0
      BY DEF IsFile, Results, Nil, Missing, Failed, Fine
    <3> DEFINE All == [t : Tags, k : Keys, to : Keys, obj : 0..n, must : SUBSET Keys,
                       data : Seq(Bytes)]
               y == Task("enter", k)
    <3>2. << >> \in Seq(Bytes) /\ {} \in SUBSET Keys /\ "enter" \in Tags /\ 0 \in 0..n
      BY DEF Tags
    <3>3. y \in All /\ y.t = "enter"
      BY <3>2, <2>2 DEF Task, Absent
    <3> HIDE DEF y
    <3>4. en \in All /\ en.obj = r /\ en.t = "enter"
      BY <3>1, <3>3 DEF en, y
    <3> QED
      BY <3>1, <3>4 DEF Tasks
  <2>5. en.t = "enter" /\ en.k = k
    BY DEF Task
  <2> HIDE DEF up, mk, pa, se, op, en, mr
  <2>6. CASE x.t = "register" /\ k = RootDir
    <3>1. Settle(q, r) = <<mr>> \o Tail(q)
      BY <1>2, <2>1, <2>6 DEF Settle, mr
    <3>2. SplitDir(RootDir) = RootDir
      BY TreeAssumption DEF SplitDir, RootDir, Key
    <3>3. <<mr>> \in Seq(Tasks(n)) /\ Opening(<<mr>>, x, r)
      BY <2>3, <2>6, <3>2 DEF Opening
    <3> QED
      BY <3>1, <3>3, <1>2, <2>6
  <2>7. CASE x.t = "register" /\ k # RootDir
    <3>1. Settle(q, r) = <<up, pa>> \o Tail(q)
      BY <1>2, <2>1, <2>7 DEF Settle, up, pa
    <3>2. <<up, pa>> \in Seq(Tasks(n)) /\ Opening(<<up, pa>>, x, r)
      BY <2>3 DEF Opening
    <3> QED
      BY <3>1, <3>2, <1>2, <2>7
  <2>8. CASE x.t = "parent" /\ IsFile(r)
    <3>1. Settle(q, r) = <<up, se>> \o Tail(q)
      BY <1>2, <2>1, <2>8 DEF Settle, up, se
    <3>2. <<up, se>> \in Seq(Tasks(n)) /\ Opening(<<up, se>>, x, r)
      BY <2>3 DEF Opening
    <3> QED
      BY <3>1, <3>2, <1>2, <2>8
  <2>9. CASE x.t = "parent" /\ ~IsFile(r)
    <3>1. Settle(q, r) = <<mk>> \o <<up, se>> \o Tail(q)
      BY <1>2, <2>1, <2>9 DEF Settle, up, se, mk
    <3> DEFINE pre == <<mk>> \o <<up, se>>
    <3>2. <<mk>> \in Seq(Tasks(n)) /\ <<up, se>> \in Seq(Tasks(n))
      BY <2>3
    <3>3. /\ pre \in Seq(Tasks(n)) /\ DOMAIN pre = 1..3
          /\ pre[1] = mk /\ pre[2] = up /\ pre[3] = se
      BY <3>2
    <3> HIDE DEF pre
    <3>4. Opening(pre, x, r)
      <4>1. \A i \in DOMAIN pre : pre[i] \in {mk, up, se}
        BY <3>3
      <4> QED
        BY <4>1, <2>3 DEF Opening
    <3> QED
      BY <3>1, <3>3, <3>4, <1>2, <2>9 DEF pre
  <2>10. CASE x.t = "self" /\ IsFile(r)
    <3>1. Settle(q, r) = <<op, en>> \o Tail(q)
      BY <1>2, <2>1, <2>10 DEF Settle, op, en
    <3>2. <<op, en>> \in Seq(Tasks(n)) /\ Opening(<<op, en>>, x, r)
      BY <2>3, <2>4, <2>5, <2>10 DEF Opening
    <3> QED
      BY <3>1, <3>2, <1>2, <2>10
  <2>11. CASE x.t = "self" /\ ~IsFile(r)
    <3>1. Settle(q, r) = Tail(q)
      BY <1>2, <2>1, <2>11 DEF Settle
    <3>2. << >> \in Seq(Tasks(n)) /\ Opening(<< >>, x, r) /\ << >> \o Tail(q) = Tail(q)
      BY <2>1 DEF Opening
    <3> QED
      BY <3>1, <3>2, <1>2, <2>11
  <2>12. CASE x.t \notin {"register", "parent", "self"}
    BY <1>2, <2>1, <2>12 DEF Settle
  <2> QED
    BY <2>6, <2>7, <2>8, <2>9, <2>10, <2>11, <2>12
<1> QED
  BY <1>1, <1>2

\* Going on with a registration leaves a list as it should be.
LEMMA SettleKeeps ==
  ASSUME NEW n \in Nat, NEW q \in Seq(Tasks(n)), NEW r \in Results(n)
  PROVE  /\ Settle(q, r) \in Seq(Tasks(n))
         /\ LoopOK(q) => LoopOK(Settle(q, r)) /\ Holding(Settle(q, r)) = Holding(q)
         /\ NoTag(q, {"rename", "move"}) => NoTag(Settle(q, r), {"rename", "move"})
         /\ \A f : Sound(f, q, r) => Sound(f, Settle(q, r), r)
<1>1. CASE Settle(q, r) = q
  BY <1>1
<1>2. CASE /\ q # <<>> /\ q[1].t \in {"register", "parent", "self"}
           /\ \E pre \in Seq(Tasks(n)) : Settle(q, r) = pre \o Tail(q) /\ Opening(pre, q[1], r)
  <2>1. PICK pre \in Seq(Tasks(n)) : Settle(q, r) = pre \o Tail(q) /\ Opening(pre, q[1], r)
    BY <1>2
  <2>2. NoTag(pre, LoopTags) /\ NoTag(pre, {"rename", "move"})
    BY <2>1 DEF Opening, NoTag, LoopTags
  <2>3. q[1].t \notin LoopTags /\ q[1].t # "delete" /\ q[1].t \notin Suppliers
        /\ q[1].t # "open" /\ q[1].t # "created"
    BY <1>2 DEF LoopTags, Suppliers
  <2>4. pre \o Tail(q) \in Seq(Tasks(n)) /\ 1 \in DOMAIN q
    BY <1>2, SpliceSeq
  <2>5. LoopOK(q) => LoopOK(pre \o Tail(q)) /\ Holding(pre \o Tail(q)) = Holding(q)
    BY <1>2, <2>2, <2>3, SpliceLoop
  <2>6. NoTag(q, {"rename", "move"}) => NoTag(pre \o Tail(q), {"rename", "move"})
    BY <1>2, <2>2, SpliceNoTag
  <2>7. ASSUME NEW f, Sound(f, q, r) PROVE Sound(f, pre \o Tail(q), r)
    <3>1. f[q[1].k] # Absent
      <4>1. Supplied(f, q, 1)
        BY <2>4, <2>7, <1>2 DEF Sound
      <4>2. 1..(1 - 1) = {}
        OBVIOUS
      <4> QED
        BY <4>1, <4>2 DEF Supplied
    <3>2. Sound(f, pre, r)
      <4> SUFFICES ASSUME NEW i \in DOMAIN pre
                   PROVE  /\ pre[i].t \notin Removals
                          /\ pre[i].t \in {"register", "parent", "self", "enter", "created"}
                               => Supplied(f, pre, i)
                          /\ pre[i].t = "enter" =>
                               IF i = 1 THEN IsFile(r)
                               ELSE pre[i - 1].t = "open" /\ pre[i - 1].k = pre[i].k
                          /\ pre[i].t \notin {"write", "copy"}
        BY DEF Sound
      <4>1. /\ pre[i].t \in {"open", "mkdir", "parent", "self", "enter"}
            /\ pre[i].t \in {"parent", "self", "enter"} => pre[i].k = q[1].k
            /\ pre[i].t = "enter" => i = 2 /\ pre[1].t = "open" /\ pre[1].k = q[1].k
        BY <2>1 DEF Opening
      <4>2. pre[i].t \notin Removals /\ pre[i].t \notin {"write", "copy"}
        BY <4>1 DEF Removals, LoopTags
      <4>3. pre[i].t \in {"register", "parent", "self", "enter", "created"} => Supplied(f, pre, i)
        BY <4>1, <3>1 DEF Supplied
      <4>4. pre[i].t = "enter" => i # 1 /\ pre[i - 1].t = "open" /\ pre[i - 1].k = pre[i].k
        <5>1. 2 - 1 = 1
          OBVIOUS
        <5> QED
          BY <4>1, <5>1
      <4> QED
        BY <4>2, <4>3, <4>4
    <3> QED
      BY <1>2, <2>3, <2>7, <3>2, SpliceSound
  <2> QED
    BY <2>1, <2>4, <2>5, <2>6, <2>7
<1> QED
  BY <1>1, <1>2, SettleForm

\* What happens to the list of a client when a call returns.
LEMMA GivesKeeps ==
  ASSUME TypeInv, NEW c \in Clients, Busy(c), NEW n \in Nat, Len(files) <= n,
         NEW r \in Results(n), NEW tasks \in Seq(Tasks(n)), Gives(c, r, tasks)
  PROVE  /\ todo' \in [Clients -> Seq(Tasks(n))] /\ res' \in [Clients -> Results(n)]
         /\ \A d \in Clients \ {c} : todo'[d] = todo[d] /\ res'[d] = res[d]
         /\ LoopOK(todo[c]) /\ Top(c).t \notin LoopTags /\ NoTag(tasks, LoopTags)
            /\ (Top(c).t = "delete" => tasks = <<>>)
            => LoopOK(todo'[c]) /\ Holding(todo'[c]) = Holding(todo[c])
         /\ NoTag(todo[c], {"rename", "move"}) /\ NoTag(tasks, {"rename", "move"})
            => NoTag(todo'[c], {"rename", "move"})
         /\ todo'[c] = Settle(tasks \o Tail(todo[c]), r) /\ res'[c] = r
         /\ todo[c] \in Seq(Tasks(n)) /\ tasks \o Tail(todo[c]) \in Seq(Tasks(n))
<1> DEFINE q == todo[c]
           s == tasks \o Tail(q)
<1>1. Len(files) \in Nat
  BY DEF TypeInv, Objects
<1>2. Seq(Tasks(Len(files))) \subseteq Seq(Tasks(n)) /\ Results(Len(files)) \subseteq Results(n)
  BY <1>1, TasksGrow
<1>3. todo \in [Clients -> Seq(Tasks(n))] /\ res \in [Clients -> Results(n)]
  BY <1>2 DEF TypeInv
<1>4. q \in Seq(Tasks(n)) /\ q # <<>>
  BY <1>3 DEF Busy
<1>5. Head(q) = q[1] /\ s \in Seq(Tasks(n))
  BY <1>4, SpliceSeq
<1>6. /\ Settle(s, r) \in Seq(Tasks(n))
      /\ LoopOK(s) => LoopOK(Settle(s, r)) /\ Holding(Settle(s, r)) = Holding(s)
      /\ NoTag(s, {"rename", "move"}) => NoTag(Settle(s, r), {"rename", "move"})
  BY <1>5, SettleKeeps
<1>7. /\ todo' = [todo EXCEPT ![c] = Settle(s, r)] /\ res' = [res EXCEPT ![c] = r]
  BY DEF Gives
<1>8. /\ todo'[c] = Settle(s, r) /\ res'[c] = r
      /\ \A d \in Clients \ {c} : todo'[d] = todo[d] /\ res'[d] = res[d]
      /\ todo' \in [Clients -> Seq(Tasks(n))] /\ res' \in [Clients -> Results(n)]
  BY <1>3, <1>6, <1>7
<1>9. LoopOK(q) /\ q[1].t \notin LoopTags /\ NoTag(tasks, LoopTags)
      /\ (q[1].t = "delete" => tasks = <<>>)
      => LoopOK(s) /\ Holding(s) = Holding(q)
  BY <1>4, SpliceLoop
<1>10. NoTag(q, {"rename", "move"}) /\ NoTag(tasks, {"rename", "move"})
       => NoTag(s, {"rename", "move"})
  BY <1>4, SpliceNoTag
<1>11. Top(c) = q[1]
  BY <1>5 DEF Top
<1> HIDE DEF q, s
<1>12. LoopOK(q) /\ Top(c).t \notin LoopTags /\ NoTag(tasks, LoopTags)
       /\ (Top(c).t = "delete" => tasks = <<>>)
       => LoopOK(todo'[c]) /\ Holding(todo'[c]) = Holding(q)
  BY <1>6, <1>8, <1>9, <1>11
<1>13. NoTag(q, {"rename", "move"}) /\ NoTag(tasks, {"rename", "move"})
       => NoTag(todo'[c], {"rename", "move"})
  BY <1>6, <1>8, <1>10
<1> QED
  BY <1>4, <1>5, <1>8, <1>12, <1>13 DEF q, s

-----------------------------------------------------------------------------
(* Calls.                                                                  *)

\* While nothing is removed, what is called for is there.
Builds(c, r, tasks) ==
  /\ \A k \in Keys : fos[k] # Absent => fos'[k] # Absent
  /\ Filled' /\ Sound(fos', tasks, r)
  /\ Top(c).t \in Suppliers =>
       fos'[Top(c).k] # Absent
       \/ \E j \in DOMAIN tasks : tasks[j].t \in Suppliers /\ tasks[j].k = Top(c).k
  /\ Top(c).t = "open" /\ fos[Top(c).k] # Absent => tasks = <<>> /\ IsFile(r)
  /\ Top(c).t = "created" => tasks = <<>> /\ IsFile(r)

\* A call of the client c returns r and leaves it with the given tasks; no
\* read lock stays, or is given back.
Calling(c, r, tasks) ==
  /\ setup' = setup /\ readers' = readers /\ cut' = cut /\ panicked' = panicked
  /\ waiting' = waiting \ {c}
  /\ Gives(c, r, tasks) /\ r \in Results(Len(files')) /\ tasks \in Seq(Tasks(Len(files')))
  /\ Objects' /\ Len(files) <= Len(files')
  /\ NoTag(tasks, LoopTags) /\ (Top(c).t = "delete" => tasks = <<>>)
  /\ "Rename" \notin cut => (\A k \in Keys : fos'[k] # Nil) /\ NoTag(tasks, {"rename", "move"})
  /\ cut = {} => Builds(c, r, tasks)

LEMMA SoundGrow ==
  ASSUME NEW n, NEW q \in Seq(Tasks(n)), NEW f, NEW g, NEW r, Sound(f, q, r),
         \A k \in Keys : f[k] # Absent => g[k] # Absent
  PROVE  Sound(g, q, r)
<1>1. \A i \in DOMAIN q : q[i].k \in Keys
  BY ElementOfSeq, LenProperties DEF Tasks
<1>2. \A i \in DOMAIN q : Supplied(f, q, i) => Supplied(g, q, i)
  BY <1>1 DEF Supplied
<1> QED
  BY <1>2 DEF Sound

\* Only a task that takes the lock lets a client wait for it.
LEMMA NotWaiting ==
  ASSUME TypeInv, NEW c \in Clients, ~(Busy(c) /\ Top(c).t \in Locking)
  PROVE  waiting \ {c} = waiting
BY DEF TypeInv

LEMMA CallKeeps ==
  ASSUME MemInv, NEW c \in Clients, Busy(c), Top(c).t \notin LoopTags, NEW r, NEW tasks,
         Calling(c, r, tasks)
  PROVE  MemInv'
<1> DEFINE n == Len(files')
<1> USE DEF MemInv
<1>1. n \in Nat /\ Len(files) <= n
  BY DEF Calling, Objects
<1>2. r \in Results(n) /\ tasks \in Seq(Tasks(n)) /\ Gives(c, r, tasks)
  BY DEF Calling
<1>3. todo' \in [Clients -> Seq(Tasks(n))] /\ res' \in [Clients -> Results(n)]
  BY <1>1, <1>2, GivesKeeps
<1>4. \A d \in Clients \ {c} : todo'[d] = todo[d] /\ res'[d] = res[d]
  BY <1>1, <1>2, GivesKeeps
<1>5. LoopOK(todo[c]) /\ Top(c).t \notin LoopTags /\ NoTag(tasks, LoopTags)
      /\ (Top(c).t = "delete" => tasks = <<>>)
      => LoopOK(todo'[c]) /\ Holding(todo'[c]) = Holding(todo[c])
  BY <1>1, <1>2, GivesKeeps
<1>6. NoTag(todo[c], {"rename", "move"}) /\ NoTag(tasks, {"rename", "move"})
      => NoTag(todo'[c], {"rename", "move"})
  BY <1>1, <1>2, GivesKeeps
<1>7. todo'[c] = Settle(tasks \o Tail(todo[c]), r) /\ res'[c] = r
  BY <1>1, <1>2, GivesKeeps
<1>8. todo[c] \in Seq(Tasks(n)) /\ tasks \o Tail(todo[c]) \in Seq(Tasks(n))
  BY <1>1, <1>2, GivesKeeps
<1>9. TypeInv'
  <2>1. ASSUME NEW d \in waiting' PROVE Busy(d)' /\ Top(d)'.t \in Locking
    BY <1>4 DEF Calling, TypeInv, Busy, Top
  <2>2. waiting' \in SUBSET Clients
    BY DEF Calling, TypeInv
  <2> QED
    BY <1>3, <2>1, <2>2 DEF Calling, TypeInv
<1>10. ReadersInv'
  <2>1. LoopOK(todo'[c]) /\ Holding(todo'[c]) = Holding(todo[c])
    BY <1>5 DEF Calling, ReadersInv
  <2>2. \A d \in Clients : LoopOK(todo'[d]) /\ Holding(todo'[d]) = Holding(todo[d])
    BY <1>4, <2>1 DEF ReadersInv
  <2> QED
    BY <2>2 DEF Calling, ReadersInv
<1>11. NilInv'
  BY <1>4, <1>6 DEF Calling, NilInv
<1>12. SoundInv'
  <2> SUFFICES ASSUME cut' = {}
               PROVE  panicked' \subseteq {"fatal"} /\ Filled'
                      /\ \A d \in Clients : Sound(fos', todo'[d], res'[d])
    BY DEF SoundInv
  <2>1. Builds(c, r, tasks) /\ panicked' = panicked /\ cut = {}
    BY DEF Calling
  <2>2. \A d \in Clients : Sound(fos, todo[d], res[d])
    BY <2>1 DEF SoundInv
  <2>3. \A k \in Keys : fos[k] # Absent => fos'[k] # Absent
    BY <2>1 DEF Builds
  <2>4. ASSUME NEW d \in Clients, d # c PROVE Sound(fos', todo'[d], res'[d])
    BY <2>2, <2>3, <2>4, <1>4, SoundGrow DEF TypeInv
  <2>5. Sound(fos', todo'[c], res'[c])
    <3> DEFINE q == todo[c]
    <3>1. q \in Seq(Tasks(n)) /\ q # <<>> /\ Head(q) = q[1] /\ Top(c) = q[1]
      BY <1>8 DEF Busy, Top
    <3>2. \A x \in Tasks(n) : fos[x.k] # Absent => fos'[x.k] # Absent
      BY <2>3 DEF Tasks
    <3>3. Sound(fos, q, res[c]) /\ Sound(fos', tasks, r)
      BY <2>1, <2>2 DEF Builds
    <3>4. /\ q[1].t \in Suppliers =>
                fos'[q[1].k] # Absent
                \/ \E j \in DOMAIN tasks : tasks[j].t \in Suppliers /\ tasks[j].k = q[1].k
          /\ q[1].t = "open" /\ fos[q[1].k] # Absent => tasks = <<>> /\ IsFile(r)
          /\ q[1].t = "created" => tasks = <<>> /\ IsFile(r)
      BY <2>1, <3>1 DEF Builds
    <3> HIDE DEF q
    <3>5. Sound(fos', tasks \o Tail(q), r)
      BY <1>2, <3>1, <3>2, <3>3, <3>4, SpliceSound
    <3>6. tasks \o Tail(q) \in Seq(Tasks(n))
      BY <1>8 DEF q
    <3>7. \A f : Sound(f, tasks \o Tail(q), r) => Sound(f, Settle(tasks \o Tail(q), r), r)
      BY <1>1, <1>2, <3>6, SettleKeeps
    <3>8. Sound(fos', Settle(tasks \o Tail(q), r), r)
      BY <3>5, <3>7
    <3> QED
      BY <3>8, <1>7 DEF q
  <2>6. panicked \subseteq {"fatal"}
    BY <2>1 DEF SoundInv
  <2> QED
    BY <2>1, <2>4, <2>5, <2>6 DEF Builds
<1> QED
  BY <1>9, <1>10, <1>11, <1>12

\* The call at hand.
LEMMA TopTyped ==
  ASSUME TypeInv, NEW c \in Clients, Busy(c)
  PROVE  /\ Len(files) \in Nat /\ DOMAIN files = 1..Len(files)
         /\ Top(c) = todo[c][1] /\ Top(c) \in Tasks(Len(files)) /\ 1 \in DOMAIN todo[c]
         /\ Top(c).k \in Keys /\ Top(c).to \in Keys /\ Top(c).data \in Seq(Bytes)
         /\ Top(c).obj \in 0..Len(files) /\ (Top(c).t = "enter" => Top(c).obj # 0)
         /\ (Top(c).t = "copy" => Top(c).data # <<>>)
         /\ res[c] \in Results(Len(files)) /\ (IsFile(res[c]) => res[c] \in DOMAIN files)
<1>1. Len(files) \in Nat /\ DOMAIN files = 1..Len(files)
  BY LenProperties DEF TypeInv, Objects
<1>2. todo[c] \in Seq(Tasks(Len(files))) /\ todo[c] # <<>> /\ res[c] \in Results(Len(files))
  BY DEF TypeInv, Busy
<1>3. Top(c) = todo[c][1] /\ Top(c) \in Tasks(Len(files)) /\ 1 \in DOMAIN todo[c]
  BY <1>2, SpliceSeq, HeadTailProperties DEF Top
<1>4. IsFile(res[c]) => res[c] \in DOMAIN files
  BY <1>1, <1>2 DEF IsFile, Results, Nil, Missing, Failed, Fine
<1> QED
  BY <1>1, <1>2, <1>3, <1>4 DEF Tasks

\* While nothing is removed, the call at hand has what it builds on.
LEMMA TopSound ==
  ASSUME MemInv, NEW c \in Clients, Busy(c), cut = {}
  PROVE  /\ Top(c).t \notin Removals /\ Filled
         /\ Top(c).t \in {"register", "enter", "created"} => fos[Top(c).k] # Absent
         /\ Top(c).t \in {"enter", "write", "copy"} => IsFile(res[c])
         /\ \A k \in Keys : fos[k] # Nil
<1>1. Top(c) = todo[c][1] /\ 1 \in DOMAIN todo[c]
  BY TopTyped DEF MemInv
<1>2. Sound(fos, todo[c], res[c]) /\ Filled
  BY DEF MemInv, SoundInv
<1>3. 1..(1 - 1) = {}
  OBVIOUS
<1>4. ~\E j \in 1..(1 - 1) : todo[c][j].t \in Suppliers /\ todo[c][j].k = todo[c][1].k
  BY <1>3
<1>5. Supplied(fos, todo[c], 1) => fos[todo[c][1].k] # Absent
  BY <1>4 DEF Supplied
<1>6. \A k \in Keys : fos[k] # Nil
  BY DEF MemInv, NilInv
<1> QED
  BY <1>1, <1>2, <1>5, <1>6 DEF Sound

LEMMA NoTasks ==
  ASSUME NEW S, NEW T, NEW f, NEW r
  PROVE  << >> \in Seq(S) /\ NoTag(<< >>, T) /\ Sound(f, << >>, r)
BY DEF NoTag, Sound

LEMMA OneTask ==
  ASSUME NEW S, NEW x \in S, NEW f, NEW r
  PROVE  /\ <<x>> \in Seq(S)
         /\ \A T : x.t \notin T => NoTag(<<x>>, T)
         /\ x.t \notin Removals \cup {"register", "parent", "self", "enter", "created", "write", "copy"}
            => Sound(f, <<x>>, r)
<1>1. <<x>> \in Seq(S) /\ DOMAIN <<x>> = {1} /\ <<x>>[1] = x
  OBVIOUS
<1> QED
  BY <1>1 DEF NoTag, Sound

\* A call that changes neither map nor objects.
LEMMA QuietCall ==
  ASSUME MemInv, NEW c \in Clients, Busy(c), Top(c).t \notin LoopTags, NEW r, NEW tasks,
         setup' = setup, fos' = fos, files' = files, readers' = readers, cut' = cut,
         panicked' = panicked, waiting' = waiting \ {c}, Gives(c, r, tasks),
         r \in Results(Len(files)), tasks \in Seq(Tasks(Len(files))), NoTag(tasks, LoopTags),
         Top(c).t = "delete" => tasks = <<>>,
         "Rename" \notin cut => NoTag(tasks, {"rename", "move"}),
         cut = {} => /\ Sound(fos, tasks, r)
                     /\ Top(c).t \in Suppliers =>
                          fos[Top(c).k] # Absent
                          \/ \E j \in DOMAIN tasks : tasks[j].t \in Suppliers /\ tasks[j].k = Top(c).k
                     /\ Top(c).t = "open" /\ fos[Top(c).k] # Absent => tasks = <<>> /\ IsFile(r)
                     /\ Top(c).t = "created" => tasks = <<>> /\ IsFile(r)
  PROVE  MemInv'
<1>1. Objects' /\ Len(files) <= Len(files')
  BY DEF MemInv, TypeInv, Objects
<1>2. "Rename" \notin cut => (\A k \in Keys : fos'[k] # Nil)
  BY DEF MemInv, NilInv
<1>3. cut = {} => Filled'
  BY DEF MemInv, SoundInv, Filled
<1>4. Calling(c, r, tasks)
  BY <1>1, <1>2, <1>3 DEF Calling, Builds
<1> QED
  BY <1>4, CallKeeps

\* A call that returns with nothing left to do, in a result that may differ.
LEMMA QuietReturn ==
  ASSUME MemInv, NEW c \in Clients, Busy(c), Top(c).t \notin LoopTags, NEW r,
         setup' = setup, fos' = fos, files' = files, readers' = readers, cut' = cut,
         panicked' = panicked, waiting' = waiting \ {c}, Gives(c, r, <<>>),
         r \in Results(Len(files)),
         cut = {} => /\ Top(c).t \in Suppliers => fos[Top(c).k] # Absent
                     /\ Top(c).t = "open" /\ fos[Top(c).k] # Absent => IsFile(r)
                     /\ Top(c).t = "created" => IsFile(r)
  PROVE  MemInv'
<1>1. /\ << >> \in Seq(Tasks(Len(files))) /\ NoTag(<< >>, LoopTags)
      /\ NoTag(<< >>, {"rename", "move"}) /\ Sound(fos, << >>, r)
  BY NoTasks
<1> QED
  BY <1>1, QuietCall

LEMMA CreatedKeeps ==
  ASSUME MemInv, NEW c \in Clients, Created(c)
  PROVE  MemInv'
<1> DEFINE r == IF fos[Top(c).k] = Absent THEN Nil ELSE fos[Top(c).k]
<1>1. Busy(c) /\ Top(c).t = "created" /\ TypeInv
  BY DEF Created, At, Top, MemInv
<1>2. Top(c).k \in Keys /\ Len(files) \in Nat
  BY <1>1, TopTyped
<1>3. r \in Results(Len(files))
  BY <1>1, <1>2 DEF TypeInv, Objects, Results
<1>4. cut = {} => IsFile(r)
  <2> SUFFICES ASSUME cut = {} PROVE IsFile(r)
    OBVIOUS
  <2>1. fos[Top(c).k] # Absent /\ fos[Top(c).k] # Nil
    BY <1>1, <1>2, TopSound
  <2> QED
    BY <1>1, <1>2, <2>1 DEF TypeInv, Objects, IsFile
<1>5. waiting \ {c} = waiting
  BY <1>1, NotWaiting DEF Locking
<1>6. Gives(c, r, <<>>) /\ UNCHANGED <<setup, fos, files, readers, waiting, cut, panicked>>
  BY DEF Created
<1> HIDE DEF r
<1> QED
  BY <1>1, <1>3, <1>4, <1>5, <1>6, QuietReturn DEF LoopTags, Suppliers

LEMMA ShadowDirKeeps ==
  ASSUME MemInv, NEW c \in Clients, ShadowDir(c)
  PROVE  MemInv'
<1> DEFINE p == IF Top(c).k.f = "dir" THEN Top(c).k ELSE SplitDir(Top(c).k)
           r == IF IsFile(fos[p]) THEN fos[p] ELSE Failed
<1>1. Busy(c) /\ Top(c).t = "shadowdir" /\ TypeInv
  BY DEF ShadowDir, At, Top, MemInv
<1>2. p \in Keys /\ Len(files) \in Nat
  BY <1>1, TopTyped, KeysHave
<1>3. r \in Results(Len(files))
  BY <1>1, <1>2 DEF TypeInv, Objects, Results, IsFile, Nil, Absent
<1>4. waiting \ {c} = waiting
  BY <1>1, NotWaiting DEF Locking
<1>5. Gives(c, r, <<>>) /\ UNCHANGED <<setup, fos, files, readers, waiting, cut, panicked>>
  BY DEF ShadowDir
<1> HIDE DEF r
<1> QED
  BY <1>1, <1>3, <1>4, <1>5, QuietReturn DEF LoopTags, Suppliers

\* Fetch, Pass and Touch end a call and change nothing.
LEMMA FetchKeeps ==
  ASSUME MemInv, NEW c \in Clients, Fetch(c) \/ Pass(c) \/ Touch(c)
  PROVE  MemInv'
<1>1. Busy(c) /\ Top(c).t \in {"fetch", "pass", "touch"} /\ TypeInv
  BY DEF Fetch, Pass, Touch, At, Top, MemInv
<1>2. res[c] \in Results(Len(files))
  BY <1>1, TopTyped
<1>3. waiting' = waiting \ {c}
  <2>1. CASE Fetch(c) \/ Pass(c)
    <3>1. Top(c).t \notin Locking
      BY <2>1 DEF Fetch, Pass, At, Top, Locking
    <3> QED
      BY <1>1, <2>1, <3>1, NotWaiting DEF Fetch, Pass
  <2>2. CASE Touch(c)
    BY <2>2 DEF Touch, Unlock
  <2> QED
    BY <2>1, <2>2
<1>4. Gives(c, res[c], <<>>) /\ UNCHANGED <<setup, fos, files, readers, cut, panicked>>
  BY DEF Fetch, Pass, Touch, Then
<1> QED
  BY <1>1, <1>2, <1>3, <1>4, QuietReturn DEF LoopTags, Suppliers

LEMMA ChmodKeeps ==
  ASSUME MemInv, NEW c \in Clients, Chmod(c)
  PROVE  MemInv'
<1> DEFINE x == Task("touch", Top(c).k)
           tasks == IF IsFile(fos[Top(c).k]) THEN <<x>> ELSE <<>>
<1>1. Busy(c) /\ Top(c).t = "chmod" /\ TypeInv
  BY DEF Chmod, At, Top, MemInv
<1>2. res[c] \in Results(Len(files)) /\ Len(files) \in Nat /\ Top(c).k \in Keys
  BY <1>1, TopTyped
<1>3. x \in Tasks(Len(files)) /\ x.t = "touch"
  BY <1>2, TaskTyped DEF Tags, Locking
<1>4. waiting \ {c} = waiting
  BY <1>1, NotWaiting DEF Locking
<1>5. Gives(c, res[c], tasks) /\ UNCHANGED <<setup, fos, files, readers, waiting, cut, panicked>>
  BY DEF Chmod, Then
<1> HIDE DEF x
<1>6. x.t \notin Removals \cup {"register", "parent", "self", "enter", "created", "write", "copy"}
      /\ x.t \notin LoopTags /\ x.t \notin {"rename", "move"}
  BY <1>3 DEF Removals, LoopTags
<1>7. /\ <<x>> \in Seq(Tasks(Len(files))) /\ NoTag(<<x>>, LoopTags)
      /\ NoTag(<<x>>, {"rename", "move"}) /\ Sound(fos, <<x>>, res[c])
  BY <1>3, <1>6, OneTask
<1>8. /\ << >> \in Seq(Tasks(Len(files))) /\ NoTag(<< >>, LoopTags)
      /\ NoTag(<< >>, {"rename", "move"}) /\ Sound(fos, << >>, res[c])
  BY NoTasks
<1>9. /\ tasks \in Seq(Tasks(Len(files))) /\ NoTag(tasks, LoopTags)
      /\ NoTag(tasks, {"rename", "move"}) /\ Sound(fos, tasks, res[c])
  BY <1>7, <1>8
<1> HIDE DEF tasks
<1> QED
  BY <1>1, <1>2, <1>4, <1>5, <1>9, QuietCall DEF LoopTags, Suppliers

LEMMA RenameKeeps ==
  ASSUME MemInv, NEW c \in Clients, Rename(c)
  PROVE  MemInv'
<1> DEFINE x == [Top(c) EXCEPT !.t = "move"]
           tasks == IF fos[Top(c).k] # Absent /\ fos[Top(c).to] = Absent THEN <<x>> ELSE <<>>
<1>1. Busy(c) /\ Top(c).t = "rename" /\ TypeInv
  BY DEF Rename, At, Top, MemInv
<1>2. res[c] \in Results(Len(files)) /\ Top(c) \in Tasks(Len(files)) /\ Top(c) = todo[c][1]
      /\ 1 \in DOMAIN todo[c]
  BY <1>1, TopTyped
<1>3. x \in Tasks(Len(files)) /\ x.t = "move"
  <2> DEFINE y == Top(c)
  <2> HIDE DEF y
  <2>1. "move" \in Tags /\ "move" # "enter"
    BY DEF Tags, Removals
  <2>2. y \in Tasks(Len(files))
    BY <1>2 DEF y
  <2>3. [y EXCEPT !.t = "move"] \in Tasks(Len(files)) /\ [y EXCEPT !.t = "move"].t = "move"
    BY <2>1, <2>2 DEF Tasks
  <2> QED
    BY <2>3 DEF y
<1>4. waiting \ {c} = waiting
  BY <1>1, NotWaiting DEF Locking
<1>5. Gives(c, res[c], tasks) /\ UNCHANGED <<setup, fos, files, readers, waiting, cut, panicked>>
  BY DEF Rename, Then
<1> HIDE DEF x
<1>6. x.t \notin LoopTags
  BY <1>3 DEF LoopTags
<1>7. <<x>> \in Seq(Tasks(Len(files))) /\ NoTag(<<x>>, LoopTags)
  BY <1>3, <1>6, OneTask
<1>8. << >> \in Seq(Tasks(Len(files))) /\ NoTag(<< >>, LoopTags)
  BY NoTasks
<1>9. tasks \in Seq(Tasks(Len(files))) /\ NoTag(tasks, LoopTags)
  BY <1>7, <1>8
<1>10. "Rename" \in cut
  BY <1>1, <1>2 DEF MemInv, NilInv, NoTag
<1> HIDE DEF tasks
<1> QED
  BY <1>1, <1>2, <1>4, <1>5, <1>9, <1>10, QuietCall DEF LoopTags

LEMMA MkdirKeeps ==
  ASSUME MemInv, NEW c \in Clients, Mkdir(c)
  PROVE  MemInv'
<1> DEFINE k == Top(c).k
           x == Task("putdir", k)
           y == Task("register", k)
           r == res[c]
<1>1. Busy(c) /\ Top(c).t = "mkdir" /\ TypeInv
  BY DEF Mkdir, At, Top, MemInv
<1>2. r \in Results(Len(files)) /\ Len(files) \in Nat /\ k \in Keys
  BY <1>1, TopTyped
<1>3. waiting \ {c} = waiting
  BY <1>1, NotWaiting DEF Locking
<1>4. CASE fos[k] # Absent
  <2>1. Gives(c, r, <<>>) /\ UNCHANGED <<setup, fos, files, readers, waiting, cut, panicked>>
    BY <1>4 DEF Mkdir, Then
  <2> QED
    BY <1>1, <1>2, <1>3, <1>4, <2>1, QuietReturn DEF LoopTags, Suppliers
<1>5. CASE fos[k] = Absent
  <2>1. Gives(c, r, <<x, y>>) /\ UNCHANGED <<setup, fos, files, readers, waiting, cut, panicked>>
    BY <1>5 DEF Mkdir, Then
  <2>2. x \in Tasks(Len(files)) /\ x.t = "putdir" /\ x.k = k
    BY <1>2, TaskTyped DEF Tags, Locking
  <2>3. y \in Tasks(Len(files)) /\ y.t = "register" /\ y.k = k
    BY <1>2, TaskTyped DEF Tags
  <2> DEFINE tasks == <<x, y>>
  <2> HIDE DEF x, y, r
  <2>4. /\ tasks \in Seq(Tasks(Len(files))) /\ DOMAIN tasks = {1, 2}
        /\ tasks[1] = x /\ tasks[2] = y
    BY <2>2, <2>3
  <2> HIDE DEF tasks
  <2>5. NoTag(tasks, LoopTags) /\ NoTag(tasks, {"rename", "move"})
    BY <2>2, <2>3, <2>4 DEF NoTag, LoopTags
  <2>6. Sound(fos, tasks, r)
    <3>1. Supplied(fos, tasks, 2)
      BY <2>2, <2>3, <2>4 DEF Supplied, Suppliers
    <3> QED
      BY <2>2, <2>3, <2>4, <3>1 DEF Sound, Removals, LoopTags
  <2>7. \E j \in DOMAIN tasks : tasks[j].t \in Suppliers /\ tasks[j].k = k
    BY <2>2, <2>4 DEF Suppliers
  <2>8. Gives(c, r, tasks)
    BY <2>1 DEF tasks
  <2> QED
    BY <1>1, <1>2, <1>3, <2>1, <2>4, <2>5, <2>6, <2>7, <2>8, QuietCall DEF LoopTags
<1> QED
  BY <1>4, <1>5

-----------------------------------------------------------------------------
(* Calls that change the map.                                              *)

LEMMA DeleteKeeps ==
  ASSUME MemInv, NEW c \in Clients, Delete(c)
  PROVE  MemInv'
<1>1. Busy(c) /\ Top(c).t = "delete" /\ TypeInv
  BY DEF Delete, At, Top, MemInv
<1>2. /\ res[c] \in Results(Len(files)) /\ Len(files) \in Nat
  BY <1>1, TopTyped
<1>3. /\ fos' = [fos EXCEPT ![Top(c).k] = Absent] /\ waiting' = waiting \ {c}
      /\ Gives(c, res[c], <<>>) /\ UNCHANGED <<setup, files, readers, cut, panicked>>
  BY DEF Delete, Unlock, Then
<1>4. fos' \in [Keys -> {Absent, Nil} \cup 1..Len(files)]
  BY <1>1, <1>3 DEF TypeInv, Objects
<1>5. Objects' /\ Len(files) <= Len(files')
  BY <1>1, <1>2, <1>3, <1>4 DEF TypeInv, Objects
<1>6. "Rename" \notin cut => \A k \in Keys : fos'[k] # Nil
  BY <1>1, <1>3 DEF MemInv, NilInv, TypeInv, Objects, Absent, Nil
<1>7. cut # {}
  BY <1>1, TopSound DEF Removals
<1>8. /\ << >> \in Seq(Tasks(Len(files))) /\ NoTag(<< >>, LoopTags)
      /\ NoTag(<< >>, {"rename", "move"})
  BY NoTasks
<1>9. Calling(c, res[c], <<>>)
  BY <1>2, <1>3, <1>5, <1>6, <1>7, <1>8 DEF Calling
<1> QED
  BY <1>1, <1>9, CallKeeps DEF LoopTags

LEMMA MoveKeeps ==
  ASSUME MemInv, NEW c \in Clients, Move(c)
  PROVE  MemInv'
<1> DEFINE k == Top(c).k
           x == IF fos[k] = Absent THEN Nil ELSE fos[k]
           y == Task("pass", k)
<1>1. Busy(c) /\ Top(c).t = "move" /\ TypeInv
  BY DEF Move, At, Top, MemInv
<1>2. /\ res[c] \in Results(Len(files)) /\ Len(files) \in Nat /\ k \in Keys /\ Top(c).to \in Keys
      /\ Top(c) = todo[c][1] /\ 1 \in DOMAIN todo[c]
  BY <1>1, TopTyped
<1>3. /\ fos' = [[fos EXCEPT ![Top(c).to] = x] EXCEPT ![k] = Absent] /\ waiting' = waiting \ {c}
      /\ Gives(c, res[c], <<y>>) /\ UNCHANGED <<setup, files, readers, cut, panicked>>
  BY DEF Move, Unlock, Then
<1>4. fos' \in [Keys -> {Absent, Nil} \cup 1..Len(files)]
  BY <1>1, <1>2, <1>3 DEF TypeInv, Objects
<1>5. Objects' /\ Len(files) <= Len(files')
  BY <1>1, <1>2, <1>3, <1>4 DEF TypeInv, Objects
<1>6. "Rename" \in cut
  BY <1>1, <1>2 DEF MemInv, NilInv, NoTag
<1>7. y \in Tasks(Len(files)) /\ y.t = "pass"
  BY <1>2, TaskTyped DEF Tags
<1> HIDE DEF y
<1>8. <<y>> \in Seq(Tasks(Len(files))) /\ NoTag(<<y>>, LoopTags)
  BY <1>7, OneTask DEF LoopTags
<1>9. Calling(c, res[c], <<y>>)
  BY <1>1, <1>2, <1>3, <1>5, <1>6, <1>8 DEF Calling
<1> QED
  BY <1>1, <1>9, CallKeeps DEF LoopTags

\* A put adds an object, which is called by the key that it is put under.
LEMMA PutKeeps ==
  ASSUME MemInv, NEW c \in Clients, Put(c)
  PROVE  MemInv'
<1> DEFINE k == Top(c).k
           g == NewFile(k, At(c, "putdir"))
           n == Len(files)
<1>1. Busy(c) /\ Top(c).t \in {"put", "putdir"} /\ TypeInv
  BY DEF Put, At, Top, MemInv
<1>2. /\ res[c] \in Results(n) /\ n \in Nat /\ k \in Keys /\ DOMAIN files = 1..n
  BY <1>1, TopTyped
<1>3. /\ files' = Append(files, g) /\ fos' = [fos EXCEPT ![k] = Len(files')]
      /\ waiting' = waiting \ {c} /\ Gives(c, res[c], <<>>)
      /\ UNCHANGED <<setup, readers, cut, panicked>>
  BY DEF Put, Unlock, Then
<1>4. MemDirs(n) \subseteq MemDirs(n + 1) /\ File(n) \subseteq File(n + 1)
  <2>1. 1..n \subseteq 1..(n + 1)
    BY <1>2
  <2>2. MemDirs(n) \subseteq MemDirs(n + 1)
    BY <2>1 DEF MemDirs
  <2> QED
    BY <2>2 DEF File
<1>5. g \in File(n + 1) /\ g.at <= Len(g.data) /\ g.name = k /\ DOMAIN g.memDir = {}
  <2>1. [x \in {} |-> 0] \in MemDirs(n + 1)
    <3>1. [x \in {} |-> 0] \in [{} -> {Nil} \cup 1..(n + 1)] /\ {} \in SUBSET Keys
      OBVIOUS
    <3> QED
      BY <3>1 DEF MemDirs
  <2>2. << >> \in Seq(Bytes) /\ Len(<< >>) = 0 /\ At(c, "putdir") \in BOOLEAN
    BY DEF At, Busy
  <2>3. g.at = 0 /\ g.data = << >> /\ g.name = k /\ g.memDir = [x \in {} |-> 0]
    BY DEF NewFile
  <2>4. g \in File(n + 1)
    BY <1>2, <2>1, <2>2 DEF NewFile, File
  <2> HIDE DEF g
  <2>5. DOMAIN g.memDir = {}
    BY <2>3
  <2> QED
    BY <2>2, <2>3, <2>4, <2>5
<1> HIDE DEF g, k
<1>6. files \in Seq(File(n)) /\ fos \in [Keys -> {Absent, Nil} \cup 1..n]
      /\ \A i \in 1..n : files[i].at <= Len(files[i].data)
  BY <1>1, <1>2 DEF TypeInv, Objects
<1>7. files \in Seq(File(n + 1))
  BY <1>4, <1>6
<1>8. /\ files' \in Seq(File(n + 1)) /\ Len(files') = n + 1 /\ DOMAIN files' = 1..(n + 1)
      /\ \A i \in 1..n : files'[i] = files[i]
      /\ files'[n + 1] = g
  <2>1. /\ Append(files, g) \in Seq(File(n + 1)) /\ Len(Append(files, g)) = Len(files) + 1
        /\ \A i \in 1..Len(files) : Append(files, g)[i] = files[i]
        /\ Append(files, g)[Len(files) + 1] = g
    BY <1>5, <1>7, AppendProperties
  <2>2. DOMAIN Append(files, g) = 1..(n + 1)
    BY <2>1, LenProperties
  <2> QED
    BY <2>1, <2>2, <1>3
<1>9. \A i \in DOMAIN files' : files'[i].at <= Len(files'[i].data)
  <2>1. \A i \in DOMAIN files' : i \in 1..n \/ i = n + 1
    BY <1>2, <1>8
  <2> QED
    BY <1>5, <1>6, <1>8, <2>1
<1>10. fos' \in [Keys -> {Absent, Nil} \cup 1..(n + 1)] /\ \A l \in Keys : fos'[l] = IF l = k THEN n + 1 ELSE fos[l]
  <2>1. fos' = [fos EXCEPT ![k] = n + 1]
    BY <1>3, <1>8
  <2>2. n + 1 \in 1..(n + 1) /\ 1..n \subseteq 1..(n + 1)
    BY <1>2
  <2> QED
    BY <1>2, <1>6, <2>1, <2>2
<1>11. Objects' /\ Len(files) <= Len(files')
  BY <1>2, <1>8, <1>9, <1>10 DEF Objects
<1>12. "Rename" \notin cut => \A l \in Keys : fos'[l] # Nil
  BY <1>2, <1>10 DEF MemInv, NilInv, Nil
<1>13. /\ << >> \in Seq(Tasks(Len(files'))) /\ NoTag(<< >>, LoopTags)
       /\ NoTag(<< >>, {"rename", "move"}) /\ Sound(fos', << >>, res[c])
  BY NoTasks
<1>14. res[c] \in Results(Len(files'))
  <2>1. Results(n) \subseteq Results(n + 1)
    BY <1>2, TasksGrow
  <2> QED
    BY <1>2, <1>8, <2>1
<1>15. cut = {} => Builds(c, res[c], <<>>)
  <2> SUFFICES ASSUME cut = {} PROVE Builds(c, res[c], <<>>)
    OBVIOUS
  <2>1. Filled
    BY DEF MemInv, SoundInv
  <2>2. \A l \in Keys : fos[l] # Absent => fos'[l] # Absent
    BY <1>2, <1>10 DEF Absent
  <2>3. fos'[k] # Absent
    BY <1>2, <1>10 DEF Absent
  <2>4. Filled'
    <3> SUFFICES ASSUME NEW i \in DOMAIN files'
                 PROVE  fos'[files'[i].name] # Absent
                        /\ \A l \in DOMAIN files'[i].memDir : files'[i].memDir[l] # Nil
      BY DEF Filled
    <3>1. CASE i \in 1..n
      <4>1. files'[i] = files[i] /\ files[i] \in File(n)
        BY <3>1, <1>6, <1>8, ElementOfSeq
      <4>2. files[i].name \in Keys
        BY <4>1 DEF File
      <4> QED
        BY <1>2, <2>1, <2>2, <3>1, <4>1, <4>2 DEF Filled
    <3>2. CASE i = n + 1
      BY <1>5, <1>8, <2>3, <3>2
    <3> QED
      BY <1>2, <1>8, <3>1, <3>2
  <2>5. Top(c).t # "open" /\ Top(c).t # "created"
    BY <1>1
  <2> QED
    BY <1>13, <2>2, <2>3, <2>4, <2>5 DEF Builds, k
<1>16. Calling(c, res[c], <<>>)
  BY <1>1, <1>3, <1>11, <1>12, <1>13, <1>14, <1>15 DEF Calling
<1> QED
  BY <1>1, <1>16, CallKeeps DEF LoopTags

-----------------------------------------------------------------------------
(* Calls that change one object.                                           *)

LEMMA ChangeCall ==
  ASSUME MemInv, NEW c \in Clients, Busy(c), Top(c).t \notin LoopTags, NEW r, NEW tasks,
         NEW x \in DOMAIN files, NEW g \in File(Len(files)),
         g.at <= Len(g.data), g.name = files[x].name,
         setup' = setup, fos' = fos, files' = [files EXCEPT ![x] = g], readers' = readers,
         cut' = cut, panicked' = panicked, waiting' = waiting, Gives(c, r, tasks),
         r \in Results(Len(files)), tasks \in Seq(Tasks(Len(files))), NoTag(tasks, LoopTags),
         NoTag(tasks, {"rename", "move"}),
         Top(c).t \notin Locking \cup Suppliers \cup {"created"},
         cut = {} => /\ \A l \in DOMAIN g.memDir : g.memDir[l] # Nil
                     /\ Sound(fos, tasks, r)
                     /\ Top(c).t = "open" /\ fos[Top(c).k] # Absent => tasks = <<>> /\ IsFile(r)
  PROVE  MemInv'
<1> DEFINE n == Len(files)
<1>1. files \in Seq(File(n)) /\ n \in Nat /\ DOMAIN files = 1..n
  BY LenProperties DEF MemInv, TypeInv, Objects
<1>2. files' \in Seq(File(n)) /\ Len(files') = n /\ DOMAIN files' = DOMAIN files
  BY <1>1, ExceptSeq
<1>3. \A i \in DOMAIN files : files'[i] = IF i = x THEN g ELSE files[i]
  BY <1>1
<1>4. Objects'
  BY <1>2, <1>3 DEF MemInv, TypeInv, Objects
<1>5. "Rename" \notin cut => (\A k \in Keys : fos'[k] # Nil)
  BY DEF MemInv, NilInv
<1>6. cut = {} => Filled'
  BY <1>2, <1>3 DEF MemInv, SoundInv, Filled
<1>7. waiting \ {c} = waiting
  BY NotWaiting DEF MemInv
<1>8. Top(c).t # "delete"
  BY DEF Locking
<1>9. Calling(c, r, tasks)
  BY <1>1, <1>2, <1>4, <1>5, <1>6, <1>7, <1>8 DEF Calling, Builds
<1> QED
  BY <1>9, CallKeeps

\* Where an object is, and that it is closed, does not matter to the others.
LEMMA FileTyped ==
  ASSUME TypeInv, NEW x \in DOMAIN files
  PROVE  /\ files[x] \in File(Len(files)) /\ files[x].at <= Len(files[x].data)
         /\ \A b \in BOOLEAN :
              \E g \in File(Len(files)) :
                /\ g.at = 0 /\ g.at <= Len(g.data) /\ g.name = files[x].name
                /\ g.memDir = files[x].memDir /\ g.data = files[x].data
                /\ (g.torn <=> files[x].torn \/ (files[x].at > 0 /\ Copying(x)))
                /\ SetBack(x, b) = [files EXCEPT ![x] = g]
<1>1. files \in Seq(File(Len(files))) /\ files[x].at <= Len(files[x].data)
  BY DEF TypeInv, Objects
<1>2. files[x] \in File(Len(files))
  BY <1>1, LenProperties, ElementOfSeq
<1>3. ASSUME NEW b \in BOOLEAN
      PROVE  \E g \in File(Len(files)) :
                /\ g.at = 0 /\ g.at <= Len(g.data) /\ g.name = files[x].name
                /\ g.memDir = files[x].memDir /\ g.data = files[x].data
                /\ (g.torn <=> files[x].torn \/ (files[x].at > 0 /\ Copying(x)))
                /\ SetBack(x, b) = [files EXCEPT ![x] = g]
  <2> DEFINE y == files[x]
             v == y.torn \/ (y.at > 0 /\ Copying(x))
             g == [y EXCEPT !.at = 0, !.closed = b, !.torn = v]
  <2>1. SetBack(x, b) = [files EXCEPT ![x] = g]
    BY DEF SetBack
  <2>2. y.data \in Seq(Bytes)
    BY <1>2 DEF File
  <2>3. Len(y.data) \in Nat
    BY <2>2, LenProperties
  <2>4. y \in File(Len(files)) /\ v \in BOOLEAN
    BY <1>2 DEF File
  <2> HIDE DEF y, v
  <2>5. /\ g \in File(Len(files)) /\ g.at = 0 /\ g.data = y.data /\ g.name = y.name
        /\ g.memDir = y.memDir /\ g.torn = v
    BY <2>4 DEF File
  <2> HIDE DEF g
  <2>6. g.at <= Len(g.data)
    BY <2>3, <2>5
  <2>7. g.torn <=> v
    BY <2>5
  <2> QED
    BY <2>1, <2>5, <2>6, <2>7 DEF y, v
<1> QED
  BY <1>1, <1>2, <1>3

LEMMA CloseKeeps ==
  ASSUME MemInv, NEW c \in Clients, CloseFile(c) \/ Reopen(c)
  PROVE  MemInv'
<1>1. /\ Busy(c) /\ Top(c).t \in {"close", "reopen"} /\ TypeInv
      /\ Gives(c, res[c], <<>>)
      /\ UNCHANGED <<setup, fos, readers, waiting, cut, panicked>>
  BY DEF CloseFile, Reopen, At, Top, Then, MemInv
<1>2. res[c] \in Results(Len(files)) /\ (IsFile(res[c]) => res[c] \in DOMAIN files)
  BY <1>1, TopTyped
<1>3. /\ << >> \in Seq(Tasks(Len(files))) /\ NoTag(<< >>, LoopTags)
      /\ NoTag(<< >>, {"rename", "move"}) /\ Sound(fos, << >>, res[c])
  BY NoTasks
<1>4. CASE IsFile(res[c])
  <2> DEFINE x == res[c]
  <2>1. PICK b \in BOOLEAN : files' = SetBack(x, b)
    BY <1>4 DEF CloseFile, Reopen
  <2>2. PICK g \in File(Len(files)) :
          /\ g.at <= Len(g.data) /\ g.name = files[x].name
          /\ g.memDir = files[x].memDir /\ files' = [files EXCEPT ![x] = g]
    BY <1>1, <1>2, <1>4, <2>1, FileTyped
  <2>3. cut = {} => \A l \in DOMAIN g.memDir : g.memDir[l] # Nil
    BY <1>2, <1>4, <2>2 DEF MemInv, SoundInv, Filled
  <2> QED
    BY <1>1, <1>2, <1>3, <1>4, <2>2, <2>3, ChangeCall DEF LoopTags, Locking, Suppliers
<1>5. CASE ~IsFile(res[c])
  <2>1. files' = files
    BY <1>5 DEF CloseFile, Reopen
  <2>2. waiting \ {c} = waiting
    BY <1>1, NotWaiting DEF Locking
  <2> QED
    BY <1>1, <1>2, <2>1, <2>2, QuietReturn DEF LoopTags, Suppliers
<1> QED
  BY <1>4, <1>5

LEMMA UnregisterKeeps ==
  ASSUME MemInv, NEW c \in Clients, Unregister(c)
  PROVE  MemInv'
<1> DEFINE k == Top(c).k
           x == res[c]
           y == files[x]
           D == DOMAIN y.memDir \ {Directorify(k), Filify(k)}
           m == [l \in D |-> y.memDir[l]]
           g == [y EXCEPT !.memDir = m]
<1>1. /\ Busy(c) /\ Top(c).t = "unregister" /\ TypeInv
      /\ Gives(c, x, <<>>)
      /\ UNCHANGED <<setup, fos, readers, waiting, cut, panicked>>
      /\ files' = IF IsFile(x) THEN [files EXCEPT ![x].memDir = m] ELSE files
  BY DEF Unregister, At, Top, Then, MemInv
<1>2. x \in Results(Len(files)) /\ (IsFile(x) => x \in DOMAIN files) /\ k \in Keys
  BY <1>1, TopTyped
<1>3. /\ << >> \in Seq(Tasks(Len(files))) /\ NoTag(<< >>, LoopTags)
      /\ NoTag(<< >>, {"rename", "move"}) /\ Sound(fos, << >>, x)
  BY NoTasks
<1>4. cut # {}
  BY <1>1, TopSound DEF Removals
<1>5. CASE IsFile(x)
  <2>1. y \in File(Len(files)) /\ y.at <= Len(y.data)
    BY <1>1, <1>2, <1>5, FileTyped
  <2>2. m \in MemDirs(Len(files))
    <3>1. y.memDir \in MemDirs(Len(files))
      BY <2>1 DEF File
    <3>2. PICK E \in SUBSET Keys : y.memDir \in [E -> {Nil} \cup 1..Len(files)]
      BY <3>1 DEF MemDirs
    <3>3. m \in [D -> {Nil} \cup 1..Len(files)] /\ D \in SUBSET Keys
      BY <3>2
    <3> QED
      BY <3>3 DEF MemDirs
  <2>3. files' = [files EXCEPT ![x] = g]
    BY <1>1, <1>5
  <2> HIDE DEF m, D
  <2>4. g \in File(Len(files)) /\ g.at <= Len(g.data) /\ g.name = y.name
    BY <2>1, <2>2 DEF File
  <2> HIDE DEF g
  <2> QED
    BY <1>1, <1>2, <1>3, <1>4, <1>5, <2>3, <2>4, ChangeCall DEF LoopTags, Locking, Suppliers
<1>6. CASE ~IsFile(x)
  <2>1. files' = files
    BY <1>1, <1>6
  <2>2. waiting \ {c} = waiting
    BY <1>1, NotWaiting DEF Locking
  <2> QED
    BY <1>1, <1>2, <2>1, <2>2, QuietReturn DEF LoopTags, Suppliers
<1> QED
  BY <1>5, <1>6

LEMMA EnterKeeps ==
  ASSUME MemInv, NEW c \in Clients, Enter(c)
  PROVE  MemInv'
<1> DEFINE k == Top(c).k
           x == Top(c).obj
           y == files[x]
           f == IF IsFile(res[c]) THEN res[c] ELSE Nil
           m == [l \in DOMAIN y.memDir \cup {k} |-> IF l = k THEN f ELSE y.memDir[l]]
           g == [y EXCEPT !.memDir = m]
           up == Task("register", y.name)
           tasks == IF y.name = RootDir THEN <<>> ELSE <<up>>
           n == Len(files)
<1>1. /\ Busy(c) /\ Top(c).t = "enter" /\ TypeInv
      /\ Gives(c, res[c], tasks)
      /\ UNCHANGED <<setup, fos, readers, waiting, cut, panicked>>
      /\ files' = [files EXCEPT ![x].memDir = m]
  BY DEF Enter, At, Top, Then, MemInv
<1>2. /\ res[c] \in Results(n) /\ (IsFile(res[c]) => res[c] \in DOMAIN files) /\ k \in Keys
      /\ x \in 0..n /\ x # 0 /\ n \in Nat /\ DOMAIN files = 1..n
  BY <1>1, TopTyped
<1>3. x \in DOMAIN files
  BY <1>2
<1>4. y \in File(n) /\ y.at <= Len(y.data) /\ y.name \in Keys
  <2>1. y \in File(n) /\ y.at <= Len(y.data)
    BY <1>1, <1>3, FileTyped
  <2> QED
    BY <2>1 DEF File
<1>5. m \in MemDirs(n)
  <2>1. y.memDir \in MemDirs(n)
    BY <1>4 DEF File
  <2>2. PICK E \in SUBSET Keys : y.memDir \in [E -> {Nil} \cup 1..n]
    BY <2>1 DEF MemDirs
  <2>3. f \in {Nil} \cup 1..n
    BY <1>2
  <2>4. m \in [E \cup {k} -> {Nil} \cup 1..n] /\ E \cup {k} \in SUBSET Keys
    BY <2>2, <2>3, <1>2
  <2> QED
    BY <2>4 DEF MemDirs
<1>6. files' = [files EXCEPT ![x] = g]
  BY <1>1, <1>3
<1>7. cut = {} => \A l \in DOMAIN m : m[l] # Nil
  <2> SUFFICES ASSUME cut = {}, NEW l \in DOMAIN m PROVE m[l] # Nil
    OBVIOUS
  <2>1. IsFile(res[c]) /\ Filled
    BY <1>1, TopSound
  <2>2. f # Nil
    BY <2>1 DEF IsFile, Nil
  <2>3. l = k \/ (l \in DOMAIN y.memDir /\ m[l] = y.memDir[l])
    OBVIOUS
  <2>4. l \in DOMAIN y.memDir => y.memDir[l] # Nil
    BY <1>3, <2>1 DEF Filled
  <2> QED
    BY <2>2, <2>3, <2>4
<1>8. cut = {} => fos[y.name] # Absent
  BY <1>1, <1>3, TopSound DEF Filled
<1> HIDE DEF m
<1>9. g \in File(n) /\ g.at <= Len(g.data) /\ g.name = y.name /\ g.memDir = m
  BY <1>4, <1>5 DEF File
<1> HIDE DEF g, y
<1>10. up \in Tasks(n) /\ up.t = "register" /\ up.k = y.name
  BY <1>2, <1>4, TaskTyped DEF Tags
<1> HIDE DEF up
<1>11. /\ << >> \in Seq(Tasks(n)) /\ NoTag(<< >>, LoopTags)
       /\ NoTag(<< >>, {"rename", "move"}) /\ Sound(fos, << >>, res[c])
  BY NoTasks
<1>12. <<up>> \in Seq(Tasks(n)) /\ NoTag(<<up>>, LoopTags) /\ NoTag(<<up>>, {"rename", "move"})
  BY <1>10, OneTask DEF LoopTags
<1>13. cut = {} => Sound(fos, <<up>>, res[c])
  <2>1. DOMAIN <<up>> = {1} /\ <<up>>[1] = up
    OBVIOUS
  <2> QED
    BY <1>8, <1>10, <2>1 DEF Sound, Supplied, Removals, LoopTags
<1>14. /\ tasks \in Seq(Tasks(n)) /\ NoTag(tasks, LoopTags) /\ NoTag(tasks, {"rename", "move"})
       /\ cut = {} => Sound(fos, tasks, res[c])
  BY <1>11, <1>12, <1>13
<1> HIDE DEF tasks
<1>15. g.name = files[x].name
  BY <1>9 DEF y
<1>16. cut = {} => /\ \A l \in DOMAIN g.memDir : g.memDir[l] # Nil
                   /\ Sound(fos, tasks, res[c])
                   /\ Top(c).t = "open" /\ fos[Top(c).k] # Absent => tasks = <<>> /\ IsFile(res[c])
  BY <1>1, <1>7, <1>9, <1>14
<1>17. Top(c).t \notin LoopTags /\ Top(c).t \notin Locking \cup Suppliers \cup {"created"}
  BY <1>1 DEF LoopTags, Locking, Suppliers
<1>18. /\ setup' = setup /\ fos' = fos /\ readers' = readers /\ cut' = cut
       /\ panicked' = panicked /\ waiting' = waiting
  BY <1>1
<1> HIDE DEF x, f, k, n
<1> QED
  <2>1. g \in File(Len(files)) /\ g.at <= Len(g.data) /\ res[c] \in Results(Len(files))
        /\ tasks \in Seq(Tasks(Len(files)))
    BY <1>2, <1>9, <1>14 DEF n
  <2> QED
    BY <1>1, <1>3, <1>6, <1>14, <1>15, <1>16, <1>17, <1>18, <2>1, ChangeCall

\* The list of a client and its read locks are replaced, after a removal has begun.
LEMMA ListReplaced ==
  ASSUME MemInv, NEW c \in Clients, cut # {}, c \notin waiting,
         NEW q \in Seq(Tasks(Len(files))), NEW v \in Nat,
         UNCHANGED <<setup, fos, files, waiting, res, cut>>,
         todo' = [todo EXCEPT ![c] = q], readers' = [readers EXCEPT ![c] = v],
         LoopOK(q), NoTag(q, {"rename", "move"}),
         v >= Holding(q), "nil" \notin cut => v = Holding(q)
  PROVE  MemInv'
<1> USE DEF MemInv
<1>1. /\ todo'[c] = q /\ \A d \in Clients \ {c} : todo'[d] = todo[d] /\ readers'[d] = readers[d]
      /\ todo' \in [Clients -> Seq(Tasks(Len(files)))]
      /\ readers'[c] = v /\ readers' \in [Clients -> Nat]
  BY DEF TypeInv
<1>2. TypeInv'
  <2>1. \A d \in waiting' : Busy(d)' /\ Top(d)'.t \in Locking
    BY <1>1 DEF TypeInv, Busy, Top
  <2>2. Objects'
    BY DEF TypeInv, Objects
  <2> QED
    BY <1>1, <2>1, <2>2 DEF TypeInv
<1>3. ReadersInv'
  BY <1>1 DEF ReadersInv
<1>4. NilInv'
  BY <1>1 DEF NilInv
<1>5. SoundInv'
  BY DEF SoundInv
<1> QED
  BY <1>2, <1>3, <1>4, <1>5

\* A request that panics is over, and a RemoveAll gives its read lock back.
LEMMA PanicKeeps ==
  ASSUME MemInv, NEW c \in Clients, Busy(c), Top(c).t \notin LoopTags \cup {"delete"} \cup Locking,
         NEW why, Panics(c, why), cut # {},
         UNCHANGED <<setup, fos, files, waiting, cut>>
  PROVE  MemInv'
<1> DEFINE q == todo[c]
           has == \E i \in DOMAIN q : q[i].t = "rmloop"
<1> USE DEF MemInv
<1>1. Top(c) = q[1] /\ 1 \in DOMAIN q
  BY TopTyped
<1>2. LoopOK(q) /\ readers[c] >= Holding(q) /\ ("nil" \notin cut => readers[c] = Holding(q))
  BY DEF ReadersInv
<1>3. NoTag(q, {"rmback"})
  <2> SUFFICES ASSUME NEW i \in DOMAIN q, q[i].t = "rmback" PROVE FALSE
    BY DEF NoTag
  <2>1. i = 1 \/ q[1].t = "delete"
    BY <1>2 DEF LoopOK
  <2> QED
    BY <1>1, <2>1 DEF LoopTags
<1>4. Holding(q) = IF has THEN 1 ELSE 0
  BY <1>3 DEF Holding
<1>5. /\ todo' = [todo EXCEPT ![c] = <<>>] /\ res' = res
      /\ readers' = [readers EXCEPT ![c] = IF has THEN @ - 1 ELSE @]
  BY DEF Panics
<1> HIDE DEF has
<1>6. readers \in [Clients -> Nat] /\ readers[c] \in Nat
  BY DEF TypeInv
<1>7. readers'[c] = readers[c] - Holding(q) /\ readers'[c] \in Nat
  BY <1>2, <1>4, <1>5, <1>6
<1>8. readers' = [readers EXCEPT ![c] = readers'[c]]
  BY <1>5, <1>6
<1>9. /\ << >> \in Seq(Tasks(Len(files))) /\ LoopOK(<<>>) /\ Holding(<<>>) = 0
      /\ NoTag(<< >>, {"rename", "move"})
  BY DEF LoopOK, Holding, NoTag
<1>10. c \notin waiting
  BY DEF TypeInv
<1>11. readers'[c] >= 0 /\ ("nil" \notin cut => readers'[c] = 0)
  BY <1>2, <1>4, <1>6, <1>7
<1> QED
  BY <1>5, <1>7, <1>8, <1>9, <1>10, <1>11, ListReplaced

LEMMA ListKeeps ==
  ASSUME MemInv, NEW c \in Clients, List(c)
  PROVE  MemInv'
<1> DEFINE names == IF IsFile(res[c]) THEN files[res[c]].memDir ELSE [x \in {} |-> 0]
<1>1. Busy(c) /\ Top(c).t = "list" /\ TypeInv /\ UNCHANGED <<setup, fos, files, waiting, cut>>
  BY DEF List, At, Top, MemInv
<1>2. res[c] \in Results(Len(files)) /\ (IsFile(res[c]) => res[c] \in DOMAIN files)
  BY <1>1, TopTyped
<1>3. CASE \E x \in DOMAIN names : names[x] = Nil
  <2>1. IsFile(res[c]) /\ \E x \in DOMAIN files[res[c]].memDir : files[res[c]].memDir[x] = Nil
    BY <1>3
  <2>2. cut # {}
    BY <1>2, <2>1 DEF MemInv, SoundInv, Filled
  <2>3. Panics(c, "nil entry listed")
    BY <1>3 DEF List
  <2> QED
    BY <1>1, <2>2, <2>3, PanicKeeps DEF LoopTags, Locking
<1>4. CASE ~\E x \in DOMAIN names : names[x] = Nil
  <2>1. Gives(c, res[c], <<>>) /\ UNCHANGED <<readers, panicked>>
    BY <1>4 DEF List, Then
  <2>2. waiting \ {c} = waiting
    BY <1>1, NotWaiting DEF Locking
  <2> QED
    BY <1>1, <1>2, <2>1, <2>2, QuietReturn DEF LoopTags, Suppliers
<1> QED
  BY <1>3, <1>4

\* What a write at a position makes of the contents of a file.
LEMMA WriteTyped ==
  ASSUME NEW s \in Seq(Bytes), NEW b \in Seq(Bytes), NEW pos \in Nat, pos <= Len(s)
  PROVE  LET D == SubSeq(s, 1, pos) \o b \o SubSeq(s, pos + Len(b) + 1, Len(s))
             a == IF pos + Len(b) > Len(s) THEN pos + Len(b) ELSE Len(s)
         IN  D \in Seq(Bytes) /\ a \in Nat /\ a <= Len(D)
<1> DEFINE n == Len(s)
           m == Len(b)
           front == SubSeq(s, 1, pos)
           back == SubSeq(s, pos + m + 1, n)
<1>1. n \in Nat /\ m \in Nat /\ \A i \in 1..n : s[i] \in Bytes
  BY ElementOfSeq, LenProperties
<1>2. pos <= n
  OBVIOUS
<1> HIDE DEF n, m
<1>3. /\ \A i \in 1..pos : s[i] \in Bytes
      /\ \A i \in (pos + m + 1)..n : s[i] \in Bytes
      /\ 1 \in Int /\ pos \in Int /\ n \in Int /\ pos + m + 1 \in Int
  BY <1>1, <1>2
<1>4. front \in Seq(Bytes) /\ Len(front) = IF 1 <= pos THEN pos - 1 + 1 ELSE 0
  BY <1>3, SubSeqProperties
<1>5. back \in Seq(Bytes) /\ Len(back) = IF pos + m + 1 <= n THEN n - (pos + m + 1) + 1 ELSE 0
  BY <1>3, SubSeqProperties
<1> HIDE DEF front, back
<1>6. front \o b \in Seq(Bytes) /\ Len(front \o b) = Len(front) + m
  BY <1>4, ConcatProperties DEF m
<1>7. front \o b \o back \in Seq(Bytes)
      /\ Len(front \o b \o back) = Len(front) + m + Len(back)
  BY <1>5, <1>6, ConcatProperties
<1> DEFINE D == front \o b \o back
           a == IF pos + m > n THEN pos + m ELSE n
<1>8. Len(front) = pos
  BY <1>4
<1>9. a \in Nat /\ a <= pos + m + Len(back)
  BY <1>1, <1>2, <1>5
<1>10. D \in Seq(Bytes) /\ a \in Nat /\ a <= Len(D)
  BY <1>7, <1>8, <1>9
<1> HIDE DEF D, a
<1> QED
  BY <1>10 DEF D, a, n, m, front, back

\* A write at the position of a file leaves the position within the file.
LEMMA WriteKeeps ==
  ASSUME MemInv, NEW c \in Clients, Write(c)
  PROVE  MemInv'
<1> DEFINE x == res[c]
           y == files[x]
           b == Top(c).data
           n == Len(files)
           D == SubSeq(y.data, 1, y.at) \o b \o SubSeq(y.data, y.at + Len(b) + 1, Len(y.data))
           a == IF y.at + Len(b) > Len(y.data) THEN y.at + Len(b) ELSE Len(y.data)
           g == [y EXCEPT !.data = D, !.at = a]
<1>1. Busy(c) /\ Top(c).t = "write" /\ TypeInv /\ UNCHANGED <<setup, fos, waiting, cut>>
  BY DEF Write, At, Top, MemInv
<1>2. x \in Results(n) /\ (IsFile(x) => x \in DOMAIN files) /\ b \in Seq(Bytes)
  BY <1>1, TopTyped
<1>3. CASE IsFile(x)
  <2>1. /\ files' = [files EXCEPT ![x].data = D, ![x].at = a] /\ Gives(c, x, <<>>)
        /\ UNCHANGED <<readers, panicked>>
    BY <1>3 DEF Write, Then, Written
  <2>2. y \in File(n) /\ y.at <= Len(y.data)
    BY <1>1, <1>2, <1>3, FileTyped
  <2>3. y.data \in Seq(Bytes) /\ y.at \in Nat
    BY <2>2 DEF File
  <2>9. D \in Seq(Bytes) /\ a \in Nat /\ a <= Len(D)
    BY <1>2, <2>2, <2>3, WriteTyped
  <2> HIDE DEF D
  <2>10. files' = [files EXCEPT ![x] = g]
    BY <2>1
  <2>11. cut = {} => \A l \in DOMAIN y.memDir : y.memDir[l] # Nil
    BY <1>2, <1>3 DEF MemInv, SoundInv, Filled
  <2> HIDE DEF a, y
  <2>12. g \in File(n) /\ g.at = a /\ g.data = D /\ g.name = y.name /\ g.memDir = y.memDir
    BY <2>2, <2>9 DEF File
  <2> HIDE DEF g
  <2>13. g.at <= Len(g.data) /\ g.name = files[x].name
    BY <2>9, <2>12 DEF y
  <2>14. /\ << >> \in Seq(Tasks(n)) /\ NoTag(<< >>, LoopTags)
         /\ NoTag(<< >>, {"rename", "move"}) /\ Sound(fos, << >>, x)
    BY NoTasks
  <2>15. cut = {} => /\ \A l \in DOMAIN g.memDir : g.memDir[l] # Nil
                     /\ Sound(fos, << >>, x)
                     /\ Top(c).t = "open" /\ fos[Top(c).k] # Absent => << >> = << >> /\ IsFile(x)
    BY <1>3, <2>11, <2>12, <2>14
  <2>16. Top(c).t \notin LoopTags /\ Top(c).t \notin Locking \cup Suppliers \cup {"created"}
    BY <1>1 DEF LoopTags, Locking, Suppliers
  <2>17. x \in DOMAIN files
    BY <1>2, <1>3
  <2> HIDE DEF b
  <2> QED
    BY <1>1, <1>2, <2>1, <2>10, <2>12, <2>13, <2>14, <2>15, <2>16, <2>17, ChangeCall
<1>4. CASE ~IsFile(x)
  <2>1. Panics(c, "write to nil") /\ files' = files
    BY <1>4 DEF Write
  <2>2. cut # {}
    BY <1>1, <1>4, TopSound
  <2> QED
    <3>1. Top(c).t \notin LoopTags \cup {"delete"} \cup Locking
      BY <1>1 DEF LoopTags, Locking
    <3> HIDE DEF x
    <3> QED
      BY <1>1, <2>1, <2>2, <3>1, PanicKeeps
<1> QED
  BY <1>3, <1>4

\* A copy writes a chunk; then there is another one, or the file is reopened.
LEMMA CopyTasks ==
  ASSUME TypeInv, NEW c \in Clients, Busy(c), Top(c).t = "copy", NEW f, NEW r, IsFile(r)
  PROVE  LET tasks == IF Len(Top(c).data) > 1
                      THEN <<[Top(c) EXCEPT !.data = Tail(@)]>>
                      ELSE <<Task("close", Top(c).k), Task("reopen", Top(c).k)>>
         IN  /\ tasks \in Seq(Tasks(Len(files))) /\ NoTag(tasks, LoopTags)
             /\ NoTag(tasks, {"rename", "move"}) /\ Sound(f, tasks, r)
             /\ <<Head(Top(c).data)>> \in Seq(Bytes)
<1> DEFINE n == Len(files)
           y == Top(c)
           more == [y EXCEPT !.data = Tail(@)]
           x == Task("close", y.k)
           z == Task("reopen", y.k)
<1>1. y \in Tasks(n) /\ y.data \in Seq(Bytes) /\ y.data # <<>> /\ y.k \in Keys /\ n \in Nat
  BY TopTyped
<1>2. <<Head(y.data)>> \in Seq(Bytes)
  BY <1>1, HeadTailProperties
<1>3. ASSUME Len(y.data) > 1
      PROVE  Tail(y.data) # <<>> /\ Tail(y.data) \in Seq(Bytes)
  <2> DEFINE b == y.data
             u == Tail(b)
  <2>1. u \in Seq(Bytes) /\ Len(u) = Len(b) - 1 /\ Len(b) \in Nat
    BY <1>1, HeadTailProperties, LenProperties
  <2> HIDE DEF b, u
  <2>2. Len(u) # 0
    <3>1. \A m \in Nat : m > 1 => m - 1 # 0
      OBVIOUS
    <3>2. Len(b) > 1
      BY <1>3 DEF b
    <3> QED
      BY <2>1, <3>1, <3>2
  <2>3. u # <<>>
    BY <2>1, <2>2, EmptySeq
  <2> QED
    BY <2>1, <2>3 DEF u, b
<1>4. x \in Tasks(n) /\ x.t = "close" /\ z \in Tasks(n) /\ z.t = "reopen"
  BY <1>1, TaskTyped DEF Tags
<1>5. y.t = "copy"
  OBVIOUS
<1> HIDE DEF y, x, z
<1>6. Len(y.data) > 1 => more \in Tasks(n) /\ more.t = "copy"
  BY <1>1, <1>3, <1>5 DEF Tasks
<1> HIDE DEF more
<1>7. CASE Len(y.data) > 1
  <2>1. <<more>> \in Seq(Tasks(n)) /\ DOMAIN <<more>> = {1} /\ <<more>>[1] = more
    BY <1>6, <1>7
  <2> QED
    BY <1>2, <1>6, <1>7, <2>1 DEF NoTag, Sound, Removals, LoopTags, y, more
<1>8. CASE ~(Len(y.data) > 1)
  <2> DEFINE two == <<x, z>>
  <2>1. two \in Seq(Tasks(n)) /\ \A i \in DOMAIN two : two[i] \in {x, z}
    BY <1>4
  <2> HIDE DEF two
  <2>2. NoTag(two, LoopTags) /\ NoTag(two, {"rename", "move"}) /\ Sound(f, two, r)
    BY <1>4, <2>1 DEF NoTag, Sound, Removals, LoopTags
  <2> QED
    BY <1>2, <1>8, <2>1, <2>2 DEF y, two, x, z
<1> QED
  BY <1>7, <1>8

LEMMA CopyKeeps ==
  ASSUME MemInv, NEW c \in Clients, Copy(c)
  PROVE  MemInv'
<1> DEFINE x == res[c]
           y == files[x]
           b == <<Head(Top(c).data)>>
           n == Len(files)
           D == SubSeq(y.data, 1, y.at) \o b \o SubSeq(y.data, y.at + Len(b) + 1, Len(y.data))
           a == IF y.at + Len(b) > Len(y.data) THEN y.at + Len(b) ELSE Len(y.data)
           g == [y EXCEPT !.data = D, !.at = a]
           tasks == IF Len(Top(c).data) > 1
                    THEN <<[Top(c) EXCEPT !.data = Tail(@)]>>
                    ELSE <<Task("close", Top(c).k), Task("reopen", Top(c).k)>>
<1>1. Busy(c) /\ Top(c).t = "copy" /\ TypeInv /\ UNCHANGED <<setup, fos, waiting, cut>>
  BY DEF Copy, At, Top, MemInv
<1>2. x \in Results(n) /\ (IsFile(x) => x \in DOMAIN files)
  BY <1>1, TopTyped
<1>3. CASE IsFile(x)
  <2>1. /\ files' = [files EXCEPT ![x].data = D, ![x].at = a] /\ Gives(c, x, tasks)
        /\ UNCHANGED <<readers, panicked>>
    BY <1>3 DEF Copy, Then, Written
  <2>2. y \in File(n) /\ y.at <= Len(y.data)
    BY <1>1, <1>2, <1>3, FileTyped
  <2>3. y.data \in Seq(Bytes) /\ y.at \in Nat
    BY <2>2 DEF File
  <2>8. /\ tasks \in Seq(Tasks(n)) /\ NoTag(tasks, LoopTags) /\ NoTag(tasks, {"rename", "move"})
        /\ Sound(fos, tasks, x) /\ b \in Seq(Bytes)
    BY <1>1, <1>3, CopyTasks
  <2> HIDE DEF tasks, b
  <2>9. D \in Seq(Bytes) /\ a \in Nat /\ a <= Len(D)
    BY <2>2, <2>3, <2>8, WriteTyped
  <2> HIDE DEF D
  <2>10. files' = [files EXCEPT ![x] = g]
    BY <2>1
  <2>11. cut = {} => \A l \in DOMAIN y.memDir : y.memDir[l] # Nil
    BY <1>2, <1>3 DEF MemInv, SoundInv, Filled
  <2> HIDE DEF a, y
  <2>12. g \in File(n) /\ g.at = a /\ g.data = D /\ g.name = y.name /\ g.memDir = y.memDir
    BY <2>2, <2>9 DEF File
  <2> HIDE DEF g
  <2>13. g.at <= Len(g.data) /\ g.name = files[x].name
    BY <2>9, <2>12 DEF y
  <2>15. cut = {} => /\ \A l \in DOMAIN g.memDir : g.memDir[l] # Nil
                     /\ Sound(fos, tasks, x)
                     /\ Top(c).t = "open" /\ fos[Top(c).k] # Absent => tasks = << >> /\ IsFile(x)
    BY <1>1, <2>8, <2>11, <2>12
  <2>16. Top(c).t \notin LoopTags /\ Top(c).t \notin Locking \cup Suppliers \cup {"created"}
    BY <1>1 DEF LoopTags, Locking, Suppliers
  <2>17. x \in DOMAIN files
    BY <1>2, <1>3
  <2> QED
    BY <1>1, <1>2, <2>1, <2>8, <2>10, <2>12, <2>13, <2>15, <2>16, <2>17, ChangeCall
<1>4. CASE ~IsFile(x)
  <2>1. Panics(c, "write to nil") /\ files' = files
    BY <1>4 DEF Copy
  <2>2. cut # {}
    BY <1>1, <1>4, TopSound
  <2> QED
    <3>1. Top(c).t \notin LoopTags \cup {"delete"} \cup Locking
      BY <1>1 DEF LoopTags, Locking
    <3> HIDE DEF x
    <3> QED
      BY <1>1, <2>1, <2>2, <3>1, PanicKeeps
<1> QED
  BY <1>3, <1>4

\* A copy that comes to an error leaves what it has written.
LEMMA CopyFailsKeeps ==
  ASSUME MemInv, NEW c \in Clients, CopyFails(c)
  PROVE  MemInv'
<1> DEFINE x == res[c]
           n == Len(files)
<1>1. /\ Busy(c) /\ Top(c).t = "copy" /\ TypeInv /\ Gives(c, Failed, <<>>)
      /\ UNCHANGED <<setup, fos, readers, waiting, cut, panicked>>
      /\ files' = IF IsFile(x) THEN [files EXCEPT ![x].torn = TRUE] ELSE files
  BY DEF CopyFails, At, Top, MemInv
<1>2. Failed \in Results(n) /\ (IsFile(x) => x \in DOMAIN files)
  BY <1>1, TopTyped DEF Results
<1>3. /\ << >> \in Seq(Tasks(n)) /\ NoTag(<< >>, LoopTags)
      /\ NoTag(<< >>, {"rename", "move"}) /\ Sound(fos, << >>, Failed)
  BY NoTasks
<1>4. CASE IsFile(x)
  <2> DEFINE y == files[x]
             g == [y EXCEPT !.torn = TRUE]
  <2>1. y \in File(n) /\ y.at <= Len(y.data)
    BY <1>1, <1>2, <1>4, FileTyped
  <2>2. files' = [files EXCEPT ![x] = g]
    BY <1>1, <1>4
  <2>3. cut = {} => \A l \in DOMAIN y.memDir : y.memDir[l] # Nil
    BY <1>2, <1>4 DEF MemInv, SoundInv, Filled
  <2> HIDE DEF y
  <2>4. g \in File(n) /\ g.at = y.at /\ g.data = y.data /\ g.name = y.name /\ g.memDir = y.memDir
    BY <2>1 DEF File
  <2> HIDE DEF g
  <2>5. g.at <= Len(g.data) /\ g.name = files[x].name
    BY <2>1, <2>4 DEF y
  <2>6. Top(c).t \notin LoopTags /\ Top(c).t \notin Locking \cup Suppliers \cup {"created"}
        /\ Top(c).t # "open"
    BY <1>1 DEF LoopTags, Locking, Suppliers
  <2>7. x \in DOMAIN files
    BY <1>2, <1>4
  <2>8. cut = {} => /\ \A l \in DOMAIN g.memDir : g.memDir[l] # Nil
                    /\ Sound(fos, << >>, Failed)
                    /\ Top(c).t = "open" /\ fos[Top(c).k] # Absent
                         => << >> = << >> /\ IsFile(Failed)
    BY <1>3, <2>3, <2>4, <2>6
  <2> HIDE DEF x
  <2> QED
    BY <1>1, <1>2, <1>3, <2>2, <2>4, <2>5, <2>6, <2>7, <2>8, ChangeCall
<1>5. CASE ~IsFile(x)
  <2>1. waiting \ {c} = waiting
    BY <1>1, NotWaiting DEF Locking
  <2> QED
    BY <1>1, <1>2, <1>5, <2>1, QuietReturn DEF LoopTags, Suppliers
<1> QED
  BY <1>4, <1>5

LEMMA OpenFileKeeps ==
  ASSUME MemInv, NEW c \in Clients, At(c, "open"), IsFile(Hit(Top(c).k)),
         files' = SetBack(Hit(Top(c).k), FALSE), Gives(c, Hit(Top(c).k), <<>>),
         UNCHANGED <<setup, fos, readers, waiting, cut, panicked>>
  PROVE  MemInv'
<1> DEFINE x == Hit(Top(c).k)
           n == Len(files)
<1>1. Busy(c) /\ Top(c).t = "open" /\ TypeInv
  BY DEF At, Top, MemInv
<1>2. n \in Nat /\ DOMAIN files = 1..n /\ Top(c).k \in Keys /\ Other(Top(c).k) \in Keys
  BY <1>1, TopTyped, KeysHave
<1>3. x \in DOMAIN files /\ x \in Results(n)
  BY <1>1, <1>2 DEF Hit, TypeInv, Objects, IsFile, Absent, Nil, Results
<1>4. PICK g \in File(n) :
        /\ g.at <= Len(g.data) /\ g.name = files[x].name
        /\ g.memDir = files[x].memDir /\ SetBack(x, FALSE) = [files EXCEPT ![x] = g]
  BY <1>1, <1>3, FileTyped
<1>5. files' = [files EXCEPT ![x] = g]
  BY <1>4
<1>6. cut = {} => \A l \in DOMAIN g.memDir : g.memDir[l] # Nil
  BY <1>3, <1>4 DEF MemInv, SoundInv, Filled
<1>7. /\ << >> \in Seq(Tasks(n)) /\ NoTag(<< >>, LoopTags)
      /\ NoTag(<< >>, {"rename", "move"}) /\ Sound(fos, << >>, x)
  BY NoTasks
<1>8. Top(c).t \notin LoopTags /\ Top(c).t \notin Locking \cup Suppliers \cup {"created"}
  BY <1>1 DEF LoopTags, Locking, Suppliers
<1> HIDE DEF x
<1>9. IsFile(x) /\ Gives(c, x, <<>>)
  BY DEF x
<1> QED
  BY <1>1, <1>3, <1>4, <1>5, <1>6, <1>7, <1>8, <1>9, ChangeCall

\* The read lock that is never given back.
LEMMA OpenNilKeeps ==
  ASSUME MemInv, NEW c \in Clients, At(c, "open"), Hit(Top(c).k) = Nil,
         readers' = [readers EXCEPT ![c] = @ + 1], Gives(c, Failed, <<>>),
         cut' = cut \cup {"nil"}, UNCHANGED <<setup, fos, files, waiting, panicked>>
  PROVE  MemInv'
<1> DEFINE n == Len(files)
<1> USE DEF MemInv
<1>1. Busy(c) /\ Top(c).t = "open" /\ TypeInv
  BY DEF At, Top
<1>2. n \in Nat /\ Top(c).k \in Keys /\ Other(Top(c).k) \in Keys /\ n <= n
  BY <1>1, TopTyped, KeysHave
<1>3. "Rename" \in cut
  BY <1>2 DEF NilInv, Hit
<1>4. << >> \in Seq(Tasks(n)) /\ NoTag(<< >>, LoopTags) /\ Failed \in Results(n)
  BY NoTasks DEF Results
<1>5. todo' \in [Clients -> Seq(Tasks(n))] /\ res' \in [Clients -> Results(n)]
  BY <1>1, <1>2, <1>4, GivesKeeps
<1>6. \A d \in Clients \ {c} : todo'[d] = todo[d] /\ res'[d] = res[d]
  BY <1>1, <1>2, <1>4, GivesKeeps
<1>7. LoopOK(todo[c]) => LoopOK(todo'[c]) /\ Holding(todo'[c]) = Holding(todo[c])
  <2>1. Top(c).t \notin LoopTags /\ Top(c).t # "delete"
    BY <1>1 DEF LoopTags
  <2> QED
    BY <1>1, <1>2, <1>4, <2>1, GivesKeeps
<1>8. readers \in [Clients -> Nat]
  BY DEF TypeInv
<1>9. /\ readers' \in [Clients -> Nat] /\ readers'[c] = readers[c] + 1
      /\ \A d \in Clients \ {c} : readers'[d] = readers[d]
  BY <1>8
<1>10. c \notin waiting
  BY <1>1 DEF TypeInv, Locking
<1>11. TypeInv'
  <2>1. \A d \in waiting' : Busy(d)' /\ Top(d)'.t \in Locking
    BY <1>6, <1>10 DEF TypeInv, Busy, Top
  <2>2. Objects'
    BY DEF TypeInv, Objects
  <2> QED
    BY <1>5, <1>9, <2>1, <2>2 DEF TypeInv
<1>12. ReadersInv'
  <2>1. Holding(todo[c]) \in Nat
    BY DEF Holding
  <2>2. readers[c] \in Nat /\ readers[c] >= Holding(todo[c])
    BY <1>8 DEF ReadersInv
  <2>3. LoopOK(todo'[c]) /\ readers'[c] >= Holding(todo'[c])
    BY <1>7, <1>9, <2>1, <2>2 DEF ReadersInv
  <2> QED
    BY <1>6, <1>9, <2>3 DEF ReadersInv
<1>13. NilInv' /\ SoundInv'
  BY <1>3 DEF NilInv, SoundInv
<1> QED
  BY <1>11, <1>12, <1>13

-----------------------------------------------------------------------------
(* The rest of Open.                                                       *)

\* A directory of the file system behind is made.
LEMMA OpenShadowDirKeeps ==
  ASSUME MemInv, NEW c \in Clients, At(c, "open"), fos[Top(c).k] = Absent,
         Then(c, <<Task("mkdir", Directorify(Top(c).k)), Task("shadowdir", Top(c).k)>>),
         UNCHANGED <<setup, fos, files, readers, waiting, cut, panicked>>
  PROVE  MemInv'
<1> DEFINE k == Top(c).k
           n == Len(files)
           x == Task("mkdir", Directorify(k))
           y == Task("shadowdir", k)
           r == res[c]
           tasks == <<x, y>>
<1>1. Busy(c) /\ Top(c).t = "open" /\ TypeInv
  BY DEF At, Top, MemInv
<1>2. /\ r \in Results(n) /\ n \in Nat /\ k \in Keys /\ Directorify(k) \in Keys
  BY <1>1, TopTyped, KeysHave
<1>3. waiting \ {c} = waiting
  BY <1>1, NotWaiting DEF Locking
<1>4. x \in Tasks(n) /\ x.t = "mkdir" /\ y \in Tasks(n) /\ y.t = "shadowdir"
  BY <1>2, TaskTyped DEF Tags
<1>5. Gives(c, r, tasks)
  BY DEF Then
<1> HIDE DEF x, y, r
<1>6. /\ tasks \in Seq(Tasks(n)) /\ \A i \in DOMAIN tasks : tasks[i] \in {x, y}
  BY <1>4
<1> HIDE DEF tasks
<1>7. NoTag(tasks, LoopTags) /\ NoTag(tasks, {"rename", "move"}) /\ Sound(fos, tasks, r)
  BY <1>4, <1>6 DEF NoTag, LoopTags, Sound, Removals
<1>8. Top(c).t \notin LoopTags /\ Top(c).t \notin Suppliers
  BY <1>1 DEF LoopTags, Suppliers
<1> QED
  BY <1>1, <1>2, <1>3, <1>5, <1>6, <1>7, <1>8, QuietCall

\* A file of the file system behind is made in memory.
ShadowFile(k) ==
  <<Task("mkdir", SplitDir(k)), Task("put", k), Task("register", k), Task("created", k),
    [Task("copy", k) EXCEPT !.data = <<k.n, k.n>>]>>

LEMMA OpenShadowFileKeeps ==
  ASSUME MemInv, NEW c \in Clients, At(c, "open"), fos[Top(c).k] = Absent,
         Then(c, ShadowFile(Top(c).k)),
         UNCHANGED <<setup, fos, files, readers, waiting, cut, panicked>>
  PROVE  MemInv'
<1> DEFINE k == Top(c).k
           n == Len(files)
           t1 == Task("mkdir", SplitDir(k))
           t2 == Task("put", k)
           t3 == Task("register", k)
           t4 == Task("created", k)
           w == Task("copy", k)
           t5 == [w EXCEPT !.data = <<k.n, k.n>>]
           r == res[c]
           tasks == ShadowFile(k)
<1>1. Busy(c) /\ Top(c).t = "open" /\ TypeInv
  BY DEF At, Top, MemInv
<1>2. /\ r \in Results(n) /\ n \in Nat /\ k \in Keys /\ SplitDir(k) \in Keys /\ k.n \in Nodes
  BY <1>1, TopTyped, KeysHave
<1>3. waiting \ {c} = waiting
  BY <1>1, NotWaiting DEF Locking
<1>4. Gives(c, r, tasks)
  BY DEF Then
<1>5. /\ "mkdir" \in Tags /\ "put" \in Tags /\ "register" \in Tags /\ "created" \in Tags
      /\ "copy" \in Tags
  BY DEF Tags, Locking
<1>6. /\ t1 \in Tasks(n) /\ t1.t = "mkdir" /\ t2 \in Tasks(n) /\ t2.t = "put" /\ t2.k = k
      /\ t3 \in Tasks(n) /\ t3.t = "register" /\ t3.k = k
      /\ t4 \in Tasks(n) /\ t4.t = "created" /\ t4.k = k
  <2> HIDE DEF k
  <2> QED
    BY <1>2, <1>5, TaskTyped
<1>7. t5 \in Tasks(n) /\ t5.t = "copy"
  <2>1. /\ w \in [t : Tags, k : Keys, to : Keys, obj : 0..n, must : SUBSET Keys, data : Seq(Bytes)]
        /\ w.t = "copy"
    BY <1>2, <1>5 DEF Task, Absent
  <2> DEFINE b == <<k.n, k.n>>
  <2>2. b \in Seq(Bytes) /\ b # <<>>
    BY <1>2, TreeAssumption
  <2> HIDE DEF w, k, b
  <2>3. [w EXCEPT !.data = b] \in Tasks(n) /\ [w EXCEPT !.data = b].t = "copy"
    BY <2>1, <2>2 DEF Tasks
  <2> QED
    BY <2>3 DEF b
<1>8. tasks = <<t1, t2, t3, t4, t5>>
  BY DEF ShadowFile
<1> HIDE DEF t1, t2, t3, t4, t5, r, tasks
<1>9. /\ tasks \in Seq(Tasks(n)) /\ DOMAIN tasks = 1..5
      /\ tasks[1] = t1 /\ tasks[2] = t2 /\ tasks[3] = t3 /\ tasks[4] = t4 /\ tasks[5] = t5
  BY <1>6, <1>7, <1>8
<1>10. \A i \in 1..5 : i = 1 \/ i = 2 \/ i = 3 \/ i = 4 \/ i = 5
  OBVIOUS
<1>11. /\ \A i \in DOMAIN tasks : tasks[i].t \in {"mkdir", "put", "register", "created", "copy"}
       /\ \A i \in DOMAIN tasks : tasks[i].t \in {"register", "created"} => i \in {3, 4} /\ tasks[i].k = k
       /\ \A i \in DOMAIN tasks : tasks[i].t = "copy" => i = 5
  BY <1>6, <1>7, <1>9, <1>10
<1>12. NoTag(tasks, LoopTags) /\ NoTag(tasks, {"rename", "move"})
  BY <1>11 DEF NoTag, LoopTags
<1>13. Sound(fos, tasks, r)
  <2> SUFFICES ASSUME NEW i \in DOMAIN tasks
               PROVE  /\ tasks[i].t \notin Removals
                      /\ tasks[i].t \in {"register", "parent", "self", "enter", "created"}
                           => Supplied(fos, tasks, i)
                      /\ tasks[i].t # "enter"
                      /\ tasks[i].t # "write"
                      /\ tasks[i].t = "copy" => i # 1 /\ tasks[i - 1].t = "created"
    BY DEF Sound
  <2>1. tasks[i].t \notin Removals
    BY <1>11 DEF Removals, LoopTags
  <2>2. ASSUME tasks[i].t \in {"register", "created"} PROVE Supplied(fos, tasks, i)
    <3>1. i \in {3, 4} /\ tasks[i].k = k
      BY <2>2, <1>11
    <3>2. 2 \in 1..(i - 1)
      BY <3>1
    <3> QED
      BY <1>6, <1>9, <3>1, <3>2 DEF Supplied, Suppliers
  <2>3. ASSUME tasks[i].t = "copy" PROVE i # 1 /\ tasks[i - 1].t = "created"
    <3>1. i = 5 /\ 5 - 1 = 4
      BY <2>3, <1>11
    <3> QED
      BY <1>6, <1>9, <3>1
  <2> QED
    BY <1>11, <2>1, <2>2, <2>3
<1>14. Top(c).t \notin LoopTags /\ Top(c).t \notin Suppliers
  BY <1>1 DEF LoopTags, Suppliers
<1> HIDE DEF k
<1> QED
  BY <1>1, <1>2, <1>3, <1>4, <1>9, <1>12, <1>13, <1>14, QuietCall DEF k

LEMMA OpenKeeps ==
  ASSUME MemInv, NEW c \in Clients, Open(c)
  PROVE  MemInv'
<1> DEFINE k == Top(c).k
           hit == Hit(k)
<1>1. /\ Busy(c) /\ Top(c).t = "open" /\ TypeInv /\ At(c, "open")
      /\ UNCHANGED <<setup, fos, waiting, panicked>>
  BY DEF Open, At, Top, MemInv
<1>2. \/ /\ IsFile(hit) /\ files' = SetBack(hit, FALSE) /\ Gives(c, hit, <<>>)
         /\ UNCHANGED <<readers, cut>>
      \/ /\ hit = Nil /\ readers' = [readers EXCEPT ![c] = @ + 1]
         /\ Gives(c, Failed, <<>>) /\ cut' = cut \cup {"nil"} /\ UNCHANGED files
      \/ /\ hit = Absent /\ k.n \in DOMAIN Shadow /\ UNCHANGED <<files, readers, cut>>
         /\ Then(c, IF Shadow[k.n] = "dir"
                    THEN <<Task("mkdir", Directorify(k)), Task("shadowdir", k)>> ELSE ShadowFile(k))
      \/ hit = Absent /\ Gives(c, Missing, <<>>) /\ UNCHANGED <<files, readers, cut>>
  BY DEF Open, Hit, ShadowFile
<1>3. hit = Absent => fos[k] = Absent
  BY DEF Hit
<1>4. CASE IsFile(hit) /\ files' = SetBack(hit, FALSE) /\ Gives(c, hit, <<>>) /\ UNCHANGED <<readers, cut>>
  BY <1>1, <1>4, OpenFileKeeps
<1>5. CASE /\ hit = Nil /\ readers' = [readers EXCEPT ![c] = @ + 1]
           /\ Gives(c, Failed, <<>>) /\ cut' = cut \cup {"nil"} /\ UNCHANGED files
  BY <1>1, <1>5, OpenNilKeeps
<1>6. CASE /\ hit = Absent /\ k.n \in DOMAIN Shadow /\ UNCHANGED <<files, readers, cut>>
           /\ Then(c, IF Shadow[k.n] = "dir"
                      THEN <<Task("mkdir", Directorify(k)), Task("shadowdir", k)>> ELSE ShadowFile(k))
  <2>1. CASE Shadow[k.n] = "dir"
    BY <1>1, <1>3, <1>6, <2>1, OpenShadowDirKeeps
  <2>2. CASE Shadow[k.n] # "dir"
    BY <1>1, <1>3, <1>6, <2>2, OpenShadowFileKeeps
  <2> QED
    BY <2>1, <2>2
<1>7. CASE hit = Absent /\ Gives(c, Missing, <<>>) /\ UNCHANGED <<files, readers, cut>>
  <2>1. Missing \in Results(Len(files))
    BY DEF Results
  <2>2. waiting \ {c} = waiting
    BY <1>1, NotWaiting DEF Locking
  <2>3. Top(c).t \notin LoopTags /\ Top(c).t \notin Suppliers /\ Top(c).t # "created"
    BY <1>1 DEF LoopTags, Suppliers
  <2> QED
    BY <1>1, <1>3, <1>7, <2>1, <2>2, <2>3, QuietReturn
<1> QED
  BY <1>2, <1>4, <1>5, <1>6, <1>7

-----------------------------------------------------------------------------
(* Removal.                                                                *)

\* Where a RemoveAll is, its list is short.
LEMMA LoopAtHand ==
  ASSUME MemInv, NEW c \in Clients, Busy(c), Top(c).t \in LoopTags
  PROVE  /\ cut # {} /\ c \notin waiting /\ readers[c] \in Nat
         /\ Top(c).t \in {"removeall", "rmloop"} => Tail(todo[c]) = <<>>
         /\ Top(c).t = "rmback" =>
              /\ Tail(todo[c]) = <<todo[c][2]>> /\ todo[c][2] \in Tasks(Len(files))
              /\ todo[c][2].t = "rmloop"
         /\ Holding(todo[c]) = IF Top(c).t = "rmloop" THEN 1 ELSE 0
         /\ readers[c] >= Holding(todo[c])
         /\ "nil" \notin cut => readers[c] = Holding(todo[c])
<1> DEFINE q == todo[c]
<1> USE DEF MemInv
<1>1. q \in Seq(Tasks(Len(files))) /\ q # <<>> /\ Top(c) = q[1] /\ 1 \in DOMAIN q
  BY TopTyped DEF TypeInv, Busy
<1>2. /\ Len(q) \in Nat /\ DOMAIN q = 1..Len(q) /\ Tail(q) \in Seq(Tasks(Len(files)))
      /\ Len(Tail(q)) = Len(q) - 1 /\ \A i \in 1..(Len(q) - 1) : Tail(q)[i] = q[i + 1]
  BY <1>1, HeadTailProperties, LenProperties
<1>3. LoopOK(q) /\ readers[c] >= Holding(q) /\ ("nil" \notin cut => readers[c] = Holding(q))
  BY DEF ReadersInv
<1>4. cut # {} /\ c \notin waiting /\ readers[c] \in Nat
  <2>1. cut # {}
    BY TopSound DEF Removals
  <2> QED
    BY <2>1 DEF TypeInv, LoopTags, Locking
<1> HIDE DEF q
<1>5. CASE q[1].t \in {"removeall", "rmloop"}
  <2>1. Len(q) = 1
    BY <1>1, <1>3, <1>5 DEF LoopOK
  <2>2. Tail(q) = <<>>
    <3>1. Len(Tail(q)) = 0
      BY <1>2, <2>1
    <3> QED
      BY <1>2, <3>1, EmptySeq
  <2>3. DOMAIN q = {1}
    BY <1>2, <2>1
  <2>4. Holding(q) = IF q[1].t = "rmloop" THEN 1 ELSE 0
    BY <1>5, <2>3 DEF Holding, NoTag
  <2> QED
    BY <1>1, <1>3, <1>4, <1>5, <2>2, <2>4 DEF q
<1>6. CASE q[1].t = "rmback"
  <2>1. Len(q) = 2 /\ q[2].t = "rmloop"
    BY <1>1, <1>2, <1>3, <1>6 DEF LoopOK
  <2>2. 2 \in DOMAIN q /\ q[2] \in Tasks(Len(files))
    BY <1>1, <1>2, <2>1, ElementOfSeq
  <2>3. Tail(q) = <<q[2]>>
    <3>1. Len(Tail(q)) = 1 /\ Tail(q)[1] = q[2]
      <4>1. Len(Tail(q)) = 1
        BY <1>2, <2>1
      <4>2. \A i \in 1..1 : Tail(q)[i] = q[i + 1]
        BY <1>2, <2>1
      <4>3. Tail(q)[1] = q[1 + 1]
        BY <4>2, 1 \in 1..1
      <4> QED
        BY <4>1, <4>3
    <3>2. <<q[2]>> \in Seq(Tasks(Len(files))) /\ Len(<<q[2]>>) = 1 /\ <<q[2]>>[1] = q[2]
      BY <2>2
    <3> DEFINE one == <<q[2]>>
    <3> HIDE DEF one
    <3>3. \A i \in 1..Len(Tail(q)) : Tail(q)[i] = one[i]
      <4>1. \A i \in 1..1 : i = 1
        OBVIOUS
      <4>2. one[1] = q[2]
        BY <3>2 DEF one
      <4> QED
        BY <3>1, <4>1, <4>2
    <3> QED
      BY <1>2, <3>1, <3>2, <3>3, SeqEqual DEF one
  <2>4. Holding(q) = 0
    BY <1>1, <1>6 DEF Holding, NoTag
  <2> QED
    BY <1>1, <1>3, <1>4, <1>6, <2>1, <2>2, <2>3, <2>4 DEF q
<1> QED
  BY <1>1, <1>5, <1>6 DEF q, LoopTags

\* What a RemoveAll has to do next is not a registration.
LEMMA SettleNothing ==
  ASSUME NEW q, NEW r, q = <<>> \/ Head(q).t \notin {"register", "parent", "self"}
  PROVE  Settle(q, r) = q
BY DEF Settle

LEMMA PairAndOne ==
  ASSUME NEW S, NEW x \in S, NEW y \in S, NEW z \in S
  PROVE  <<x, y>> \o <<z>> = <<x, y, z>>
<1>1. <<x, y>> \in Seq(S) /\ <<z>> \in Seq(S) /\ <<x, y, z>> \in Seq(S)
      /\ Len(<<x, y, z>>) = 3
  OBVIOUS
<1> DEFINE q == <<x, y>> \o <<z>>
<1>2. q \in Seq(S) /\ Len(q) = 3 /\ q[1] = x /\ q[2] = y /\ q[3] = z
  BY <1>1
<1> HIDE DEF q
<1>3. \A i \in 1..Len(q) : q[i] = <<x, y, z>>[i]
  <2>1. \A i \in 1..3 : i = 1 \/ i = 2 \/ i = 3
    OBVIOUS
  <2> QED
    BY <1>2, <2>1
<1> QED
  BY <1>1, <1>2, <1>3, SeqEqual DEF q

LEMMA RemoveAllKeeps ==
  ASSUME MemInv, NEW c \in Clients, RemoveAll(c)
  PROVE  MemInv'
<1> DEFINE n == Len(files)
           w == Task("rmloop", Top(c).k)
           x == [w EXCEPT !.must = Present]
<1>1. Busy(c) /\ Top(c).t = "removeall" /\ TypeInv /\ Top(c).t \in LoopTags
  BY DEF RemoveAll, At, Top, MemInv, LoopTags
<1>2. /\ cut # {} /\ c \notin waiting /\ readers[c] \in Nat /\ Tail(todo[c]) = <<>>
      /\ "nil" \notin cut => readers[c] = 0
  BY <1>1, LoopAtHand
<1>3. n \in Nat /\ Top(c).k \in Keys
  BY <1>1, TopTyped
<1>4. x \in Tasks(n) /\ x.t = "rmloop"
  <2>1. w \in Tasks(n) /\ w.t = "rmloop"
    BY <1>3, TaskTyped DEF Tags, Removals, LoopTags
  <2>2. Present \in SUBSET Keys
    BY DEF Present
  <2> HIDE DEF w
  <2> QED
    BY <2>1, <2>2 DEF Tasks
<1> HIDE DEF x
<1>5. <<x>> \in Seq(Tasks(n)) /\ DOMAIN <<x>> = {1} /\ <<x>>[1] = x /\ Len(<<x>>) = 1
  BY <1>4
<1>6. LoopOK(<<x>>) /\ NoTag(<<x>>, {"rename", "move"}) /\ Holding(<<x>>) = 1
  BY <1>4, <1>5 DEF LoopOK, NoTag, Holding
<1>7. todo' = [todo EXCEPT ![c] = <<x>>] /\ res' = res
  <2>1. Gives(c, res[c], <<x>>)
    BY DEF RemoveAll, Then, x
  <2>2. <<x>> \o <<>> = <<x>> /\ Head(<<x>>) = x
    OBVIOUS
  <2>3. Settle(<<x>> \o Tail(todo[c]), res[c]) = <<x>>
    BY <1>2, <1>4, <2>2, SettleNothing
  <2> QED
    BY <1>1, <2>1, <2>3 DEF Gives, TypeInv
<1>8. readers' = [readers EXCEPT ![c] = readers[c] + 1]
      /\ UNCHANGED <<setup, fos, files, waiting, cut>>
  BY DEF RemoveAll, Hold
<1>9. readers[c] + 1 \in Nat /\ readers[c] + 1 >= 1 /\ ("nil" \notin cut => readers[c] + 1 = 1)
  BY <1>2
<1> QED
  BY <1>2, <1>5, <1>6, <1>7, <1>8, <1>9, ListReplaced

LEMMA RemoveNextKeeps ==
  ASSUME MemInv, NEW c \in Clients, RemoveNext(c)
  PROVE  MemInv'
<1> DEFINE n == Len(files)
           y == Task("rmback", Top(c).k)
           w == Top(c)
<1>1. Busy(c) /\ Top(c).t = "rmloop" /\ TypeInv /\ Top(c).t \in LoopTags
  BY DEF RemoveNext, At, Top, MemInv, LoopTags
<1>2. /\ cut # {} /\ c \notin waiting /\ readers[c] \in Nat /\ Tail(todo[c]) = <<>>
      /\ readers[c] >= 1 /\ ("nil" \notin cut => readers[c] = 1)
  BY <1>1, LoopAtHand
<1>3. n \in Nat /\ Top(c).k \in Keys /\ w \in Tasks(n)
  BY <1>1, TopTyped
<1>4. PICK p \in Present : Then(c, <<Task("delete", p), y, [w EXCEPT !.must = @ \ {p}]>>)
  BY DEF RemoveNext
<1> DEFINE x == Task("delete", p)
           z == [w EXCEPT !.must = @ \ {p}]
           q == <<x, y, z>>
<1>5. x \in Tasks(n) /\ x.t = "delete" /\ y \in Tasks(n) /\ y.t = "rmback"
  BY <1>3, TaskTyped DEF Tags, Removals, LoopTags, Present
<1>6. z \in Tasks(n) /\ z.t = "rmloop"
  <2>1. w \in Tasks(n) /\ w.t = "rmloop"
    BY <1>1, <1>3
  <2> HIDE DEF w
  <2>2. w.must \ {p} \in SUBSET Keys
    BY <2>1 DEF Tasks
  <2> QED
    BY <2>1, <2>2 DEF Tasks
<1>7. UNCHANGED <<setup, fos, files, waiting, cut>> /\ readers' = [readers EXCEPT ![c] = readers[c] - 1]
  <2>1. Hold(c, -1) /\ UNCHANGED <<setup, fos, files, waiting, cut>>
    BY DEF RemoveNext
  <2>2. readers' = [readers EXCEPT ![c] = readers[c] + (-1)] /\ readers[c] + (-1) = readers[c] - 1
    BY <1>2, <2>1 DEF Hold
  <2> QED
    BY <2>1, <2>2
<1>8. Gives(c, res[c], q)
  BY <1>4 DEF Then
<1> HIDE DEF x, y, z
<1>9. /\ q \in Seq(Tasks(n)) /\ DOMAIN q = {1, 2, 3} /\ Len(q) = 3
      /\ q[1] = x /\ q[2] = y /\ q[3] = z /\ Head(q) = x /\ q \o <<>> = q
  BY <1>5, <1>6
<1> HIDE DEF q
<1>10. LoopOK(q) /\ NoTag(q, {"rename", "move"})
  BY <1>5, <1>6, <1>9 DEF LoopOK, NoTag
<1>11. Holding(q) = 0
  BY <1>5, <1>9 DEF Holding, NoTag
<1>12. todo' = [todo EXCEPT ![c] = q] /\ res' = res
  <2>1. Settle(q \o Tail(todo[c]), res[c]) = q
    BY <1>2, <1>5, <1>9, SettleNothing
  <2> QED
    BY <1>1, <1>8, <2>1 DEF Gives, TypeInv
<1>13. readers[c] - 1 \in Nat /\ readers[c] - 1 >= 0 /\ ("nil" \notin cut => readers[c] - 1 = 0)
  BY <1>2
<1> QED
  BY <1>2, <1>7, <1>9, <1>10, <1>11, <1>12, <1>13, ListReplaced

LEMMA RemoveDoneKeeps ==
  ASSUME MemInv, NEW c \in Clients, RemoveDone(c)
  PROVE  MemInv'
<1>1. Busy(c) /\ Top(c).t = "rmloop" /\ TypeInv /\ Top(c).t \in LoopTags
  BY DEF RemoveDone, At, Top, MemInv, LoopTags
<1>2. /\ cut # {} /\ c \notin waiting /\ readers[c] \in Nat /\ Tail(todo[c]) = <<>>
      /\ readers[c] >= 1 /\ ("nil" \notin cut => readers[c] = 1)
  BY <1>1, LoopAtHand
<1>3. UNCHANGED <<setup, fos, files, waiting, cut>> /\ readers' = [readers EXCEPT ![c] = readers[c] - 1]
  <2>1. Hold(c, -1) /\ UNCHANGED <<setup, fos, files, waiting, cut>>
    BY DEF RemoveDone
  <2>2. readers' = [readers EXCEPT ![c] = readers[c] + (-1)] /\ readers[c] + (-1) = readers[c] - 1
    BY <1>2, <2>1 DEF Hold
  <2> QED
    BY <2>1, <2>2
<1>4. /\ << >> \in Seq(Tasks(Len(files))) /\ LoopOK(<< >>) /\ Holding(<< >>) = 0
      /\ NoTag(<< >>, {"rename", "move"}) /\ << >> \o << >> = << >>
  BY DEF LoopOK, Holding, NoTag
<1>5. todo' = [todo EXCEPT ![c] = << >>] /\ res' = res
  <2>1. Gives(c, res[c], << >>)
    BY DEF RemoveDone, Then
  <2>2. Settle(<< >> \o Tail(todo[c]), res[c]) = << >>
    BY <1>2, <1>4, SettleNothing
  <2> QED
    BY <1>1, <2>1, <2>2 DEF Gives, TypeInv
<1>6. readers[c] - 1 \in Nat /\ readers[c] - 1 >= 0 /\ ("nil" \notin cut => readers[c] - 1 = 0)
  BY <1>2
<1> QED
  BY <1>2, <1>3, <1>4, <1>5, <1>6, ListReplaced

LEMMA RemoveBackKeeps ==
  ASSUME MemInv, NEW c \in Clients, RemoveBack(c)
  PROVE  MemInv'
<1> DEFINE n == Len(files)
           k == Top(c).k
           x == Task("open", SplitDir(k))
           y == Task("unregister", k)
           z == todo[c][2]
           q == <<x, y, z>>
<1>1. Busy(c) /\ Top(c).t = "rmback" /\ TypeInv /\ Top(c).t \in LoopTags
  BY DEF RemoveBack, At, Top, MemInv, LoopTags
<1>2. /\ cut # {} /\ c \notin waiting /\ readers[c] \in Nat /\ Tail(todo[c]) = <<z>>
      /\ z \in Tasks(n) /\ z.t = "rmloop" /\ ("nil" \notin cut => readers[c] = 0)
  BY <1>1, LoopAtHand
<1>3. n \in Nat /\ k \in Keys /\ SplitDir(k) \in Keys
  BY <1>1, TopTyped, KeysHave
<1>4. UNCHANGED <<setup, fos, files, waiting, cut>>
  BY DEF RemoveBack
<1>5. CASE k = RootDir
  <2>1. todo' = [todo EXCEPT ![c] = << >>] /\ res' = res /\ readers' = readers
    BY <1>5 DEF RemoveBack
  <2>2. readers' = [readers EXCEPT ![c] = readers[c]] /\ readers[c] >= 0
    BY <1>1, <1>2, <2>1 DEF TypeInv
  <2>3. /\ << >> \in Seq(Tasks(Len(files))) /\ LoopOK(<< >>) /\ Holding(<< >>) = 0
        /\ NoTag(<< >>, {"rename", "move"})
    BY DEF LoopOK, Holding, NoTag
  <2> QED
    BY <1>2, <1>4, <2>1, <2>2, <2>3, ListReplaced
<1>6. CASE k # RootDir
  <2>1. Gives(c, res[c], <<x, y>>) /\ readers' = [readers EXCEPT ![c] = readers[c] + 1]
    BY <1>6 DEF RemoveBack, Then, Hold
  <2>2. x \in Tasks(n) /\ x.t = "open"
    BY <1>3, TaskTyped DEF Tags
  <2>3. y \in Tasks(n) /\ y.t = "unregister"
    BY <1>3, TaskTyped DEF Tags, Removals
  <2> HIDE DEF x, y, z
  <2>4. <<x, y>> \o <<z>> = q
    BY <1>2, <2>2, <2>3, PairAndOne
  <2>5. /\ q \in Seq(Tasks(n)) /\ DOMAIN q = {1, 2, 3} /\ Len(q) = 3
        /\ q[1] = x /\ q[2] = y /\ q[3] = z /\ Head(q) = x
    BY <1>2, <2>2, <2>3
  <2> HIDE DEF q
  <2>6. LoopOK(q) /\ NoTag(q, {"rename", "move"}) /\ Holding(q) = 1
    BY <1>2, <2>2, <2>3, <2>5 DEF LoopOK, NoTag, Holding
  <2>7. todo' = [todo EXCEPT ![c] = q] /\ res' = res
    <3>1. Settle(<<x, y>> \o Tail(todo[c]), res[c]) = q
      BY <1>2, <2>2, <2>4, <2>5, SettleNothing
    <3> QED
      BY <1>1, <2>1, <3>1 DEF Gives, TypeInv
  <2>8. readers[c] + 1 \in Nat /\ readers[c] + 1 >= 1 /\ ("nil" \notin cut => readers[c] + 1 = 1)
    BY <1>2
  <2> QED
    BY <1>2, <1>4, <2>1, <2>5, <2>6, <2>7, <2>8, ListReplaced
<1> QED
  BY <1>5, <1>6

-----------------------------------------------------------------------------
(* Requests begin, wait for the lock, and end with the process.            *)

\* The calls that a request begins with are as they should be.
LEMMA CallsForm ==
  ASSUME NEW n \in Nat,
         NEW r \in [op : Operations, k : Keys, to : Keys, data : Seq(Bytes)]
  PROVE  /\ Calls(r) \in Seq(Tasks(n)) /\ LoopOK(Calls(r)) /\ Holding(Calls(r)) = 0
         /\ r.op # "Rename" => NoTag(Calls(r), {"rename", "move"})
         /\ r.op \notin {"RemoveAll", "Rename"} => \A f : Sound(f, Calls(r), Fine)
<1> DEFINE T(t) == [Task(t, r.k) EXCEPT !.to = r.to, !.data = r.data]
           q == Calls(r)
           Form == {"open", "put", "register", "created", "write", "fetch", "list", "close",
                    "mkdir", "pass", "chmod"}
           Plain == /\ q \in Seq(Tasks(n)) /\ \A i \in DOMAIN q : q[i].t \in Form
                    /\ \A f : Sound(f, q, Fine)
<1>1. r.k \in Keys /\ r.to \in Keys /\ r.data \in Seq(Bytes) /\ r.op \in Operations
      /\ Directorify(r.k) \in Keys
  BY KeysHave
<1>2. ASSUME NEW t \in Tags, t \notin {"enter", "copy"} PROVE T(t) \in Tasks(n) /\ T(t).t = t /\ T(t).k = r.k
  <2> DEFINE y == Task(t, r.k)
  <2>1. y \in Tasks(n) /\ y.t = t /\ y.k = r.k
    BY <1>1, <1>2, TaskTyped
  <2> HIDE DEF y
  <2>2. [y EXCEPT !.to = r.to, !.data = r.data] \in Tasks(n)
        /\ [y EXCEPT !.to = r.to, !.data = r.data].t = t
        /\ [y EXCEPT !.to = r.to, !.data = r.data].k = r.k
    BY <1>1, <1>2, <2>1 DEF Tasks
  <2> QED
    BY <2>2 DEF y
<1>3. Form \cup {"removeall", "rename"} \subseteq Tags /\ "enter" \notin Form /\ "copy" \notin Form
  BY DEF Tags, Locking, Removals, LoopTags
<1>4. /\ r.op \in {"Open", "Stat"} => q = <<T("open")>>
      /\ r.op = "Create" => q = <<T("put"), T("register"), T("created")>>
      /\ r.op = "WriteFile" => q = <<T("put"), T("register"), T("created"), T("write")>>
      /\ r.op = "ReadFile" => q = <<T("open"), T("fetch")>>
      /\ r.op = "ReadDir" => q = <<T("open"), T("list"), T("close")>>
      /\ r.op = "Mkdir" => q = <<Task("mkdir", Directorify(r.k))>>
      /\ r.op = "Remove" => q = <<T("pass")>>
      /\ r.op = "RemoveAll" => q = <<T("removeall")>>
      /\ r.op = "Rename" => q = <<T("rename")>>
      /\ r.op = "Chmod" => q = <<T("chmod")>>
  BY DEF Calls
<1>5. ASSUME NEW t \in {"open", "fetch", "list", "close", "pass", "chmod", "put", "register",
                        "created", "write", "removeall", "rename"}
      PROVE  T(t) \in Tasks(n) /\ T(t).t = t /\ T(t).k = r.k
  BY <1>2, <1>3
<1>6. Task("mkdir", Directorify(r.k)) \in Tasks(n) /\ Task("mkdir", Directorify(r.k)).t = "mkdir"
  BY <1>1, <1>3, TaskTyped
<1> HIDE DEF T, q
\* Lists of tasks that build on nothing.
<1>7. ASSUME q \in Seq(Tasks(n)),
             \A i \in DOMAIN q : q[i].t \in Form \ {"register", "created", "write"}
      PROVE  Plain
  BY <1>7 DEF Sound, Removals, LoopTags
<1>8. ASSUME r.op \in {"Open", "Stat", "Remove", "Chmod", "Mkdir"} PROVE Plain
  <2>1. PICK x \in Tasks(n) : q = <<x>> /\ x.t \in {"open", "pass", "chmod", "mkdir"}
    BY <1>4, <1>5, <1>6, <1>8
  <2>2. DOMAIN q = {1} /\ q[1] = x /\ q \in Seq(Tasks(n))
    BY <2>1
  <2>3. \A i \in DOMAIN q : q[i].t \in Form \ {"register", "created", "write"}
    BY <2>1, <2>2
  <2> QED
    BY <1>7, <2>2, <2>3
<1>9. ASSUME r.op = "ReadFile" PROVE Plain
  <2>1. q = <<T("open"), T("fetch")>>
    BY <1>4, <1>9
  <2>2. q \in Seq(Tasks(n)) /\ \A i \in DOMAIN q : q[i].t \in {"open", "fetch"}
    BY <1>5, <2>1
  <2>3. \A i \in DOMAIN q : q[i].t \in Form \ {"register", "created", "write"}
    BY <2>2
  <2> QED
    BY <1>7, <2>2, <2>3
<1>10. ASSUME r.op = "ReadDir" PROVE Plain
  <2>1. q = <<T("open"), T("list"), T("close")>>
    BY <1>4, <1>10
  <2>2. q \in Seq(Tasks(n)) /\ \A i \in DOMAIN q : q[i].t \in {"open", "list", "close"}
    BY <1>5, <2>1
  <2>3. \A i \in DOMAIN q : q[i].t \in Form \ {"register", "created", "write"}
    BY <2>2
  <2> QED
    BY <1>7, <2>2, <2>3
<1>11. ASSUME r.op \in {"Create", "WriteFile"} PROVE Plain
  <2> DEFINE p == T("put")
             g == T("register")
             d == T("created")
             w == T("write")
  <2>1. /\ p \in Tasks(n) /\ p.t = "put" /\ p.k = r.k /\ g \in Tasks(n) /\ g.t = "register" /\ g.k = r.k
        /\ d \in Tasks(n) /\ d.t = "created" /\ d.k = r.k /\ w \in Tasks(n) /\ w.t = "write"
    BY <1>5
  <2>2. q = <<p, g, d>> \/ q = <<p, g, d, w>>
    BY <1>4, <1>11
  <2> HIDE DEF p, g, d, w
  <2>3. /\ q \in Seq(Tasks(n)) /\ q[1] = p /\ q[2] = g /\ q[3] = d
        /\ \A i \in DOMAIN q : i = 1 \/ i = 2 \/ i = 3 \/ (i = 4 /\ q[4] = w)
    <3>1. CASE q = <<p, g, d>>
      BY <2>1, <3>1
    <3>2. CASE q = <<p, g, d, w>>
      BY <2>1, <3>2
    <3> QED
      BY <2>2, <3>1, <3>2
  <2>4. \A i \in DOMAIN q : q[i].t \in {"put", "register", "created", "write"}
    BY <2>1, <2>3
  <2>5. ASSUME NEW f PROVE Sound(f, q, Fine)
    <3> SUFFICES ASSUME NEW i \in DOMAIN q
                 PROVE  /\ q[i].t \notin Removals
                        /\ q[i].t \in {"register", "created"} => Supplied(f, q, i)
                        /\ q[i].t = "write" => i # 1 /\ q[i - 1].t = "created"
      BY <2>4 DEF Sound
    <3>1. q[i].t \notin Removals
      BY <2>4 DEF Removals, LoopTags
    <3>2. ASSUME q[i].t \in {"register", "created"} PROVE Supplied(f, q, i)
      <4>1. (i = 2 \/ i = 3) /\ q[i].k = r.k
        BY <2>1, <2>3, <3>2
      <4>2. 1 \in 1..(i - 1)
        BY <4>1
      <4> QED
        BY <2>1, <2>3, <4>1, <4>2 DEF Supplied, Suppliers
    <3>3. ASSUME q[i].t = "write" PROVE i # 1 /\ q[i - 1].t = "created"
      <4>1. i = 4 /\ 4 - 1 = 3
        BY <2>1, <2>3, <3>3
      <4> QED
        BY <2>1, <2>3, <4>1
    <3> QED
      BY <3>1, <3>2, <3>3
  <2> QED
    BY <2>3, <2>4, <2>5
<1>12. ASSUME Plain
       PROVE  LoopOK(q) /\ Holding(q) = 0 /\ NoTag(q, {"rename", "move"})
  BY <1>12 DEF LoopOK, Holding, NoTag
<1>13. CASE r.op \in {"RemoveAll", "Rename"}
  <2>1. PICK x \in Tasks(n) : /\ q = <<x>>
                              /\ x.t = IF r.op = "RemoveAll" THEN "removeall" ELSE "rename"
    BY <1>4, <1>5, <1>13
  <2>2. DOMAIN q = {1} /\ q[1] = x /\ q \in Seq(Tasks(n)) /\ Len(q) = 1
    BY <2>1
  <2>3. LoopOK(q) /\ Holding(q) = 0
    BY <2>1, <2>2, <1>13 DEF LoopOK, Holding, NoTag
  <2>4. r.op # "Rename" => NoTag(q, {"rename", "move"})
    BY <2>1, <2>2, <1>13 DEF NoTag
  <2> QED
    BY <1>13, <2>2, <2>3, <2>4 DEF q
<1>14. CASE r.op \notin {"RemoveAll", "Rename"}
  <2>1. Plain
    BY <1>1, <1>8, <1>9, <1>10, <1>11, <1>14 DEF Operations
  <2> QED
    BY <1>12, <1>14, <2>1 DEF q
<1> QED
  BY <1>13, <1>14

LEMMA BeginKeeps ==
  ASSUME MemInv, NEW c \in Clients, Begin(c)
  PROVE  MemInv'
<1> DEFINE n == Len(files)
<1> USE DEF MemInv
<1>1. /\ ~Busy(c) /\ res' = [res EXCEPT ![c] = Fine]
      /\ UNCHANGED <<setup, fos, files, readers, waiting, raced, panicked>>
  BY DEF Begin
<1>2. PICK r \in setup.requests : /\ todo' = [todo EXCEPT ![c] = Calls(r)]
                                  /\ cut' = cut \cup ({r.op} \cap {"RemoveAll", "Rename"})
  BY DEF Begin
<1>3. r \in [op : Operations, k : Keys, to : Keys, data : Seq(Bytes)] /\ n \in Nat
  BY TreeAssumption DEF TypeInv, Objects
<1>4. /\ Calls(r) \in Seq(Tasks(n)) /\ LoopOK(Calls(r)) /\ Holding(Calls(r)) = 0
      /\ r.op # "Rename" => NoTag(Calls(r), {"rename", "move"})
      /\ r.op \notin {"RemoveAll", "Rename"} => \A f : Sound(f, Calls(r), Fine)
  BY <1>3, CallsForm
<1>5. Fine \in Results(n)
  BY DEF Results
<1>6. /\ todo' \in [Clients -> Seq(Tasks(n))] /\ res' \in [Clients -> Results(n)]
      /\ todo'[c] = Calls(r) /\ res'[c] = Fine
      /\ \A d \in Clients \ {c} : todo'[d] = todo[d] /\ res'[d] = res[d]
  BY <1>1, <1>2, <1>4, <1>5 DEF TypeInv
<1>7. c \notin waiting
  BY <1>1 DEF TypeInv
<1>8. TypeInv'
  <2>1. \A d \in waiting' : Busy(d)' /\ Top(d)'.t \in Locking
    BY <1>1, <1>6, <1>7 DEF TypeInv, Busy, Top
  <2>2. Objects'
    BY <1>1 DEF TypeInv, Objects
  <2>3. cut' \subseteq {"RemoveAll", "Rename", "nil"}
    BY <1>2 DEF TypeInv
  <2> QED
    BY <1>1, <1>6, <2>1, <2>2, <2>3 DEF TypeInv
<1>9. ReadersInv'
  <2>1. todo[c] = <<>>
    BY <1>1 DEF Busy
  <2>2. Holding(todo[c]) = 0
    BY <2>1 DEF Holding
  <2>3. "nil" \notin cut' => "nil" \notin cut
    BY <1>2
  <2> QED
    BY <1>1, <1>4, <1>6, <2>2, <2>3 DEF ReadersInv
<1>10. NilInv'
  <2>1. "nil" \in cut' => "nil" \in cut
    BY <1>2
  <2>2. "Rename" \notin cut' => "Rename" \notin cut /\ r.op # "Rename"
    BY <1>2
  <2>3. "Rename" \in cut => "Rename" \in cut'
    BY <1>2
  <2> QED
    BY <1>1, <1>4, <1>6, <2>1, <2>2, <2>3 DEF NilInv
<1>11. SoundInv'
  <2> SUFFICES ASSUME cut' = {}
               PROVE  panicked' \subseteq {"fatal"} /\ Filled'
                      /\ \A d \in Clients : Sound(fos', todo'[d], res'[d])
    BY DEF SoundInv
  <2>1. cut = {} /\ r.op \notin {"RemoveAll", "Rename"}
    BY <1>2
  <2>2. Sound(fos, Calls(r), Fine)
    BY <1>4, <2>1
  <2>3. panicked \subseteq {"fatal"} /\ Filled /\ \A d \in Clients : Sound(fos, todo[d], res[d])
    BY <2>1 DEF SoundInv
  <2>4. Filled'
    BY <1>1, <2>3 DEF Filled
  <2> QED
    BY <1>1, <1>6, <2>2, <2>3, <2>4
<1> QED
  BY <1>8, <1>9, <1>10, <1>11

LEMMA LockKeeps ==
  ASSUME MemInv, NEW c \in Clients, Lock(c)
  PROVE  MemInv'
<1> USE DEF MemInv
<1>1. /\ Busy(c) /\ Top(c).t \in Locking /\ waiting' = waiting \cup {c}
      /\ UNCHANGED <<setup, fos, files, readers, todo, res, ops, raced, cut, panicked>>
  BY DEF Lock
<1>2. TypeInv'
  BY <1>1 DEF TypeInv, Objects, Busy, Top
<1>3. ReadersInv' /\ NilInv'
  BY <1>1 DEF ReadersInv, NilInv
<1>4. SoundInv'
  BY <1>1 DEF SoundInv, Filled
<1> QED
  BY <1>2, <1>3, <1>4

LEMMA MapRaceKeeps ==
  ASSUME MemInv, NEW c \in Clients, NEW d \in Clients, MapRace(c, d)
  PROVE  MemInv'
<1> USE DEF MemInv
<1>1. /\ panicked' = panicked \cup {"fatal"} /\ todo' = [e \in Clients |-> <<>>]
      /\ readers' = [e \in Clients |-> 0] /\ waiting' = {}
      /\ UNCHANGED <<setup, fos, files, res, ops, raced, cut>>
  BY DEF MapRace
<1>2. LoopOK(<<>>) /\ Holding(<<>>) = 0 /\ NoTag(<< >>, {"rename", "move"})
      /\ << >> \in Seq(Tasks(Len(files))) /\ \A f, r : Sound(f, << >>, r)
  BY DEF LoopOK, Holding, NoTag, Sound
<1>3. TypeInv'
  BY <1>1, <1>2 DEF TypeInv, Objects
<1>4. ReadersInv'
  BY <1>1, <1>2 DEF ReadersInv
<1>5. NilInv'
  BY <1>1, <1>2 DEF NilInv
<1>6. SoundInv'
  BY <1>1, <1>2 DEF SoundInv, Filled
<1> QED
  BY <1>3, <1>4, <1>5, <1>6

-----------------------------------------------------------------------------
(* The theorems.                                                           *)

LEMMA InitHolds == Init => MemInv
<1> SUFFICES ASSUME Init PROVE MemInv
  OBVIOUS
<1> USE DEF Init
<1>1. LoopOK(<<>>) /\ Holding(<<>>) = 0 /\ NoTag(<< >>, {"rename", "move"})
      /\ \A f, r : Sound(f, << >>, r)
  BY DEF LoopOK, Holding, NoTag, Sound
<1>2. files = << >> /\ files \in Seq(File(Len(files))) /\ DOMAIN files = {} /\ Len(files) = 0
  OBVIOUS
<1>3. TypeInv
  <2>1. << >> \in Seq(Tasks(0)) /\ Fine \in Results(0)
    BY DEF Results
  <2> QED
    BY <1>2, <2>1 DEF TypeInv, Objects
<1>4. ReadersInv
  BY <1>1 DEF ReadersInv
<1>5. NilInv
  BY <1>1 DEF NilInv, Absent, Nil
<1>6. SoundInv
  BY <1>1, <1>2 DEF SoundInv, Filled
<1> QED
  BY <1>3, <1>4, <1>5, <1>6 DEF MemInv

LEMMA NextKeeps == MemInv /\ [Next]_vars => MemInv'
<1> SUFFICES ASSUME MemInv, [Next]_vars PROVE MemInv'
  OBVIOUS
<1>1. CASE UNCHANGED vars
  <2>1. /\ UNCHANGED <<setup, fos, files, readers, waiting, todo, res, cut, panicked>>
    BY <1>1 DEF vars
  <2>2. TypeInv'
    BY <2>1 DEF MemInv, TypeInv, Objects, Busy, Top
  <2>3. ReadersInv' /\ NilInv'
    BY <2>1 DEF MemInv, ReadersInv, NilInv
  <2>4. SoundInv'
    BY <2>1 DEF MemInv, SoundInv, Filled
  <2> QED
    BY <2>2, <2>3, <2>4 DEF MemInv
<1>2. ASSUME NEW c \in Clients, NEW d \in Clients, MapRace(c, d) PROVE MemInv'
  BY <1>2, MapRaceKeeps
<1>3. ASSUME NEW c \in Clients,
             \/ Begin(c) \/ Lock(c) \/ Put(c) \/ Delete(c) \/ Move(c) \/ Chmod(c) \/ Touch(c)
             \/ Open(c) \/ ShadowDir(c) \/ Mkdir(c) \/ Enter(c) \/ Created(c) \/ Write(c)
             \/ Copy(c) \/ CopyFails(c)
             \/ CloseFile(c) \/ Reopen(c) \/ Fetch(c) \/ List(c) \/ Pass(c) \/ RemoveAll(c)
             \/ RemoveNext(c) \/ RemoveDone(c) \/ RemoveBack(c) \/ Unregister(c) \/ Rename(c)
      PROVE  MemInv'
  <2>1. CASE Begin(c) \/ Lock(c)
    BY <2>1, BeginKeeps, LockKeeps
  <2>2. CASE Put(c) \/ Delete(c) \/ Move(c)
    BY <2>2, PutKeeps, DeleteKeeps, MoveKeeps
  <2>3. CASE Chmod(c) \/ Touch(c) \/ Fetch(c) \/ Pass(c)
    BY <2>3, ChmodKeeps, FetchKeeps
  <2>4. CASE Open(c) \/ ShadowDir(c) \/ Mkdir(c) \/ Enter(c)
    BY <2>4, OpenKeeps, ShadowDirKeeps, MkdirKeeps, EnterKeeps
  <2>5. CASE Created(c) \/ Write(c) \/ CloseFile(c) \/ Reopen(c) \/ List(c)
    BY <2>5, CreatedKeeps, WriteKeeps, CloseKeeps, ListKeeps
  <2>6. CASE RemoveAll(c) \/ RemoveNext(c) \/ RemoveDone(c) \/ RemoveBack(c)
    BY <2>6, RemoveAllKeeps, RemoveNextKeeps, RemoveDoneKeeps, RemoveBackKeeps
  <2>7. CASE Unregister(c) \/ Rename(c)
    BY <2>7, UnregisterKeeps, RenameKeeps
  <2>8. CASE Copy(c) \/ CopyFails(c)
    BY <2>8, CopyKeeps, CopyFailsKeeps
  <2> QED
    BY <1>3, <2>1, <2>2, <2>3, <2>4, <2>5, <2>6, <2>7, <2>8
<1> QED
  BY <1>1, <1>2, <1>3 DEF Next

LEMMA Inductive == Spec => []MemInv
<1>1. Init => MemInv
  BY InitHolds
<1>2. MemInv /\ [Next]_vars => MemInv'
  BY NextKeeps
<1> QED
  BY <1>1, <1>2, PTL DEF Spec

\* The maps of the file system lead to objects, and only who is at a call that
\* takes the lock waits for it (memfs, lockAndSetFOS and its kin).
THEOREM MapsTyped == Spec => []TypeOK
<1>1. MemInv => TypeOK
  <2> SUFFICES ASSUME MemInv PROVE TypeOK
    OBVIOUS
  <2> DEFINE n == Len(files)
  <2>1. TypeInv /\ DOMAIN files = 1..n /\ files \in Seq(File(n))
    BY LenProperties DEF MemInv, TypeInv, Objects
  <2>2. fos \in [Keys -> {Absent, Nil} \cup DOMAIN files]
    BY <2>1 DEF TypeInv, Objects
  <2>3. ASSUME NEW i \in DOMAIN files, NEW k \in DOMAIN files[i].memDir
        PROVE  k \in Keys /\ files[i].memDir[k] \in {Nil} \cup DOMAIN files
    <3>1. files[i].memDir \in MemDirs(n)
      <4>1. files[i] \in File(n)
        BY <2>1, ElementOfSeq
      <4> QED
        BY <4>1 DEF File
    <3>2. PICK D \in SUBSET Keys : files[i].memDir \in [D -> {Nil} \cup 1..n]
      BY <3>1 DEF MemDirs
    <3> QED
      BY <2>1, <3>2
  <2> QED
    BY <2>1, <2>2, <2>3 DEF TypeOK, TypeInv
<1> QED
  BY <1>1, Inductive, PTL

\* Who keeps a read lock while everyone waits is in the loop of RemoveAll, unless
\* an Open left its read lock behind.
LEMMA BlockedByLoop ==
  ASSUME MemInv, Deadlocked, "nil" \notin cut
  PROVE  \E c \in Clients : ClientBusyWith(c, "rmloop")
<1> USE DEF MemInv
<1>1. PICK c \in Clients : Busy(c) /\ Blocked(c)
  BY DEF Deadlocked
<1>2. PICK w \in Clients : w \in waiting
  BY <1>1 DEF Blocked, RLockFree, TypeInv
<1>3. Busy(w) /\ Top(w).t \in Locking
  BY <1>2 DEF TypeInv
<1>4. Blocked(w)
  BY <1>3 DEF Deadlocked
<1>5. ~LockFree(w)
  BY <1>3, <1>4 DEF Blocked, Reading, Locking
<1>6. PICK d \in Clients : readers[d] # 0
  BY <1>5 DEF LockFree
<1>7. Holding(todo[d]) # 0
  BY <1>6 DEF ReadersInv
<1>8. \E i \in DOMAIN todo[d] : todo[d][i].t = "rmloop"
  BY <1>7 DEF Holding
<1> QED
  BY <1>8 DEF ClientBusyWith

\* Clients deadlock only by a RemoveAll that takes the read lock twice, or after
\* an Open met an entry without an object and kept its read lock, for which a
\* Rename is needed; and no request panics before a removal or a renaming
\* (memfs, RemoveAll, Open and Rename).
THEOREM HarmOnlyByRemoval == Spec => []HarmedOnlyByRemoval
<1>1. MemInv => HarmedOnlyByRemoval
  <2> SUFFICES ASSUME MemInv PROVE HarmedOnlyByRemoval
    OBVIOUS
  <2>1. Deadlocked => "nil" \in cut \/ \E c \in Clients : ClientBusyWith(c, "rmloop")
    BY BlockedByLoop
  <2>2. "nil" \in cut => "Rename" \in cut
    BY DEF MemInv, NilInv
  <2>3. panicked \ {"fatal"} # {} => cut # {}
    BY DEF MemInv, SoundInv
  <2> QED
    BY <2>1, <2>2, <2>3 DEF HarmedOnlyByRemoval
<1> QED
  BY <1>1, Inductive, PTL

-----------------------------------------------------------------------------
(***************************************************************************)
(* What is created is listed.  While nothing is removed, a client that     *)
(* has made an object has the tasks to enter it with its parent; another   *)
(* one takes its place only in a race.                                     *)
(***************************************************************************)
Registering == {"register", "parent", "self", "enter"}
ParentKeys(k) == {SplitDir(k), Other(SplitDir(k))}
There(f, k) == f[k] # Absent \/ f[Other(k)] # Absent
Makes(q, i, k) == \E j \in 1..(i - 1) : q[j].t \in Suppliers /\ q[j].k = k

\* With the map f, the objects fs and the races R, a task comes after the ones
\* that it needs; the first of a list has the result r of the last.
InForm(f, fs, R, q, r, i) ==
  LET k == q[i].k
      p == SplitDir(k) IN
  /\ q[i].t \in {"put", "putdir"} =>
       i + 1 \in DOMAIN q /\ q[i + 1].t = "register" /\ q[i + 1].k = k
  /\ q[i].t \in {"copy", "reopen"} => f[k] # Absent \/ Makes(q, i, k)
  /\ q[i].t = "parent" =>
       IF i = 1 THEN IsFile(r) => There(f, p)
       ELSE q[i - 1].t \in {"open", "shadowdir", "copy", "reopen"} /\ q[i - 1].k = p
  /\ q[i].t = "self" =>
       IF i = 1 THEN IsFile(r) /\ fs[r].name \in ParentKeys(k)
       ELSE q[i - 1].t = "open" /\ q[i - 1].k = p /\ (There(f, p) \/ Makes(q, i, p))
  /\ q[i].t = "enter" =>
       /\ fs[q[i].obj].name \in ParentKeys(k)
       /\ IF i = 1 THEN r = f[k] \/ k \in R
          ELSE q[i - 1].t = "open" /\ q[i - 1].k = k /\ (f[k] # Absent \/ Makes(q, i, k))
Formed(f, fs, R, q, r) == \A i \in DOMAIN q : InForm(f, fs, R, q, r, i)

\* The client will enter k, or it has been entered.
Registers(q, k) == \E i \in DOMAIN q : q[i].k = k /\ q[i].t \in Registering
Entered(f, fs, R, k) ==
  /\ There(f, SplitDir(k))
  /\ k \in R \/ \E i \in DOMAIN fs : /\ fs[i].name \in ParentKeys(k)
                                     /\ k \in DOMAIN fs[i].memDir /\ fs[i].memDir[k] = f[k]

ListInv ==
  cut = {} /\ "fatal" \notin panicked =>
    /\ \A k \in Keys : IsFile(fos[k]) => files[fos[k]].name = k
    /\ \A c \in Clients : Formed(fos, files, raced, todo[c], res[c])
    /\ \A k \in Present \ {RootDir} :
         Entered(fos, files, raced, k) \/ \E c \in Clients : Registers(todo[c], k)

LEMMA SpliceMakes ==
  ASSUME NEW S, NEW q \in Seq(S), q # <<>>, NEW tasks \in Seq(S), NEW g, NEW k,
         q[1].t \in Suppliers =>
            g[q[1].k] # Absent \/ \E j \in DOMAIN tasks : tasks[j].t \in Suppliers /\ tasks[j].k = q[1].k,
         NEW j \in 2..Len(q), Makes(q, j, k)
  PROVE  g[k] # Absent \/ Makes(tasks \o Tail(q), j + Len(tasks) - 1, k)
<1> DEFINE s == tasks \o Tail(q)
           n == Len(tasks)
           m == Len(q)
           i == j + n - 1
<1>1. /\ m \in Nat /\ m >= 1 /\ n \in Nat /\ DOMAIN tasks = 1..n
      /\ \A x \in 1..n : s[x] = tasks[x]
      /\ \A x \in (n + 1)..(n + m - 1) : s[x] = q[x - n + 1]
  BY SpliceSeq
<1>2. j \in 2..m
  OBVIOUS
<1> HIDE DEF s, n, m
<1>3. PICK l \in 1..(j - 1) : q[l].t \in Suppliers /\ q[l].k = k
  BY DEF Makes
<1>4. CASE l = 1
  <2>1. CASE \E x \in DOMAIN tasks : tasks[x].t \in Suppliers /\ tasks[x].k = q[1].k
    <3>1. PICK x \in 1..n : tasks[x].t \in Suppliers /\ tasks[x].k = q[1].k
      BY <2>1, <1>1
    <3>2. x \in 1..(i - 1) /\ s[x] = tasks[x]
      BY <1>1, <1>2
    <3>3. Makes(s, i, k)
      BY <3>1, <3>2, <1>3, <1>4 DEF Makes
    <3> QED
      BY <3>3 DEF s, n
  <2> QED
    BY <1>3, <1>4, <2>1
<1>5. CASE l # 1
  <2>1. l + n - 1 \in (n + 1)..(n + m - 1) /\ l + n - 1 \in 1..(i - 1) /\ (l + n - 1) - n + 1 = l
    BY <1>5, <1>1, <1>2
  <2>2. s[l + n - 1] = q[l]
    BY <2>1, <1>1
  <2>3. Makes(s, i, k)
    BY <2>1, <2>2, <1>3 DEF Makes
  <2> QED
    BY <2>3 DEF s, n
<1> QED
  BY <1>4, <1>5

\* What the second task of a list finds when tasks take the place of the first.
Ready(g, gs, R, tasks, r, y) ==
  /\ y.t = "parent" =>
       IF tasks = <<>> THEN IsFile(r) => There(g, SplitDir(y.k))
       ELSE /\ tasks[Len(tasks)].t \in {"open", "shadowdir", "copy", "reopen"}
            /\ tasks[Len(tasks)].k = SplitDir(y.k)
  /\ y.t = "self" => tasks = <<>> /\ IsFile(r) /\ gs[r].name \in ParentKeys(y.k)
  /\ y.t = "enter" => tasks = <<>> /\ (r = g[y.k] \/ y.k \in R)

LEMMA SpliceFormed ==
  ASSUME NEW S, NEW q \in Seq(S), q # <<>>, NEW tasks \in Seq(S),
         NEW f, NEW g, NEW fs, NEW gs, NEW R, NEW P, NEW r0, NEW r,
         \A x \in S : /\ f[x.k] # Absent => g[x.k] # Absent
                      /\ There(f, SplitDir(x.k)) => There(g, SplitDir(x.k))
                      /\ x.t = "enter" => gs[x.obj].name = fs[x.obj].name,
         Formed(f, fs, R, q, r0), Formed(g, gs, P, tasks, r),
         q[1].t \in Suppliers =>
            g[q[1].k] # Absent \/ \E j \in DOMAIN tasks : tasks[j].t \in Suppliers /\ tasks[j].k = q[1].k,
         2 \in DOMAIN q => Ready(g, gs, P, tasks, r, q[2])
  PROVE  Formed(g, gs, P, tasks \o Tail(q), r)
<1> DEFINE s == tasks \o Tail(q)
           n == Len(tasks)
           m == Len(q)
<1>1. /\ m \in Nat /\ m >= 1 /\ n \in Nat /\ DOMAIN q = 1..m /\ DOMAIN tasks = 1..n
      /\ s \in Seq(S) /\ Len(s) = n + m - 1 /\ DOMAIN s = 1..(n + m - 1)
      /\ \A i \in 1..n : s[i] = tasks[i]
      /\ \A i \in (n + 1)..(n + m - 1) : s[i] = q[i - n + 1]
  BY SpliceSeq
<1>e. tasks = <<>> <=> n = 0
  BY EmptySeq
<1>q. \A i \in 1..m : q[i] \in S
  BY <1>1, ElementOfSeq
<1>mk. ASSUME NEW j \in 2..m, NEW k, Makes(q, j, k) PROVE g[k] # Absent \/ Makes(s, j + n - 1, k)
  BY <1>mk, SpliceMakes
<1>l. Len(tasks) = n
  OBVIOUS
<1> HIDE DEF s, n, m
<1>2. ASSUME NEW i \in 1..n PROVE InForm(g, gs, P, s, r, i)
  <2>1. s[i] = tasks[i] /\ \A j \in 1..(i - 1) : j \in 1..n /\ s[j] = tasks[j]
    BY <1>1
  <2>2. InForm(g, gs, P, tasks, r, i)
    BY <1>1 DEF Formed
  <2>3. \A k : Makes(tasks, i, k) => Makes(s, i, k)
    BY <2>1 DEF Makes
  <2>4. i # 1 => i - 1 \in 1..(i - 1)
    BY <1>1
  <2>5. i + 1 \in DOMAIN tasks => i + 1 \in DOMAIN s /\ s[i + 1] = tasks[i + 1]
    BY <1>1
  <2> QED
    BY <2>1, <2>2, <2>3, <2>4, <2>5 DEF InForm
<1>3. ASSUME NEW i \in (n + 1)..(n + m - 1) PROVE InForm(g, gs, P, s, r, i)
  <2> DEFINE j == i - n + 1
  <2>1. /\ s[i] = q[j] /\ j \in 2..m /\ j \in DOMAIN q /\ j # 1 /\ j - 1 \in 1..m /\ j + n - 1 = i
        /\ q[j] \in S
    BY <1>1, <1>q
  <2>2. j # 2 => i - 1 \in (n + 1)..(n + m - 1) /\ (i - 1) - n + 1 = j - 1 /\ i # 1
    BY <2>1, <1>1
  <2>3. j # 2 => s[i - 1] = q[j - 1] /\ i # 1
    BY <2>2, <1>1
  <2>4. InForm(f, fs, R, q, r0, j)
    BY <2>1 DEF Formed
  <2>5. \A k : Makes(q, j, k) => g[k] # Absent \/ Makes(s, i, k)
    BY <2>1, <1>mk
  <2>6. j + 1 \in DOMAIN q => i + 1 \in DOMAIN s /\ s[i + 1] = q[j + 1]
    <3>1. j + 1 \in 1..m => i + 1 \in (n + 1)..(n + m - 1) /\ (i + 1) - n + 1 = j + 1
      BY <2>1, <1>1
    <3> QED
      BY <3>1, <1>1
  <2>7. j = 2 => Ready(g, gs, P, tasks, r, q[j]) /\ i = n + 1
    BY <2>1, <1>1
  <2>8. j = 2 /\ tasks # <<>> => i # 1 /\ s[i - 1] = tasks[Len(tasks)]
    <3>1. j = 2 /\ n # 0 => i = n + 1 /\ i - 1 = n /\ n \in 1..n
      BY <1>1, <2>1
    <3> QED
      BY <3>1, <1>1, <1>e, <1>l
  <2>9. j = 2 /\ tasks = <<>> => i = 1
    BY <1>1, <1>e, <2>1
  <2>10. /\ f[q[j].k] # Absent => g[q[j].k] # Absent
         /\ There(f, SplitDir(q[j].k)) => There(g, SplitDir(q[j].k))
         /\ q[j].t = "enter" => gs[q[j].obj].name = fs[q[j].obj].name
    BY <2>1
  <2> HIDE DEF j
  <2> DEFINE y == q[j]
             k == y.k
             p == SplitDir(k)
  <2>11. /\ y.t \in {"put", "putdir"} =>
              j + 1 \in DOMAIN q /\ q[j + 1].t = "register" /\ q[j + 1].k = k
         /\ y.t \in {"copy", "reopen"} => f[k] # Absent \/ Makes(q, j, k)
         /\ y.t = "parent" => q[j - 1].t \in {"open", "shadowdir", "copy", "reopen"} /\ q[j - 1].k = p
         /\ y.t = "self" => q[j - 1].t = "open" /\ q[j - 1].k = p /\ (There(f, p) \/ Makes(q, j, p))
         /\ y.t = "enter" =>
              /\ fs[y.obj].name \in ParentKeys(k)
              /\ q[j - 1].t = "open" /\ q[j - 1].k = k /\ (f[k] # Absent \/ Makes(q, j, k))
    BY <2>1, <2>4 DEF InForm
  <2>12. s[i] = y
    BY <2>1
  <2> HIDE DEF y
  <2>13. /\ y.t \in {"put", "putdir"} =>
              i + 1 \in DOMAIN s /\ s[i + 1].t = "register" /\ s[i + 1].k = k
         /\ y.t \in {"copy", "reopen"} => g[k] # Absent \/ Makes(s, i, k)
    BY <2>5, <2>6, <2>10, <2>11 DEF y
  <2>14. y.t = "parent" => IF i = 1 THEN IsFile(r) => There(g, p)
                           ELSE s[i - 1].t \in {"open", "shadowdir", "copy", "reopen"} /\ s[i - 1].k = p
    BY <2>3, <2>7, <2>8, <2>9, <2>11 DEF y, Ready
  <2>15. y.t = "self" =>
           IF i = 1 THEN IsFile(r) /\ gs[r].name \in ParentKeys(k)
           ELSE s[i - 1].t = "open" /\ s[i - 1].k = p /\ (There(g, p) \/ Makes(s, i, p))
    <3>1. j = 2 /\ y.t = "self" => i = 1 /\ IsFile(r) /\ gs[r].name \in ParentKeys(k)
      BY <2>7, <2>9 DEF y, Ready
    <3>2. Makes(q, j, p) => There(g, p) \/ Makes(s, i, p)
      BY <2>5 DEF There
    <3> QED
      BY <3>1, <3>2, <2>3, <2>10, <2>11 DEF y
  <2>16. y.t = "enter" =>
           /\ gs[y.obj].name \in ParentKeys(k)
           /\ IF i = 1 THEN r = g[k] \/ k \in P
              ELSE s[i - 1].t = "open" /\ s[i - 1].k = k /\ (g[k] # Absent \/ Makes(s, i, k))
    <3>1. j = 2 /\ y.t = "enter" => i = 1 /\ (r = g[k] \/ k \in P)
      BY <2>7, <2>9 DEF y, Ready
    <3> QED
      BY <3>1, <2>3, <2>5, <2>10, <2>11 DEF y
  <2> QED
    BY <2>12, <2>13, <2>14, <2>15, <2>16 DEF InForm
<1>4. DOMAIN s = 1..n \cup (n + 1)..(n + m - 1)
  BY <1>1
<1>5. Formed(g, gs, P, s, r)
  BY <1>2, <1>3, <1>4 DEF Formed
<1> QED
  BY <1>5 DEF s

\* Only the answer of a call that opens decides what comes next.
LEMMA NotAnswered ==
  ASSUME NEW f, NEW fs, NEW R, NEW q, NEW r0, Formed(f, fs, R, q, r0),
         2 \in DOMAIN q, q[1].t \notin {"open", "shadowdir", "copy", "reopen"},
         NEW g, NEW gs, NEW P, NEW tasks, NEW r
  PROVE  Ready(g, gs, P, tasks, r, q[2])
<1>1. InForm(f, fs, R, q, r0, 2)
  BY DEF Formed
<1>2. 2 # 1 /\ 2 - 1 = 1
  OBVIOUS
<1>3. q[2].t \notin {"parent", "self", "enter"}
  BY <1>1, <1>2 DEF InForm
<1> QED
  BY <1>3 DEF Ready

LEMMA SpliceRegisters ==
  ASSUME NEW S, NEW q \in Seq(S), q # <<>>, NEW tasks \in Seq(S), NEW k, Registers(q, k),
         q[1].k = k /\ q[1].t \in Registering => Registers(tasks, k)
  PROVE  Registers(tasks \o Tail(q), k)
<1> DEFINE s == tasks \o Tail(q)
           n == Len(tasks)
           m == Len(q)
<1>1. /\ m \in Nat /\ m >= 1 /\ n \in Nat /\ DOMAIN q = 1..m /\ DOMAIN tasks = 1..n
      /\ DOMAIN s = 1..(n + m - 1)
      /\ \A i \in 1..n : s[i] = tasks[i]
      /\ \A i \in (n + 1)..(n + m - 1) : s[i] = q[i - n + 1]
  BY SpliceSeq
<1> HIDE DEF s, n, m
<1>2. CASE Registers(tasks, k)
  <2>1. PICK i \in 1..n : tasks[i].k = k /\ tasks[i].t \in Registering
    BY <1>2, <1>1 DEF Registers
  <2>2. i \in DOMAIN s /\ s[i] = tasks[i]
    BY <1>1
  <2>3. Registers(s, k)
    BY <2>1, <2>2 DEF Registers
  <2> QED
    BY <2>3 DEF s
<1>3. CASE ~Registers(tasks, k)
  <2>1. PICK j \in 1..m : q[j].k = k /\ q[j].t \in Registering
    BY <1>1 DEF Registers
  <2>2. j # 1
    BY <1>3, <2>1
  <2>3. j + n - 1 \in (n + 1)..(n + m - 1) /\ j + n - 1 \in DOMAIN s /\ (j + n - 1) - n + 1 = j
    BY <2>2, <1>1
  <2>4. s[j + n - 1] = q[j]
    BY <2>3, <1>1
  <2>5. Registers(s, k)
    BY <2>1, <2>3, <2>4 DEF Registers
  <2> QED
    BY <2>5 DEF s
<1> QED
  BY <1>2, <1>3

\* The new tasks of a registration that goes on.
Stepping(f, fs, R, q, r, pre) ==
  /\ Settle(q, r) = pre \o Tail(q) /\ Formed(f, fs, R, pre, r)
  /\ q[1].k # RootDir => Registers(pre, q[1].k)

LEMMA SettleSteps ==
  ASSUME NEW n \in Nat, NEW q \in Seq(Tasks(n)), q # <<>>, NEW r \in Results(n),
         NEW f, NEW fs, NEW R, Formed(f, fs, R, q, r), Sound(f, Settle(q, r), r),
         q[1].t \in {"register", "parent", "self"}
  PROVE  \E pre \in Seq(Tasks(n)) : Stepping(f, fs, R, q, r, pre)
<1> DEFINE x == q[1]
           k == x.k
           p == SplitDir(k)
<1>1. Head(q) = x /\ x \in Tasks(n) /\ Tail(q) \in Seq(Tasks(n)) /\ 1 \in DOMAIN q
  BY HeadTailProperties, SpliceSeq
<1>2. k \in Keys /\ p \in Keys /\ RootDir \in Keys
  BY <1>1, KeysHave DEF Tasks
<1>3. InForm(f, fs, R, q, r, 1)
  BY <1>1 DEF Formed
<1> DEFINE up == Task("open", p)
           mk == Task("mkdir", p)
           pa == Task("parent", k)
           se == Task("self", k)
           op == Task("open", k)
           en == [Task("enter", k) EXCEPT !.obj = r]
           mr == Task("mkdir", RootDir)
<1>5. /\ up \in Tasks(n) /\ mk \in Tasks(n) /\ pa \in Tasks(n) /\ se \in Tasks(n)
      /\ op \in Tasks(n) /\ mr \in Tasks(n)
      /\ up.t = "open" /\ mk.t = "mkdir" /\ pa.t = "parent" /\ se.t = "self" /\ op.t = "open"
      /\ mr.t = "mkdir" /\ pa.k = k /\ se.k = k /\ op.k = k /\ up.k = p /\ mk.k = p
  <2>1. /\ "open" \in Tags /\ "open" # "enter" /\ "mkdir" \in Tags /\ "mkdir" # "enter"
        /\ "parent" \in Tags /\ "parent" # "enter" /\ "self" \in Tags /\ "self" # "enter"
    BY DEF Tags
  <2> HIDE DEF k, p
  <2> QED
    BY <1>2, <2>1, TaskTyped
<1>6. IsFile(r) => en \in Tasks(n)
  <2> SUFFICES ASSUME IsFile(r) PROVE en \in Tasks(n)
    OBVIOUS
  <2>1. r \in 0..n /\ r # 0
    BY DEF IsFile, Results, Nil, Missing, Failed, Fine
  <2> DEFINE All == [t : Tags, k : Keys, to : Keys, obj : 0..n, must : SUBSET Keys,
                     data : Seq(Bytes)]
             y == Task("enter", k)
  <2>2. << >> \in Seq(Bytes) /\ {} \in SUBSET Keys /\ "enter" \in Tags /\ 0 \in 0..n
    BY DEF Tags
  <2>3. y \in All /\ y.t = "enter"
    BY <2>2, <1>2 DEF Task, Absent
  <2> HIDE DEF y
  <2>4. en \in All /\ en.obj = r /\ en.t = "enter"
    BY <2>1, <2>3 DEF en, y
  <2> QED
    BY <2>1, <2>4 DEF Tasks
<1>7. en.t = "enter" /\ en.k = k /\ en.obj = r
  BY DEF Task
<1> DEFINE Ends(pre) == /\ pre \in Seq(Tasks(n)) /\ Settle(q, r) = pre \o Tail(q)
                        /\ Formed(f, fs, R, pre, r) /\ (k # RootDir => Registers(pre, k))
<1>8. SUFFICES \E pre : Ends(pre)
  BY DEF Stepping
<1> HIDE DEF up, mk, pa, se, op, en, mr
<1>9. CASE x.t = "register" /\ k = RootDir
  <2>1. Settle(q, r) = <<mr>> \o Tail(q)
    BY <1>1, <1>9 DEF Settle, mr
  <2>2. /\ <<mr>> \in Seq(Tasks(n)) /\ DOMAIN <<mr>> = {1} /\ <<mr>>[1] = mr
    BY <1>5
  <2>3. Formed(f, fs, R, <<mr>>, r)
    BY <2>2, <1>5 DEF Formed, InForm
  <2> QED
    BY <2>1, <2>2, <2>3, <1>9
<1>10. CASE x.t = "register" /\ k # RootDir
  <2> DEFINE pre == <<up, pa>>
  <2>1. Settle(q, r) = pre \o Tail(q)
    BY <1>1, <1>10 DEF Settle, up, pa
  <2>2. pre \in Seq(Tasks(n)) /\ DOMAIN pre = {1, 2} /\ pre[1] = up /\ pre[2] = pa
    BY <1>5
  <2> HIDE DEF pre
  <2>3. Formed(f, fs, R, pre, r)
    <3>1. InForm(f, fs, R, pre, r, 1)
      BY <2>2, <1>5 DEF InForm
    <3>2. InForm(f, fs, R, pre, r, 2)
      <4>1. 2 # 1 /\ 2 - 1 = 1
        OBVIOUS
      <4> QED
        BY <2>2, <1>5, <4>1 DEF InForm
    <3> QED
      BY <3>1, <3>2, <2>2 DEF Formed
  <2>4. Registers(pre, k)
    BY <2>2, <1>5 DEF Registers, Registering
  <2> QED
    BY <2>1, <2>2, <2>3, <2>4
<1>11. CASE x.t = "parent" /\ IsFile(r)
  <2> DEFINE pre == <<up, se>>
  <2>1. Settle(q, r) = pre \o Tail(q)
    BY <1>1, <1>11 DEF Settle, up, se
  <2>2. pre \in Seq(Tasks(n)) /\ DOMAIN pre = {1, 2} /\ pre[1] = up /\ pre[2] = se
    BY <1>5
  <2>3. There(f, p)
    BY <1>3, <1>11 DEF InForm
  <2> HIDE DEF pre
  <2>4. Formed(f, fs, R, pre, r)
    <3>1. InForm(f, fs, R, pre, r, 1)
      BY <2>2, <1>5 DEF InForm
    <3>2. InForm(f, fs, R, pre, r, 2)
      <4>1. 2 # 1 /\ 2 - 1 = 1
        OBVIOUS
      <4> QED
        BY <2>2, <2>3, <1>5, <4>1 DEF InForm
    <3> QED
      BY <3>1, <3>2, <2>2 DEF Formed
  <2>5. Registers(pre, k)
    BY <2>2, <1>5 DEF Registers, Registering
  <2> QED
    BY <2>1, <2>2, <2>4, <2>5
<1>12. CASE x.t = "parent" /\ ~IsFile(r)
  <2> DEFINE pre == <<mk>> \o <<up, se>>
  <2>1. Settle(q, r) = pre \o Tail(q)
    BY <1>1, <1>12 DEF Settle, up, se, mk
  <2>2. <<mk>> \in Seq(Tasks(n)) /\ <<up, se>> \in Seq(Tasks(n))
    BY <1>5
  <2>3. /\ pre \in Seq(Tasks(n)) /\ DOMAIN pre = 1..3
        /\ pre[1] = mk /\ pre[2] = up /\ pre[3] = se
    BY <2>2
  <2> HIDE DEF pre
  <2>4. Formed(f, fs, R, pre, r)
    <3>1. InForm(f, fs, R, pre, r, 1)
      BY <2>3, <1>5 DEF InForm
    <3>2. InForm(f, fs, R, pre, r, 2)
      BY <2>3, <1>5 DEF InForm
    <3>3. InForm(f, fs, R, pre, r, 3)
      <4>1. 3 # 1 /\ 3 - 1 = 2 /\ 1 \in 1..(3 - 1)
        OBVIOUS
      <4>2. Makes(pre, 3, p)
        BY <2>3, <1>5, <4>1 DEF Makes, Suppliers
      <4> QED
        BY <2>3, <1>5, <4>1, <4>2 DEF InForm
    <3>4. \A i \in DOMAIN pre : i = 1 \/ i = 2 \/ i = 3
      BY <2>3
    <3> QED
      BY <3>1, <3>2, <3>3, <3>4 DEF Formed
  <2>5. Registers(pre, k)
    <3>1. 3 \in DOMAIN pre
      BY <2>3
    <3> QED
      BY <3>1, <2>3, <1>5 DEF Registers, Registering
  <2> QED
    BY <2>1, <2>3, <2>4, <2>5
<1>13. CASE x.t = "self"
  <2>1. IsFile(r) /\ fs[r].name \in ParentKeys(k)
    BY <1>3, <1>13 DEF InForm
  <2> DEFINE pre == <<op, en>>
  <2>2. Settle(q, r) = pre \o Tail(q)
    BY <1>1, <1>13, <2>1 DEF Settle, op, en
  <2>3. pre \in Seq(Tasks(n)) /\ DOMAIN pre = {1, 2} /\ pre[1] = op /\ pre[2] = en
    BY <1>5, <1>6, <2>1
  <2>s. Len(pre) = 2
    OBVIOUS
  <2> HIDE DEF pre
  <2>6. f[k] # Absent
    <3> DEFINE s == pre \o Tail(q)
    <3>1. /\ DOMAIN s = 1..(2 + Len(q) - 1) /\ Len(q) \in Nat /\ Len(q) >= 1
          /\ \A i \in 1..2 : s[i] = pre[i]
      <4>1. /\ DOMAIN s = 1..(Len(pre) + Len(q) - 1) /\ Len(q) \in Nat /\ Len(q) >= 1
            /\ \A i \in 1..Len(pre) : s[i] = pre[i]
        BY <2>3, SpliceSeq
      <4> QED
        BY <4>1, <2>s
    <3>2. s[1] = op /\ s[2] = en /\ 2 \in DOMAIN s
      BY <2>3, <3>1
    <3>3. Sound(f, s, r)
      BY <2>2
    <3> HIDE DEF s
    <3>4. Supplied(f, s, 2)
      BY <3>2, <3>3, <1>7 DEF Sound
    <3>5. \A j \in 1..(2 - 1) : j = 1
      OBVIOUS
    <3>6. \A j \in 1..(2 - 1) : s[j].t \notin Suppliers
      BY <3>2, <3>5, <1>5 DEF Suppliers
    <3> QED
      BY <3>2, <3>4, <3>6, <1>7 DEF Supplied
  <2>4. Formed(f, fs, R, pre, r)
    <3>1. InForm(f, fs, R, pre, r, 1)
      BY <2>3, <1>5 DEF InForm
    <3>2. InForm(f, fs, R, pre, r, 2)
      <4>1. 2 # 1 /\ 2 - 1 = 1
        OBVIOUS
      <4> QED
        BY <2>1, <2>3, <2>6, <1>5, <1>7, <4>1 DEF InForm
    <3> QED
      BY <3>1, <3>2, <2>3 DEF Formed
  <2>5. Registers(pre, k)
    BY <2>3, <1>7 DEF Registers, Registering
  <2> QED
    BY <2>2, <2>3, <2>4, <2>5
<1> QED
  BY <1>9, <1>10, <1>11, <1>12, <1>13

LEMMA SettleFormed ==
  ASSUME NEW n \in Nat, NEW q \in Seq(Tasks(n)), NEW r \in Results(n),
         NEW f, NEW fs, NEW R, Formed(f, fs, R, q, r), Sound(f, Settle(q, r), r)
  PROVE  /\ Formed(f, fs, R, Settle(q, r), r)
         /\ \A k : k # RootDir /\ Registers(q, k) => Registers(Settle(q, r), k)
<1>1. CASE Settle(q, r) = q
  BY <1>1
<1>2. CASE q # <<>> /\ q[1].t \in {"register", "parent", "self"}
  <2>1. PICK pre \in Seq(Tasks(n)) : Stepping(f, fs, R, q, r, pre)
    BY <1>2, SettleSteps
  <2>2. 2 \in DOMAIN q => Ready(f, fs, R, pre, r, q[2])
    BY <1>2, NotAnswered
  <2>3. Formed(f, fs, R, pre \o Tail(q), r)
    BY <1>2, <2>1, <2>2, SpliceFormed DEF Stepping, Suppliers
  <2>4. ASSUME NEW k, k # RootDir, Registers(q, k) PROVE Registers(pre \o Tail(q), k)
    BY <1>2, <2>1, <2>4, SpliceRegisters DEF Stepping
  <2> QED
    BY <2>1, <2>3, <2>4 DEF Stepping
<1> QED
  BY <1>1, <1>2, SettleForm

\* The world of a list may grow.
LEMMA GrowFormed ==
  ASSUME NEW n \in Nat, NEW q \in Seq(Tasks(n)), NEW r \in Results(n),
         NEW f, NEW g, NEW fs, NEW gs, NEW R, NEW P,
         Formed(f, fs, R, q, r), Sound(f, q, r), R \subseteq P,
         \A k \in Keys : f[k] # Absent => g[k] # Absent /\ (g[k] = f[k] \/ k \in P),
         \A i \in 1..n : gs[i].name = fs[i].name
  PROVE  Formed(g, gs, P, q, r)
<1> SUFFICES ASSUME NEW i \in DOMAIN q PROVE InForm(g, gs, P, q, r, i)
  BY DEF Formed
<1>1. InForm(f, fs, R, q, r, i)
  BY DEF Formed
<1> DEFINE k == q[i].k
           p == SplitDir(k)
<1>2. q[i] \in Tasks(n)
  BY LenProperties, ElementOfSeq
<1>3. k \in Keys /\ p \in Keys /\ Other(p) \in Keys
  BY <1>2, KeysHave DEF Tasks
<1>4. /\ f[k] # Absent => g[k] # Absent
      /\ There(f, p) => There(g, p)
  BY <1>3 DEF There
<1>5. IsFile(r) => r \in 1..n
  BY DEF IsFile, Results, Nil, Missing, Failed, Fine
<1>6. q[i].t = "enter" => gs[q[i].obj].name = fs[q[i].obj].name
  <2>1. q[i].obj \in 0..n /\ (q[i].t = "enter" => q[i].obj # 0)
    BY <1>2 DEF Tasks
  <2>2. q[i].t = "enter" => q[i].obj \in 1..n
    BY <2>1
  <2> QED
    BY <2>2
<1>7. q[i].t = "enter" /\ i = 1 => r # Absent
  BY DEF Sound, IsFile, Absent
<1>8. q[i].t = "enter" /\ i = 1 => r = g[k] \/ k \in P
  BY <1>1, <1>3, <1>7 DEF InForm
<1> HIDE DEF k
<1>9. IsFile(r) => gs[r].name = fs[r].name
  BY <1>5
<1>10. /\ q[i].t \in {"put", "putdir"} =>
            i + 1 \in DOMAIN q /\ q[i + 1].t = "register" /\ q[i + 1].k = k
       /\ q[i].t \in {"copy", "reopen"} => g[k] # Absent \/ Makes(q, i, k)
       /\ q[i].t = "parent" =>
            IF i = 1 THEN IsFile(r) => There(g, p)
            ELSE q[i - 1].t \in {"open", "shadowdir", "copy", "reopen"} /\ q[i - 1].k = p
  BY <1>1, <1>4 DEF InForm, k
<1>11. q[i].t = "self" =>
         IF i = 1 THEN IsFile(r) /\ gs[r].name \in ParentKeys(k)
         ELSE q[i - 1].t = "open" /\ q[i - 1].k = p /\ (There(g, p) \/ Makes(q, i, p))
  BY <1>1, <1>4, <1>9 DEF InForm, k
<1>12. q[i].t = "enter" =>
         /\ gs[q[i].obj].name \in ParentKeys(k)
         /\ IF i = 1 THEN r = g[k] \/ k \in P
            ELSE q[i - 1].t = "open" /\ q[i - 1].k = k /\ (g[k] # Absent \/ Makes(q, i, k))
  BY <1>1, <1>4, <1>6, <1>8 DEF InForm, k
<1> QED
  BY <1>10, <1>11, <1>12 DEF InForm, k

\* What a call does to the maps and to what the clients have to do.
Lists(c, r, tasks) ==
  /\ raced \subseteq raced'
  /\ \A k \in Keys : fos[k] # Absent => fos'[k] # Absent
  /\ \A i \in DOMAIN files : i \in DOMAIN files' /\ files'[i].name = files[i].name
  /\ \A k \in Keys : IsFile(fos'[k]) => files'[fos'[k]].name = k
  /\ \A k \in Keys : fos'[k] # fos[k] =>
       /\ Top(c).t \in {"put", "putdir"} /\ Top(c).k = k
       /\ fos[k] = Absent \/ k \in raced' \/ \A d \in Clients \ {c} : ~Busy(d)
  /\ \A i \in DOMAIN files : \A k \in DOMAIN files[i].memDir :
       \/ k \in DOMAIN files'[i].memDir /\ files'[i].memDir[k] \in {files[i].memDir[k], fos'[k]}
       \/ k \in raced'
  /\ Formed(fos', files', raced', tasks, r)
  /\ 2 \in DOMAIN todo[c] => Ready(fos', files', raced', tasks, r, todo[c][2])
  /\ Top(c).t \in Suppliers =>
       fos'[Top(c).k] # Absent
       \/ \E j \in DOMAIN tasks : tasks[j].t \in Suppliers /\ tasks[j].k = Top(c).k
  /\ Top(c).t = "enter" => Entered(fos', files', raced', Top(c).k)

LEMMA CallLists ==
  ASSUME MemInv, MemInv', ListInv, cut = {}, cut' = {}, "fatal" \notin panicked,
         NEW c \in Clients, Busy(c), NEW r \in Results(Len(files)),
         NEW tasks \in Seq(Tasks(Len(files))), Gives(c, r, tasks),
         Top(c).t \notin {"register", "parent", "self"}, Lists(c, r, tasks)
  PROVE  ListInv'
<1> DEFINE n == Len(files)
           q == todo[c]
<1>1. /\ n \in Nat /\ DOMAIN files = 1..n /\ TypeInv /\ Top(c) = q[1] /\ Top(c) \in Tasks(n)
  BY TopTyped DEF MemInv
<1>2. q \in Seq(Tasks(n)) /\ q # <<>>
  BY <1>1 DEF TypeInv, Busy
<1>3. /\ \A d \in Clients \ {c} : todo'[d] = todo[d] /\ res'[d] = res[d]
      /\ todo'[c] = Settle(tasks \o Tail(q), r) /\ res'[c] = r
      /\ tasks \o Tail(q) \in Seq(Tasks(n))
  BY <1>1, GivesKeeps
<1>4. /\ \A k \in Keys : IsFile(fos[k]) => files[fos[k]].name = k
      /\ \A d \in Clients : Formed(fos, files, raced, todo[d], res[d])
      /\ \A k \in Present \ {RootDir} :
           Entered(fos, files, raced, k) \/ \E d \in Clients : Registers(todo[d], k)
  BY DEF ListInv
<1>5. \A d \in Clients : Sound(fos, todo[d], res[d]) /\ Sound(fos', todo'[d], res'[d])
  BY DEF MemInv, SoundInv
<1> USE DEF Lists
<1>6. Formed(fos', files', raced', tasks \o Tail(q), r)
  <2>1. \A x \in Tasks(n) :
          /\ fos[x.k] # Absent => fos'[x.k] # Absent
          /\ There(fos, SplitDir(x.k)) => There(fos', SplitDir(x.k))
          /\ x.t = "enter" => files'[x.obj].name = files[x.obj].name
    <3> SUFFICES ASSUME NEW x \in Tasks(n)
                 PROVE  /\ fos[x.k] # Absent => fos'[x.k] # Absent
                        /\ There(fos, SplitDir(x.k)) => There(fos', SplitDir(x.k))
                        /\ x.t = "enter" => files'[x.obj].name = files[x.obj].name
      OBVIOUS
    <3>1. x.k \in Keys /\ x.obj \in 0..n /\ (x.t = "enter" => x.obj # 0)
      BY DEF Tasks
    <3>2. SplitDir(x.k) \in Keys /\ Other(SplitDir(x.k)) \in Keys
      BY <3>1, KeysHave
    <3>3. x.t = "enter" => x.obj \in DOMAIN files
      BY <3>1, <1>1
    <3> QED
      BY <3>1, <3>2, <3>3 DEF There
  <2>2. Formed(fos, files, raced, q, res[c])
    BY <1>4
  <2>3. q[1].t \in Suppliers =>
          fos'[q[1].k] # Absent
          \/ \E j \in DOMAIN tasks : tasks[j].t \in Suppliers /\ tasks[j].k = q[1].k
    BY <1>1
  <2> HIDE DEF q
  <2> QED
    BY <1>2, <2>1, <2>2, <2>3, SpliceFormed DEF q
<1>7. /\ Formed(fos', files', raced', todo'[c], r)
      /\ \A k : k # RootDir /\ Registers(tasks \o Tail(q), k) => Registers(todo'[c], k)
  <2> DEFINE s == tasks \o Tail(q)
  <2>1. /\ s \in Seq(Tasks(n)) /\ Formed(fos', files', raced', s, r)
        /\ Sound(fos', Settle(s, r), r) /\ todo'[c] = Settle(s, r)
    BY <1>3, <1>5, <1>6
  <2> HIDE DEF s
  <2>2. /\ Formed(fos', files', raced', Settle(s, r), r)
        /\ \A k : k # RootDir /\ Registers(s, k) => Registers(Settle(s, r), k)
    BY <1>1, <2>1, SettleFormed
  <2> QED
    BY <2>1, <2>2 DEF s
<1>8. ASSUME NEW d \in Clients, d # c PROVE Formed(fos', files', raced', todo'[d], res'[d])
  <2>1. todo'[d] = todo[d] /\ res'[d] = res[d]
    BY <1>3, <1>8
  <2>2. CASE todo[d] = <<>>
    BY <2>1, <2>2 DEF Formed
  <2>3. CASE todo[d] # <<>>
    <3>1. todo[d] \in Seq(Tasks(n)) /\ res[d] \in Results(n)
      BY <1>1 DEF TypeInv
    <3>2. Formed(fos, files, raced, todo[d], res[d]) /\ Sound(fos, todo[d], res[d])
      BY <1>4, <1>5
    <3>3. Busy(d)
      BY <2>3 DEF Busy
    <3>4. \A k \in Keys : fos[k] # Absent => fos'[k] # Absent /\ (fos'[k] = fos[k] \/ k \in raced')
      BY <1>8, <3>3
    <3>5. \A i \in 1..n : files'[i].name = files[i].name
      BY <1>1
    <3>6. Formed(fos', files', raced', todo[d], res[d])
      BY <1>1, <3>1, <3>2, <3>4, <3>5, GrowFormed
    <3> QED
      BY <2>1, <3>6
  <2> QED
    BY <2>2, <2>3
<1>9. ASSUME NEW k \in Keys, fos'[k] # Absent, k # RootDir
      PROVE  Entered(fos', files', raced', k) \/ \E d \in Clients : Registers(todo'[d], k)
  <2>1. CASE fos'[k] # fos[k]
    <3>1. q[1].t \in {"put", "putdir"} /\ q[1].k = k
      BY <2>1, <1>1
    <3>2. InForm(fos, files, raced, q, res[c], 1)
      <4>1. 1 \in DOMAIN q
        BY <1>2, SpliceSeq
      <4> QED
        BY <1>4, <4>1 DEF Formed
    <3>3. 2 \in DOMAIN q /\ q[2].t = "register" /\ q[2].k = k
      <4>1. 1 + 1 = 2
        OBVIOUS
      <4> QED
        BY <3>1, <3>2, <4>1 DEF InForm
    <3>4. Registers(q, k)
      BY <3>3 DEF Registers, Registering
    <3>5. Registers(tasks \o Tail(q), k)
      BY <1>2, <3>1, <3>4, SpliceRegisters DEF Registering
    <3> QED
      BY <1>7, <1>9, <3>5
  <2>2. CASE fos'[k] = fos[k]
    <3>1. k \in Present \ {RootDir}
      BY <1>9, <2>2 DEF Present
    <3>2. CASE Entered(fos, files, raced, k)
      <4>1. There(fos', SplitDir(k))
        BY <3>2, KeysHave DEF Entered, There
      <4>2. CASE k \in raced'
        BY <4>1, <4>2 DEF Entered
      <4>3. CASE k \notin raced'
        <5>1. PICK i \in DOMAIN files : /\ files[i].name \in ParentKeys(k)
                                        /\ k \in DOMAIN files[i].memDir /\ files[i].memDir[k] = fos[k]
          BY <3>2, <4>3 DEF Entered
        <5>2. i \in DOMAIN files' /\ files'[i].name \in ParentKeys(k)
              /\ k \in DOMAIN files'[i].memDir /\ files'[i].memDir[k] = fos'[k]
          BY <5>1, <4>3, <2>2
        <5> QED
          BY <4>1, <5>2 DEF Entered
      <4> QED
        BY <4>2, <4>3
    <3>3. CASE \E d \in Clients : Registers(todo[d], k)
      <4>1. PICK d \in Clients : Registers(todo[d], k)
        BY <3>3
      <4>2. CASE d # c
        BY <4>1, <4>2, <1>3
      <4>3. CASE d = c
        <5>1. CASE q[1].k = k /\ q[1].t \in Registering
          <6>1. Top(c).t = "enter" /\ Top(c).k = k
            BY <5>1, <1>1 DEF Registering
          <6> QED
            BY <6>1
        <5>2. CASE ~(q[1].k = k /\ q[1].t \in Registering)
          <6>1. Registers(tasks \o Tail(q), k)
            BY <1>2, <4>1, <4>3, <5>2, SpliceRegisters
          <6> QED
            BY <1>7, <1>9, <6>1
        <5> QED
          BY <5>1, <5>2
      <4> QED
        BY <4>2, <4>3
    <3> QED
      BY <1>4, <3>1, <3>2, <3>3
  <2> QED
    BY <2>1, <2>2
<1>10. \A d \in Clients : Formed(fos', files', raced', todo'[d], res'[d])
  BY <1>3, <1>7, <1>8
<1> QED
  BY <1>9, <1>10 DEF ListInv, Present

\* Nothing has been removed, nor will be by the step.
Going == MemInv /\ MemInv' /\ ListInv /\ cut = {} /\ cut' = {} /\ "fatal" \notin panicked

\* The maps stay, and what directories contain.
Steady ==
  /\ fos' = fos /\ raced' = raced /\ DOMAIN files' = DOMAIN files
  /\ \A i \in DOMAIN files :
       files'[i].name = files[i].name /\ files'[i].memDir = files[i].memDir

LEMMA GoingOn ==
  ASSUME Going, NEW c \in Clients, Busy(c)
  PROVE  /\ TypeInv /\ Formed(fos, files, raced, todo[c], res[c])
         /\ \A k \in Keys : IsFile(fos[k]) => fos[k] \in DOMAIN files /\ files[fos[k]].name = k
         /\ \A k \in Keys : fos[k] # Absent => IsFile(fos[k])
         /\ InForm(fos, files, raced, todo[c], res[c], 1)
<1>1. TypeInv /\ Formed(fos, files, raced, todo[c], res[c]) /\ 1 \in DOMAIN todo[c]
  BY TopTyped DEF Going, ListInv, MemInv
<1>2. /\ \A k \in Keys : IsFile(fos[k]) => files[fos[k]].name = k
      /\ \A k \in Keys : fos[k] # Nil
  BY TopSound DEF Going, ListInv
<1>3. DOMAIN files = 1..Len(files) /\ fos \in [Keys -> {Absent, Nil} \cup 1..Len(files)]
  BY <1>1, TopTyped DEF TypeInv, Objects
<1>4. \A k \in Keys : fos[k] \in {Absent, Nil} \cup 1..Len(files)
  BY <1>3
<1>5. \A k \in Keys : /\ IsFile(fos[k]) => fos[k] \in 1..Len(files)
                      /\ fos[k] # Absent => IsFile(fos[k])
  BY <1>2, <1>4 DEF IsFile, Absent, Nil
<1> QED
  BY <1>1, <1>2, <1>3, <1>5 DEF Formed

LEMMA SteadyLists ==
  ASSUME Going, NEW c \in Clients, Busy(c), NEW r \in Results(Len(files)),
         NEW tasks \in Seq(Tasks(Len(files))), Gives(c, r, tasks),
         Top(c).t \notin {"register", "parent", "self", "enter"}, Steady,
         Formed(fos, files', raced, tasks, r),
         2 \in DOMAIN todo[c] => Ready(fos, files', raced, tasks, r, todo[c][2]),
         Top(c).t \in Suppliers =>
           fos[Top(c).k] # Absent
           \/ \E j \in DOMAIN tasks : tasks[j].t \in Suppliers /\ tasks[j].k = Top(c).k
  PROVE  ListInv'
<1>1. \A k \in Keys : IsFile(fos[k]) => fos[k] \in DOMAIN files /\ files[fos[k]].name = k
  BY GoingOn
<1>2. Lists(c, r, tasks)
  BY <1>1 DEF Lists, Steady
<1> QED
  BY <1>2, CallLists DEF Going

LEMMA NoneFormed == \A f, fs, R, r : Formed(f, fs, R, << >>, r)
BY DEF Formed

\* Calls that return without an answer to what comes next.
LEMMA SteadyReturn ==
  ASSUME Going, NEW c \in Clients, Busy(c), NEW r \in Results(Len(files)), Gives(c, r, <<>>),
         Top(c).t \notin {"register", "parent", "self", "enter", "open", "shadowdir", "copy", "reopen"},
         Steady, Top(c).t \in Suppliers => fos[Top(c).k] # Absent
  PROVE  ListInv'
<1>1. Formed(fos, files, raced, todo[c], res[c]) /\ Top(c) = todo[c][1]
  BY GoingOn, TopTyped
<1>2. 2 \in DOMAIN todo[c] => Ready(fos, files', raced, <<>>, r, todo[c][2])
  BY <1>1, NotAnswered
<1>3. << >> \in Seq(Tasks(Len(files))) /\ Formed(fos, files', raced, << >>, r)
  BY NoneFormed
<1> QED
  BY <1>2, <1>3, SteadyLists

LEMMA CreatedLists ==
  ASSUME Going, NEW c \in Clients, Created(c)
  PROVE  ListInv'
<1> DEFINE r == IF fos[Top(c).k] = Absent THEN Nil ELSE fos[Top(c).k]
<1>1. Busy(c) /\ Top(c).t = "created" /\ TypeInv
  BY DEF Created, At, Top, Going, MemInv
<1>2. Top(c).k \in Keys /\ Len(files) \in Nat
  BY <1>1, TopTyped
<1>3. r \in Results(Len(files))
  BY <1>1, <1>2 DEF TypeInv, Objects, Results
<1>4. Gives(c, r, <<>>) /\ Steady
  BY DEF Created, Steady
<1> HIDE DEF r
<1> QED
  BY <1>1, <1>3, <1>4, SteadyReturn DEF Suppliers

\* Without nil entries a listing does not panic.
LEMMA ListReturns ==
  ASSUME Going, NEW c \in Clients, List(c)
  PROVE  Gives(c, res[c], <<>>)
<1> DEFINE inside == IF IsFile(res[c]) THEN files[res[c]].memDir ELSE [x \in {} |-> 0]
<1>1. Busy(c) /\ TypeInv
  BY DEF List, At, Going, MemInv
<1>2. Filled /\ (IsFile(res[c]) => res[c] \in DOMAIN files)
  BY <1>1, TopSound, TopTyped DEF Going
<1>3. ~\E x \in DOMAIN inside : inside[x] = Nil
  BY <1>2 DEF Filled
<1> QED
  BY <1>3 DEF List, Then

\* Fetch, Pass and Touch change nothing, nor does List unless it panics.
LEMMA FetchLists ==
  ASSUME Going, NEW c \in Clients, Fetch(c) \/ Pass(c) \/ Touch(c) \/ List(c)
  PROVE  ListInv'
<1>1. Busy(c) /\ Top(c).t \in {"fetch", "pass", "touch", "list"} /\ TypeInv
  BY DEF Fetch, Pass, Touch, List, At, Top, Going, MemInv
<1>2. res[c] \in Results(Len(files)) /\ (IsFile(res[c]) => res[c] \in DOMAIN files)
  BY <1>1, TopTyped
<1>3. Steady
  BY DEF Fetch, Pass, Touch, List, Steady
<1>4. List(c) => Gives(c, res[c], <<>>)
  BY ListReturns
<1>5. Gives(c, res[c], <<>>)
  BY <1>4 DEF Fetch, Pass, Touch, Then
<1> QED
  BY <1>1, <1>2, <1>3, <1>5, SteadyReturn DEF Suppliers

LEMMA ChmodLists ==
  ASSUME Going, NEW c \in Clients, Chmod(c)
  PROVE  ListInv'
<1> DEFINE x == Task("touch", Top(c).k)
<1>1. Busy(c) /\ Top(c).t = "chmod" /\ TypeInv
  BY DEF Chmod, At, Top, Going, MemInv
<1>2. res[c] \in Results(Len(files)) /\ Len(files) \in Nat /\ Top(c).k \in Keys
      /\ Top(c) = todo[c][1]
  BY <1>1, TopTyped
<1>3. x \in Tasks(Len(files)) /\ x.t = "touch"
  BY <1>2, TaskTyped DEF Tags, Locking
<1>4. Gives(c, res[c], <<x>>) \/ Gives(c, res[c], <<>>)
  BY DEF Chmod, Then
<1>5. Steady
  BY DEF Chmod, Steady
<1>6. CASE Gives(c, res[c], <<>>)
  BY <1>1, <1>2, <1>5, <1>6, SteadyReturn DEF Suppliers
<1>7. CASE Gives(c, res[c], <<x>>)
  <2> HIDE DEF x
  <2>1. <<x>> \in Seq(Tasks(Len(files))) /\ DOMAIN <<x>> = {1} /\ <<x>>[1] = x
    BY <1>3
  <2>2. Formed(fos, files', raced, <<x>>, res[c])
    BY <2>1, <1>3 DEF Formed, InForm
  <2>3. Formed(fos, files, raced, todo[c], res[c])
    BY <1>1, GoingOn
  <2>4. 2 \in DOMAIN todo[c] => Ready(fos, files', raced, <<x>>, res[c], todo[c][2])
    BY <1>1, <1>2, <2>3, NotAnswered
  <2> QED
    BY <1>1, <1>2, <1>5, <1>7, <2>1, <2>2, <2>4, SteadyLists DEF Suppliers
<1> QED
  BY <1>4, <1>6, <1>7

LEMMA MkdirLists ==
  ASSUME Going, NEW c \in Clients, Mkdir(c)
  PROVE  ListInv'
<1> DEFINE k == Top(c).k
           x == Task("putdir", k)
           y == Task("register", k)
           r == res[c]
<1>1. Busy(c) /\ Top(c).t = "mkdir" /\ TypeInv
  BY DEF Mkdir, At, Top, Going, MemInv
<1>2. r \in Results(Len(files)) /\ Len(files) \in Nat /\ k \in Keys /\ Top(c) = todo[c][1]
  BY <1>1, TopTyped
<1>3. Steady
  BY DEF Mkdir, Steady
<1>4. CASE fos[k] # Absent
  <2>1. Gives(c, r, <<>>)
    BY <1>4 DEF Mkdir, Then
  <2> QED
    BY <1>1, <1>2, <1>3, <1>4, <2>1, SteadyReturn
<1>5. CASE fos[k] = Absent
  <2>1. Gives(c, r, <<x, y>>)
    BY <1>5 DEF Mkdir, Then
  <2>2. x \in Tasks(Len(files)) /\ x.t = "putdir" /\ x.k = k
    BY <1>2, TaskTyped DEF Tags, Locking
  <2>3. y \in Tasks(Len(files)) /\ y.t = "register" /\ y.k = k
    BY <1>2, TaskTyped DEF Tags
  <2> DEFINE tasks == <<x, y>>
  <2> HIDE DEF x, y, r
  <2>4. /\ tasks \in Seq(Tasks(Len(files))) /\ DOMAIN tasks = {1, 2}
        /\ tasks[1] = x /\ tasks[2] = y
    BY <2>2, <2>3
  <2> HIDE DEF tasks
  <2>5. Formed(fos, files', raced, tasks, r)
    <3>1. InForm(fos, files', raced, tasks, r, 1)
      <4>1. 1 + 1 = 2 /\ 2 \in DOMAIN tasks
        BY <2>4
      <4> QED
        BY <2>2, <2>3, <2>4, <4>1 DEF InForm
    <3>2. InForm(fos, files', raced, tasks, r, 2)
      BY <2>3, <2>4 DEF InForm
    <3> QED
      BY <3>1, <3>2, <2>4 DEF Formed
  <2>6. \E j \in DOMAIN tasks : tasks[j].t \in Suppliers /\ tasks[j].k = k
    BY <2>2, <2>4 DEF Suppliers
  <2>7. Formed(fos, files, raced, todo[c], res[c])
    BY <1>1, GoingOn
  <2>8. 2 \in DOMAIN todo[c] => Ready(fos, files', raced, tasks, r, todo[c][2])
    BY <1>1, <1>2, <2>7, NotAnswered
  <2>9. Gives(c, r, tasks)
    BY <2>1 DEF tasks
  <2> QED
    BY <1>1, <1>2, <1>3, <2>4, <2>5, <2>6, <2>8, <2>9, SteadyLists
<1> QED
  BY <1>4, <1>5

\* A change of the attributes or of the bytes of a file.
LEMMA WriteLists ==
  ASSUME Going, NEW c \in Clients, Write(c) \/ CloseFile(c)
  PROVE  ListInv'
<1>1. Busy(c) /\ Top(c).t \in {"write", "close"} /\ TypeInv
  BY DEF Write, CloseFile, At, Top, Going, MemInv
<1>2. res[c] \in Results(Len(files)) /\ (IsFile(res[c]) => res[c] \in DOMAIN files)
  BY <1>1, TopTyped
<1>3. Gives(c, res[c], <<>>) /\ Steady
  <2>1. CASE Write(c)
    <3>1. IsFile(res[c])
      BY <1>1, <2>1, TopSound DEF Write, At, Top, Going
    <3>2. PICK D, a : files' = [files EXCEPT ![res[c]].data = D, ![res[c]].at = a]
      BY <2>1, <3>1 DEF Write, Written
    <3>3. Steady
      BY <1>2, <2>1, <3>1, <3>2 DEF Write, Steady
    <3> QED
      BY <2>1, <3>1, <3>3 DEF Write, Then
  <2>2. CASE CloseFile(c)
    BY <2>2, <1>2 DEF CloseFile, SetBack, Then, Steady
  <2> QED
    BY <2>1, <2>2
<1> QED
  BY <1>1, <1>2, <1>3, SteadyReturn DEF Suppliers

\* What comes after an opening builds on the path that it opened.
LEMMA Answered ==
  ASSUME Going, NEW c \in Clients, Busy(c), 2 \in DOMAIN todo[c],
         Top(c).t \in {"open", "shadowdir", "copy", "reopen"}
  PROVE  LET y == todo[c][2] IN
         /\ y.t \in {"parent", "self"} => SplitDir(y.k) = Top(c).k
         /\ y.t \in {"self", "enter"} => Top(c).t = "open"
         /\ y.t = "self" => There(fos, Top(c).k)
         /\ y.t = "enter" => y.k = Top(c).k /\ fos[y.k] # Absent
<1> DEFINE q == todo[c]
           y == q[2]
<1>1. Formed(fos, files, raced, q, res[c]) /\ Top(c) = q[1]
  BY GoingOn, TopTyped
<1>2. InForm(fos, files, raced, q, res[c], 2)
  BY <1>1 DEF Formed
<1>3. 2 # 1 /\ 2 - 1 = 1 /\ \A j \in 1..(2 - 1) : j = 1
  OBVIOUS
<1>4. \A k : ~Makes(q, 2, k)
  BY <1>1, <1>3 DEF Makes, Suppliers
<1> HIDE DEF q
<1>5. /\ y.t \in {"parent", "self"} => SplitDir(y.k) = Top(c).k
      /\ y.t \in {"self", "enter"} => Top(c).t = "open"
      /\ y.t = "self" => There(fos, Top(c).k)
      /\ y.t = "enter" => y.k = Top(c).k /\ fos[y.k] # Absent
  BY <1>1, <1>2, <1>3, <1>4 DEF InForm
<1> QED
  BY <1>5 DEF q

LEMMA ReopenLists ==
  ASSUME Going, NEW c \in Clients, Reopen(c)
  PROVE  ListInv'
<1>1. Busy(c) /\ Top(c).t = "reopen" /\ TypeInv
  BY DEF Reopen, At, Top, Going, MemInv
<1>2. /\ res[c] \in Results(Len(files)) /\ (IsFile(res[c]) => res[c] \in DOMAIN files)
      /\ Top(c) = todo[c][1]
  BY <1>1, TopTyped
<1>3. Gives(c, res[c], <<>>) /\ Steady
  BY <1>2 DEF Reopen, SetBack, Then, Steady
<1>4. fos[Top(c).k] # Absent
  <2>1. InForm(fos, files, raced, todo[c], res[c], 1)
    BY <1>1, GoingOn
  <2>2. 1..(1 - 1) = {}
    OBVIOUS
  <2>3. \A k : ~Makes(todo[c], 1, k)
    BY <2>2 DEF Makes
  <2> QED
    BY <1>1, <1>2, <2>1, <2>3 DEF InForm
<1>5. 2 \in DOMAIN todo[c] => Ready(fos, files', raced, <<>>, res[c], todo[c][2])
  <2> DEFINE y == todo[c][2]
  <2> SUFFICES ASSUME 2 \in DOMAIN todo[c] PROVE Ready(fos, files', raced, <<>>, res[c], y)
    OBVIOUS
  <2>1. /\ y.t \in {"parent", "self"} => SplitDir(y.k) = Top(c).k
        /\ y.t \notin {"self", "enter"}
    BY <1>1, Answered
  <2> HIDE DEF y
  <2> QED
    BY <1>4, <2>1 DEF Ready, There
<1>6. << >> \in Seq(Tasks(Len(files))) /\ Formed(fos, files', raced, << >>, res[c])
  BY NoneFormed
<1> QED
  BY <1>1, <1>2, <1>3, <1>5, <1>6, SteadyLists DEF Suppliers

\* A chunk is copied, under the path that is being opened.
LEMMA CopyLists ==
  ASSUME Going, NEW c \in Clients, Copy(c)
  PROVE  ListInv'
<1> DEFINE k == Top(c).k
           y == todo[c][2]
           r == res[c]
           more == [Top(c) EXCEPT !.data = Tail(@)]
           tasks == IF Len(Top(c).data) > 1
                    THEN <<[Top(c) EXCEPT !.data = Tail(@)]>>
                    ELSE <<Task("close", Top(c).k), Task("reopen", Top(c).k)>>
<1>1. Busy(c) /\ Top(c).t = "copy" /\ TypeInv
  BY DEF Copy, At, Top, Going, MemInv
<1>2. /\ r \in Results(Len(files)) /\ (IsFile(r) => r \in DOMAIN files)
      /\ Top(c) = todo[c][1] /\ Top(c) \in Tasks(Len(files))
  BY <1>1, TopTyped
<1>3. IsFile(r)
  BY <1>1, TopSound DEF Going
<1>4. tasks \in Seq(Tasks(Len(files)))
  BY <1>1, <1>3, CopyTasks
<1>5. Gives(c, r, tasks) /\ Steady
  <2>1. PICK D, a : files' = [files EXCEPT ![r].data = D, ![r].at = a]
    BY <1>3 DEF Copy, Written
  <2>2. Steady
    BY <1>2, <1>3, <2>1 DEF Copy, Steady
  <2> QED
    BY <1>3, <2>2 DEF Copy, Then
<1>6. fos[k] # Absent
  <2>1. InForm(fos, files, raced, todo[c], res[c], 1)
    BY <1>1, GoingOn
  <2>2. 1..(1 - 1) = {}
    OBVIOUS
  <2>3. \A l : ~Makes(todo[c], 1, l)
    BY <2>2 DEF Makes
  <2> QED
    BY <1>1, <1>2, <2>1, <2>3 DEF InForm
<1>7. /\ tasks # <<>> /\ tasks[Len(tasks)].t \in {"copy", "reopen"} /\ tasks[Len(tasks)].k = k
      /\ \A i \in DOMAIN tasks : tasks[i].t \in {"copy", "close", "reopen"} /\ tasks[i].k = k
  <2> DEFINE u == Task("close", k)
             z == Task("reopen", k)
  <2>1. u.t = "close" /\ u.k = k /\ z.t = "reopen" /\ z.k = k
    BY DEF Task
  <2>2. more.t = "copy" /\ more.k = k
    <3> DEFINE x == Top(c)
    <3>1. x \in Tasks(Len(files)) /\ x.t = "copy"
      BY <1>1, <1>2
    <3> HIDE DEF x
    <3>2. [x EXCEPT !.data = Tail(@)].t = "copy" /\ [x EXCEPT !.data = Tail(@)].k = x.k
      BY <3>1 DEF Tasks
    <3> QED
      BY <3>2 DEF x
  <2>3. tasks = <<more>> \/ tasks = <<u, z>>
    OBVIOUS
  <2> HIDE DEF more, u, z, tasks, k
  <2>4. CASE tasks = <<more>>
    BY <2>2, <2>4
  <2>5. CASE tasks = <<u, z>>
    BY <2>1, <2>5
  <2> QED
    BY <2>3, <2>4, <2>5
<1>8. Formed(fos, files', raced, tasks, r)
  <2> HIDE DEF tasks, k
  <2> QED
    BY <1>6, <1>7 DEF Formed, InForm
<1>9. 2 \in DOMAIN todo[c] => Ready(fos, files', raced, tasks, r, y)
  <2> SUFFICES ASSUME 2 \in DOMAIN todo[c] PROVE Ready(fos, files', raced, tasks, r, y)
    OBVIOUS
  <2>1. /\ y.t \in {"parent", "self"} => SplitDir(y.k) = k
        /\ y.t \notin {"self", "enter"}
    BY <1>1, Answered
  <2> HIDE DEF y, tasks, k
  <2> QED
    BY <1>7, <2>1 DEF Ready
<1> HIDE DEF tasks
<1> QED
  BY <1>1, <1>2, <1>4, <1>5, <1>8, <1>9, SteadyLists DEF Suppliers

LEMMA CopyFailsLists ==
  ASSUME Going, NEW c \in Clients, CopyFails(c)
  PROVE  ListInv'
<1> DEFINE y == todo[c][2]
<1>1. Busy(c) /\ Top(c).t = "copy" /\ TypeInv /\ Gives(c, Failed, <<>>)
  BY DEF CopyFails, At, Top, Going, MemInv
<1>2. Failed \in Results(Len(files)) /\ ~IsFile(Failed)
  BY DEF Results, Failed, IsFile
<1>3. Steady
  BY <1>1, TopTyped DEF CopyFails, Steady
<1>4. 2 \in DOMAIN todo[c] => Ready(fos, files', raced, <<>>, Failed, y)
  <2> SUFFICES ASSUME 2 \in DOMAIN todo[c] PROVE Ready(fos, files', raced, <<>>, Failed, y)
    OBVIOUS
  <2>1. y.t \notin {"self", "enter"}
    BY <1>1, Answered
  <2> HIDE DEF y
  <2> QED
    BY <1>2, <2>1 DEF Ready
<1>5. << >> \in Seq(Tasks(Len(files))) /\ Formed(fos, files', raced, << >>, Failed)
  BY NoneFormed
<1> QED
  BY <1>1, <1>2, <1>3, <1>4, <1>5, SteadyLists DEF Suppliers

LEMMA ShadowDirLists ==
  ASSUME Going, NEW c \in Clients, ShadowDir(c)
  PROVE  ListInv'
<1> DEFINE k == Top(c).k
           p == IF k.f = "dir" THEN k ELSE SplitDir(k)
           r == IF IsFile(fos[p]) THEN fos[p] ELSE Failed
<1>1. Busy(c) /\ Top(c).t = "shadowdir" /\ TypeInv
  BY DEF ShadowDir, At, Top, Going, MemInv
<1>2. p \in Keys /\ Len(files) \in Nat
  BY <1>1, TopTyped, KeysHave
<1>3. r \in Results(Len(files))
  BY <1>1, <1>2 DEF TypeInv, Objects, Results, IsFile, Nil, Absent
<1>4. Gives(c, r, <<>>) /\ Steady
  BY DEF ShadowDir, Steady
<1>5. 2 \in DOMAIN todo[c] => Ready(fos, files', raced, <<>>, r, todo[c][2])
  <2> DEFINE y == todo[c][2]
  <2> SUFFICES ASSUME 2 \in DOMAIN todo[c] PROVE Ready(fos, files', raced, <<>>, r, y)
    OBVIOUS
  <2>1. /\ y.t \in {"parent", "self"} => SplitDir(y.k) = Top(c).k
        /\ y.t \notin {"self", "enter"}
    BY <1>1, Answered
  <2>2. y.t = "parent" => k.f = "dir"
    BY <2>1 DEF SplitDir, Key
  <2>3. y.t = "parent" /\ IsFile(r) => fos[k] # Absent
    BY <2>2 DEF IsFile, Failed, Absent
  <2> HIDE DEF y, r
  <2> QED
    BY <2>1, <2>3 DEF Ready, There
<1>6. << >> \in Seq(Tasks(Len(files))) /\ Formed(fos, files', raced, << >>, r)
  BY NoneFormed
<1> HIDE DEF r
<1> QED
  BY <1>1, <1>3, <1>4, <1>5, <1>6, SteadyLists DEF Suppliers

\* The calls that fill a file from the file system behind.
LEMMA ShadowFileSteps ==
  ASSUME NEW N \in Nat, NEW k \in Keys
  PROVE  LET s == ShadowFile(k) IN
         /\ s \in Seq(Tasks(N)) /\ s # <<>> /\ Len(s) = 5 /\ DOMAIN s = 1..5
         /\ s[1].t = "mkdir" /\ s[2].t = "put" /\ s[3].t = "register" /\ s[4].t = "created"
         /\ s[5].t = "copy" /\ s[1].k = SplitDir(k) /\ s[5].data = <<k.n, k.n>>
         /\ \A i \in 2..5 : s[i].k = k
<1> DEFINE t1 == Task("mkdir", SplitDir(k))
           t2 == Task("put", k)
           t3 == Task("register", k)
           t4 == Task("created", k)
           w == Task("copy", k)
           t5 == [w EXCEPT !.data = <<k.n, k.n>>]
           s == ShadowFile(k)
<1>1. SplitDir(k) \in Keys /\ k.n \in Nodes
  BY KeysHave
<1>2. /\ "mkdir" \in Tags /\ "put" \in Tags /\ "register" \in Tags /\ "created" \in Tags
      /\ "copy" \in Tags
  BY DEF Tags, Locking
<1>3. /\ t1 \in Tasks(N) /\ t1.t = "mkdir" /\ t1.k = SplitDir(k)
      /\ t2 \in Tasks(N) /\ t2.t = "put" /\ t2.k = k
      /\ t3 \in Tasks(N) /\ t3.t = "register" /\ t3.k = k
      /\ t4 \in Tasks(N) /\ t4.t = "created" /\ t4.k = k
  BY <1>1, <1>2, TaskTyped
<1>4. t5 \in Tasks(N) /\ t5.t = "copy" /\ t5.k = k /\ t5.data = <<k.n, k.n>>
  <2>1. /\ w \in [t : Tags, k : Keys, to : Keys, obj : 0..N, must : SUBSET Keys, data : Seq(Bytes)]
        /\ w.t = "copy" /\ w.k = k
    BY <1>1, <1>2 DEF Task, Absent
  <2> DEFINE b == <<k.n, k.n>>
  <2>2. b \in Seq(Bytes) /\ b # <<>>
    BY <1>1, TreeAssumption
  <2> HIDE DEF w, b
  <2>3. /\ [w EXCEPT !.data = b] \in Tasks(N) /\ [w EXCEPT !.data = b].t = "copy"
        /\ [w EXCEPT !.data = b].k = k /\ [w EXCEPT !.data = b].data = b
    BY <2>1, <2>2 DEF Tasks
  <2> QED
    BY <2>3 DEF b
<1>5. s = <<t1, t2, t3, t4, t5>>
  BY DEF ShadowFile
<1> HIDE DEF t1, t2, t3, t4, t5, s
<1>6. /\ s \in Seq(Tasks(N)) /\ DOMAIN s = 1..5 /\ s # <<>> /\ Len(s) = 5
      /\ s[1] = t1 /\ s[2] = t2 /\ s[3] = t3 /\ s[4] = t4 /\ s[5] = t5
  BY <1>3, <1>4, <1>5
<1>7. \A i \in 2..5 : i = 2 \/ i = 3 \/ i = 4 \/ i = 5
  OBVIOUS
<1>8. \A i \in 2..5 : s[i].k = k
  BY <1>3, <1>4, <1>6, <1>7
<1> QED
  BY <1>3, <1>4, <1>6, <1>8 DEF s

\* The tasks by which a file of the file system behind is made.
LEMMA ShadowFileFormed ==
  ASSUME NEW n \in Nat, NEW k \in Keys, NEW f, NEW fs, NEW R, NEW r
  PROVE  /\ ShadowFile(k) \in Seq(Tasks(n)) /\ Formed(f, fs, R, ShadowFile(k), r)
         /\ ShadowFile(k) # <<>> /\ Len(ShadowFile(k)) = 5
         /\ ShadowFile(k)[5].t = "copy" /\ ShadowFile(k)[5].k = k
<1> DEFINE s == ShadowFile(k)
<1>1. /\ s \in Seq(Tasks(n)) /\ s # <<>> /\ Len(s) = 5 /\ DOMAIN s = 1..5
      /\ s[1].t = "mkdir" /\ s[2].t = "put" /\ s[3].t = "register" /\ s[4].t = "created"
      /\ s[5].t = "copy" /\ \A i \in 2..5 : s[i].k = k
  BY ShadowFileSteps
<1> HIDE DEF s
<1>2. \A i \in 1..5 : i = 1 \/ i = 2 \/ i = 3 \/ i = 4 \/ i = 5
  OBVIOUS
<1>3. s[2].k = k /\ s[3].k = k /\ s[5].k = k
  BY <1>1
<1>4. Formed(f, fs, R, s, r)
  <2> SUFFICES ASSUME NEW i \in DOMAIN s PROVE InForm(f, fs, R, s, r, i)
    BY DEF Formed
  <2>1. CASE i = 2
    <3>1. 2 + 1 = 3 /\ 3 \in DOMAIN s
      BY <1>1
    <3> QED
      BY <1>1, <1>3, <2>1, <3>1 DEF InForm
  <2>2. CASE i = 5
    <3>1. 2 \in 1..(5 - 1)
      OBVIOUS
    <3>2. Makes(s, 5, k)
      BY <1>1, <1>3, <3>1 DEF Makes, Suppliers
    <3> QED
      BY <1>1, <1>3, <2>2, <3>2 DEF InForm
  <2>3. CASE i # 2 /\ i # 5
    <3>1. s[i].t \in {"mkdir", "register", "created"}
      BY <1>1, <1>2, <2>3
    <3> QED
      BY <3>1 DEF InForm
  <2> QED
    BY <2>1, <2>2, <2>3
<1> QED
  BY <1>1, <1>3, <1>4 DEF s

\* What Open returns or does next fits what its caller goes on with.
LEMMA OpenLists ==
  ASSUME Going, NEW c \in Clients, Open(c)
  PROVE  ListInv'
<1> DEFINE k == Top(c).k
           hit == Hit(k)
           n == Len(files)
           y == todo[c][2]
<1>1. Busy(c) /\ Top(c).t = "open" /\ TypeInv
  BY DEF Open, At, Top, Going, MemInv
<1>2. /\ n \in Nat /\ DOMAIN files = 1..n /\ k \in Keys /\ Other(k) \in Keys /\ res[c] \in Results(n)
      /\ Directorify(k) \in Keys
  BY <1>1, TopTyped, KeysHave
<1>3. /\ \A l \in Keys : IsFile(fos[l]) => fos[l] \in DOMAIN files /\ files[fos[l]].name = l
      /\ \A l \in Keys : fos[l] # Absent => IsFile(fos[l])
  BY <1>1, GoingOn
<1>4. 2 \in DOMAIN todo[c] =>
        /\ y.t \in {"parent", "self"} => SplitDir(y.k) = k
        /\ y.t = "self" => There(fos, k)
        /\ y.t = "enter" => y.k = k /\ fos[k] # Absent
  BY <1>1, Answered
<1>5. /\ hit # Absent => IsFile(hit) /\ hit \in DOMAIN files /\ files[hit].name \in {k, Other(k)}
      /\ hit = Absent <=> ~There(fos, k)
      /\ fos[k] # Absent => hit = fos[k]
  BY <1>2, <1>3 DEF Hit, There
<1>6. hit # Nil
  BY <1>5 DEF IsFile, Nil, Absent
<1>7. hit = Absent => ~IsFile(hit)
  BY DEF Absent, IsFile
<1> HIDE DEF y
<1>8. CASE hit # Absent
  <2>1. files' = SetBack(hit, FALSE) /\ Gives(c, hit, <<>>) /\ UNCHANGED <<fos, raced>>
    BY <1>5, <1>6, <1>8 DEF Open
  <2>2. Steady
    BY <1>5, <1>8, <2>1 DEF Steady, SetBack
  <2>3. hit \in Results(n)
    BY <1>2, <1>5, <1>8 DEF Results
  <2>4. files'[hit].name = files[hit].name
    BY <1>5, <1>8, <2>2 DEF Steady
  <2> HIDE DEF k, hit
  <2>5. 2 \in DOMAIN todo[c] => Ready(fos, files', raced, <<>>, hit, y)
    BY <1>4, <1>5, <1>8, <2>4 DEF Ready, ParentKeys
  <2>6. << >> \in Seq(Tasks(n)) /\ Formed(fos, files', raced, << >>, hit)
    BY NoneFormed
  <2> QED
    BY <1>1, <2>1, <2>2, <2>3, <2>5, <2>6, SteadyLists DEF Suppliers, y
<1>9. CASE hit = Absent
  <2>1. 2 \in DOMAIN todo[c] =>
          /\ y.t = "parent" => SplitDir(y.k) = k
          /\ y.t \notin {"self", "enter"}
    BY <1>4, <1>5, <1>9 DEF There
  <2>2. UNCHANGED <<fos, raced, files>>
    BY <1>6, <1>7, <1>9 DEF Open
  <2>3. Steady
    BY <2>2 DEF Steady
  <2>4. \/ k.n \in DOMAIN Shadow /\ Then(c, IF Shadow[k.n] = "dir"
                   THEN <<Task("mkdir", Directorify(k)), Task("shadowdir", k)>> ELSE ShadowFile(k))
        \/ Gives(c, Missing, <<>>)
    BY <1>6, <1>7, <1>9 DEF Open, ShadowFile
  <2>5. CASE Gives(c, Missing, <<>>)
    <3>1. Missing \in Results(n) /\ ~IsFile(Missing)
      BY DEF Results, Missing, IsFile
    <3>2. 2 \in DOMAIN todo[c] => Ready(fos, files', raced, <<>>, Missing, y)
      BY <2>1, <3>1 DEF Ready
    <3>3. << >> \in Seq(Tasks(n)) /\ Formed(fos, files', raced, << >>, Missing)
      BY NoneFormed
    <3> QED
      BY <1>1, <2>3, <2>5, <3>1, <3>2, <3>3, SteadyLists DEF Suppliers, y
  <2>6. CASE Gives(c, res[c], ShadowFile(k))
    <3> DEFINE s == ShadowFile(k)
    <3>1. /\ s \in Seq(Tasks(n)) /\ Formed(fos, files', raced, s, res[c])
          /\ s # <<>> /\ Len(s) = 5 /\ s[5].t = "copy" /\ s[5].k = k
      BY <1>2, ShadowFileFormed
    <3>2. Gives(c, res[c], s)
      BY <2>6
    <3> HIDE DEF s
    <3>3. 2 \in DOMAIN todo[c] => Ready(fos, files', raced, s, res[c], y)
      BY <2>1, <3>1 DEF Ready
    <3> QED
      BY <1>1, <1>2, <2>3, <3>1, <3>2, <3>3, SteadyLists DEF Suppliers, y
  <2>7. CASE Gives(c, res[c], <<Task("mkdir", Directorify(k)), Task("shadowdir", k)>>)
    <3> DEFINE m == Task("mkdir", Directorify(k))
               d == Task("shadowdir", k)
               s == <<m, d>>
    <3>1. /\ m \in Tasks(n) /\ m.t = "mkdir" /\ d \in Tasks(n) /\ d.t = "shadowdir" /\ d.k = k
      <4> HIDE DEF k
      <4> QED
        BY <1>2, TaskTyped DEF Tags
    <3>2. Gives(c, res[c], s)
      BY <2>7
    <3> HIDE DEF m, d
    <3>3. s \in Seq(Tasks(n)) /\ DOMAIN s = {1, 2} /\ Len(s) = 2 /\ s # <<>> /\ s[1] = m /\ s[2] = d
      BY <3>1
    <3> HIDE DEF s
    <3>4. Formed(fos, files', raced, s, res[c])
      BY <3>1, <3>3 DEF Formed, InForm
    <3>5. 2 \in DOMAIN todo[c] => Ready(fos, files', raced, s, res[c], y)
      BY <2>1, <3>1, <3>3 DEF Ready
    <3> QED
      BY <1>1, <1>2, <2>3, <3>2, <3>3, <3>4, <3>5, SteadyLists DEF Suppliers, y
  <2> QED
    BY <2>4, <2>5, <2>6, <2>7 DEF Then
<1> QED
  BY <1>8, <1>9

\* What a put does to the maps.
LEMMA PutMakes ==
  ASSUME Going, NEW c \in Clients, Put(c)
  PROVE  LET k == Top(c).k
             N == Len(files) IN
         /\ Busy(c) /\ Top(c).t \in {"put", "putdir"} /\ Gives(c, res[c], <<>>)
         /\ k \in Keys /\ res[c] \in Results(N) /\ N \in Nat /\ DOMAIN files = 1..N
         /\ DOMAIN files' = 1..(N + 1) /\ \A i \in 1..N : files'[i] = files[i]
         /\ files'[N + 1].name = k /\ files'[N + 1].data = <<>>
         /\ fos'[k] = N + 1 /\ \A l \in Keys \ {k} : fos'[l] = fos[l]
         /\ raced \subseteq raced'
         /\ fos[k] = Absent \/ k \in raced' \/ \A d \in Clients \ {c} : ~Busy(d)
<1> DEFINE k == Top(c).k
           g == NewFile(k, At(c, "putdir"))
           N == Len(files)
<1>1. Busy(c) /\ Top(c).t \in {"put", "putdir"} /\ TypeInv
  BY DEF Put, At, Top, Going, MemInv
<1>2. res[c] \in Results(N) /\ N \in Nat /\ k \in Keys /\ DOMAIN files = 1..N
  BY <1>1, TopTyped
<1>3. /\ files' = Append(files, g) /\ fos' = [fos EXCEPT ![k] = Len(files')]
      /\ Gives(c, res[c], <<>>)
      /\ raced' = IF fos[k] # Absent /\ (At(c, "putdir") \/ \E d \in Clients \ {c} : Busy(d))
                  THEN raced \cup {k} ELSE raced
  BY DEF Put, Then
<1>4. g.name = k /\ g.data = <<>>
  BY DEF NewFile
<1> HIDE DEF g, k
<1>5. /\ Len(files') = N + 1 /\ DOMAIN files' = 1..(N + 1)
      /\ \A i \in 1..N : files'[i] = files[i]
      /\ files'[N + 1] = g
  <2> DEFINE S == File(N) \cup {g}
  <2>1. files \in Seq(S) /\ g \in S
    BY <1>1 DEF TypeInv, Objects
  <2> HIDE DEF S
  <2>2. /\ Append(files, g) \in Seq(S) /\ Len(Append(files, g)) = Len(files) + 1
        /\ \A i \in 1..Len(files) : Append(files, g)[i] = files[i]
        /\ Append(files, g)[Len(files) + 1] = g
    BY <2>1, AppendProperties
  <2>3. DOMAIN Append(files, g) = 1..(N + 1)
    BY <2>2, LenProperties
  <2> QED
    BY <2>2, <2>3, <1>3
<1>6. \A l \in Keys : fos'[l] = IF l = k THEN N + 1 ELSE fos[l]
  BY <1>1, <1>2, <1>3, <1>5 DEF TypeInv, Objects
<1>7. /\ raced \subseteq raced'
      /\ fos[k] = Absent \/ k \in raced' \/ \A d \in Clients \ {c} : ~Busy(d)
  BY <1>3
<1>8. fos'[k] = N + 1 /\ \A l \in Keys \ {k} : fos'[l] = fos[l]
  BY <1>2, <1>6
<1> QED
  BY <1>1, <1>2, <1>3, <1>4, <1>5, <1>7, <1>8 DEF k

\* A new object, which its client will enter.
LEMMA PutLists ==
  ASSUME Going, NEW c \in Clients, Put(c)
  PROVE  ListInv'
<1> DEFINE k == Top(c).k
           n == Len(files)
<1>1. /\ Busy(c) /\ Top(c).t \in {"put", "putdir"} /\ Gives(c, res[c], <<>>)
      /\ k \in Keys /\ res[c] \in Results(n) /\ n \in Nat /\ DOMAIN files = 1..n
      /\ DOMAIN files' = 1..(n + 1) /\ \A i \in 1..n : files'[i] = files[i]
      /\ files'[n + 1].name = k /\ fos'[k] = n + 1 /\ \A l \in Keys \ {k} : fos'[l] = fos[l]
      /\ raced \subseteq raced'
      /\ fos[k] = Absent \/ k \in raced' \/ \A d \in Clients \ {c} : ~Busy(d)
  BY PutMakes
<1>2. TypeInv /\ Top(c) = todo[c][1]
  BY <1>1, TopTyped DEF Going, MemInv
<1> HIDE DEF k
<1>3. \A l \in Keys : fos'[l] = IF l = k THEN n + 1 ELSE fos[l]
  BY <1>1
<1>4. \A l \in Keys : IsFile(fos[l]) => fos[l] \in 1..n /\ files[fos[l]].name = l
  BY <1>1, GoingOn
<1>5. fos'[k] # Absent
  BY <1>1 DEF Absent
<1>6. \A l \in Keys : fos[l] # Absent => fos'[l] # Absent
  BY <1>3, <1>5
<1>7. \A l \in Keys : IsFile(fos'[l]) => files'[fos'[l]].name = l
  BY <1>1, <1>3, <1>4
<1>8. \A l \in Keys : fos'[l] # fos[l] =>
        /\ Top(c).t \in {"put", "putdir"} /\ Top(c).k = l
        /\ fos[l] = Absent \/ l \in raced' \/ \A d \in Clients \ {c} : ~Busy(d)
  BY <1>1, <1>3 DEF k
<1>9. 2 \in DOMAIN todo[c] => Ready(fos', files', raced', <<>>, res[c], todo[c][2])
  <2>1. Formed(fos, files, raced, todo[c], res[c])
    BY <1>1, GoingOn
  <2> QED
    BY <1>1, <1>2, <2>1, NotAnswered
<1>10. << >> \in Seq(Tasks(n)) /\ Formed(fos', files', raced', << >>, res[c])
  BY NoneFormed
<1>11. \A i \in DOMAIN files : i \in DOMAIN files' /\ files'[i] = files[i]
  BY <1>1
<1>12. Lists(c, res[c], <<>>)
  BY <1>1, <1>5, <1>6, <1>7, <1>8, <1>9, <1>10, <1>11 DEF Lists, k
<1> QED
  BY <1>1, <1>10, <1>12, CallLists DEF Going

\* An object is entered into the map of its directory.
LEMMA EnterLists ==
  ASSUME Going, NEW c \in Clients, Enter(c)
  PROVE  ListInv'
<1> DEFINE k == Top(c).k
           x == Top(c).obj
           y == files[x]
           f == IF IsFile(res[c]) THEN res[c] ELSE Nil
           m == [l \in DOMAIN y.memDir \cup {k} |-> IF l = k THEN f ELSE y.memDir[l]]
           up == Task("register", y.name)
           tasks == IF y.name = RootDir THEN <<>> ELSE <<up>>
           n == Len(files)
<1>1. /\ Busy(c) /\ Top(c).t = "enter" /\ TypeInv
      /\ Gives(c, res[c], tasks) /\ UNCHANGED <<fos, raced>>
      /\ files' = [files EXCEPT ![x].memDir = m]
  BY DEF Enter, At, Top, Then, Going, MemInv
<1>2. /\ res[c] \in Results(n) /\ k \in Keys /\ x \in DOMAIN files
      /\ n \in Nat /\ Top(c) = todo[c][1]
  <2>1. /\ x \in 0..n /\ x # 0 /\ n \in Nat /\ DOMAIN files = 1..n
        /\ res[c] \in Results(n) /\ k \in Keys /\ Top(c) = todo[c][1]
    BY <1>1, TopTyped
  <2> QED
    BY <2>1
<1>3. y \in File(n) /\ y.name \in Keys
  <2>1. y \in File(n)
    BY <1>1, <1>2, FileTyped
  <2> QED
    BY <2>1 DEF File
<1>4. /\ y.name \in ParentKeys(k) /\ (res[c] = fos[k] \/ k \in raced)
  <2>1. InForm(fos, files, raced, todo[c], res[c], 1)
    BY <1>1, GoingOn
  <2> QED
    BY <1>1, <1>2, <2>1 DEF InForm
<1>5. IsFile(res[c]) /\ fos[y.name] # Absent
  BY <1>1, <1>2, TopSound DEF Filled, Going
<1>6. There(fos, SplitDir(k))
  BY <1>4, <1>5 DEF ParentKeys, There
<1>7. /\ DOMAIN m = DOMAIN y.memDir \cup {k} /\ m[k] = res[c]
      /\ \A l \in DOMAIN y.memDir : l # k => m[l] = y.memDir[l]
  BY <1>5
<1> HIDE DEF m
<1>8. /\ DOMAIN files' = DOMAIN files
      /\ \A i \in DOMAIN files : files'[i].name = files[i].name
      /\ files'[x].memDir = m
      /\ \A i \in DOMAIN files : i # x => files'[i].memDir = files[i].memDir
  <2>1. files' = [files EXCEPT ![x] = [y EXCEPT !.memDir = m]]
    BY <1>1
  <2>2. [y EXCEPT !.memDir = m].name = y.name /\ [y EXCEPT !.memDir = m].memDir = m
    BY <1>3 DEF File
  <2> QED
    BY <1>2, <2>1, <2>2
<1>9. Entered(fos', files', raced', k)
  BY <1>1, <1>2, <1>4, <1>6, <1>7, <1>8 DEF Entered
<1>10. \A i \in DOMAIN files : \A l \in DOMAIN files[i].memDir :
         \/ l \in DOMAIN files'[i].memDir /\ files'[i].memDir[l] \in {files[i].memDir[l], fos'[l]}
         \/ l \in raced'
  <2> SUFFICES ASSUME NEW i \in DOMAIN files, NEW l \in DOMAIN files[i].memDir, l \notin raced
               PROVE  /\ l \in DOMAIN files'[i].memDir
                      /\ files'[i].memDir[l] \in {files[i].memDir[l], fos[l]}
    BY <1>1
  <2>1. CASE i # x
    BY <2>1, <1>8
  <2>2. CASE i = x /\ l # k
    BY <2>2, <1>7, <1>8
  <2>3. CASE i = x /\ l = k
    BY <2>3, <1>4, <1>7, <1>8
  <2> QED
    BY <2>1, <2>2, <2>3
<1>11. \A l \in Keys : IsFile(fos'[l]) => files'[fos'[l]].name = l
  <2>1. \A l \in Keys : IsFile(fos[l]) => fos[l] \in DOMAIN files /\ files[fos[l]].name = l
    BY <1>1, GoingOn
  <2> QED
    BY <1>1, <1>8, <2>1
<1> HIDE DEF y, k
<1>12. tasks \in Seq(Tasks(n)) /\ Formed(fos', files', raced', tasks, res[c])
  <2>1. up \in Tasks(n) /\ up.t = "register"
    BY <1>2, <1>3, TaskTyped DEF Tags
  <2> HIDE DEF up
  <2>2. <<up>> \in Seq(Tasks(n)) /\ DOMAIN <<up>> = {1} /\ <<up>>[1] = up
    BY <2>1
  <2>3. Formed(fos', files', raced', <<up>>, res[c])
    BY <2>1, <2>2 DEF Formed, InForm
  <2>4. << >> \in Seq(Tasks(n)) /\ Formed(fos', files', raced', << >>, res[c])
    BY NoneFormed
  <2> QED
    BY <2>2, <2>3, <2>4
<1> HIDE DEF tasks
<1>13. 2 \in DOMAIN todo[c] => Ready(fos', files', raced', tasks, res[c], todo[c][2])
  <2>1. Formed(fos, files, raced, todo[c], res[c])
    BY <1>1, GoingOn
  <2> QED
    BY <1>1, <1>2, <2>1, NotAnswered
<1>14. Lists(c, res[c], tasks)
  BY <1>1, <1>8, <1>9, <1>10, <1>11, <1>12, <1>13 DEF Lists, Suppliers, k
<1> QED
  BY <1>1, <1>2, <1>12, <1>14, CallLists DEF Going

\* The lists that requests begin with.
LEMMA CallsFormed ==
  ASSUME NEW r \in [op : Operations, k : Keys, to : Keys, data : Seq(Bytes)],
         r.op \notin {"RemoveAll", "Rename"}, NEW f, NEW fs, NEW R
  PROVE  Formed(f, fs, R, Calls(r), Fine)
<1> DEFINE T(t) == [Task(t, r.k) EXCEPT !.to = r.to, !.data = r.data]
           q == Calls(r)
           Plain == {"open", "fetch", "list", "close", "mkdir", "pass", "chmod", "register",
                     "created", "write"}
<1>1. \A t : T(t).t = t /\ T(t).k = r.k
  BY DEF Task
<1>2. Task("mkdir", Directorify(r.k)).t = "mkdir"
  BY DEF Task
<1>3. /\ r.op \in {"Open", "Stat"} => q = <<T("open")>>
      /\ r.op = "Create" => q = <<T("put"), T("register"), T("created")>>
      /\ r.op = "WriteFile" => q = <<T("put"), T("register"), T("created"), T("write")>>
      /\ r.op = "ReadFile" => q = <<T("open"), T("fetch")>>
      /\ r.op = "ReadDir" => q = <<T("open"), T("list"), T("close")>>
      /\ r.op = "Mkdir" => q = <<Task("mkdir", Directorify(r.k))>>
      /\ r.op = "Remove" => q = <<T("pass")>>
      /\ r.op = "Chmod" => q = <<T("chmod")>>
  BY DEF Calls
<1> HIDE DEF T, q
<1>4. ASSUME \A i \in DOMAIN q : q[i].t \in Plain PROVE Formed(f, fs, R, q, Fine)
  BY <1>4 DEF Formed, InForm
<1>5. CASE r.op \in {"Open", "Stat", "ReadFile", "ReadDir", "Mkdir", "Remove", "Chmod"}
  <2>1. \A i \in DOMAIN q : q[i].t \in Plain
    BY <1>1, <1>2, <1>3, <1>5
  <2> QED
    BY <1>4, <2>1 DEF q
<1>6. CASE r.op \in {"Create", "WriteFile"}
  <2> DEFINE p == T("put")
             g == T("register")
             d == T("created")
             w == T("write")
  <2>1. /\ p.t = "put" /\ p.k = r.k /\ g.t = "register" /\ g.k = r.k /\ d.t = "created"
        /\ w.t = "write"
    BY <1>1
  <2>2. q = <<p, g, d>> \/ q = <<p, g, d, w>>
    BY <1>3, <1>6
  <2> HIDE DEF p, g, d, w
  <2>3. /\ 2 \in DOMAIN q /\ q[1] = p /\ q[2] = g
        /\ \A i \in DOMAIN q : i = 1 \/ q[i].t \in Plain
    <3>1. CASE q = <<p, g, d>>
      BY <2>1, <3>1
    <3>2. CASE q = <<p, g, d, w>>
      BY <2>1, <3>2
    <3> QED
      BY <2>2, <3>1, <3>2
  <2>4. 1 + 1 = 2
    OBVIOUS
  <2>5. InForm(f, fs, R, q, Fine, 1)
    BY <2>1, <2>3, <2>4 DEF InForm
  <2>6. ASSUME NEW i \in DOMAIN q, q[i].t \in Plain PROVE InForm(f, fs, R, q, Fine, i)
    BY <2>6 DEF InForm
  <2> QED
    BY <2>3, <2>5, <2>6 DEF Formed, q
<1> QED
  BY <1>5, <1>6 DEF Operations

LEMMA BeginLists ==
  ASSUME Going, NEW c \in Clients, Begin(c)
  PROVE  ListInv'
<1>1. /\ ~Busy(c) /\ res' = [res EXCEPT ![c] = Fine] /\ UNCHANGED <<fos, files, raced>>
  BY DEF Begin
<1>2. PICK r \in setup.requests : /\ todo' = [todo EXCEPT ![c] = Calls(r)]
                                  /\ cut' = cut \cup ({r.op} \cap {"RemoveAll", "Rename"})
  BY DEF Begin
<1>3. r \in [op : Operations, k : Keys, to : Keys, data : Seq(Bytes)]
      /\ r.op \notin {"RemoveAll", "Rename"} /\ TypeInv
  BY <1>2, TreeAssumption DEF Going, MemInv, TypeInv
<1>4. /\ todo'[c] = Calls(r) /\ res'[c] = Fine
      /\ \A d \in Clients \ {c} : todo'[d] = todo[d] /\ res'[d] = res[d]
  BY <1>1, <1>2, <1>3 DEF TypeInv
<1>5. /\ \A k \in Keys : IsFile(fos[k]) => files[fos[k]].name = k
      /\ \A d \in Clients : Formed(fos, files, raced, todo[d], res[d])
      /\ \A k \in Present \ {RootDir} :
           Entered(fos, files, raced, k) \/ \E d \in Clients : Registers(todo[d], k)
  BY DEF Going, ListInv
<1>6. Formed(fos, files, raced, Calls(r), Fine)
  BY <1>3, CallsFormed
<1>7. \A d \in Clients : Formed(fos, files, raced, todo'[d], res'[d])
  BY <1>4, <1>5, <1>6
<1>8. \A d \in Clients, k \in Keys : Registers(todo[d], k) => Registers(todo'[d], k)
  <2>1. todo[c] = <<>>
    BY <1>1 DEF Busy
  <2>2. \A k : ~Registers(todo[c], k)
    BY <2>1 DEF Registers
  <2> QED
    BY <1>4, <2>2
<1> QED
  BY <1>1, <1>5, <1>7, <1>8 DEF ListInv, Present

LEMMA InitLists == Init => ListInv
<1> SUFFICES ASSUME Init PROVE ListInv
  OBVIOUS
<1> USE DEF Init
<1>1. \A k \in Keys : fos[k] = Absent /\ ~IsFile(fos[k])
  BY DEF Absent, IsFile
<1>2. \A c \in Clients : Formed(fos, files, raced, todo[c], res[c])
  BY NoneFormed
<1> QED
  BY <1>1, <1>2 DEF ListInv, Present

LEMMA NextLists == MemInv /\ MemInv' /\ ListInv /\ [Next]_vars => ListInv'
<1> SUFFICES ASSUME MemInv, MemInv', ListInv, [Next]_vars, cut' = {}, "fatal" \notin panicked'
             PROVE  ListInv'
  BY DEF ListInv
<1>1. CASE UNCHANGED <<fos, files, todo, res, raced, cut, panicked>>
  BY <1>1 DEF ListInv, Present
<1>2. CASE UNCHANGED vars
  BY <1>1, <1>2 DEF vars
<1>3. ASSUME NEW c \in Clients, NEW d \in Clients, MapRace(c, d) PROVE FALSE
  BY <1>3 DEF MapRace
<1>4. ASSUME NEW c \in Clients,
             \/ Begin(c) \/ Lock(c) \/ Put(c) \/ Delete(c) \/ Move(c) \/ Chmod(c) \/ Touch(c)
             \/ Open(c) \/ ShadowDir(c) \/ Mkdir(c) \/ Enter(c) \/ Created(c) \/ Write(c)
             \/ Copy(c) \/ CopyFails(c)
             \/ CloseFile(c) \/ Reopen(c) \/ Fetch(c) \/ List(c) \/ Pass(c) \/ RemoveAll(c)
             \/ RemoveNext(c) \/ RemoveDone(c) \/ RemoveBack(c) \/ Unregister(c) \/ Rename(c)
      PROVE  ListInv'
  <2>1. CASE Begin(c)
    <3>1. Going
      BY <2>1 DEF Begin, Going
    <3> QED
      BY <2>1, <3>1, BeginLists
  <2>2. CASE Lock(c)
    BY <1>1, <2>2 DEF Lock
  <2>3. CASE Put(c) \/ Chmod(c) \/ Touch(c) \/ ShadowDir(c) \/ Mkdir(c) \/ Enter(c)
    <3>1. Going
      BY <2>3 DEF Put, Chmod, Touch, ShadowDir, Mkdir, Enter, Going
    <3> QED
      BY <2>3, <3>1, PutLists, ChmodLists, FetchLists, ShadowDirLists, MkdirLists, EnterLists
  <2>4. CASE Created(c) \/ Write(c) \/ CloseFile(c) \/ Reopen(c)
    <3>1. Going
      BY <2>4 DEF Created, Write, Panics, CloseFile, Reopen, Going
    <3> QED
      BY <2>4, <3>1, CreatedLists, WriteLists, ReopenLists
  <2>5. CASE Fetch(c) \/ List(c) \/ Pass(c)
    <3>1. Going
      BY <2>5 DEF Fetch, List, Panics, Pass, Going
    <3> QED
      BY <2>5, <3>1, FetchLists
  <2>6. CASE Open(c)
    <3>1. Going
      BY <2>6 DEF Open, Going
    <3> QED
      BY <2>6, <3>1, OpenLists
  <2>7. CASE \/ Delete(c) \/ Move(c) \/ RemoveAll(c) \/ RemoveNext(c) \/ RemoveDone(c)
             \/ RemoveBack(c) \/ Unregister(c) \/ Rename(c)
    <3>1. Busy(c) /\ Top(c).t \in Removals
      BY <2>7 DEF Delete, Move, RemoveAll, RemoveNext, RemoveDone, RemoveBack, Unregister, Rename,
                  At, Top, Removals, LoopTags
    <3>2. cut = {}
      BY <2>7 DEF Delete, Move, RemoveAll, RemoveNext, RemoveDone, RemoveBack, Unregister, Rename
    <3> QED
      BY <3>1, <3>2, TopSound
  <2>8. CASE Copy(c) \/ CopyFails(c)
    <3>1. Going
      BY <2>8 DEF Copy, CopyFails, Panics, Going
    <3> QED
      BY <2>8, <3>1, CopyLists, CopyFailsLists
  <2> QED
    BY <1>4, <2>1, <2>2, <2>3, <2>4, <2>5, <2>6, <2>7, <2>8
<1> QED
  BY <1>2, <1>3, <1>4 DEF Next

\* An object that was made once, in either form of its path, is what is found there.
LEMMA FoundOnce ==
  ASSUME MemInv, ListInv, cut = {}, "fatal" \notin panicked, NEW k \in Keys, There(fos, k)
  PROVE  /\ IsFile(Hit(k)) /\ Hit(k) \in DOMAIN files
         /\ MadeOnce(k) => \A i \in DOMAIN files : files[i].name \in {k, Other(k)} => i = Hit(k)
<1>1. Other(k) \in Keys
  BY KeysHave
<1>2. DOMAIN files = 1..Len(files) /\ fos \in [Keys -> {Absent, Nil} \cup 1..Len(files)]
  BY LenProperties DEF MemInv, TypeInv, Objects
<1>3. \A l \in Keys : fos[l] # Nil
  BY DEF MemInv, NilInv
<1>4. Hit(k) \in 1..Len(files) /\ (Hit(k) = fos[k] \/ Hit(k) = fos[Other(k)])
  BY <1>1, <1>2, <1>3 DEF Hit, There
<1>5. IsFile(Hit(k))
  BY <1>4 DEF IsFile
<1>6. files[Hit(k)].name \in {k, Other(k)}
  BY <1>1, <1>4, <1>5 DEF ListInv
<1> QED
  BY <1>2, <1>4, <1>5, <1>6 DEF MadeOnce

\* What is created is found by listing: when all clients are done, and nobody has
\* removed or renamed, each object is in the map of its parent, which can be
\* opened, unless two clients made it at the same time, or the parent was made
\* again (memfs, Create, Mkdir, Open and registerWithParent).
THEOREM CreatedIsListed == Spec => []Listed
<1>1. MemInv /\ ListInv /\ TypeOK => Listed
  <2> SUFFICES ASSUME MemInv, ListInv, TypeOK, Quiet, cut = {}, "fatal" \notin panicked,
                      NEW k \in Present \ {RootDir}
               PROVE  LET p == SplitDir(k) IN
                      /\ IsFile(Hit(p))
                      /\ k \notin raced /\ MadeOnce(p) =>
                           k \in DOMAIN files[Hit(p)].memDir /\ files[Hit(p)].memDir[k] = fos[k]
    BY DEF Listed
  <2>1. k \in Keys /\ SplitDir(k) \in Keys
    BY KeysHave DEF Present
  <2>2. \A c \in Clients : ~Registers(todo[c], k)
    BY DEF Quiet, Busy, Registers
  <2>3. Entered(fos, files, raced, k)
    BY <2>2 DEF ListInv
  <2>4. /\ IsFile(Hit(SplitDir(k)))
        /\ MadeOnce(SplitDir(k)) => \A i \in DOMAIN files :
             files[i].name \in {SplitDir(k), Other(SplitDir(k))} => i = Hit(SplitDir(k))
    BY <2>1, <2>3, FoundOnce DEF Entered
  <2> QED
    BY <2>3, <2>4 DEF Entered, ParentKeys
<1>2. Spec => []ListInv
  <2>1. Init => ListInv
    BY InitLists
  <2>2. MemInv /\ MemInv' /\ ListInv /\ [Next]_vars => ListInv'
    BY NextLists
  <2> QED
    BY <2>1, <2>2, Inductive, PTL DEF Spec
<1> QED
  BY <1>1, <1>2, Inductive, MapsTyped, PTL

-----------------------------------------------------------------------------
(***************************************************************************)
(* Files filled from the file system behind.  A client that fills a file    *)
(* puts an empty object, and its tasks lead to the copy; as long as nobody  *)
(* else puts one, it is the only client at it, and the object is empty      *)
(* before its first chunk, ends with it before the second, and is whole     *)
(* after that, unless the copy failed or somebody set its position back.    *)
(***************************************************************************)
Within(m, n) == m = n \/ Below(m, n)
Makers == Suppliers \cup Registering
\* Tasks that use what the last call returned, and those that return a file.
Using == {"write", "copy", "list", "close", "reopen", "fetch"}
Giving == {"open", "created", "write", "copy", "list", "close", "reopen"}
Copies(x, n) == x.t = "copy" /\ x.k.n = n

\* The path n is a file of the file system behind that no request makes.
Shadowed(n) == n \in DOMAIN Shadow /\ Shadow[n] = "file" /\ OnlyRead(n)

\* With the map f, the objects fs and the races R, the result r of the last call,
\* a list of tasks q fills the path n once, and makes no directory of it.
InOrder(f, fs, R, n, q, r, i) ==
  LET k == q[i].k IN
  /\ q[i].t \in Makers => ~Below(k.n, n)
  /\ q[i].t \in {"putdir", "mkdir", "shadowdir", "write"} => k.n # n
  /\ q[i].t = "put" /\ k.n = n =>
       /\ \A j \in 1..(i - 1) : ~Within(q[j].k.n, n)
       /\ i + 3 \in DOMAIN q /\ q[i + 3].t = "copy" /\ q[i + 3].k = k
  /\ Copies(q[i], n) => /\ q[i].data = <<n, n>> \/ (i = 1 /\ q[i].data = <<n>>)
                        /\ \A j \in DOMAIN q : Copies(q[j], n) => j = i
  /\ q[i].t \in {"write", "copy"} =>
       IF i = 1 THEN fs[r].name = k /\ (r = f[k] \/ k \in R)
       ELSE q[i - 1].t = "created" /\ q[i - 1].k = k
  /\ q[i].t \in Using /\ k.n = n =>
       IF i = 1 THEN IsFile(r) => fs[r].name.n = n
       ELSE q[i - 1].t \in Giving /\ q[i - 1].k.n = n
  /\ q[i].t = "fetch" => i = Len(q)
InTurn(f, fs, R, n, q, r) == \A i \in DOMAIN q : InOrder(f, fs, R, n, q, r, i)

Has(q, t, l) == \E i \in DOMAIN q : q[i].t = t /\ q[i].k = l
\* The client has put an empty object and has not copied all of it.
FillsNow(q, l) == Has(q, "copy", l) /\ ~Has(q, "put", l)
\* It has copied the first of the two chunks.
Halfway(q, n) == \E i \in DOMAIN q : Copies(q[i], n) /\ q[i].data # <<n, n>>

\* The object is empty, or has the first chunk and is at its end; or it is torn.
PartThere(x, n, half) ==
  \/ files[x].torn
  \/ IF half THEN files[x].data = <<n>> /\ files[x].at = 1 ELSE files[x].data = <<>>

Whole(n) ==
  \A x \in DOMAIN files :
    LET l == files[x].name IN
    l.n = n /\ l \notin raced /\ files[x].data # <<n, n>> /\ ~files[x].torn =>
      x = fos[l] /\ \E c \in Clients : FillsNow(todo[c], l)
FillsAlone(n) ==
  \A c \in Clients, l \in Keys :
    l.n = n /\ l \notin raced /\ FillsNow(todo[c], l) =>
      /\ IsFile(fos[l]) /\ PartThere(fos[l], n, Halfway(todo[c], n))
      /\ \A d \in Clients \ {c} : ~FillsNow(todo[d], l)
Served(n) == /\ \A c \in Clients : InTurn(fos, files, raced, n, todo[c], res[c])
             /\ Whole(n) /\ FillsAlone(n)

ShadowInv ==
  /\ "fatal" \in panicked => \A c \in Clients : todo[c] = <<>>
  /\ cut = {} /\ "fatal" \notin panicked => \A n \in Nodes : Shadowed(n) => Served(n)

\* What is not below a path has its parents neither there nor below.
LEMMA ParentsOutside ==
  ASSUME NEW n \in Nodes, n # Root, NEW m \in Nodes, ~Below(m, n)
  PROVE  ParentOf[m] \in Nodes /\ ~Within(ParentOf[m], n)
<1>1. ParentOf[m] \in Nodes /\ ParentOf[Root] = Root
  BY TreeAssumption
<1>2. CASE m = Root
  BY <1>1, <1>2 DEF Within, Below, Above
<1>3. CASE m # Root
  <2> DEFINE Upward == {S \in SUBSET Nodes : \A x \in S : ParentOf[x] \in S}
  <2>1. ASSUME NEW S \in Upward, ParentOf[m] \in S, Within(ParentOf[m], n) PROVE n \in S
    <3>1. ParentOf[ParentOf[m]] \in S
      BY <2>1
    <3> QED
      BY <1>1, <2>1, <3>1 DEF Within, Below, Above
  <2>2. Within(ParentOf[m], n) => n \in Above[m]
    BY <1>3, <2>1 DEF Above
  <2> QED
    BY <1>1, <2>2 DEF Below
<1> QED
  BY <1>2, <1>3

\* What the next task of a list builds on.
Continues(g, gs, P, n, tasks, r, y) ==
  /\ y.t \in {"write", "copy"} =>
       tasks = <<>> /\ gs[r].name = y.k /\ (r = g[y.k] \/ y.k \in P)
  /\ y.t \in Using /\ y.k.n = n =>
       IF tasks = <<>> THEN IsFile(r) => gs[r].name.n = n
       ELSE tasks[Len(tasks)].t \in Giving /\ tasks[Len(tasks)].k.n = n

LEMMA SpliceTurn ==
  ASSUME NEW S, NEW q \in Seq(S), q # <<>>, NEW tasks \in Seq(S),
         NEW f, NEW g, NEW fs, NEW gs, NEW R, NEW P, NEW n, NEW r0, NEW r,
         InTurn(f, fs, R, n, q, r0), InTurn(g, gs, P, n, tasks, r),
         ~Within(q[1].k.n, n) => \A i \in DOMAIN tasks : ~Within(tasks[i].k.n, n),
         \A i \in DOMAIN tasks : tasks[i].t # "fetch",
         (\E i \in DOMAIN tasks : Copies(tasks[i], n)) => \A j \in 2..Len(q) : ~Copies(q[j], n),
         2 \in DOMAIN q => Continues(g, gs, P, n, tasks, r, q[2])
  PROVE  InTurn(g, gs, P, n, tasks \o Tail(q), r)
<1> DEFINE s == tasks \o Tail(q)
           m == Len(q)
           e == Len(tasks)
<1>1. /\ m \in Nat /\ m >= 1 /\ e \in Nat /\ DOMAIN q = 1..m /\ DOMAIN tasks = 1..e
      /\ Len(s) = e + m - 1 /\ DOMAIN s = 1..(e + m - 1)
      /\ \A i \in 1..e : s[i] = tasks[i]
      /\ \A i \in (e + 1)..(e + m - 1) : s[i] = q[i - e + 1]
  BY SpliceSeq
<1>2. tasks = <<>> <=> e = 0
  BY EmptySeq
<1> HIDE DEF s, m, e
<1>3. ASSUME NEW i \in 1..e PROVE InOrder(g, gs, P, n, s, r, i)
  <2>1. /\ i \in DOMAIN tasks /\ i \in DOMAIN s /\ s[i] = tasks[i]
        /\ InOrder(g, gs, P, n, tasks, r, i) /\ s[i].t # "fetch"
    <3>1. i \in DOMAIN tasks /\ i \in 1..(e + m - 1) /\ s[i] = tasks[i]
      BY <1>1
    <3> QED
      BY <1>1, <3>1 DEF InTurn
  <2>2. i # 1 => i - 1 \in 1..e /\ s[i - 1] = tasks[i - 1]
    BY <1>1
  <2>3. s[i].t = "put" /\ s[i].k.n = n =>
          /\ \A j \in 1..(i - 1) : ~Within(s[j].k.n, n)
          /\ i + 3 \in DOMAIN s /\ s[i + 3].t = "copy" /\ s[i + 3].k = s[i].k
    <3> SUFFICES ASSUME s[i].t = "put" /\ s[i].k.n = n
                 PROVE  /\ \A j \in 1..(i - 1) : ~Within(s[j].k.n, n)
                        /\ i + 3 \in DOMAIN s /\ s[i + 3].t = "copy" /\ s[i + 3].k = s[i].k
      OBVIOUS
    <3>1. /\ \A j \in 1..(i - 1) : ~Within(tasks[j].k.n, n)
          /\ i + 3 \in 1..e /\ tasks[i + 3].t = "copy" /\ tasks[i + 3].k = s[i].k
      BY <2>1, <1>1 DEF InOrder
    <3>2. \A j \in 1..(i - 1) : j \in 1..e
      BY <1>1
    <3> QED
      BY <1>1, <3>1, <3>2
  <2>4. Copies(s[i], n) => /\ s[i].data = <<n, n>> \/ (i = 1 /\ s[i].data = <<n>>)
                           /\ \A j \in DOMAIN s : Copies(s[j], n) => j = i
    <3> SUFFICES ASSUME Copies(s[i], n), NEW j \in DOMAIN s, Copies(s[j], n) PROVE j = i
      BY <2>1, <1>1 DEF InOrder
    <3>1. CASE j \in 1..e
      BY <3>1, <2>1, <1>1 DEF InOrder
    <3>2. CASE j \notin 1..e
      <4>1. j \in (e + 1)..(e + m - 1) /\ j - e + 1 \in 2..m
        BY <1>1, <3>2
      <4>2. Copies(q[j - e + 1], n)
        BY <4>1, <1>1
      <4> QED
        BY <2>1, <4>1, <4>2 DEF m
    <3> QED
      BY <3>1, <3>2
  <2> QED
    BY <2>1, <2>2, <2>3, <2>4 DEF InOrder
<1>4. ASSUME NEW i \in (e + 1)..(e + m - 1) PROVE InOrder(g, gs, P, n, s, r, i)
  <2> DEFINE j == i - e + 1
  <2>1. /\ j \in 2..m /\ i \in DOMAIN s /\ s[i] = q[j] /\ i = j + e - 1 /\ j \in DOMAIN q
        /\ InOrder(f, fs, R, n, q, r0, j)
    BY <1>1 DEF InTurn
  <2>2. j # 2 => i # 1 /\ s[i - 1] = q[j - 1] /\ j # 1
    <3> SUFFICES ASSUME j # 2 PROVE i # 1 /\ s[i - 1] = q[j - 1] /\ j # 1
      OBVIOUS
    <3>1. i - 1 \in (e + 1)..(e + m - 1) /\ (i - 1) - e + 1 = j - 1
      BY <1>1
    <3> QED
      BY <1>1, <3>1
  <2>3. j = 2 => /\ Continues(g, gs, P, n, tasks, r, q[2]) /\ (i = 1 <=> tasks = <<>>)
                 /\ i # 1 => s[i - 1] = tasks[e]
    <3> SUFFICES ASSUME j = 2
                 PROVE  /\ Continues(g, gs, P, n, tasks, r, q[2]) /\ (i = 1 <=> tasks = <<>>)
                        /\ i # 1 => s[i - 1] = tasks[e]
      OBVIOUS
    <3>1. i = e + 1 /\ 2 \in DOMAIN q
      BY <1>1, <2>1
    <3>2. i # 1 => i - 1 = e /\ e \in 1..e
      BY <1>1, <3>1
    <3> QED
      BY <1>1, <1>2, <3>1, <3>2
  <2> HIDE DEF j
  <2>4. s[i].t \in {"write", "copy"} =>
          IF i = 1 THEN gs[r].name = s[i].k /\ (r = g[s[i].k] \/ s[i].k \in P)
          ELSE s[i - 1].t = "created" /\ s[i - 1].k = s[i].k
    <3>1. CASE j # 2
      BY <2>1, <2>2, <3>1 DEF InOrder
    <3>2. CASE j = 2
      BY <2>1, <2>3, <3>2 DEF Continues
    <3> QED
      BY <3>1, <3>2
  <2>5. s[i].t \in Using /\ s[i].k.n = n =>
          IF i = 1 THEN IsFile(r) => gs[r].name.n = n
          ELSE s[i - 1].t \in Giving /\ s[i - 1].k.n = n
    <3>1. CASE j # 2
      BY <2>1, <2>2, <3>1 DEF InOrder
    <3>2. CASE j = 2
      BY <2>1, <2>3, <3>2 DEF Continues, e
    <3> QED
      BY <3>1, <3>2
  <2>6. s[i].t = "put" /\ s[i].k.n = n =>
          /\ \A x \in 1..(i - 1) : ~Within(s[x].k.n, n)
          /\ i + 3 \in DOMAIN s /\ s[i + 3].t = "copy" /\ s[i + 3].k = s[i].k
    <3> SUFFICES ASSUME s[i].t = "put" /\ s[i].k.n = n
                 PROVE  /\ \A x \in 1..(i - 1) : ~Within(s[x].k.n, n)
                        /\ i + 3 \in DOMAIN s /\ s[i + 3].t = "copy" /\ s[i + 3].k = s[i].k
      OBVIOUS
    <3>1. /\ \A x \in 1..(j - 1) : ~Within(q[x].k.n, n)
          /\ j + 3 \in 1..m /\ q[j + 3].t = "copy" /\ q[j + 3].k = s[i].k
      BY <1>1, <2>1 DEF InOrder
    <3>2. i + 3 \in (e + 1)..(e + m - 1) /\ (i + 3) - e + 1 = j + 3
      BY <1>1, <2>1, <3>1
    <3>3. s[i + 3] = q[j + 3] /\ i + 3 \in DOMAIN s
      BY <1>1, <3>2
    <3>4. 1 \in 1..(j - 1)
      BY <2>1
    <3>5. ASSUME NEW x \in 1..(i - 1) PROVE ~Within(s[x].k.n, n)
      <4>1. CASE x \in 1..e
        BY <1>1, <3>1, <3>4, <4>1
      <4>2. CASE x \notin 1..e
        <5>1. x \in (e + 1)..(e + m - 1) /\ x - e + 1 \in 1..(j - 1)
          BY <1>1, <2>1, <4>2
        <5> QED
          BY <1>1, <3>1, <5>1
      <4> QED
        BY <4>1, <4>2
    <3> QED
      BY <3>1, <3>3, <3>5
  <2>7. Copies(s[i], n) => s[i].data = <<n, n>> /\ \A x \in DOMAIN s : Copies(s[x], n) => x = i
    <3> SUFFICES ASSUME Copies(s[i], n), NEW x \in DOMAIN s, Copies(s[x], n) PROVE x = i
      BY <2>1 DEF InOrder
    <3>1. CASE x \in 1..e
      BY <1>1, <2>1, <3>1 DEF m
    <3>2. CASE x \notin 1..e
      <4>1. x \in (e + 1)..(e + m - 1) /\ x - e + 1 \in 1..m
        BY <1>1, <3>2
      <4>2. x - e + 1 = j
        BY <1>1, <2>1, <4>1 DEF InOrder
      <4> QED
        BY <1>1, <2>1, <4>1, <4>2
    <3> QED
      BY <3>1, <3>2
  <2>8. s[i].t = "fetch" => i = Len(s)
    BY <1>1, <2>1 DEF InOrder, m
  <2> QED
    BY <2>1, <2>4, <2>5, <2>6, <2>7, <2>8 DEF InOrder
<1>5. DOMAIN s = 1..e \cup (e + 1)..(e + m - 1)
  BY <1>1
<1>6. InTurn(g, gs, P, n, s, r)
  BY <1>3, <1>4, <1>5 DEF InTurn
<1> QED
  BY <1>6 DEF s

\* What the new tasks do not have comes from the rest of the list.
LEMMA SpliceHas ==
  ASSUME NEW S, NEW q \in Seq(S), q # <<>>, NEW tasks \in Seq(S), NEW t, NEW l,
         \A i \in DOMAIN tasks : ~(tasks[i].t = t /\ tasks[i].k = l),
         ~(q[1].t = t /\ q[1].k = l)
  PROVE  Has(tasks \o Tail(q), t, l) <=> Has(q, t, l)
<1> DEFINE s == tasks \o Tail(q)
           m == Len(q)
           e == Len(tasks)
<1>1. /\ m \in Nat /\ m >= 1 /\ e \in Nat /\ DOMAIN q = 1..m /\ DOMAIN tasks = 1..e
      /\ DOMAIN s = 1..(e + m - 1)
      /\ \A i \in 1..e : s[i] = tasks[i]
      /\ \A i \in (e + 1)..(e + m - 1) : s[i] = q[i - e + 1]
  BY SpliceSeq
<1> HIDE DEF s, m, e
<1>2. ASSUME NEW i \in DOMAIN s, s[i].t = t, s[i].k = l PROVE Has(q, t, l)
  <2>1. i \in (e + 1)..(e + m - 1)
    <3>1. i \notin 1..e
      BY <1>1, <1>2
    <3> QED
      BY <1>1, <3>1
  <2>2. i - e + 1 \in DOMAIN q
    BY <1>1, <2>1
  <2> QED
    BY <1>1, <1>2, <2>1, <2>2 DEF Has
<1>3. ASSUME NEW j \in DOMAIN q, q[j].t = t, q[j].k = l PROVE Has(s, t, l)
  <2>1. j # 1
    BY <1>3
  <2>2. j + e - 1 \in (e + 1)..(e + m - 1) /\ (j + e - 1) - e + 1 = j /\ j + e - 1 \in DOMAIN s
    BY <1>1, <2>1
  <2>3. s[j + e - 1] = q[j]
    BY <1>1, <2>2
  <2> QED
    BY <1>3, <2>2, <2>3 DEF Has
<1>4. Has(s, t, l) <=> Has(q, t, l)
  BY <1>2, <1>3 DEF Has
<1> QED
  BY <1>4 DEF s

LEMMA SpliceHasNew ==
  ASSUME NEW S, NEW q \in Seq(S), q # <<>>, NEW tasks \in Seq(S), NEW i \in DOMAIN tasks
  PROVE  Has(tasks \o Tail(q), tasks[i].t, tasks[i].k)
<1> DEFINE s == tasks \o Tail(q)
           m == Len(q)
           e == Len(tasks)
<1>1. /\ m \in Nat /\ m >= 1 /\ e \in Nat /\ DOMAIN tasks = 1..e
      /\ DOMAIN s = 1..(e + m - 1) /\ \A j \in 1..e : s[j] = tasks[j]
  BY SpliceSeq
<1> HIDE DEF s, m, e
<1>2. i \in DOMAIN s /\ s[i] = tasks[i]
  BY <1>1
<1>3. Has(s, tasks[i].t, tasks[i].k)
  BY <1>2 DEF Has
<1> QED
  BY <1>3 DEF s

\* Nobody is halfway but by the new tasks.
LEMMA SpliceHalf ==
  ASSUME NEW S, NEW q \in Seq(S), q # <<>>, NEW tasks \in Seq(S), NEW n,
         \A j \in 2..Len(q) : Copies(q[j], n) => q[j].data = <<n, n>>
  PROVE  Halfway(tasks \o Tail(q), n) <=> Halfway(tasks, n)
<1> DEFINE s == tasks \o Tail(q)
           m == Len(q)
           e == Len(tasks)
<1>1. /\ m \in Nat /\ m >= 1 /\ e \in Nat /\ DOMAIN q = 1..m /\ DOMAIN tasks = 1..e
      /\ DOMAIN s = 1..(e + m - 1)
      /\ \A i \in 1..e : s[i] = tasks[i]
      /\ \A i \in (e + 1)..(e + m - 1) : s[i] = q[i - e + 1]
  BY SpliceSeq
<1>2. \A j \in 2..m : Copies(q[j], n) => q[j].data = <<n, n>>
  OBVIOUS
<1> HIDE DEF s, m, e
<1>3. ASSUME NEW i \in DOMAIN s, Copies(s[i], n), s[i].data # <<n, n>> PROVE Halfway(tasks, n)
  <2>1. CASE i \in 1..e
    BY <1>1, <1>3, <2>1 DEF Halfway
  <2>2. CASE i \notin 1..e
    <3>1. i \in (e + 1)..(e + m - 1) /\ i - e + 1 \in 2..m
      BY <1>1, <2>2
    <3> QED
      BY <1>1, <1>2, <1>3, <3>1
  <2> QED
    BY <2>1, <2>2
<1>4. ASSUME NEW i \in DOMAIN tasks, Copies(tasks[i], n), tasks[i].data # <<n, n>>
      PROVE  Halfway(s, n)
  <2>1. i \in DOMAIN s /\ s[i] = tasks[i]
    BY <1>1
  <2> QED
    BY <1>4, <2>1 DEF Halfway
<1>5. Halfway(s, n) <=> Halfway(tasks, n)
  BY <1>3, <1>4 DEF Halfway
<1> QED
  BY <1>5 DEF s

\* Only who is at the copy is halfway.
LEMMA HalfwayAtHead ==
  ASSUME NEW S, NEW q \in Seq(S), NEW f, NEW fs, NEW R, NEW r, NEW n,
         InTurn(f, fs, R, n, q, r)
  PROVE  /\ \A j \in 2..Len(q) : Copies(q[j], n) => q[j].data = <<n, n>>
         /\ Halfway(q, n) => /\ q # <<>> /\ Copies(q[1], n) /\ q[1].data = <<n>>
                             /\ \A i \in DOMAIN q : Copies(q[i], n) => i = 1
<1>1. DOMAIN q = 1..Len(q) /\ Len(q) \in Nat
  BY LenProperties
<1>2. \A i \in DOMAIN q : InOrder(f, fs, R, n, q, r, i)
  BY DEF InTurn
<1>3. ASSUME NEW j \in 2..Len(q), Copies(q[j], n) PROVE q[j].data = <<n, n>>
  <2>1. j \in DOMAIN q /\ j # 1
    BY <1>1
  <2> QED
    BY <1>2, <1>3, <2>1 DEF InOrder
<1>4. ASSUME NEW j \in DOMAIN q, Copies(q[j], n), q[j].data # <<n, n>>
      PROVE  /\ q # <<>> /\ Copies(q[1], n) /\ q[1].data = <<n>>
             /\ \A i \in DOMAIN q : Copies(q[i], n) => i = 1
  <2>1. j = 1 /\ q[j].data = <<n>> /\ \A i \in DOMAIN q : Copies(q[i], n) => i = j
    BY <1>2, <1>4 DEF InOrder
  <2>2. q # <<>>
    BY <1>1, <1>4
  <2> QED
    BY <1>4, <2>1, <2>2
<1> QED
  BY <1>3, <1>4 DEF Halfway

\* Going on with a registration makes nothing but its parent.
LEMMA SettleTurn ==
  ASSUME NEW N \in Nat, NEW q \in Seq(Tasks(N)), NEW r \in Results(N),
         NEW f, NEW fs, NEW R, NEW n \in Nodes, n # Root, InTurn(f, fs, R, n, q, r)
  PROVE  /\ InTurn(f, fs, R, n, Settle(q, r), r)
         /\ \A t \in {"put", "copy"}, l \in Keys : Has(Settle(q, r), t, l) <=> Has(q, t, l)
         /\ Halfway(Settle(q, r), n) <=> Halfway(q, n)
<1>1. CASE Settle(q, r) = q
  BY <1>1
<1>2. CASE q # <<>> /\ q[1].t \in {"register", "parent", "self"} /\ Settle(q, r) # q
  <2>1. PICK pre \in Seq(Tasks(N)) : Settle(q, r) = pre \o Tail(q) /\ Opening(pre, q[1], r)
    BY <1>2, SettleForm
  <2> DEFINE x == q[1]
  <2>2. 1 \in DOMAIN q /\ x \in Tasks(N)
    BY <1>2, SpliceSeq, ElementOfSeq
  <2>3. x.k \in Keys /\ x.k.n \in Nodes /\ SplitDir(x.k).n = ParentOf[x.k.n]
    BY <2>2, KeysHave DEF Tasks, SplitDir, Key
  <2>4. InOrder(f, fs, R, n, q, r, 1)
    BY <2>2 DEF InTurn
  <2>5. ~Below(x.k.n, n)
    BY <1>2, <2>4 DEF InOrder, Makers, Registering
  <2>6. ~Within(SplitDir(x.k).n, n)
    BY <2>3, <2>5, ParentsOutside
  <2>7. \A i \in DOMAIN pre :
          /\ pre[i].t \in {"open", "mkdir", "parent", "self", "enter"}
          /\ pre[i].k \in {x.k, SplitDir(x.k)}
          /\ pre[i].t = "mkdir" => pre[i].k = SplitDir(x.k)
    BY <2>1 DEF Opening
  <2> HIDE DEF x
  <2>8. InTurn(f, fs, R, n, pre, r)
    <3> SUFFICES ASSUME NEW i \in DOMAIN pre PROVE InOrder(f, fs, R, n, pre, r, i)
      BY DEF InTurn
    <3>1. ~Below(pre[i].k.n, n) /\ (pre[i].t = "mkdir" => pre[i].k.n # n)
      BY <2>5, <2>6, <2>7 DEF Within
    <3> QED
      BY <2>7, <3>1 DEF InOrder, Copies, Using
  <2>9. ~Within(x.k.n, n) => \A i \in DOMAIN pre : ~Within(pre[i].k.n, n)
    BY <2>6, <2>7
  <2>10. \A i \in DOMAIN pre : pre[i].t # "fetch" /\ ~Copies(pre[i], n)
    BY <2>7 DEF Copies
  <2>11. 2 \in DOMAIN q => Continues(f, fs, R, n, pre, r, q[2])
    <3> SUFFICES ASSUME 2 \in DOMAIN q PROVE Continues(f, fs, R, n, pre, r, q[2])
      OBVIOUS
    <3>1. InOrder(f, fs, R, n, q, r, 2) /\ 2 # 1 /\ 2 - 1 = 1
      BY DEF InTurn
    <3>2. x.t \notin Giving
      BY <1>2 DEF Giving, x
    <3>3. q[2].t \notin {"write", "copy"} /\ ~(q[2].t \in Using /\ q[2].k.n = n)
      BY <3>1, <3>2 DEF InOrder, Giving, x
    <3> QED
      BY <3>3 DEF Continues
  <2>12. InTurn(f, fs, R, n, pre \o Tail(q), r)
    BY <1>2, <2>8, <2>9, <2>10, <2>11, SpliceTurn DEF x
  <2>13. ASSUME NEW t \in {"put", "copy"}, NEW l \in Keys
         PROVE  Has(pre \o Tail(q), t, l) <=> Has(q, t, l)
    BY <1>2, <2>7, <2>13, SpliceHas
  <2>14. Halfway(pre \o Tail(q), n) <=> Halfway(q, n)
    <3>1. /\ \A j \in 2..Len(q) : Copies(q[j], n) => q[j].data = <<n, n>>
          /\ Halfway(q, n) => Copies(x, n)
      BY <1>2, HalfwayAtHead DEF x
    <3>2. ~Copies(x, n)
      BY <1>2 DEF Copies, x
    <3>3. ~Halfway(pre, n)
      BY <2>10 DEF Halfway
    <3> QED
      BY <1>2, <3>1, <3>2, <3>3, SpliceHalf
  <2> QED
    BY <2>1, <2>12, <2>13, <2>14
<1> QED
  BY <1>1, <1>2, SettleForm

\* The world of a list may grow.
LEMMA GrowTurn ==
  ASSUME NEW N \in Nat, NEW q \in Seq(Tasks(N)), NEW r \in Results(N),
         NEW f, NEW g, NEW fs, NEW gs, NEW R, NEW P, NEW n,
         InTurn(f, fs, R, n, q, r), Sound(f, q, r), R \subseteq P,
         \A k \in Keys : f[k] # Absent => g[k] = f[k] \/ k \in P,
         \A i \in 1..N : gs[i].name = fs[i].name
  PROVE  InTurn(g, gs, P, n, q, r)
<1> SUFFICES ASSUME NEW i \in DOMAIN q PROVE InOrder(g, gs, P, n, q, r, i)
  BY DEF InTurn
<1>1. InOrder(f, fs, R, n, q, r, i)
  BY DEF InTurn
<1>2. q[i] \in Tasks(N)
  BY LenProperties, ElementOfSeq
<1>3. q[i].k \in Keys
  BY <1>2 DEF Tasks
<1>4. IsFile(r) => r \in 1..N /\ r # Absent
  BY DEF IsFile, Results, Nil, Missing, Failed, Fine, Absent
<1>5. IsFile(r) => gs[r].name = fs[r].name
  BY <1>4
<1>6. q[i].t \in {"write", "copy"} /\ i = 1 => IsFile(r)
  BY DEF Sound
<1> DEFINE k == q[i].k
<1> HIDE DEF k
<1>7. q[i].t \in {"write", "copy"} /\ i = 1 => gs[r].name = k /\ (r = g[k] \/ k \in P)
  BY <1>1, <1>3, <1>4, <1>5, <1>6 DEF InOrder, k
<1> QED
  BY <1>1, <1>5, <1>7 DEF InOrder, k

\* What a call must leave to its client for the path n.
Turns(c, n, r, tasks) ==
  /\ InTurn(fos', files', raced', n, tasks, r)
  /\ ~Within(Top(c).k.n, n) => \A i \in DOMAIN tasks : ~Within(tasks[i].k.n, n)
  /\ \A i \in DOMAIN tasks : tasks[i].t # "fetch"
  /\ (\E i \in DOMAIN tasks : Copies(tasks[i], n)) =>
       \A j \in 2..Len(todo[c]) : ~Copies(todo[c][j], n)
  /\ 2 \in DOMAIN todo[c] => Continues(fos', files', raced', n, tasks, r, todo[c][2])
\* What it does to the maps.
Grows(c) ==
  /\ raced \subseteq raced'
  /\ \A i \in DOMAIN files : i \in DOMAIN files' /\ files'[i].name = files[i].name
  /\ \A k \in Keys : fos'[k] # fos[k] =>
       fos[k] = Absent \/ k \in raced' \/ \A d \in Clients \ {c} : ~Busy(d)

LEMMA CallTurns ==
  ASSUME Going, NEW c \in Clients, Busy(c), NEW r \in Results(Len(files)),
         NEW tasks \in Seq(Tasks(Len(files))), Gives(c, r, tasks), Grows(c),
         NEW n \in Nodes, n # Root, Served(n), Turns(c, n, r, tasks)
  PROVE  /\ \A d \in Clients : InTurn(fos', files', raced', n, todo'[d], res'[d])
         /\ \A t \in {"put", "copy"}, l \in Keys :
              Has(todo'[c], t, l) <=> Has(tasks \o Tail(todo[c]), t, l)
         /\ Halfway(todo'[c], n) <=> Halfway(tasks, n)
         /\ \A d \in Clients \ {c} : todo'[d] = todo[d]
<1> DEFINE N == Len(files)
           q == todo[c]
           s == tasks \o Tail(q)
<1>1. N \in Nat /\ DOMAIN files = 1..N /\ TypeInv /\ Top(c) = q[1]
  BY TopTyped DEF Going, MemInv
<1>2. q \in Seq(Tasks(N)) /\ q # <<>>
  BY <1>1 DEF TypeInv, Busy
<1>3. /\ \A d \in Clients \ {c} : todo'[d] = todo[d] /\ res'[d] = res[d]
      /\ todo'[c] = Settle(s, r) /\ res'[c] = r /\ s \in Seq(Tasks(N))
  BY <1>1, GivesKeeps
<1>4. \A d \in Clients : InTurn(fos, files, raced, n, todo[d], res[d])
  BY DEF Served
<1>5. InTurn(fos', files', raced', n, s, r)
  <2>1. InTurn(fos, files, raced, n, q, res[c])
    BY <1>4
  <2>2. /\ InTurn(fos', files', raced', n, tasks, r)
        /\ ~Within(q[1].k.n, n) => \A i \in DOMAIN tasks : ~Within(tasks[i].k.n, n)
        /\ \A i \in DOMAIN tasks : tasks[i].t # "fetch"
        /\ (\E i \in DOMAIN tasks : Copies(tasks[i], n)) => \A j \in 2..Len(q) : ~Copies(q[j], n)
        /\ 2 \in DOMAIN q => Continues(fos', files', raced', n, tasks, r, q[2])
    BY <1>1 DEF Turns
  <2> HIDE DEF q
  <2> QED
    BY <1>2, <2>1, <2>2, SpliceTurn
<1> HIDE DEF s
<1>6. /\ InTurn(fos', files', raced', n, todo'[c], res'[c])
      /\ \A t \in {"put", "copy"}, l \in Keys : Has(todo'[c], t, l) <=> Has(s, t, l)
      /\ Halfway(todo'[c], n) <=> Halfway(s, n)
  BY <1>1, <1>3, <1>5, SettleTurn
<1>7. ASSUME NEW d \in Clients, d # c PROVE InTurn(fos', files', raced', n, todo'[d], res'[d])
  <2>1. todo'[d] = todo[d] /\ res'[d] = res[d]
    BY <1>3, <1>7
  <2>2. CASE todo[d] = <<>>
    BY <2>1, <2>2 DEF InTurn
  <2>3. CASE todo[d] # <<>>
    <3>1. todo[d] \in Seq(Tasks(N)) /\ res[d] \in Results(N)
      BY <1>1 DEF TypeInv
    <3>2. InTurn(fos, files, raced, n, todo[d], res[d]) /\ Sound(fos, todo[d], res[d])
      BY <1>4 DEF Going, MemInv, SoundInv
    <3>3. Busy(d)
      BY <2>3 DEF Busy
    <3>4. raced \subseteq raced' /\ \A k \in Keys : fos[k] # Absent => fos'[k] = fos[k] \/ k \in raced'
      BY <1>7, <3>3 DEF Grows
    <3>5. \A i \in 1..N : files'[i].name = files[i].name
      BY <1>1 DEF Grows
    <3>6. InTurn(fos', files', raced', n, todo[d], res[d])
      BY <1>1, <3>1, <3>2, <3>4, <3>5, GrowTurn
    <3> QED
      BY <2>1, <3>6
  <2> QED
    BY <2>2, <2>3
<1>8. Halfway(s, n) <=> Halfway(tasks, n)
  <2>1. \A j \in 2..Len(q) : Copies(q[j], n) => q[j].data = <<n, n>>
    BY <1>2, <1>4, HalfwayAtHead
  <2> HIDE DEF q
  <2> QED
    BY <1>2, <2>1, SpliceHalf DEF s
<1> QED
  BY <1>3, <1>6, <1>7, <1>8 DEF s

\* Nothing has been removed, and n is a file of the file system behind.
Serving(n) == Going /\ Served(n) /\ Shadowed(n)

\* An object keeps its bytes, and is torn when it is set back in a copy.
Keeps(x) ==
  /\ files'[x].name = files[x].name /\ files'[x].data = files[x].data
  /\ files[x].torn => files'[x].torn
  /\ files'[x].at = files[x].at \/ files'[x].torn \/ ~Copying(x)
\* The objects of the path n stay what they are, and no others come.
SameAt(n) ==
  /\ \A l \in Keys : l.n = n => fos'[l] = fos[l]
  /\ \A x \in DOMAIN files' : files'[x].name.n = n => x \in DOMAIN files /\ Keeps(x)

LEMMA ServingOn ==
  ASSUME NEW n \in Nodes, Serving(n), NEW c \in Clients, Busy(c)
  PROVE  /\ n # Root /\ ~Within(ParentOf[n], n) /\ ~Below(n, n)
         /\ \A m \in Nodes : m \in DOMAIN Shadow => ~Below(m, n)
         /\ \A d \in Clients : InTurn(fos, files, raced, n, todo[d], res[d])
         /\ InOrder(fos, files, raced, n, todo[c], res[c], 1)
         /\ 2 \in DOMAIN todo[c] =>
              LET y == todo[c][2] IN
              /\ y.t \in {"write", "copy"} => Top(c).t = "created" /\ Top(c).k = y.k
              /\ y.t \in Using /\ y.k.n = n => Top(c).t \in Giving /\ Top(c).k.n = n
<1>1. setup \in Setups /\ 1 \in DOMAIN todo[c] /\ Top(c) = todo[c][1]
  BY TopTyped DEF Serving, Going, MemInv, TypeInv
<1>2. n # Root /\ \A m \in Nodes : m \in DOMAIN Shadow => ~Below(m, n)
  BY <1>1, PathAssumption DEF Serving, Shadowed, Shadow
<1>3. ~Below(n, n)
  BY PathAssumption DEF Below
<1>4. ~Within(ParentOf[n], n)
  BY <1>2, <1>3, ParentsOutside
<1>5. \A d \in Clients : InTurn(fos, files, raced, n, todo[d], res[d])
  BY DEF Serving, Served
<1>6. \A i \in DOMAIN todo[c] : InOrder(fos, files, raced, n, todo[c], res[c], i)
  BY <1>5 DEF InTurn
<1>7. 2 - 1 = 1 /\ 2 # 1
  OBVIOUS
<1> DEFINE q == todo[c]
           y == q[2]
<1>8. 2 \in DOMAIN q =>
        /\ y.t \in {"write", "copy"} => q[1].t = "created" /\ q[1].k = y.k
        /\ y.t \in Using /\ y.k.n = n => q[1].t \in Giving /\ q[1].k.n = n
  BY <1>6, <1>7 DEF InOrder
<1> QED
  BY <1>1, <1>2, <1>3, <1>4, <1>5, <1>6, <1>8

\* A client that is halfway is at the copy of the file that it fills.
LEMMA HalfwayCopies ==
  ASSUME NEW n \in Nodes, Serving(n), NEW d \in Clients, NEW l \in Keys, l.n = n, l \notin raced,
         FillsNow(todo[d], l), Halfway(todo[d], n)
  PROVE  Top(d).k = l /\ res[d] = fos[l] /\ Copying(fos[l])
<1> DEFINE q == todo[d]
<1>1. TypeInv /\ Busy(d) /\ InTurn(fos, files, raced, n, q, res[d])
  BY DEF Serving, Served, Going, MemInv, Halfway, Busy
<1>2. q \in Seq(Tasks(Len(files))) /\ 1 \in DOMAIN q /\ Top(d) = q[1]
  BY <1>1, TopTyped DEF TypeInv
<1>3. PICK i \in DOMAIN q : q[i].t = "copy" /\ q[i].k = l
  BY DEF FillsNow, Has
<1> HIDE DEF q
<1>4. Copies(q[1], n) /\ \A j \in DOMAIN q : Copies(q[j], n) => j = 1
  BY <1>1, <1>2, HalfwayAtHead DEF q
<1>5. i = 1
  BY <1>3, <1>4 DEF Copies
<1>6. InOrder(fos, files, raced, n, q, res[d], 1)
  BY <1>1, <1>2 DEF InTurn
<1>7. q[1].t = "copy" /\ q[1].k = l
  BY <1>3, <1>5
<1>8. res[d] = fos[l]
  BY <1>6, <1>7 DEF InOrder
<1>9. At(d, "copy")
  BY <1>1, <1>2, <1>7 DEF At, Top
<1> QED
  BY <1>2, <1>7, <1>8, <1>9 DEF Copying

\* A call that changes neither the objects of the path n nor who fills them.
LEMMA StayServes ==
  ASSUME NEW n \in Nodes, Serving(n), NEW c \in Clients, Grows(c), SameAt(n),
         \A d \in Clients : InTurn(fos', files', raced', n, todo'[d], res'[d]),
         \A d \in Clients, l \in Keys :
           l.n = n => (FillsNow(todo'[d], l) <=> FillsNow(todo[d], l)),
         \A d \in Clients : Halfway(todo'[d], n) <=> Halfway(todo[d], n)
  PROVE  Served(n)'
<1>1. \A x \in DOMAIN files : files[x].name \in Keys
  BY FileTyped DEF Serving, Going, MemInv, File
<1>2. Whole(n)'
  <2> SUFFICES ASSUME NEW x \in DOMAIN files', files'[x].name.n = n,
                      files'[x].name \notin raced', files'[x].data # <<n, n>>, ~files'[x].torn
               PROVE  /\ x = fos'[files'[x].name]
                      /\ \E d \in Clients : FillsNow(todo'[d], files'[x].name)
    BY DEF Whole
  <2> DEFINE l == files[x].name
  <2>1. x \in DOMAIN files /\ files'[x].name = l /\ files'[x].data = files[x].data
        /\ ~files[x].torn
    BY DEF SameAt, Keeps
  <2>2. l \in Keys /\ l.n = n /\ l \notin raced /\ files[x].data # <<n, n>>
    BY <1>1, <2>1 DEF Grows
  <2>3. x = fos[l] /\ \E d \in Clients : FillsNow(todo[d], l)
    BY <2>1, <2>2 DEF Serving, Served, Whole
  <2> QED
    BY <2>1, <2>2, <2>3 DEF SameAt
<1>3. FillsAlone(n)'
  <2> SUFFICES ASSUME NEW d \in Clients, NEW l \in Keys, l.n = n, l \notin raced',
                      FillsNow(todo'[d], l)
               PROVE  /\ IsFile(fos'[l]) /\ PartThere(fos[l], n, Halfway(todo[d], n))'
                      /\ \A e \in Clients \ {d} : ~FillsNow(todo'[e], l)
    BY DEF FillsAlone
  <2> DEFINE x == fos[l]
  <2>1. l \notin raced /\ FillsNow(todo[d], l) /\ fos'[l] = x
        /\ (Halfway(todo'[d], n) <=> Halfway(todo[d], n))
    BY DEF Grows, SameAt
  <2>2. /\ IsFile(x) /\ PartThere(x, n, Halfway(todo[d], n))
        /\ \A e \in Clients \ {d} : ~FillsNow(todo[e], l)
    BY <2>1 DEF Serving, Served, FillsAlone
  <2>3. x \in DOMAIN files /\ files[x].name = l
    <3>1. Busy(d)
      BY <2>1 DEF FillsNow, Has, Busy
    <3> QED
      BY <2>2, <3>1, GoingOn DEF Serving
  <2>4. Halfway(todo[d], n) => Copying(x)
    BY <2>1, HalfwayCopies
  <2> HIDE DEF x
  <2>5. x \in DOMAIN files' /\ files'[x].name = l
    BY <2>3 DEF Grows
  <2>6. Keeps(x)
    BY <2>5 DEF SameAt
  <2>7. PartThere(fos[l], n, Halfway(todo[d], n))'
    BY <2>1, <2>2, <2>4, <2>6 DEF PartThere, Keeps
  <2> QED
    BY <2>1, <2>2, <2>7
<1> QED
  BY <1>2, <1>3 DEF Served

\* A call that neither puts nor copies the path n.
LEMMA PlainServes ==
  ASSUME NEW n \in Nodes, Serving(n), NEW c \in Clients, Busy(c),
         NEW r \in Results(Len(files)), NEW tasks \in Seq(Tasks(Len(files))),
         Gives(c, r, tasks), Grows(c), Turns(c, n, r, tasks), SameAt(n),
         \A i \in DOMAIN tasks : tasks[i].t \in {"put", "copy"} => tasks[i].k.n # n,
         Top(c).t \in {"put", "copy"} => Top(c).k.n # n
  PROVE  Served(n)'
<1> DEFINE q == todo[c]
           N == Len(files)
<1>1. /\ \A d \in Clients : InTurn(fos', files', raced', n, todo'[d], res'[d])
      /\ \A t \in {"put", "copy"}, l \in Keys : Has(todo'[c], t, l) <=> Has(tasks \o Tail(q), t, l)
      /\ Halfway(todo'[c], n) <=> Halfway(tasks, n)
      /\ \A d \in Clients \ {c} : todo'[d] = todo[d]
  BY ServingOn, CallTurns DEF Serving
<1>2. q \in Seq(Tasks(N)) /\ q # <<>> /\ Top(c) = q[1] /\ TypeInv /\ DOMAIN files = 1..N
  BY TopTyped DEF Serving, Going, MemInv, TypeInv, Busy
<1>3. ASSUME NEW t \in {"put", "copy"}, NEW l \in Keys, l.n = n
      PROVE  Has(todo'[c], t, l) <=> Has(q, t, l)
  <2>1. Has(tasks \o Tail(q), t, l) <=> Has(q, t, l)
    <3>1. ~(q[1].t = t /\ q[1].k = l)
      BY <1>2, <1>3
    <3> HIDE DEF q
    <3>2. \A i \in DOMAIN tasks : ~(tasks[i].t = t /\ tasks[i].k = l)
      BY <1>3
    <3> QED
      BY <1>2, <3>1, <3>2, SpliceHas
  <2> QED
    BY <1>1, <2>1
<1>4. \A d \in Clients, l \in Keys : l.n = n => (FillsNow(todo'[d], l) <=> FillsNow(todo[d], l))
  BY <1>1, <1>3 DEF FillsNow
<1>5. ~Halfway(tasks, n)
  BY DEF Halfway, Copies
<1>6. ~Halfway(q, n)
  <2>1. Halfway(q, n) => Copies(q[1], n)
    BY <1>2, ServingOn, HalfwayAtHead
  <2> QED
    BY <1>2, <2>1 DEF Copies
<1>7. \A d \in Clients : Halfway(todo'[d], n) <=> Halfway(todo[d], n)
  BY <1>1, <1>5, <1>6
<1> QED
  BY <1>1, <1>4, <1>7, StayServes

\* Maps, names and bytes stay.
SameBytes ==
  /\ fos' = fos /\ raced' = raced /\ DOMAIN files' = DOMAIN files
  /\ \A i \in DOMAIN files : Keeps(i)

\* An object that is set back keeps its bytes.
LEMMA SetBackSame ==
  ASSUME TypeInv, NEW x \in DOMAIN files, NEW b \in BOOLEAN, UNCHANGED <<fos, raced>>,
         files' = SetBack(x, b)
  PROVE  SameBytes
<1>1. PICK g \in File(Len(files)) :
        /\ g.at = 0 /\ g.name = files[x].name /\ g.data = files[x].data
        /\ (g.torn <=> files[x].torn \/ (files[x].at > 0 /\ Copying(x)))
        /\ SetBack(x, b) = [files EXCEPT ![x] = g]
  BY FileTyped
<1>2. files' = [files EXCEPT ![x] = g] /\ files[x].at \in Nat
  BY <1>1, FileTyped DEF File
<1>3. ASSUME NEW i \in DOMAIN files PROVE Keeps(i)
  <2>1. CASE i = x
    BY <1>1, <1>2, <2>1 DEF Keeps
  <2>2. CASE i # x
    BY <1>2, <2>2 DEF Keeps
  <2> QED
    BY <2>1, <2>2
<1> QED
  BY <1>2, <1>3 DEF SameBytes

LEMMA SameServes ==
  ASSUME NEW n \in Nodes, Serving(n), NEW c \in Clients, Busy(c),
         NEW r \in Results(Len(files)), NEW tasks \in Seq(Tasks(Len(files))),
         Gives(c, r, tasks), SameBytes, Turns(c, n, r, tasks),
         \A i \in DOMAIN tasks : tasks[i].t \in {"put", "copy"} => tasks[i].k.n # n,
         Top(c).t \notin {"put", "copy"}
  PROVE  Served(n)'
<1>1. Grows(c) /\ SameAt(n)
  BY DEF Grows, SameAt, SameBytes, Keeps
<1> QED
  BY <1>1, PlainServes

\* A call that returns nothing new, and leaves nothing to do.
LEMMA ReturnServes ==
  ASSUME NEW n \in Nodes, Serving(n), NEW c \in Clients, Busy(c), Gives(c, res[c], <<>>),
         SameBytes, Top(c).t \notin {"put", "copy", "created", "open"}
  PROVE  Served(n)'
<1> DEFINE y == todo[c][2]
           r == res[c]
<1>1. r \in Results(Len(files)) /\ (IsFile(r) => r \in DOMAIN files) /\ Top(c) = todo[c][1]
  BY TopTyped DEF Serving, Going, MemInv
<1>2. /\ InOrder(fos, files, raced, n, todo[c], r, 1)
      /\ 2 \in DOMAIN todo[c] => y.t \notin {"write", "copy"} /\ (y.t \in Using /\ y.k.n = n =>
                                   Top(c).t \in Giving /\ Top(c).k.n = n)
  BY ServingOn
<1>3. Top(c).t \in Using /\ Top(c).k.n = n /\ IsFile(r) => files'[r].name.n = n
  BY <1>1, <1>2 DEF InOrder, SameBytes, Keeps
<1> HIDE DEF y, r
<1>4. 2 \in DOMAIN todo[c] => Continues(fos', files', raced', n, <<>>, r, y)
  BY <1>2, <1>3 DEF Continues, Giving, Using
<1>5. << >> \in Seq(Tasks(Len(files))) /\ Turns(c, n, r, <<>>)
  BY <1>4 DEF Turns, InTurn, y
<1>6. Gives(c, r, <<>>) /\ DOMAIN << >> = {}
  BY DEF r
<1>7. \A i \in DOMAIN << >> : << >>[i].t \in {"put", "copy"} => << >>[i].k.n # n
  BY <1>6
<1> QED
  BY <1>1, <1>5, <1>6, <1>7, SameServes

LEMMA QuietServes ==
  ASSUME NEW n \in Nodes, Serving(n), NEW c \in Clients,
         Fetch(c) \/ Pass(c) \/ Touch(c) \/ List(c) \/ CloseFile(c) \/ Reopen(c)
  PROVE  Served(n)'
<1>1. /\ Busy(c) /\ Top(c).t \in {"fetch", "pass", "touch", "list", "close", "reopen"}
      /\ Going /\ TypeInv
  BY DEF Fetch, Pass, Touch, List, CloseFile, Reopen, At, Top, Serving, Going, MemInv
<1>2. IsFile(res[c]) => res[c] \in DOMAIN files
  BY <1>1, TopTyped
<1>3. SameBytes
  <2>1. CASE UNCHANGED <<fos, files, raced>>
    BY <2>1 DEF SameBytes, Keeps
  <2>2. CASE CloseFile(c)
    <3>1. CASE IsFile(res[c])
      <4>1. files' = SetBack(res[c], TRUE) /\ UNCHANGED <<fos, raced>>
        BY <2>2, <3>1 DEF CloseFile
      <4> QED
        BY <1>1, <1>2, <3>1, <4>1, SetBackSame
    <3> QED
      BY <2>1, <2>2, <3>1 DEF CloseFile
  <2>3. CASE Reopen(c)
    <3>1. CASE IsFile(res[c])
      <4>1. files' = SetBack(res[c], FALSE) /\ UNCHANGED <<fos, raced>>
        BY <2>3, <3>1 DEF Reopen
      <4> QED
        BY <1>1, <1>2, <3>1, <4>1, SetBackSame
    <3> QED
      BY <2>1, <2>3, <3>1 DEF Reopen
  <2> QED
    BY <2>1, <2>2, <2>3 DEF Fetch, Pass, Touch, List
<1>4. Gives(c, res[c], <<>>)
  <2>1. CASE List(c)
    BY <1>1, <2>1, ListReturns
  <2> QED
    BY <2>1 DEF Fetch, Pass, Touch, CloseFile, Reopen, Then
<1> QED
  BY <1>1, <1>3, <1>4, ReturnServes

\* Some calls return nothing that the rest of the list uses.
LEMMA NotUsed ==
  ASSUME NEW n \in Nodes, Serving(n), NEW c \in Clients, Busy(c), Top(c).t \notin Giving,
         2 \in DOMAIN todo[c], NEW tasks, NEW r
  PROVE  Continues(fos', files', raced', n, tasks, r, todo[c][2])
<1>1. LET y == todo[c][2] IN
      /\ y.t \in {"write", "copy"} => Top(c).t = "created"
      /\ y.t \in Using /\ y.k.n = n => Top(c).t \in Giving
  BY ServingOn
<1> QED
  BY <1>1 DEF Continues, Giving

LEMMA ChmodServes ==
  ASSUME NEW n \in Nodes, Serving(n), NEW c \in Clients, Chmod(c)
  PROVE  Served(n)'
<1> DEFINE x == Task("touch", Top(c).k)
           r == res[c]
<1>1. Busy(c) /\ Top(c).t = "chmod" /\ TypeInv
  BY DEF Chmod, At, Top, Serving, Going, MemInv
<1>2. r \in Results(Len(files)) /\ Len(files) \in Nat /\ Top(c).k \in Keys
  BY <1>1, TopTyped
<1>3. SameBytes
  BY DEF Chmod, SameBytes, Keeps
<1>4. Gives(c, res[c], <<x>>) \/ Gives(c, res[c], <<>>)
  BY DEF Chmod, Then
<1>5. x \in Tasks(Len(files)) /\ x.t = "touch" /\ x.k = Top(c).k
  BY <1>2, TaskTyped DEF Tags, Locking
<1>6. CASE Gives(c, res[c], <<>>)
  BY <1>1, <1>3, <1>6, ReturnServes
<1>7. CASE Gives(c, r, <<x>>)
  <2> HIDE DEF x, r
  <2>1. <<x>> \in Seq(Tasks(Len(files))) /\ DOMAIN <<x>> = {1} /\ <<x>>[1] = x
    BY <1>5
  <2>2. InTurn(fos', files', raced', n, <<x>>, r)
    BY <1>5, <2>1 DEF InTurn, InOrder, Makers, Suppliers, Registering, Copies, Using
  <2>3. 2 \in DOMAIN todo[c] => Continues(fos', files', raced', n, <<x>>, r, todo[c][2])
    BY <1>1, NotUsed DEF Giving
  <2>4. Turns(c, n, r, <<x>>)
    BY <1>5, <2>1, <2>2, <2>3 DEF Turns, Copies
  <2>5. \A i \in DOMAIN <<x>> : <<x>>[i].t \in {"put", "copy"} => <<x>>[i].k.n # n
    BY <1>5, <2>1
  <2> QED
    BY <1>1, <1>2, <1>3, <1>7, <2>1, <2>4, <2>5, SameServes
<1> QED
  BY <1>4, <1>6, <1>7 DEF r

LEMMA MkdirServes ==
  ASSUME NEW n \in Nodes, Serving(n), NEW c \in Clients, Mkdir(c)
  PROVE  Served(n)'
<1> DEFINE k == Top(c).k
           x == Task("putdir", k)
           y == Task("register", k)
           r == res[c]
<1>1. Busy(c) /\ Top(c).t = "mkdir" /\ TypeInv
  BY DEF Mkdir, At, Top, Serving, Going, MemInv
<1>2. r \in Results(Len(files)) /\ Len(files) \in Nat /\ k \in Keys /\ Top(c) = todo[c][1]
  BY <1>1, TopTyped
<1>3. SameBytes
  BY DEF Mkdir, SameBytes, Keeps
<1>4. Gives(c, r, <<x, y>>) \/ Gives(c, r, <<>>)
  BY DEF Mkdir, Then
<1>5. ~Below(k.n, n) /\ k.n # n
  <2>1. InOrder(fos, files, raced, n, todo[c], res[c], 1)
    BY <1>1, ServingOn
  <2> QED
    BY <1>1, <1>2, <2>1 DEF InOrder, Makers, Suppliers
<1>6. /\ x \in Tasks(Len(files)) /\ x.t = "putdir" /\ x.k = k
      /\ y \in Tasks(Len(files)) /\ y.t = "register" /\ y.k = k
  BY <1>2, TaskTyped DEF Tags, Locking
<1>7. CASE Gives(c, r, <<>>)
  BY <1>1, <1>3, <1>7, ReturnServes
<1>8. CASE Gives(c, r, <<x, y>>)
  <2> DEFINE tasks == <<x, y>>
  <2> HIDE DEF x, y, r
  <2>1. /\ tasks \in Seq(Tasks(Len(files))) /\ DOMAIN tasks = {1, 2}
        /\ tasks[1] = x /\ tasks[2] = y
    BY <1>6
  <2> HIDE DEF tasks, k
  <2>2. \A i \in DOMAIN tasks : tasks[i].t \in {"putdir", "register"} /\ tasks[i].k = k
    BY <1>6, <2>1
  <2>3. InTurn(fos', files', raced', n, tasks, r)
    BY <1>5, <2>2 DEF InTurn, InOrder, Copies, Using
  <2>4. 2 \in DOMAIN todo[c] => Continues(fos', files', raced', n, tasks, r, todo[c][2])
    BY <1>1, NotUsed DEF Giving
  <2>5. Turns(c, n, r, tasks)
    BY <1>5, <2>2, <2>3, <2>4 DEF Turns, Copies, Within
  <2>6. \A i \in DOMAIN tasks : tasks[i].t \in {"put", "copy"} => tasks[i].k.n # n
    BY <2>2
  <2>7. Gives(c, r, tasks)
    BY <1>8 DEF tasks
  <2> QED
    BY <1>1, <1>2, <1>3, <2>1, <2>5, <2>6, <2>7, SameServes
<1> QED
  BY <1>4, <1>7, <1>8

\* The result of a call with nothing left to do.
LEMMA AnswerServes ==
  ASSUME NEW n \in Nodes, Serving(n), NEW c \in Clients, Busy(c), Top(c).t \notin {"put", "copy"},
         NEW r \in Results(Len(files)), Gives(c, r, <<>>), SameBytes,
         2 \in DOMAIN todo[c] => Continues(fos', files', raced', n, <<>>, r, todo[c][2])
  PROVE  Served(n)'
<1>1. << >> \in Seq(Tasks(Len(files))) /\ DOMAIN << >> = {}
  OBVIOUS
<1>2. \A i \in DOMAIN << >> : << >>[i].t \in {"put", "copy"} => << >>[i].k.n # n
  BY <1>1
<1>3. Turns(c, n, r, <<>>)
  BY <1>1 DEF Turns, InTurn
<1> QED
  BY <1>1, <1>2, <1>3, SameServes

LEMMA CreatedServes ==
  ASSUME NEW n \in Nodes, Serving(n), NEW c \in Clients, Created(c) \/ ShadowDir(c)
  PROVE  Served(n)'
<1>1. Busy(c) /\ Top(c).t \in {"created", "shadowdir"} /\ MemInv /\ TypeInv /\ Going
  BY DEF Created, ShadowDir, At, Top, Serving, Going, MemInv
<1>2. Len(files) \in Nat /\ DOMAIN files = 1..Len(files) /\ Top(c).k \in Keys
      /\ SplitDir(Top(c).k) \in Keys
  BY <1>1, TopTyped, KeysHave
<1>3. SameBytes
  BY DEF Created, ShadowDir, SameBytes, Keeps
<1>4. CASE Created(c)
  <2> DEFINE k == Top(c).k
             r == IF fos[k] = Absent THEN Nil ELSE fos[k]
             y == todo[c][2]
  <2>0. Gives(c, r, <<>>) /\ Top(c).t = "created"
    BY <1>4 DEF Created, At, Top
  <2>1. r = fos[k] /\ IsFile(r)
    BY <1>1, <1>2, <2>0, TopSound, GoingOn DEF Going
  <2>2. r \in Results(Len(files)) /\ r \in DOMAIN files /\ files[r].name = k
    BY <1>1, <1>2, <2>1, GoingOn DEF Results
  <2> HIDE DEF r
  <2>3. files'[r].name = k /\ r = fos'[k]
    BY <1>3, <2>1, <2>2 DEF SameBytes, Keeps
  <2>4. 2 \in DOMAIN todo[c] =>
          (y.t \in {"write", "copy"} => k = y.k) /\ (y.t \in Using /\ y.k.n = n => k.n = n)
    BY <1>1, ServingOn
  <2>5. 2 \in DOMAIN todo[c] => Continues(fos', files', raced', n, <<>>, r, y)
    BY <2>3, <2>4 DEF Continues
  <2> QED
    BY <1>1, <1>3, <2>0, <2>2, <2>5, AnswerServes
<1>5. CASE ShadowDir(c)
  <2> DEFINE k == Top(c).k
             z == fos[IF k.f = "dir" THEN k ELSE SplitDir(k)]
             r == IF IsFile(z) THEN z ELSE Failed
  <2>1. z \in {Absent, Nil} \cup 1..Len(files)
    BY <1>1, <1>2 DEF TypeInv, Objects
  <2>2. r \in Results(Len(files))
    BY <2>1 DEF Results, IsFile, Nil, Absent
  <2>3. Gives(c, r, <<>>) /\ Top(c).t = "shadowdir"
    BY <1>5 DEF ShadowDir, At, Top
  <2> HIDE DEF r
  <2>4. 2 \in DOMAIN todo[c] => Continues(fos', files', raced', n, <<>>, r, todo[c][2])
    BY <1>1, <2>3, NotUsed DEF Giving
  <2> QED
    BY <1>1, <1>3, <2>2, <2>3, <2>4, AnswerServes
<1> QED
  BY <1>4, <1>5

\* Only the map of a directory object changes.
LEMMA EnterSame ==
  ASSUME TypeInv, NEW x \in DOMAIN files, NEW m, UNCHANGED <<fos, raced>>,
         files' = [files EXCEPT ![x].memDir = m]
  PROVE  SameBytes
<1>1. files[x] \in File(Len(files))
  BY FileTyped
<1> DEFINE z == [files[x] EXCEPT !.memDir = m]
<1>2. z.name = files[x].name /\ z.data = files[x].data /\ z.at = files[x].at
      /\ z.torn = files[x].torn
  BY <1>1 DEF File
<1>3. files' = [files EXCEPT ![x] = z]
  OBVIOUS
<1> HIDE DEF z
<1>4. DOMAIN files' = DOMAIN files
  BY <1>3
<1>5. ASSUME NEW i \in DOMAIN files
      PROVE  Keeps(i)
  <2>1. files'[i] = IF i = x THEN z ELSE files[i]
    BY <1>3
  <2> QED
    BY <1>2, <2>1 DEF Keeps
<1>6. fos' = fos /\ raced' = raced
  OBVIOUS
<1> QED
  BY <1>4, <1>5, <1>6 DEF SameBytes

LEMMA EnterServes ==
  ASSUME NEW n \in Nodes, Serving(n), NEW c \in Clients, Enter(c)
  PROVE  Served(n)'
<1> DEFINE k == Top(c).k
           x == Top(c).obj
           l == files[x].name
           up == Task("register", l)
           tasks == IF l = RootDir THEN <<>> ELSE <<up>>
           r == res[c]
           N == Len(files)
<1>1. /\ Busy(c) /\ Top(c).t = "enter" /\ TypeInv /\ Going
      /\ Gives(c, r, tasks) /\ UNCHANGED <<fos, raced>>
  BY DEF Enter, At, Top, Then, Serving, Going, MemInv
<1>2. /\ r \in Results(N) /\ k \in Keys /\ x \in DOMAIN files
      /\ N \in Nat /\ Top(c) = todo[c][1]
  <2>1. /\ x \in 0..N /\ x # 0 /\ N \in Nat /\ DOMAIN files = 1..N
        /\ r \in Results(N) /\ k \in Keys /\ Top(c) = todo[c][1]
    BY <1>1, TopTyped
  <2> QED
    BY <2>1
<1>3. l \in Keys
  <2>1. files[x] \in File(N)
    BY <1>1, <1>2, FileTyped
  <2> QED
    BY <2>1 DEF File
<1>4. l.n = ParentOf[k.n]
  <2>1. InForm(fos, files, raced, todo[c], res[c], 1)
    BY <1>1, GoingOn
  <2>2. l \in {SplitDir(k), Other(SplitDir(k))}
    BY <1>1, <1>2, <2>1 DEF InForm, ParentKeys
  <2> QED
    BY <2>2 DEF SplitDir, Other, Filify, Directorify, Key
<1>5. ~Within(l.n, n)
  <2>1. InOrder(fos, files, raced, n, todo[c], res[c], 1) /\ n # Root
    BY <1>1, ServingOn
  <2>2. ~Below(k.n, n) /\ k.n \in Nodes
    BY <1>1, <1>2, <2>1, KeysHave DEF InOrder, Makers, Registering
  <2> QED
    BY <1>4, <2>1, <2>2, ParentsOutside
<1>6. SameBytes
  <2>1. PICK m : files' = [files EXCEPT ![x].memDir = m]
    BY DEF Enter
  <2> HIDE DEF x
  <2> QED
    BY <1>1, <1>2, <2>1, EnterSame
<1> HIDE DEF l, r
<1>7. up \in Tasks(N) /\ up.t = "register" /\ up.k = l
  BY <1>2, <1>3, TaskTyped DEF Tags
<1> HIDE DEF up
<1>8. /\ tasks \in Seq(Tasks(N))
      /\ \A i \in DOMAIN tasks : tasks[i].t = "register" /\ tasks[i].k = l
  BY <1>7
<1> HIDE DEF tasks
<1>9. InTurn(fos', files', raced', n, tasks, r)
  BY <1>5, <1>8 DEF InTurn, InOrder, Copies, Using, Within
<1>10. 2 \in DOMAIN todo[c] => Continues(fos', files', raced', n, tasks, r, todo[c][2])
  BY <1>1, NotUsed DEF Giving
<1>11. Turns(c, n, r, tasks)
  BY <1>5, <1>8, <1>9, <1>10 DEF Turns, Copies
<1>12. \A i \in DOMAIN tasks : tasks[i].t \in {"put", "copy"} => tasks[i].k.n # n
  BY <1>8
<1> QED
  BY <1>1, <1>2, <1>6, <1>8, <1>11, <1>12, SameServes

LEMMA ShadowFileTurn ==
  ASSUME NEW k \in Keys, NEW n \in Nodes, n # Root, ~Below(k.n, n),
         NEW f, NEW fs, NEW R, NEW r
  PROVE  /\ InTurn(f, fs, R, n, ShadowFile(k), r)
         /\ ~Within(k.n, n) =>
              \A i \in DOMAIN ShadowFile(k) : ~Within(ShadowFile(k)[i].k.n, n)
<1> DEFINE s == ShadowFile(k)
<1>1. /\ DOMAIN s = 1..5 /\ Len(s) = 5
      /\ s[1].t = "mkdir" /\ s[2].t = "put" /\ s[3].t = "register" /\ s[4].t = "created"
      /\ s[5].t = "copy" /\ s[1].k = SplitDir(k) /\ s[5].data = <<k.n, k.n>>
      /\ \A i \in 2..5 : s[i].k = k
  BY ShadowFileSteps
<1>2. k.n \in Nodes /\ SplitDir(k).n = ParentOf[k.n]
  BY KeysHave DEF SplitDir, Key
<1>3. ~Within(SplitDir(k).n, n)
  BY <1>2, ParentsOutside
<1> HIDE DEF s
<1>4. /\ ~Below(s[1].k.n, n) /\ s[1].k.n # n /\ ~Within(s[1].k.n, n)
      /\ \A i \in 1..5 : ~Below(s[i].k.n, n)
  <2>1. \A i \in 1..5 : i = 1 \/ i \in 2..5
    OBVIOUS
  <2> QED
    BY <1>1, <1>3, <2>1 DEF Within
<1>5. \A i \in 1..5 : Copies(s[i], n) => i = 5
  <2>1. \A i \in 1..5 : i = 1 \/ i = 2 \/ i = 3 \/ i = 4 \/ i = 5
    OBVIOUS
  <2> QED
    BY <1>1, <2>1 DEF Copies
<1>6. ASSUME NEW i \in 1..5 PROVE InOrder(f, fs, R, n, s, r, i)
  <2>1. CASE i \in {1, 3, 4}
    BY <1>1, <1>4, <2>1 DEF InOrder, Copies, Using
  <2>2. CASE i = 2
    <3>1. \A j \in 1..(2 - 1) : j = 1
      OBVIOUS
    <3>2. 2 + 3 = 5 /\ 5 \in 2..5 /\ 2 \in 2..5
      OBVIOUS
    <3> QED
      BY <1>1, <1>4, <2>2, <3>1, <3>2 DEF InOrder, Copies, Using
  <2>3. CASE i = 5
    <3>1. 5 - 1 = 4 /\ 4 \in 2..5 /\ 5 \in 2..5 /\ 5 # 1
      OBVIOUS
    <3>2. Copies(s[5], n) => s[5].data = <<n, n>>
      BY <1>1, <3>1 DEF Copies
    <3> QED
      BY <1>1, <1>4, <1>5, <2>3, <3>1, <3>2 DEF InOrder, Using, Giving, Makers, Suppliers, Registering
  <2> QED
    BY <2>1, <2>2, <2>3
<1>7. InTurn(f, fs, R, n, s, r)
  BY <1>1, <1>6 DEF InTurn
<1>8. ~Within(k.n, n) => \A i \in 1..5 : ~Within(s[i].k.n, n)
  <2>1. \A i \in 1..5 : i = 1 \/ i \in 2..5
    OBVIOUS
  <2> QED
    BY <1>1, <1>4, <2>1
<1> QED
  BY <1>1, <1>7, <1>8 DEF s

\* A path has two keys.
LEMMA SameNode ==
  ASSUME NEW k \in Keys
  PROVE  /\ Other(k).n = k.n /\ Directorify(k).n = k.n
         /\ \A l \in Keys : l.n = k.n => l \in {k, Other(k)}
<1>1. ASSUME NEW l \in Keys
      PROVE  /\ l.f \in {"dir", "file"} /\ l = Key(l.n, l.f)
             /\ l.n = Root => l.f = "dir"
  <2>1. CASE l \in [n : Nodes \ {Root}, f : {"dir", "file"}]
    BY <2>1 DEF Key
  <2>2. CASE l = Key(Root, "dir")
    BY <2>2 DEF Key
  <2> QED
    BY <2>1, <2>2 DEF Keys
<1>2. /\ k.f \in {"dir", "file"} /\ k = Key(k.n, k.f)
      /\ k.n = Root => k.f = "dir"
  BY <1>1
<1>3. Other(k).n = k.n /\ Directorify(k).n = k.n
  BY DEF Other, Filify, Directorify, Key
<1>4. ASSUME NEW l \in Keys, l.n = k.n PROVE l \in {k, Other(k)}
  BY <1>1, <1>2, <1>4 DEF Other, Filify, Directorify
<1> QED
  BY <1>3, <1>4

\* As long as a path is not there, nobody comes to copy it after opening it.
LEMMA NoCopyAfter ==
  ASSUME NEW n \in Nodes, Serving(n), NEW c \in Clients, Busy(c), Top(c).t = "open",
         Top(c).k.n = n, \A l \in Keys : l.n = n => fos[l] = Absent
  PROVE  \A j \in DOMAIN todo[c] : ~Copies(todo[c][j], n)
<1> DEFINE q == todo[c]
           N == Len(files)
<1>1. q \in Seq(Tasks(N)) /\ Top(c) = q[1] /\ Sound(fos, q, res[c])
  BY TopTyped DEF Serving, Going, MemInv, SoundInv, TypeInv
<1>2. /\ \A i \in DOMAIN q : InOrder(fos, files, raced, n, q, res[c], i)
      /\ q[1].t = "open" /\ q[1].k.n = n
  BY <1>1, ServingOn DEF InTurn
<1> HIDE DEF q
<1>3. DOMAIN q = 1..Len(q) /\ Len(q) \in Nat /\ \A i \in DOMAIN q : q[i].k \in Keys
  BY <1>1, LenProperties, ElementOfSeq DEF Tasks
<1>4. SUFFICES ASSUME NEW j \in DOMAIN q, Copies(q[j], n) PROVE FALSE
  BY DEF q
<1>5. j # 1 /\ j - 1 \in DOMAIN q /\ q[j - 1].t = "created" /\ q[j - 1].k.n = n
  <2>1. j # 1
    BY <1>2, <1>4 DEF Copies
  <2>2. q[j - 1].t = "created" /\ q[j - 1].k = q[j].k
    BY <1>2, <1>4, <2>1 DEF InOrder, Copies
  <2> QED
    BY <1>3, <1>4, <2>1, <2>2 DEF Copies
<1>6. Supplied(fos, q, j - 1) /\ fos[q[j - 1].k] = Absent
  BY <1>1, <1>3, <1>5 DEF Sound
<1>7. PICK x \in 1..((j - 1) - 1) : q[x].t \in Suppliers /\ q[x].k.n = n
  BY <1>5, <1>6 DEF Supplied
<1>8. (x \in DOMAIN q /\ 1 \in 1..(x - 1)) \/ x = 1
  BY <1>3, <1>5, <1>7
<1>9. x # 1 /\ x \in DOMAIN q
  BY <1>2, <1>3, <1>5, <1>7 DEF Suppliers
<1>10. q[x].t = "put"
  BY <1>2, <1>7, <1>9 DEF InOrder, Suppliers
<1>11. ~Within(q[1].k.n, n)
  BY <1>2, <1>7, <1>8, <1>9, <1>10 DEF InOrder
<1> QED
  BY <1>2, <1>11 DEF Within

LEMMA OpenServes ==
  ASSUME NEW n \in Nodes, Serving(n), NEW c \in Clients, Open(c)
  PROVE  Served(n)'
<1> DEFINE k == Top(c).k
           hit == Hit(k)
           N == Len(files)
           y == todo[c][2]
<1>1. Busy(c) /\ Top(c).t = "open" /\ TypeInv /\ Going
  BY DEF Open, At, Top, Serving, Going, MemInv
<1>2. /\ N \in Nat /\ DOMAIN files = 1..N /\ k \in Keys /\ Other(k) \in Keys /\ res[c] \in Results(N)
      /\ Directorify(k) \in Keys /\ k.n \in Nodes /\ Top(c) = todo[c][1]
  BY <1>1, TopTyped, KeysHave
<1>3. /\ \A l \in Keys : IsFile(fos[l]) => fos[l] \in DOMAIN files /\ files[fos[l]].name = l
      /\ \A l \in Keys : fos[l] # Absent => IsFile(fos[l])
  BY <1>1, GoingOn
<1>4. Other(k).n = k.n /\ Directorify(k).n = k.n /\ \A l \in Keys : l.n = k.n => l \in {k, Other(k)}
  BY <1>2, SameNode
<1>5. /\ hit # Absent => IsFile(hit) /\ hit \in DOMAIN files /\ files[hit].name.n = k.n
      /\ hit = Absent => \A l \in Keys : l.n = k.n => fos[l] = Absent
  BY <1>2, <1>3, <1>4 DEF Hit
<1>6. hit # Nil /\ (hit = Absent => ~IsFile(hit))
  BY <1>5 DEF IsFile, Nil, Absent
<1>7. /\ n # Root /\ InOrder(fos, files, raced, n, todo[c], res[c], 1)
      /\ \A m \in Nodes : m \in DOMAIN Shadow => ~Below(m, n)
      /\ 2 \in DOMAIN todo[c] => y.t \notin {"write", "copy"} /\ (y.t \in Using /\ y.k.n = n => k.n = n)
  BY <1>1, ServingOn
<1> HIDE DEF y
<1>8. CASE hit # Absent
  <2>1. files' = SetBack(hit, FALSE) /\ Gives(c, hit, <<>>) /\ UNCHANGED <<fos, raced>>
    BY <1>5, <1>6, <1>8 DEF Open
  <2>2. SameBytes
    BY <1>1, <1>5, <1>8, <2>1, SetBackSame
  <2>3. hit \in Results(N) /\ files'[hit].name.n = k.n
    BY <1>2, <1>5, <1>8, <2>2 DEF Results, SameBytes, Keeps
  <2> HIDE DEF k, hit
  <2>4. 2 \in DOMAIN todo[c] => Continues(fos', files', raced', n, <<>>, hit, y)
    BY <1>7, <2>3 DEF Continues
  <2> QED
    BY <1>1, <2>1, <2>2, <2>3, <2>4, AnswerServes DEF y
<1>9. CASE hit = Absent
  <2>1. UNCHANGED <<fos, raced, files>>
    BY <1>6, <1>9 DEF Open
  <2>2. SameBytes
    BY <2>1 DEF SameBytes, Keeps
  <2>3. \/ k.n \in DOMAIN Shadow /\ Shadow[k.n] = "dir"
           /\ Gives(c, res[c], <<Task("mkdir", Directorify(k)), Task("shadowdir", k)>>)
        \/ k.n \in DOMAIN Shadow /\ Gives(c, res[c], ShadowFile(k))
        \/ Gives(c, Missing, <<>>)
    BY <1>6, <1>9 DEF Open, Then, ShadowFile
  <2>4. CASE Gives(c, Missing, <<>>)
    <3>1. Missing \in Results(N) /\ ~IsFile(Missing)
      BY DEF Results, Missing, IsFile
    <3>2. 2 \in DOMAIN todo[c] => Continues(fos', files', raced', n, <<>>, Missing, y)
      BY <1>7, <3>1 DEF Continues
    <3> QED
      BY <1>1, <2>2, <2>4, <3>1, <3>2, AnswerServes DEF y
  <2>5. CASE /\ k.n \in DOMAIN Shadow /\ Shadow[k.n] = "dir"
             /\ Gives(c, res[c], <<Task("mkdir", Directorify(k)), Task("shadowdir", k)>>)
    <3> DEFINE m == Task("mkdir", Directorify(k))
               d == Task("shadowdir", k)
               s == <<m, d>>
    <3>1. /\ m \in Tasks(N) /\ m.t = "mkdir" /\ m.k = Directorify(k)
          /\ d \in Tasks(N) /\ d.t = "shadowdir" /\ d.k = k
      <4> HIDE DEF k
      <4>1. "mkdir" \in Tags /\ "shadowdir" \in Tags
        BY DEF Tags
      <4>2. m \in Tasks(N) /\ m.t = "mkdir" /\ m.k = Directorify(k)
        BY <1>2, <4>1, TaskTyped
      <4>3. d \in Tasks(N) /\ d.t = "shadowdir" /\ d.k = k
        BY <1>2, <4>1, TaskTyped
      <4> QED
        BY <4>2, <4>3
    <3>2. Gives(c, res[c], s)
      BY <2>5
    <3>3. k.n # n /\ ~Below(k.n, n)
      BY <1>2, <1>7, <2>5 DEF Serving, Shadowed
    <3> HIDE DEF m, d
    <3>4. s \in Seq(Tasks(N)) /\ DOMAIN s = {1, 2} /\ s[1] = m /\ s[2] = d
      BY <3>1
    <3>5. \A i \in DOMAIN s : s[i].t \in {"mkdir", "shadowdir"} /\ s[i].k.n = k.n
      BY <1>4, <3>1, <3>4
    <3> HIDE DEF s, k
    <3>6. InTurn(fos', files', raced', n, s, res[c])
      BY <3>3, <3>5 DEF InTurn, InOrder, Copies, Using
    <3>7. 2 \in DOMAIN todo[c] => Continues(fos', files', raced', n, s, res[c], y)
      BY <1>7, <3>3 DEF Continues
    <3>8. Turns(c, n, res[c], s)
      BY <3>3, <3>5, <3>6, <3>7 DEF Turns, Copies, Within, y
    <3>9. \A i \in DOMAIN s : s[i].t \in {"put", "copy"} => s[i].k.n # n
      BY <3>5
    <3> QED
      BY <1>1, <1>2, <2>2, <3>2, <3>4, <3>8, <3>9, SameServes
  <2>6. CASE k.n \in DOMAIN Shadow /\ Gives(c, res[c], ShadowFile(k))
    <3> DEFINE s == ShadowFile(k)
    <3>1. /\ s \in Seq(Tasks(N)) /\ s # <<>> /\ Len(s) = 5 /\ DOMAIN s = 1..5
          /\ s[1].t = "mkdir" /\ s[2].t = "put" /\ s[3].t = "register" /\ s[4].t = "created"
          /\ s[5].t = "copy" /\ s[5].data = <<k.n, k.n>>
          /\ \A i \in 2..5 : s[i].k = k
      BY <1>2, ShadowFileSteps
    <3>2. ~Below(k.n, n)
      BY <1>2, <1>7, <2>6
    <3>3. /\ InTurn(fos', files', raced', n, s, res[c])
          /\ ~Within(k.n, n) => \A i \in DOMAIN s : ~Within(s[i].k.n, n)
      BY <1>2, <1>7, <3>2, ShadowFileTurn
    <3>4. Gives(c, res[c], s)
      BY <2>6
    <3> HIDE DEF s
    <3>5. /\ \A i \in DOMAIN s : /\ s[i].t # "fetch"
                                 /\ s[i].t \in {"put", "copy"} => s[i].k = k
          /\ s[5].k = k /\ \A i \in DOMAIN s : s[i].t = "copy" => s[i].data = <<k.n, k.n>>
      <4>1. \A i \in 1..5 : i = 1 \/ i = 2 \/ i = 3 \/ i = 4 \/ i = 5
        OBVIOUS
      <4> QED
        BY <3>1, <4>1
    <3>6. 2 \in DOMAIN todo[c] => Continues(fos', files', raced', n, s, res[c], y)
      BY <1>7, <3>1, <3>5 DEF Continues, Giving
    <3>7. k.n = n => \A j \in DOMAIN todo[c] : ~Copies(todo[c][j], n)
      BY <1>1, <1>5, <1>9, NoCopyAfter
    <3>8. Turns(c, n, res[c], s)
      <4>1. Len(todo[c]) \in Nat /\ DOMAIN todo[c] = 1..Len(todo[c])
        BY <1>1, LenProperties DEF TypeInv
      <4>2. (\E i \in DOMAIN s : Copies(s[i], n)) => \A j \in 2..Len(todo[c]) : ~Copies(todo[c][j], n)
        BY <3>5, <3>7, <4>1 DEF Copies
      <4> QED
        BY <3>3, <3>5, <3>6, <4>2 DEF Turns, y
    <3>9. CASE k.n # n
      <4>1. \A i \in DOMAIN s : s[i].t \in {"put", "copy"} => s[i].k.n # n
        BY <3>5, <3>9
      <4> QED
        BY <1>1, <1>2, <2>2, <3>1, <3>4, <3>8, <4>1, SameServes
    <3>10. CASE k.n = n
      <4> DEFINE q == todo[c]
      <4>1. Grows(c) /\ SameAt(n)
        BY <2>2 DEF Grows, SameAt, SameBytes, Keeps
      <4>2. /\ \A d \in Clients : InTurn(fos', files', raced', n, todo'[d], res'[d])
            /\ \A t \in {"put", "copy"}, l \in Keys : Has(todo'[c], t, l) <=> Has(s \o Tail(q), t, l)
            /\ Halfway(todo'[c], n) <=> Halfway(s, n)
            /\ \A d \in Clients \ {c} : todo'[d] = todo[d]
        BY <1>1, <1>2, <1>7, <3>1, <3>4, <3>8, <4>1, CallTurns DEF Serving
      <4>3. q \in Seq(Tasks(N)) /\ q # <<>> /\ q[1].t = "open" /\ \A j \in DOMAIN q : ~Copies(q[j], n)
        BY <1>1, <1>2, <3>7, <3>10 DEF TypeInv, Busy
      <4> HIDE DEF q
      <4>4. ASSUME NEW l \in Keys, l.n = n PROVE ~FillsNow(todo'[c], l) /\ ~FillsNow(q, l)
        <5>1. ~Has(q, "copy", l)
          BY <4>3, <4>4 DEF Has, Copies
        <5>2. CASE l = k
          <6>1. 2 \in DOMAIN s /\ s[2].t = "put" /\ s[2].k = l
            BY <3>1, <5>2
          <6>2. Has(s \o Tail(q), s[2].t, s[2].k)
            BY <3>1, <4>3, <6>1, SpliceHasNew
          <6>3. Has(s \o Tail(q), "put", l)
            BY <6>1, <6>2
          <6> QED
            BY <4>2, <5>1, <6>3 DEF FillsNow
        <5>3. CASE l # k
          <6>1. \A i \in DOMAIN s : ~(s[i].t = "copy" /\ s[i].k = l)
            BY <3>5, <5>3
          <6>2. ~Has(s \o Tail(q), "copy", l)
            BY <3>1, <4>3, <5>1, <6>1, SpliceHas
          <6> QED
            BY <4>2, <5>1, <6>2 DEF FillsNow
        <5> QED
          BY <5>2, <5>3
      <4>5. \A d \in Clients, l \in Keys : l.n = n => (FillsNow(todo'[d], l) <=> FillsNow(todo[d], l))
        BY <4>2, <4>4 DEF q
      <4>6. ~Halfway(s, n) /\ ~Halfway(q, n)
        BY <3>5, <3>10, <4>3 DEF Halfway, Copies
      <4>7. \A d \in Clients : Halfway(todo'[d], n) <=> Halfway(todo[d], n)
        BY <4>2, <4>6 DEF q
      <4> QED
        BY <1>1, <4>1, <4>2, <4>5, <4>7, StayServes
    <3> QED
      BY <3>9, <3>10
  <2> QED
    BY <2>3, <2>4, <2>5, <2>6
<1> QED
  BY <1>8, <1>9

LEMMA TailHas ==
  ASSUME NEW S, NEW q \in Seq(S), q # <<>>, NEW t, NEW l
  PROVE  Has(<< >> \o Tail(q), t, l) <=> \E j \in 2..Len(q) : q[j].t = t /\ q[j].k = l
<1> DEFINE e == << >>
           s == e \o Tail(q)
           m == Len(q)
<1>1. e \in Seq(S) /\ Len(e) = 0
  OBVIOUS
<1> HIDE DEF e
<1>2. /\ m \in Nat /\ m >= 1 /\ DOMAIN s = 1..(0 + m - 1)
      /\ \A i \in (0 + 1)..(0 + m - 1) : s[i] = q[i - 0 + 1]
  <2>1. /\ m \in Nat /\ m >= 1 /\ DOMAIN s = 1..(Len(e) + m - 1)
        /\ \A i \in (Len(e) + 1)..(Len(e) + m - 1) : s[i] = q[i - Len(e) + 1]
    BY <1>1, SpliceSeq
  <2> HIDE DEF s, m
  <2> QED
    BY <1>1, <2>1
<1> HIDE DEF s, m
<1>3. DOMAIN s = 1..(m - 1) /\ \A i \in 1..(m - 1) : s[i] = q[i + 1]
  <2>1. ASSUME NEW i \in 1..(m - 1) PROVE s[i] = q[i + 1]
    <3>1. i \in (0 + 1)..(0 + m - 1) /\ i - 0 + 1 = i + 1
      BY <1>2
    <3> QED
      BY <1>2, <3>1
  <2> QED
    BY <1>2, <2>1
<1>4. ASSUME NEW i \in DOMAIN s, s[i].t = t, s[i].k = l
      PROVE  \E j \in 2..m : q[j].t = t /\ q[j].k = l
  <2>1. i + 1 \in 2..m /\ q[i + 1] = s[i]
    BY <1>2, <1>3
  <2> QED
    BY <1>4, <2>1
<1>5. ASSUME NEW j \in 2..m, q[j].t = t, q[j].k = l PROVE Has(s, t, l)
  <2>1. j - 1 \in DOMAIN s /\ (j - 1) + 1 = j
    BY <1>2, <1>3
  <2>2. s[j - 1] = q[j]
    BY <1>3, <2>1
  <2> QED
    BY <1>5, <2>1, <2>2 DEF Has
<1>6. Has(s, t, l) <=> \E j \in 2..m : q[j].t = t /\ q[j].k = l
  BY <1>4, <1>5 DEF Has
<1> QED
  BY <1>6 DEF s, e, m

\* A list that puts the path n at once fills it next, and nothing else of it.
LEMMA PutTurn ==
  ASSUME NEW S, NEW q \in Seq(S), q # <<>>, NEW f, NEW fs, NEW R, NEW r, NEW n,
         InTurn(f, fs, R, n, q, r), q[1].t = "put", q[1].k.n = n
  PROVE  /\ FillsNow(<< >> \o Tail(q), q[1].k) /\ ~FillsNow(q, q[1].k)
         /\ \A l : l.n = n /\ l # q[1].k =>
              ~FillsNow(<< >> \o Tail(q), l) /\ ~FillsNow(q, l)
<1>1. DOMAIN q = 1..Len(q) /\ Len(q) \in Nat /\ Len(q) >= 1
  BY LenProperties, EmptySeq
<1>2. \A i \in DOMAIN q : InOrder(f, fs, R, n, q, r, i)
  BY DEF InTurn
<1> DEFINE k == q[1].k
<1>3. 4 \in DOMAIN q /\ q[4].t = "copy" /\ q[4].k = k
  BY <1>1, <1>2 DEF InOrder
<1>4. \A i \in DOMAIN q : Copies(q[i], n) => i = 4
  BY <1>2, <1>3 DEF InOrder, Copies
<1>5. ASSUME NEW j \in 2..Len(q) PROVE ~(q[j].t = "put" /\ q[j].k = k)
  <2>1. j \in DOMAIN q /\ 1 \in 1..(j - 1)
    BY <1>1
  <2>2. Within(q[1].k.n, n)
    BY DEF Within
  <2> QED
    BY <1>2, <2>1, <2>2 DEF InOrder
<1>6. Has(<< >> \o Tail(q), "copy", k) /\ ~Has(<< >> \o Tail(q), "put", k)
  <2>1. 4 \in 2..Len(q)
    BY <1>1, <1>3
  <2>2. Has(<< >> \o Tail(q), "copy", k)
    BY <1>3, <2>1, TailHas
  <2>3. ~Has(<< >> \o Tail(q), "put", k)
    BY <1>5, TailHas
  <2> QED
    BY <2>2, <2>3
<1>7. Has(q, "put", k)
  BY <1>1 DEF Has
<1>8. ASSUME NEW l, l.n = n, l # k
      PROVE  ~Has(<< >> \o Tail(q), "copy", l) /\ ~Has(q, "copy", l)
  <2>1. \A i \in DOMAIN q : ~(q[i].t = "copy" /\ q[i].k = l)
    BY <1>3, <1>4, <1>8 DEF Copies
  <2>2. ~Has(q, "copy", l)
    BY <2>1 DEF Has
  <2>3. \A j \in 2..Len(q) : ~(q[j].t = "copy" /\ q[j].k = l)
    BY <1>1, <2>1
  <2>4. ~Has(<< >> \o Tail(q), "copy", l)
    BY <2>3, TailHas
  <2> QED
    BY <2>2, <2>4
<1> HIDE DEF k
<1>9. /\ FillsNow(<< >> \o Tail(q), k) /\ ~FillsNow(q, k)
      /\ \A l : l.n = n /\ l # k => ~FillsNow(<< >> \o Tail(q), l) /\ ~FillsNow(q, l)
  BY <1>6, <1>7, <1>8 DEF FillsNow
<1> QED
  BY <1>9 DEF k

LEMMA PutServes ==
  ASSUME NEW n \in Nodes, Serving(n), NEW c \in Clients, Put(c)
  PROVE  Served(n)'
<1> DEFINE k == Top(c).k
           N == Len(files)
           q == todo[c]
           r == res[c]
<1>1. /\ Busy(c) /\ Top(c).t \in {"put", "putdir"} /\ Gives(c, r, <<>>)
      /\ k \in Keys /\ r \in Results(N) /\ N \in Nat /\ DOMAIN files = 1..N
      /\ DOMAIN files' = 1..(N + 1) /\ \A i \in 1..N : files'[i] = files[i]
      /\ files'[N + 1].name = k /\ files'[N + 1].data = <<>>
      /\ fos'[k] = N + 1 /\ \A l \in Keys \ {k} : fos'[l] = fos[l]
      /\ raced \subseteq raced'
      /\ fos[k] = Absent \/ k \in raced' \/ \A d \in Clients \ {c} : ~Busy(d)
  BY PutMakes DEF Serving
<1>2. Going /\ TypeInv /\ n # Root /\ Top(c) = q[1]
  BY <1>1, ServingOn, TopTyped DEF Serving, Going, MemInv
<1>3. /\ InTurn(fos, files, raced, n, q, r)
      /\ InOrder(fos, files, raced, n, q, r, 1)
  BY <1>1, ServingOn
<1> HIDE DEF k
<1>4. Grows(c)
  <2>1. \A i \in DOMAIN files : i \in DOMAIN files' /\ files'[i].name = files[i].name
    BY <1>1
  <2>2. \A l \in Keys : fos'[l] # fos[l] =>
          fos[l] = Absent \/ l \in raced' \/ \A d \in Clients \ {c} : ~Busy(d)
    BY <1>1
  <2> QED
    BY <1>1, <2>1, <2>2 DEF Grows
<1>5. Turns(c, n, r, <<>>)
  <2>1. 2 \in DOMAIN q => Continues(fos', files', raced', n, <<>>, r, q[2])
    BY <1>1, NotUsed DEF Giving
  <2> HIDE DEF r
  <2>2. DOMAIN << >> = {}
    OBVIOUS
  <2> QED
    BY <2>1, <2>2 DEF Turns, InTurn
<1>6. << >> \in Seq(Tasks(N)) /\ DOMAIN << >> = {}
  OBVIOUS
<1>7. CASE k.n # n
  <2>1. SameAt(n)
    <3>1. \A l \in Keys : l.n = n => fos'[l] = fos[l]
      BY <1>1, <1>7
    <3>2. ASSUME NEW x \in DOMAIN files', files'[x].name.n = n
          PROVE  x \in DOMAIN files /\ files'[x] = files[x]
      <4>1. x # N + 1
        BY <1>1, <1>7, <3>2
      <4> QED
        BY <1>1, <4>1
    <3> QED
      BY <3>1, <3>2 DEF SameAt, Keeps
  <2>2. \A i \in DOMAIN << >> : << >>[i].t \in {"put", "copy"} => << >>[i].k.n # n
    BY <1>6
  <2>3. Top(c).t \in {"put", "copy"} => Top(c).k.n # n
    BY <1>7 DEF k
  <2> QED
    BY <1>1, <1>4, <1>5, <1>6, <2>1, <2>2, <2>3, PlainServes
<1>8. CASE k.n = n
  <2>1. /\ \A d \in Clients : InTurn(fos', files', raced', n, todo'[d], res'[d])
        /\ \A t \in {"put", "copy"}, l \in Keys : Has(todo'[c], t, l) <=> Has(<< >> \o Tail(q), t, l)
        /\ Halfway(todo'[c], n) <=> Halfway(<<>>, n)
        /\ \A d \in Clients \ {c} : todo'[d] = todo[d]
    BY <1>1, <1>2, <1>4, <1>5, <1>6, CallTurns DEF Serving
  <2>2. q \in Seq(Tasks(N)) /\ q # <<>> /\ q[1].t = "put" /\ q[1].k = k
    BY <1>1, <1>2, <1>3, <1>8 DEF TypeInv, Busy, InOrder, k
  <2> HIDE DEF q
  <2>3. /\ FillsNow(<< >> \o Tail(q), k) /\ ~FillsNow(q, k)
        /\ \A l : l.n = n /\ l # k => ~FillsNow(<< >> \o Tail(q), l) /\ ~FillsNow(q, l)
    BY <1>3, <1>8, <2>2, PutTurn
  <2>4. /\ FillsNow(todo'[c], k)
        /\ \A l \in Keys : l.n = n => ~FillsNow(todo[c], l)
        /\ \A l \in Keys : l.n = n /\ l # k => ~FillsNow(todo'[c], l)
    BY <1>1, <2>1, <2>3 DEF FillsNow, q
  \* Nobody else was at it, or they are racing now.
  <2>5. k \notin raced' => \A d \in Clients \ {c} : ~FillsNow(todo[d], k)
    <3> SUFFICES ASSUME k \notin raced', NEW d \in Clients \ {c}, FillsNow(todo[d], k)
                 PROVE  FALSE
      OBVIOUS
    <3>1. Busy(d)
      BY DEF FillsNow, Has, Busy
    <3>2. k \notin raced
      BY <1>1
    <3>3. fos[k] # Absent
      BY <1>1, <1>8, <3>2 DEF Serving, Served, FillsAlone, IsFile, Absent
    <3> QED
      BY <1>1, <3>1, <3>3
  <2>6. \A x \in DOMAIN files : files[x].name \in Keys
    BY <1>2, FileTyped DEF File
  <2>7. ASSUME NEW x \in DOMAIN files, files[x].name.n = n, files[x].name \notin raced',
               files[x].data # <<n, n>>, ~files[x].torn
        PROVE  LET l == files[x].name IN
               l # k /\ x = fos[l] /\ \E d \in Clients \ {c} : FillsNow(todo[d], l)
    <3> DEFINE l == files[x].name
    <3>1. l \in Keys /\ l \notin raced
      BY <1>1, <2>6, <2>7
    <3>2. x = fos[l] /\ \E d \in Clients : FillsNow(todo[d], l)
      BY <2>7, <3>1 DEF Serving, Served, Whole
    <3>3. \E d \in Clients \ {c} : FillsNow(todo[d], l)
      BY <2>4, <2>7, <3>1, <3>2
    <3>4. l # k
      BY <2>5, <2>7, <3>3
    <3> QED
      BY <3>2, <3>3, <3>4
  <2>8. Whole(n)'
    <3> SUFFICES ASSUME NEW x \in DOMAIN files', files'[x].name.n = n,
                        files'[x].name \notin raced', files'[x].data # <<n, n>>,
                        ~files'[x].torn
                 PROVE  /\ x = fos'[files'[x].name]
                        /\ \E d \in Clients : FillsNow(todo'[d], files'[x].name)
      BY DEF Whole
    <3>1. CASE x = N + 1
      BY <1>1, <2>4, <3>1
    <3>2. CASE x # N + 1
      <4>1. x \in DOMAIN files /\ files'[x] = files[x]
        BY <1>1, <3>2
      <4> DEFINE l == files[x].name
      <4>2. l # k /\ x = fos[l] /\ \E d \in Clients \ {c} : FillsNow(todo[d], l)
        BY <2>7, <4>1
      <4>3. l \in Keys
        BY <2>6, <4>1
      <4> HIDE DEF l
      <4>4. x = fos'[l] /\ \E d \in Clients : FillsNow(todo'[d], l)
        BY <1>1, <2>1, <4>2, <4>3
      <4> QED
        BY <4>1, <4>4 DEF l
    <3> QED
      BY <3>1, <3>2
  <2>9. FillsAlone(n)'
    <3> SUFFICES ASSUME NEW d \in Clients, NEW l \in Keys, l.n = n, l \notin raced',
                        FillsNow(todo'[d], l)
                 PROVE  /\ IsFile(fos'[l]) /\ PartThere(fos[l], n, Halfway(todo[d], n))'
                        /\ \A e \in Clients \ {d} : ~FillsNow(todo'[e], l)
      BY DEF FillsAlone
    <3>1. CASE l = k
      <4>1. IsFile(fos'[k]) /\ files'[fos'[k]].data = <<>>
        BY <1>1 DEF IsFile
      <4>2. \A e \in Clients \ {c} : ~FillsNow(todo'[e], k)
        BY <2>1, <2>5, <3>1
      <4>3. d = c
        BY <3>1, <4>2
      <4>4. ~Halfway(todo'[d], n)
        <5>1. ~Halfway(<<>>, n)
          BY <1>6 DEF Halfway
        <5> QED
          BY <2>1, <4>3, <5>1
      <4>5. PartThere(fos[l], n, Halfway(todo[d], n))'
        BY <3>1, <4>1, <4>4 DEF PartThere
      <4> QED
        BY <3>1, <4>1, <4>2, <4>3, <4>5
    <3>2. CASE l # k
      <4>1. d # c /\ FillsNow(todo[d], l) /\ l \notin raced /\ fos'[l] = fos[l]
        BY <1>1, <2>1, <2>4, <3>2
      <4>2. /\ IsFile(fos[l]) /\ PartThere(fos[l], n, Halfway(todo[d], n))
            /\ \A e \in Clients \ {d} : ~FillsNow(todo[e], l)
        BY <4>1 DEF Serving, Served, FillsAlone
      <4>3. fos[l] \in DOMAIN files
        BY <1>1, <1>2, <4>2, GoingOn
      <4>4. files'[fos[l]] = files[fos[l]]
        BY <1>1, <4>3
      <4>5. \A e \in Clients \ {d} : ~FillsNow(todo'[e], l)
        BY <2>1, <2>4, <3>2, <4>2
      <4>6. PartThere(fos[l], n, Halfway(todo[d], n))'
        BY <2>1, <4>1, <4>2, <4>4 DEF PartThere
      <4> QED
        BY <4>1, <4>2, <4>5, <4>6
    <3> QED
      BY <3>1, <3>2
  <2> QED
    BY <2>1, <2>8, <2>9 DEF Served
<1> QED
  BY <1>7, <1>8

\* A write to an empty file, and one at the end of a file of one chunk.
LEMMA ChunkWritten ==
  ASSUME NEW s \in Seq(Bytes), NEW pos \in Nat, pos <= Len(s), NEW v \in Bytes
  PROVE  LET D == SubSeq(s, 1, pos) \o <<v>> \o SubSeq(s, pos + Len(<<v>>) + 1, Len(s)) IN
         /\ s = <<>> => D = <<v>> /\ pos + Len(<<v>>) = 1 /\ pos + Len(<<v>>) > Len(s)
         /\ \A u \in Bytes : s = <<u>> /\ pos = 1 => D = <<u, v>>
<1> DEFINE D == SubSeq(s, 1, pos) \o <<v>> \o SubSeq(s, pos + Len(<<v>>) + 1, Len(s))
<1>1. Len(<<v>>) = 1
  OBVIOUS
<1>2. CASE s = <<>>
  <2>1. Len(s) = 0 /\ pos = 0 /\ pos + Len(<<v>>) + 1 = 2
    BY <1>1, <1>2
  <2>2. SubSeq(s, 1, 0) = <<>> /\ SubSeq(s, 2, 0) = <<>>
    BY <1>2
  <2>3. << >> \o <<v>> \o << >> = <<v>>
    OBVIOUS
  <2>4. D = <<v>>
    BY <2>1, <2>2, <2>3
  <2>5. pos + Len(<<v>>) = 1 /\ pos + Len(<<v>>) > Len(s)
    BY <1>1, <2>1
  <2>6. \A u \in Bytes : s # <<u>>
    BY <1>2
  <2> QED
    BY <2>4, <2>5, <2>6
<1>3. CASE s # <<>>
  <2> SUFFICES ASSUME NEW u \in Bytes, s = <<u>>, pos = 1 PROVE D = <<u, v>>
    BY <1>3
  <2>1. Len(s) = 1 /\ pos + Len(<<v>>) + 1 = 3
    BY <1>1
  <2>2. SubSeq(s, 1, 1) = s
    BY <2>1, SubSeqFull
  <2>3. SubSeq(s, 3, 1) = <<>>
    BY SubSeqEmpty
  <2>4. s \o <<v>> = <<u, v>>
    <3> DEFINE d == s \o <<v>>
               w == <<u, v>>
    <3>1. d \in Seq(Bytes) /\ Len(d) = 2 /\ d[1] = u /\ d[2] = v
      <4>1. Append(s, v) = d
        BY AppendIsConcat
      <4>2. /\ Append(s, v) \in Seq(Bytes) /\ Len(Append(s, v)) = Len(s) + 1
            /\ \A i \in 1..Len(s) : Append(s, v)[i] = s[i]
            /\ Append(s, v)[Len(s) + 1] = v
        BY AppendProperties
      <4>3. s[1] = u /\ 1 \in 1..Len(s) /\ Len(s) + 1 = 2
        BY <2>1
      <4> QED
        BY <4>1, <4>2, <4>3
    <3>2. w \in Seq(Bytes) /\ Len(w) = 2 /\ w[1] = u /\ w[2] = v
      OBVIOUS
    <3> HIDE DEF d, w
    <3>3. \A i \in 1..Len(d) : d[i] = w[i]
      <4>1. \A i \in 1..2 : i = 1 \/ i = 2
        OBVIOUS
      <4> QED
        BY <3>1, <3>2, <4>1
    <3>4. d = w
      BY <3>1, <3>2, <3>3, SeqEqual
    <3> QED
      BY <3>4 DEF d, w
  <2>5. <<v>> \in Seq(Bytes) /\ s \o <<v>> \in Seq(Bytes)
    BY ConcatProperties
  <2>6. (s \o <<v>>) \o << >> = s \o <<v>>
    BY <2>5, ConcatEmptySeq
  <2> QED
    BY <2>1, <2>2, <2>3, <2>4, <2>6
<1> QED
  BY <1>2, <1>3

\* What a write does to the files.
LEMMA WrittenMakes ==
  ASSUME TypeInv, NEW x \in DOMAIN files, NEW b \in Seq(Bytes), files' = Written(x, b)
  PROVE  /\ DOMAIN files' = DOMAIN files
         /\ \A i \in DOMAIN files : /\ files'[i].name = files[i].name
                                    /\ i # x => files'[i] = files[i]
         /\ files'[x].torn = files[x].torn
         /\ \A v \in Bytes : b = <<v>> =>
              /\ files[x].data = <<>> => files'[x].data = <<v>> /\ files'[x].at = 1
              /\ \A u \in Bytes : files[x].data = <<u>> /\ files[x].at = 1 =>
                   files'[x].data = <<u, v>>
<1> DEFINE f == files[x]
           D == SubSeq(f.data, 1, f.at) \o b \o SubSeq(f.data, f.at + Len(b) + 1, Len(f.data))
           a == IF f.at + Len(b) > Len(f.data) THEN f.at + Len(b) ELSE Len(f.data)
           g == [f EXCEPT !.data = D, !.at = a]
<1>1. files' = [files EXCEPT ![x].data = D, ![x].at = a]
  BY DEF Written
<1>2. f \in File(Len(files)) /\ f.at <= Len(f.data)
  BY FileTyped
<1>3. files' = [files EXCEPT ![x] = g]
  BY <1>1
<1>4. f.data \in Seq(Bytes) /\ f.at \in Nat /\ f.at <= Len(f.data)
  BY <1>2 DEF File
<1>5. ASSUME NEW v \in Bytes, b = <<v>>
      PROVE  /\ f.data = <<>> => D = <<v>> /\ a = 1
             /\ \A u \in Bytes : f.data = <<u>> /\ f.at = 1 => D = <<u, v>>
  <2> DEFINE s == f.data
             p == f.at
             E == SubSeq(s, 1, p) \o <<v>> \o SubSeq(s, p + Len(<<v>>) + 1, Len(s))
  <2>1. s \in Seq(Bytes) /\ p \in Nat /\ p <= Len(s)
    BY <1>4
  <2>2. D = E /\ a = IF p + Len(<<v>>) > Len(s) THEN p + Len(<<v>>) ELSE Len(s)
    BY <1>5
  <2> HIDE DEF s, p, D, a
  <2>3. /\ s = <<>> => E = <<v>> /\ p + Len(<<v>>) = 1 /\ p + Len(<<v>>) > Len(s)
        /\ \A u \in Bytes : s = <<u>> /\ p = 1 => E = <<u, v>>
    BY <2>1, ChunkWritten
  <2> HIDE DEF E
  <2>4. /\ s = <<>> => D = <<v>> /\ a = 1
        /\ \A u \in Bytes : s = <<u>> /\ p = 1 => D = <<u, v>>
    BY <2>2, <2>3
  <2> QED
    BY <2>4 DEF s, p
<1> HIDE DEF D, a
<1>6. g.name = f.name /\ g.data = D /\ g.at = a /\ g.torn = f.torn
  <2> HIDE DEF f
  <2> QED
    BY <1>2 DEF File
<1> HIDE DEF g
<1>7. DOMAIN files' = DOMAIN files /\ \A i \in DOMAIN files : files'[i] = IF i = x THEN g ELSE files[i]
  BY <1>3
<1>8. \A i \in DOMAIN files : /\ files'[i].name = files[i].name
                              /\ i # x => files'[i] = files[i]
  BY <1>6, <1>7
<1>9. files'[x].torn = files[x].torn /\ files'[x].data = D /\ files'[x].at = a
  BY <1>6, <1>7
<1> QED
  BY <1>5, <1>7, <1>8, <1>9

\* A request that writes does not write the path n.
LEMMA WriteServes ==
  ASSUME NEW n \in Nodes, Serving(n), NEW c \in Clients, Write(c)
  PROVE  Served(n)'
<1> DEFINE k == Top(c).k
           x == res[c]
           q == todo[c]
           N == Len(files)
<1>1. Busy(c) /\ Top(c).t = "write" /\ TypeInv /\ Going
  BY DEF Write, At, Top, Serving, Going, MemInv
<1>2. IsFile(x)
  BY <1>1, TopSound DEF Going
<1>3. x \in DOMAIN files /\ x \in Results(N) /\ Top(c) = q[1] /\ Top(c).data \in Seq(Bytes)
  BY <1>1, <1>2, TopTyped
<1>4. Gives(c, x, <<>>) /\ files' = Written(x, Top(c).data) /\ fos' = fos /\ raced' = raced
  BY <1>2 DEF Write, Then
<1>5. /\ k.n # n /\ files[x].name = k
      /\ 2 \in DOMAIN q => /\ q[2].t \notin {"write", "copy"}
                           /\ ~(q[2].t \in Using /\ q[2].k.n = n)
  <2>1. /\ InOrder(fos, files, raced, n, q, x, 1)
        /\ 2 \in DOMAIN q => /\ q[2].t \notin {"write", "copy"}
                             /\ q[2].t \in Using /\ q[2].k.n = n => k.n = n
    BY <1>1, ServingOn
  <2>2. k.n # n /\ files[x].name = k
    BY <1>1, <1>3, <2>1 DEF InOrder
  <2> QED
    BY <2>1, <2>2
<1> HIDE DEF x, k
<1>6. /\ DOMAIN files' = DOMAIN files
      /\ \A i \in DOMAIN files : /\ files'[i].name = files[i].name
                                 /\ i # x => files'[i] = files[i]
  BY <1>1, <1>3, <1>4, WrittenMakes
<1>7. Grows(c) /\ SameAt(n)
  BY <1>4, <1>5, <1>6 DEF Grows, SameAt, Keeps
<1> HIDE DEF q
<1>8. << >> \in Seq(Tasks(N)) /\ DOMAIN << >> = {}
  OBVIOUS
<1>9. Turns(c, n, x, <<>>)
  <2>1. 2 \in DOMAIN q => Continues(fos', files', raced', n, <<>>, x, q[2])
    BY <1>5 DEF Continues
  <2> QED
    BY <1>8, <2>1 DEF Turns, InTurn, q
<1>10. \A i \in DOMAIN << >> : << >>[i].t \in {"put", "copy"} => << >>[i].k.n # n
  BY <1>8
<1>11. Top(c).t \in {"put", "copy"} => Top(c).k.n # n
  BY <1>1
<1> QED
  BY <1>1, <1>3, <1>4, <1>7, <1>8, <1>9, <1>10, <1>11, PlainServes

\* What no task has.
LEMMA SpliceNone ==
  ASSUME NEW S, NEW q \in Seq(S), q # <<>>, NEW tasks \in Seq(S), NEW t, NEW l,
         \A i \in DOMAIN tasks : ~(tasks[i].t = t /\ tasks[i].k = l),
         \A j \in 2..Len(q) : ~(q[j].t = t /\ q[j].k = l)
  PROVE  ~Has(tasks \o Tail(q), t, l)
<1> DEFINE s == tasks \o Tail(q)
           m == Len(q)
           e == Len(tasks)
<1>1. /\ m \in Nat /\ m >= 1 /\ e \in Nat /\ DOMAIN q = 1..m /\ DOMAIN tasks = 1..e
      /\ DOMAIN s = 1..(e + m - 1)
      /\ \A i \in 1..e : s[i] = tasks[i]
      /\ \A i \in (e + 1)..(e + m - 1) : s[i] = q[i - e + 1]
  BY SpliceSeq
<1>2. \A j \in 2..m : ~(q[j].t = t /\ q[j].k = l)
  OBVIOUS
<1> HIDE DEF s, m, e
<1>3. ASSUME NEW i \in DOMAIN s, s[i].t = t, s[i].k = l PROVE FALSE
  <2>1. CASE i \in 1..e
    BY <1>1, <1>3, <2>1
  <2>2. CASE i \notin 1..e
    <3>1. i \in (e + 1)..(e + m - 1) /\ i - e + 1 \in 2..m
      BY <1>1, <2>2
    <3> QED
      BY <1>1, <1>2, <1>3, <3>1
  <2> QED
    BY <2>1, <2>2
<1>4. ~Has(s, t, l)
  BY <1>3 DEF Has
<1> QED
  BY <1>4 DEF s

\* The client that copies to the path n has put it, and fills nothing else of it;
\* it fills on with another chunk, and is done when no copy is left.
LEMMA CopyTurn ==
  ASSUME NEW S, NEW q \in Seq(S), q # <<>>, NEW tasks \in Seq(S), NEW f, NEW fs, NEW R, NEW r,
         NEW n, InTurn(f, fs, R, n, q, r), Copies(q[1], n)
  PROVE  /\ q[1].data \in {<<n>>, <<n, n>>}
         /\ FillsNow(q, q[1].k) /\ \A l : l.n = n /\ l # q[1].k => ~FillsNow(q, l)
         /\ \A j \in 2..Len(q) : ~Copies(q[j], n)
         /\ (\A i \in DOMAIN tasks : tasks[i].t \notin {"put", "copy"}) =>
              \A l : l.n = n => ~FillsNow(tasks \o Tail(q), l)
         /\ (tasks # <<>> /\ \A i \in DOMAIN tasks : tasks[i].t = "copy" /\ tasks[i].k = q[1].k) =>
              \A l : l.n = n => (FillsNow(tasks \o Tail(q), l) <=> l = q[1].k)
<1>1. DOMAIN q = 1..Len(q) /\ Len(q) \in Nat /\ Len(q) >= 1 /\ 1 \in DOMAIN q
  BY LenProperties, EmptySeq
<1>2. \A i \in DOMAIN q : InOrder(f, fs, R, n, q, r, i)
  BY DEF InTurn
<1> DEFINE k == q[1].k
<1>3. q[1].data \in {<<n>>, <<n, n>>} /\ \A i \in DOMAIN q : Copies(q[i], n) => i = 1
  BY <1>1, <1>2 DEF InOrder
<1>4. q[1].t = "copy" /\ k.n = n
  BY DEF Copies
<1>5. \A l : l.n = n => \A i \in DOMAIN q : ~(q[i].t = "put" /\ q[i].k = l)
  <2> SUFFICES ASSUME NEW i \in DOMAIN q, q[i].t = "put", q[i].k.n = n PROVE FALSE
    OBVIOUS
  <2>1. i + 3 \in DOMAIN q /\ q[i + 3].t = "copy" /\ q[i + 3].k.n = n
    BY <1>2 DEF InOrder
  <2>2. i + 3 = 1
    BY <1>3, <2>1 DEF Copies
  <2> QED
    BY <1>1, <2>2
<1>6. FillsNow(q, k)
  BY <1>1, <1>4, <1>5 DEF FillsNow, Has
<1>7. \A l : l.n = n /\ l # k => ~Has(q, "copy", l)
  BY <1>3 DEF Has, Copies
<1>8. \A j \in 2..Len(q) : ~Copies(q[j], n)
  <2>1. \A j \in 2..Len(q) : j \in DOMAIN q /\ j # 1
    BY <1>1
  <2> QED
    BY <1>3, <2>1
<1> HIDE DEF k
<1>9. ASSUME \A i \in DOMAIN tasks : tasks[i].t \notin {"put", "copy"}, NEW l, l.n = n
      PROVE  ~FillsNow(tasks \o Tail(q), l)
  <2>1. ~Has(tasks \o Tail(q), "copy", l)
    <3>1. \A i \in DOMAIN tasks : ~(tasks[i].t = "copy" /\ tasks[i].k = l)
      BY <1>9
    <3>2. \A j \in 2..Len(q) : ~(q[j].t = "copy" /\ q[j].k = l)
      BY <1>8, <1>9 DEF Copies
    <3> QED
      BY <3>1, <3>2, SpliceNone
  <2> QED
    BY <2>1 DEF FillsNow
<1>10. ASSUME tasks # <<>>, \A i \in DOMAIN tasks : tasks[i].t = "copy" /\ tasks[i].k = k,
              NEW l, l.n = n
       PROVE  FillsNow(tasks \o Tail(q), l) <=> l = k
  <2>1. ~Has(tasks \o Tail(q), "put", l)
    <3>1. \A i \in DOMAIN tasks : ~(tasks[i].t = "put" /\ tasks[i].k = l)
      BY <1>10
    <3>2. \A j \in 2..Len(q) : ~(q[j].t = "put" /\ q[j].k = l)
      BY <1>1, <1>5, <1>10
    <3> QED
      BY <3>1, <3>2, SpliceNone
  <2>2. CASE l = k
    <3>1. 1 \in DOMAIN tasks
      BY <1>10, LenProperties, EmptySeq
    <3>2. Has(tasks \o Tail(q), tasks[1].t, tasks[1].k)
      BY <3>1, SpliceHasNew
    <3>3. tasks[1].t = "copy" /\ tasks[1].k = k
      BY <1>10, <3>1
    <3> QED
      BY <2>1, <2>2, <3>2, <3>3 DEF FillsNow
  <2>3. CASE l # k
    <3>1. \A i \in DOMAIN tasks : ~(tasks[i].t = "copy" /\ tasks[i].k = l)
      BY <1>10, <2>3
    <3>2. \A j \in 2..Len(q) : ~(q[j].t = "copy" /\ q[j].k = l)
      BY <1>8, <1>10 DEF Copies
    <3>3. ~Has(tasks \o Tail(q), "copy", l)
      BY <3>1, <3>2, SpliceNone
    <3> QED
      BY <2>3, <3>3 DEF FillsNow
  <2> QED
    BY <2>2, <2>3
<1> QED
  BY <1>3, <1>6, <1>7, <1>8, <1>9, <1>10 DEF FillsNow, k

\* A step of the client that fills the path n: it leaves the next chunk to copy,
\* or the file as it is to be, or torn.
LEMMA PartServes ==
  ASSUME NEW n \in Nodes, Serving(n), NEW c \in Clients, Busy(c), Copies(Top(c), n),
         NEW r \in Results(Len(files)), NEW tasks \in Seq(Tasks(Len(files))),
         Gives(c, r, tasks), Turns(c, n, r, tasks), UNCHANGED <<fos, raced>>,
         DOMAIN files' = DOMAIN files,
         \A i \in DOMAIN files : /\ files'[i].name = files[i].name
                                 /\ i # res[c] => files'[i] = files[i],
         \/ /\ \A i \in DOMAIN tasks : tasks[i].t \notin {"put", "copy"}
            /\ Top(c).k \notin raced => files'[res[c]].torn \/ files'[res[c]].data = <<n, n>>
         \/ /\ tasks # <<>>
            /\ \A i \in DOMAIN tasks : tasks[i].t = "copy" /\ tasks[i].k = Top(c).k
            /\ Top(c).k \notin raced =>
                 \/ files'[res[c]].torn
                 \/ /\ Halfway(tasks, n)
                    /\ files'[res[c]].data = <<n>> /\ files'[res[c]].at = 1
  PROVE  Served(n)'
<1> DEFINE k == Top(c).k
           x == res[c]
           q == todo[c]
           N == Len(files)
           more == tasks # <<>> /\ \A i \in DOMAIN tasks : tasks[i].t = "copy" /\ tasks[i].k = k
           last == \A i \in DOMAIN tasks : tasks[i].t \notin {"put", "copy"}
<1>1. Going /\ TypeInv /\ n # Root /\ Top(c) = q[1] /\ k \in Keys /\ q \in Seq(Tasks(N)) /\ q # <<>>
  BY ServingOn, TopTyped DEF Serving, Going, MemInv, TypeInv, Busy
<1>2. /\ InTurn(fos, files, raced, n, q, x) /\ InOrder(fos, files, raced, n, q, x, 1)
  BY ServingOn
<1>3. k.n = n /\ Top(c).t = "copy" /\ files[x].name = k /\ (x = fos[k] \/ k \in raced)
  BY <1>1, <1>2 DEF InOrder, Copies
<1>4. IsFile(x) /\ x \in DOMAIN files
  BY <1>1, <1>3, TopSound, TopTyped DEF Going
<1>5. Grows(c)
  BY DEF Grows
<1>6. /\ \A d \in Clients : InTurn(fos', files', raced', n, todo'[d], res'[d])
      /\ \A t \in {"put", "copy"}, l \in Keys : Has(todo'[c], t, l) <=> Has(tasks \o Tail(q), t, l)
      /\ Halfway(todo'[c], n) <=> Halfway(tasks, n)
      /\ \A d \in Clients \ {c} : todo'[d] = todo[d]
  BY <1>1, <1>5, CallTurns DEF Serving
<1>7. \/ last /\ (k \notin raced => files'[x].torn \/ files'[x].data = <<n, n>>)
      \/ more /\ (k \notin raced => \/ files'[x].torn
                                    \/ /\ Halfway(tasks, n)
                                       /\ files'[x].data = <<n>> /\ files'[x].at = 1)
  OBVIOUS
<1>8. /\ FillsNow(q, k) /\ \A l : l.n = n /\ l # k => ~FillsNow(q, l)
      /\ last => \A l : l.n = n => ~FillsNow(tasks \o Tail(q), l)
      /\ more => \A l : l.n = n => (FillsNow(tasks \o Tail(q), l) <=> l = k)
  <2>1. Copies(q[1], n) /\ k = q[1].k
    BY <1>1
  <2> HIDE DEF q
  <2> QED
    BY <1>1, <1>2, <2>1, CopyTurn
<1> HIDE DEF last, more, q, x, k
<1>9. /\ FillsNow(todo[c], k)
      /\ \A l \in Keys : l.n = n /\ l # k => ~FillsNow(todo[c], l) /\ ~FillsNow(todo'[c], l)
      /\ last => ~FillsNow(todo'[c], k)
      /\ more => FillsNow(todo'[c], k)
  <2>1. \A l \in Keys : FillsNow(todo'[c], l) <=> FillsNow(tasks \o Tail(q), l)
    BY <1>6 DEF FillsNow, q
  <2>2. \A l : FillsNow(q, l) <=> FillsNow(todo[c], l)
    BY DEF q
  <2> QED
    BY <1>1, <1>3, <1>7, <1>8, <2>1, <2>2
<1>10. k \notin raced => x = fos[k] /\ \A d \in Clients \ {c} : ~FillsNow(todo[d], k)
  BY <1>1, <1>3, <1>9 DEF Serving, Served, FillsAlone
<1>11. \A z \in DOMAIN files : files[z].name \in Keys
  BY <1>1, FileTyped DEF File
<1>12. Whole(n)'
  <2> SUFFICES ASSUME NEW z \in DOMAIN files', files'[z].name.n = n,
                      files'[z].name \notin raced', files'[z].data # <<n, n>>, ~files'[z].torn
               PROVE  /\ z = fos'[files'[z].name]
                      /\ \E d \in Clients : FillsNow(todo'[d], files'[z].name)
    BY DEF Whole
  <2> DEFINE l == files[z].name
  <2>1. z \in DOMAIN files /\ files'[z].name = l /\ l \in Keys /\ l.n = n /\ l \notin raced
    BY <1>11
  <2>2. CASE z = x
    <3>1. l = k /\ more
      BY <1>3, <1>7, <2>1, <2>2 DEF x
    <3> HIDE DEF l
    <3> QED
      BY <1>9, <1>10, <2>1, <2>2, <3>1
  <2>3. CASE z # x
    <3>1. files'[z] = files[z]
      BY <2>1, <2>3 DEF x
    <3>2. z = fos[l] /\ \E d \in Clients : FillsNow(todo[d], l)
      BY <2>1, <3>1 DEF Serving, Served, Whole
    <3>3. l # k
      BY <1>10, <2>1, <2>3, <3>2
    <3> HIDE DEF l
    <3>4. \E d \in Clients \ {c} : FillsNow(todo'[d], l)
      BY <1>6, <1>9, <2>1, <3>2, <3>3
    <3> QED
      BY <2>1, <3>2, <3>4
  <2> QED
    BY <2>2, <2>3
<1>13. FillsAlone(n)'
  <2> SUFFICES ASSUME NEW d \in Clients, NEW l \in Keys, l.n = n, l \notin raced',
                      FillsNow(todo'[d], l)
               PROVE  /\ IsFile(fos'[l]) /\ PartThere(fos[l], n, Halfway(todo[d], n))'
                      /\ \A e \in Clients \ {d} : ~FillsNow(todo'[e], l)
    BY DEF FillsAlone
  <2>1. CASE d = c
    <3>1. l = k /\ ~last
      BY <1>9, <2>1
    <3>2. x = fos[l] /\ \A e \in Clients \ {c} : ~FillsNow(todo[e], l)
      BY <1>10, <3>1
    <3>3. \/ files'[x].torn
          \/ Halfway(todo'[c], n) /\ files'[x].data = <<n>> /\ files'[x].at = 1
      BY <1>6, <1>7, <3>1
    <3>4. fos'[l] = x
      BY <3>2
    <3>5. PartThere(fos[l], n, Halfway(todo[d], n))'
      BY <2>1, <3>3, <3>4 DEF PartThere
    <3> QED
      BY <1>4, <1>6, <2>1, <3>2, <3>4, <3>5
  <2>2. CASE d # c
    <3>1. FillsNow(todo[d], l) /\ l \notin raced /\ todo'[d] = todo[d]
      BY <1>6, <2>2
    <3>2. l # k
      BY <1>10, <2>2, <3>1
    <3>3. /\ IsFile(fos[l]) /\ PartThere(fos[l], n, Halfway(todo[d], n))
          /\ \A e \in Clients \ {d} : ~FillsNow(todo[e], l)
      BY <3>1 DEF Serving, Served, FillsAlone
    <3>4. fos[l] \in DOMAIN files /\ files[fos[l]].name = l
      BY <1>1, <3>3, GoingOn
    <3>5. fos[l] # x
      BY <1>3, <3>2, <3>4 DEF x
    <3>6. files'[fos[l]] = files[fos[l]]
      BY <3>4, <3>5 DEF x
    <3>7. PartThere(fos[l], n, Halfway(todo[d], n))'
      BY <3>1, <3>3, <3>6 DEF PartThere
    <3>8. \A e \in Clients \ {d} : ~FillsNow(todo'[e], l)
      BY <1>6, <1>9, <3>2, <3>3
    <3> QED
      BY <3>3, <3>7, <3>8
  <2> QED
    BY <2>1, <2>2
<1> QED
  BY <1>6, <1>12, <1>13 DEF Served

\* What the copy leaves to its client: the next chunk, or to close and open the file.
LEMMA CopyLeaves ==
  ASSUME NEW n \in Nodes, Serving(n), NEW c \in Clients, Busy(c), Top(c).t = "copy",
         IsFile(res[c]), fos' = fos, raced' = raced,
         \A i \in DOMAIN files : files'[i].name = files[i].name,
         NEW tasks, \A i \in DOMAIN tasks : tasks[i].k = Top(c).k,
         \/ /\ DOMAIN tasks = {1} /\ Len(tasks) = 1
            /\ tasks[1].t = "copy" /\ (Top(c).k.n = n => tasks[1].data = <<n>>)
         \/ /\ DOMAIN tasks = {1, 2} /\ Len(tasks) = 2
            /\ tasks[1].t = "close" /\ tasks[2].t = "reopen"
  PROVE  Turns(c, n, res[c], tasks)
<1> DEFINE k == Top(c).k
           q == todo[c]
           x == res[c]
<1>1. /\ TypeInv /\ Top(c) = q[1] /\ 1 \in DOMAIN q /\ x \in DOMAIN files
      /\ DOMAIN q = 1..Len(q) /\ q \in Seq(Tasks(Len(files)))
  BY TopTyped, LenProperties DEF Serving, Going, MemInv, TypeInv
<1>2. /\ files[x].name = k /\ (x = fos[k] \/ k \in raced)
      /\ k.n = n => \A j \in DOMAIN q : Copies(q[j], n) => j = 1
      /\ 2 \in DOMAIN q => /\ q[2].t \notin {"write", "copy"}
                           /\ q[2].t \in Using /\ q[2].k.n = n => k.n = n
  <2>1. InOrder(fos, files, raced, n, q, x, 1)
    BY ServingOn
  <2>2. 2 \in DOMAIN q => /\ q[2].t \notin {"write", "copy"}
                          /\ q[2].t \in Using /\ q[2].k.n = n => k.n = n
    BY ServingOn
  <2> QED
    BY <1>1, <2>1, <2>2 DEF InOrder, Copies
<1>3. files'[x].name = k /\ (x = fos'[k] \/ k \in raced')
  BY <1>1, <1>2
<1> HIDE DEF k, x
<1>4. /\ \A i \in DOMAIN tasks : tasks[i].k = k
      /\ DOMAIN tasks # {} => tasks # <<>>
  BY DEF k
<1>5. CASE /\ DOMAIN tasks = {1} /\ Len(tasks) = 1
           /\ tasks[1].t = "copy" /\ (k.n = n => tasks[1].data = <<n>>)
  <2>1. 1 \in DOMAIN tasks /\ tasks # <<>> /\ tasks[1].k = k
    BY <1>4, <1>5
  <2>2. InOrder(fos', files', raced', n, tasks, x, 1)
    BY <1>3, <1>4, <1>5, <2>1 DEF InOrder, Copies, Makers, Suppliers, Registering, Using
  <2>3. InTurn(fos', files', raced', n, tasks, x)
    BY <1>5, <2>1, <2>2 DEF InTurn
  <2>4. ~Within(k.n, n) => \A i \in DOMAIN tasks : ~Within(tasks[i].k.n, n)
    BY <1>4, <1>5, <2>1
  <2>5. (\E i \in DOMAIN tasks : Copies(tasks[i], n)) => \A j \in 2..Len(q) : ~Copies(q[j], n)
    <3>1. \A j \in 2..Len(q) : j \in DOMAIN q /\ j # 1
      BY <1>1
    <3> QED
      BY <1>2, <1>4, <1>5, <2>1, <3>1 DEF Copies
  <2>6. 2 \in DOMAIN q => Continues(fos', files', raced', n, tasks, x, q[2])
    BY <1>2, <1>4, <1>5, <2>1 DEF Continues, Giving
  <2>7. \A i \in DOMAIN tasks : tasks[i].t # "fetch"
    BY <1>5, <2>1
  <2> QED
    BY <2>3, <2>4, <2>5, <2>6, <2>7 DEF Turns, k, q, x
<1>6. CASE /\ DOMAIN tasks = {1, 2} /\ Len(tasks) = 2
           /\ tasks[1].t = "close" /\ tasks[2].t = "reopen"
  <2>1. /\ 1 \in DOMAIN tasks /\ 2 \in DOMAIN tasks /\ tasks # <<>> /\ 2 - 1 = 1 /\ 2 # 1
        /\ tasks[1].k = k /\ tasks[2].k = k
    BY <1>4, <1>6
  <2>2. InOrder(fos', files', raced', n, tasks, x, 1)
    BY <1>3, <1>4, <1>6, <2>1 DEF InOrder, Copies, Makers, Suppliers, Registering, Using
  <2>3. InOrder(fos', files', raced', n, tasks, x, 2)
    BY <1>4, <1>6, <2>1 DEF InOrder, Copies, Makers, Suppliers, Registering, Using, Giving
  <2>4. InTurn(fos', files', raced', n, tasks, x)
    BY <1>6, <2>1, <2>2, <2>3 DEF InTurn
  <2>5. ~Within(k.n, n) => \A i \in DOMAIN tasks : ~Within(tasks[i].k.n, n)
    BY <1>4, <1>6, <2>1
  <2>6. \A i \in DOMAIN tasks : ~Copies(tasks[i], n) /\ tasks[i].t # "fetch"
    BY <1>6, <2>1 DEF Copies
  <2>7. 2 \in DOMAIN q => Continues(fos', files', raced', n, tasks, x, q[2])
    BY <1>2, <1>4, <1>6, <2>1 DEF Continues, Giving
  <2> QED
    BY <2>4, <2>5, <2>6, <2>7 DEF Turns, k, q, x
<1> QED
  BY <1>5, <1>6 DEF k, x

\* A chunk of the path n reaches the file, which is empty or ends with the first.
LEMMA CopyServes ==
  ASSUME NEW n \in Nodes, Serving(n), NEW c \in Clients, Copy(c)
  PROVE  Served(n)'
<1> DEFINE y == Top(c)
           k == y.k
           x == res[c]
           q == todo[c]
           N == Len(files)
           more == [y EXCEPT !.data = Tail(@)]
           end == Task("close", k)
           again == Task("reopen", k)
           tasks == IF Len(y.data) > 1 THEN <<more>> ELSE <<end, again>>
           b == <<Head(y.data)>>
<1>1. Busy(c) /\ y.t = "copy" /\ TypeInv /\ Going /\ n \in Bytes
  BY TreeAssumption DEF Copy, At, Top, Serving, Going, MemInv
<1>2. IsFile(x)
  BY <1>1, TopSound DEF Going
<1>3. /\ x \in DOMAIN files /\ x \in Results(N) /\ y = q[1] /\ y \in Tasks(N) /\ k \in Keys
      /\ q \in Seq(Tasks(N)) /\ q # <<>>
  BY <1>1, <1>2, TopTyped DEF TypeInv, Busy
<1>4. Gives(c, x, tasks) /\ files' = Written(x, b) /\ fos' = fos /\ raced' = raced
  BY <1>2 DEF Copy, Then
<1>5. tasks \in Seq(Tasks(N)) /\ b \in Seq(Bytes)
  BY <1>1, <1>2, CopyTasks
<1>6. /\ InTurn(fos, files, raced, n, q, x) /\ InOrder(fos, files, raced, n, q, x, 1)
  BY <1>1, ServingOn DEF Serving, Served
<1>7. /\ files[x].name = k /\ (x = fos[k] \/ k \in raced)
      /\ k.n = n => y.data = <<n, n>> \/ y.data = <<n>>
  BY <1>1, <1>3, <1>6 DEF InOrder, Copies
<1>8. /\ DOMAIN files' = DOMAIN files
      /\ \A i \in DOMAIN files : /\ files'[i].name = files[i].name
                                 /\ i # x => files'[i] = files[i]
      /\ files'[x].torn = files[x].torn
      /\ b = <<n>> =>
           /\ files[x].data = <<>> => files'[x].data = <<n>> /\ files'[x].at = 1
           /\ files[x].data = <<n>> /\ files[x].at = 1 => files'[x].data = <<n, n>>
  <2> HIDE DEF x, b
  <2> QED
    BY <1>1, <1>3, <1>4, <1>5, WrittenMakes
<1>9. /\ more.t = "copy" /\ more.k = k /\ more.data = Tail(y.data)
      /\ end.t = "close" /\ end.k = k /\ again.t = "reopen" /\ again.k = k
  <2>1. y \in Tasks(N)
    BY <1>3
  <2> HIDE DEF y
  <2> QED
    BY <1>1, <2>1 DEF Tasks, Task
<1>10. /\ y.data = <<n, n>> => Len(y.data) > 1 /\ Tail(y.data) = <<n>> /\ b = <<n>>
       /\ y.data = <<n>> => ~(Len(y.data) > 1) /\ b = <<n>>
  <2> DEFINE two == <<n, n>>
             one == <<n>>
  <2>1. Len(two) = 2 /\ Head(two) = n /\ Tail(two) = <<n>> /\ Len(one) = 1 /\ Head(one) = n
    OBVIOUS
  <2>2. 2 > 1 /\ ~(1 > 1)
    OBVIOUS
  <2> HIDE DEF two, one, y
  <2>3. /\ y.data = two => Len(y.data) > 1 /\ Tail(y.data) = <<n>> /\ b = <<n>>
        /\ y.data = one => ~(Len(y.data) > 1) /\ b = <<n>>
    BY <2>1, <2>2 DEF b
  <2> QED
    BY <2>3 DEF two, one
<1>11. k.n = n => b = <<n>> /\ (Len(y.data) > 1 => more.data = <<n>>)
  BY <1>7, <1>9, <1>10
<1>12. \/ Len(y.data) > 1 /\ tasks = <<more>> /\ (k.n = n => more.data = <<n>>)
       \/ ~(Len(y.data) > 1) /\ tasks = <<end, again>>
  BY <1>11
<1> HIDE DEF more, end, again, tasks, b
<1>13. /\ Len(y.data) > 1 => /\ DOMAIN tasks = {1} /\ tasks[1] = more
                              /\ tasks # <<>> /\ Len(tasks) = 1
       /\ ~(Len(y.data) > 1) => /\ DOMAIN tasks = {1, 2} /\ Len(tasks) = 2
                                 /\ tasks[1] = end /\ tasks[2] = again
  BY <1>12
<1>14. Turns(c, n, x, tasks)
  <2>1. \A i \in DOMAIN tasks : tasks[i].k = k
    BY <1>9, <1>13
  <2>2. \/ /\ DOMAIN tasks = {1} /\ Len(tasks) = 1
           /\ tasks[1].t = "copy" /\ (k.n = n => tasks[1].data = <<n>>)
        \/ /\ DOMAIN tasks = {1, 2} /\ Len(tasks) = 2
           /\ tasks[1].t = "close" /\ tasks[2].t = "reopen"
    BY <1>9, <1>11, <1>13
  <2> QED
    BY <1>1, <1>2, <1>4, <1>8, <2>1, <2>2, CopyLeaves
<1>15. CASE k.n # n
  <2>1. Grows(c) /\ SameAt(n)
    <3> HIDE DEF k, x
    <3> QED
      BY <1>4, <1>7, <1>8, <1>15 DEF Grows, SameAt, Keeps
  <2>2. \A i \in DOMAIN tasks : tasks[i].t \in {"put", "copy"} => tasks[i].k.n # n
    BY <1>9, <1>13, <1>15
  <2>3. Top(c).t \in {"put", "copy"} => Top(c).k.n # n
    BY <1>15
  <2> QED
    BY <1>1, <1>3, <1>4, <1>5, <1>14, <2>1, <2>2, <2>3, PlainServes
<1>16. CASE k.n = n
  <2>1. Copies(Top(c), n)
    BY <1>1, <1>16 DEF Copies
  <2>2. FillsNow(q, k)
    <3>1. Copies(q[1], n) /\ k = q[1].k
      BY <1>3, <2>1
    <3> HIDE DEF q, k
    <3> QED
      BY <1>3, <1>6, <3>1, CopyTurn
  <2>3. k \notin raced => x = fos[k] /\ PartThere(x, n, Halfway(q, n))
    BY <1>3, <1>7, <1>16, <2>2 DEF Serving, Served, FillsAlone
  <2>4. <<n>> # <<n, n>>
    OBVIOUS
  <2>5. Halfway(q, n) <=> y.data # <<n, n>>
    <3>1. 1 \in DOMAIN q
      BY <1>1, TopTyped
    <3>2. Halfway(q, n) => q[1].data = <<n>>
      <4> HIDE DEF q, x
      <4> QED
        BY <1>3, <1>6, HalfwayAtHead
    <3> QED
      BY <1>3, <2>1, <2>4, <3>1, <3>2 DEF Halfway
  <2> HIDE DEF q, x, k, y
  <2>6. CASE y.data = <<n, n>>
    <3>1. Len(y.data) > 1 /\ b = <<n>>
      BY <1>10, <2>6
    <3>2. Halfway(tasks, n)
      BY <1>9, <1>12, <1>13, <1>16, <2>4, <3>1 DEF Halfway, Copies
    <3>3. k \notin raced => files'[x].torn \/ (files'[x].data = <<n>> /\ files'[x].at = 1)
      BY <1>8, <2>3, <2>5, <2>6, <3>1 DEF PartThere
    <3>4. tasks # <<>> /\ \A i \in DOMAIN tasks : tasks[i].t = "copy" /\ tasks[i].k = k
      BY <1>9, <1>13, <3>1
    <3> QED
      BY <1>1, <1>3, <1>4, <1>5, <1>8, <1>14, <2>1, <3>2, <3>3, <3>4, PartServes DEF x, k, y
  <2>7. CASE y.data = <<n>>
    <3>1. ~(Len(y.data) > 1) /\ b = <<n>>
      BY <1>10, <2>7
    <3>2. k \notin raced => files'[x].torn \/ files'[x].data = <<n, n>>
      BY <1>8, <2>3, <2>4, <2>5, <2>7, <3>1 DEF PartThere
    <3>3. \A i \in DOMAIN tasks : tasks[i].t \notin {"put", "copy"}
      BY <1>9, <1>13, <3>1
    <3> QED
      BY <1>1, <1>3, <1>4, <1>5, <1>8, <1>14, <2>1, <3>2, <3>3, PartServes DEF x, k, y
  <2> QED
    BY <1>7, <1>16, <2>6, <2>7
<1> QED
  BY <1>15, <1>16

\* A copy that fails leaves a file that is torn.
LEMMA CopyFailsServes ==
  ASSUME NEW n \in Nodes, Serving(n), NEW c \in Clients, CopyFails(c)
  PROVE  Served(n)'
<1> DEFINE k == Top(c).k
           x == res[c]
           q == todo[c]
           N == Len(files)
<1>1. Busy(c) /\ Top(c).t = "copy" /\ TypeInv /\ Going
  BY DEF CopyFails, At, Top, Serving, Going, MemInv
<1>2. IsFile(x)
  BY <1>1, TopSound DEF Going
<1>3. x \in DOMAIN files /\ Failed \in Results(N) /\ << >> \in Seq(Tasks(N)) /\ Top(c) = q[1]
  BY <1>1, <1>2, TopTyped DEF Results
<1>4. /\ Gives(c, Failed, <<>>) /\ files' = [files EXCEPT ![x].torn = TRUE]
      /\ fos' = fos /\ raced' = raced
  BY <1>2 DEF CopyFails
<1>5. files[x].name = k
  <2>1. InOrder(fos, files, raced, n, q, x, 1)
    BY <1>1, ServingOn
  <2> QED
    BY <1>1, <1>3, <2>1 DEF InOrder
<1>6. /\ 2 \in DOMAIN q => /\ q[2].t \notin {"write", "copy"}
                           /\ q[2].t \in Using /\ q[2].k.n = n => k.n = n
  BY <1>1, ServingOn
<1>7. \A z \in DOMAIN files : files[z] \in File(N)
  BY <1>1, FileTyped
<1> HIDE DEF x, k, q
<1>8. /\ DOMAIN files' = DOMAIN files /\ files'[x].torn
      /\ \A i \in DOMAIN files : /\ files'[i].name = files[i].name
                                 /\ i # x => files'[i] = files[i]
  <2> DEFINE g == [files[x] EXCEPT !.torn = TRUE]
  <2>1. files' = [files EXCEPT ![x] = g]
    BY <1>4
  <2>2. g.torn /\ g.name = files[x].name
    BY <1>3, <1>7 DEF File
  <2> HIDE DEF g
  <2> QED
    BY <1>3, <2>1, <2>2
<1>9. ~IsFile(Failed) /\ DOMAIN << >> = {}
  BY DEF IsFile, Failed
<1>10. Turns(c, n, Failed, <<>>)
  <2>1. 2 \in DOMAIN q => Continues(fos', files', raced', n, <<>>, Failed, q[2])
    BY <1>6, <1>9 DEF Continues
  <2> QED
    BY <1>9, <2>1 DEF Turns, InTurn, q
<1>11. CASE k.n # n
  <2>1. Grows(c) /\ SameAt(n)
    BY <1>4, <1>5, <1>8, <1>11 DEF Grows, SameAt, Keeps
  <2>2. Top(c).t \in {"put", "copy"} => Top(c).k.n # n
    BY <1>11 DEF k
  <2> QED
    BY <1>1, <1>3, <1>4, <1>9, <1>10, <2>1, <2>2, PlainServes
<1>12. CASE k.n = n
  <2>1. Copies(Top(c), n)
    BY <1>1, <1>12 DEF Copies, k
  <2> QED
    BY <1>1, <1>3, <1>4, <1>8, <1>9, <1>10, <2>1, PartServes DEF x
<1> QED
  BY <1>11, <1>12

\* Requests that do not make the path n, nor one below it, leave it to be filled.
LEMMA CallsTurn ==
  ASSUME NEW r \in [op : Operations, k : Keys, to : Keys, data : Seq(Bytes)], NEW n,
         r.op \notin {"RemoveAll", "Rename"},
         r.op \in {"Create", "WriteFile", "Mkdir"} => r.k.n # n /\ ~Below(r.k.n, n),
         NEW f, NEW fs, NEW R
  PROVE  /\ InTurn(f, fs, R, n, Calls(r), Fine)
         /\ \A i \in DOMAIN Calls(r) : ~Copies(Calls(r)[i], n)
<1> DEFINE T(t) == [Task(t, r.k) EXCEPT !.to = r.to, !.data = r.data]
           m == Task("mkdir", Directorify(r.k))
           q == Calls(r)
           InOrderAt(i) == InOrder(f, fs, R, n, q, Fine, i) /\ ~Copies(q[i], n)
<1>1. \A t : T(t).t = t /\ T(t).k = r.k
  BY DEF Task
<1>2. m.t = "mkdir" /\ m.k.n = r.k.n
  BY SameNode DEF Task
<1>3. /\ r.op \in {"Open", "Stat"} => q = <<T("open")>>
      /\ r.op = "Create" => q = <<T("put"), T("register"), T("created")>>
      /\ r.op = "WriteFile" => q = <<T("put"), T("register"), T("created"), T("write")>>
      /\ r.op = "ReadFile" => q = <<T("open"), T("fetch")>>
      /\ r.op = "ReadDir" => q = <<T("open"), T("list"), T("close")>>
      /\ r.op = "Mkdir" => q = <<m>>
      /\ r.op = "Remove" => q = <<T("pass")>>
      /\ r.op = "Chmod" => q = <<T("chmod")>>
  BY DEF Calls
<1> HIDE DEF T, q, m
<1>4. SUFFICES \A i \in DOMAIN q : InOrderAt(i)
  BY DEF InTurn, q
<1>5. ASSUME NEW i \in DOMAIN q, q[i].t \in {"open", "pass", "chmod"} PROVE InOrderAt(i)
  BY <1>5 DEF InOrder, Makers, Suppliers, Registering, Using, Copies
<1>6. CASE r.op \in {"Open", "Stat", "Remove", "Chmod"}
  <2>1. \A i \in DOMAIN q : q[i].t \in {"open", "pass", "chmod"}
    BY <1>1, <1>3, <1>6
  <2> QED
    BY <1>5, <2>1
<1>7. CASE r.op = "Mkdir"
  <2>1. DOMAIN q = {1} /\ q[1] = m
    BY <1>3, <1>7
  <2> QED
    BY <1>2, <1>7, <2>1 DEF InOrder, Using, Copies
<1>8. CASE r.op = "ReadFile"
  <2> DEFINE o == T("open")
             e == T("fetch")
  <2>1. o.t = "open" /\ o.k = r.k /\ e.t = "fetch" /\ e.k = r.k
    BY <1>1
  <2>2. q = <<o, e>>
    BY <1>3, <1>8
  <2> HIDE DEF o, e
  <2>3. DOMAIN q = {1, 2} /\ q[1] = o /\ q[2] = e /\ Len(q) = 2 /\ 2 - 1 = 1 /\ 2 # 1
    BY <2>2
  <2>4. InOrderAt(2)
    BY <2>1, <2>3 DEF InOrder, Makers, Suppliers, Registering, Using, Giving, Copies
  <2> QED
    BY <1>5, <2>1, <2>3, <2>4
<1>9. CASE r.op = "ReadDir"
  <2> DEFINE o == T("open")
             e == T("list")
             x == T("close")
  <2>1. /\ o.t = "open" /\ o.k = r.k /\ e.t = "list" /\ e.k = r.k
        /\ x.t = "close" /\ x.k = r.k
    BY <1>1
  <2>2. q = <<o, e, x>>
    BY <1>3, <1>9
  <2> HIDE DEF o, e, x
  <2>3. /\ DOMAIN q = {1, 2, 3} /\ q[1] = o /\ q[2] = e /\ q[3] = x
        /\ 2 - 1 = 1 /\ 2 # 1 /\ 3 - 1 = 2 /\ 3 # 1
    BY <2>2
  <2>4. InOrderAt(2)
    BY <2>1, <2>3 DEF InOrder, Makers, Suppliers, Registering, Using, Giving, Copies
  <2>5. InOrderAt(3)
    BY <2>1, <2>3 DEF InOrder, Makers, Suppliers, Registering, Using, Giving, Copies
  <2> QED
    BY <1>5, <2>1, <2>3, <2>4, <2>5
<1>10. CASE r.op \in {"Create", "WriteFile"}
  <2> DEFINE p == T("put")
             g == T("register")
             d == T("created")
             w == T("write")
  <2>1. /\ p.t = "put" /\ p.k = r.k /\ g.t = "register" /\ g.k = r.k
        /\ d.t = "created" /\ d.k = r.k /\ w.t = "write" /\ w.k = r.k
    BY <1>1
  <2>2. q = <<p, g, d>> \/ q = <<p, g, d, w>>
    BY <1>3, <1>10
  <2> HIDE DEF p, g, d, w
  <2>3. /\ q[1] = p /\ q[2] = g /\ q[3] = d /\ 4 - 1 = 3 /\ 4 # 1
        /\ \A i \in DOMAIN q : i = 1 \/ i = 2 \/ i = 3 \/ (i = 4 /\ q[4] = w)
    <3>1. CASE q = <<p, g, d>>
      BY <3>1
    <3>2. CASE q = <<p, g, d, w>>
      BY <3>2
    <3> QED
      BY <2>2, <3>1, <3>2
  <2>4. \A i \in DOMAIN q : /\ q[i].t \in {"put", "register", "created", "write"}
                            /\ q[i].k = r.k
                            /\ q[i].t = "write" => i = 4
    BY <2>1, <2>3
  <2>5. r.k.n # n /\ ~Below(r.k.n, n)
    BY <1>10
  <2>6. ASSUME NEW i \in DOMAIN q, q[i].t # "write" PROVE InOrderAt(i)
    BY <2>4, <2>5, <2>6 DEF InOrder, Using, Copies
  <2>7. ASSUME NEW i \in DOMAIN q, q[i].t = "write" PROVE InOrderAt(i)
    <3>1. i = 4
      BY <2>4, <2>7
    <3> QED
      BY <2>1, <2>3, <2>4, <2>5, <2>7, <3>1
         DEF InOrder, Makers, Suppliers, Registering, Using, Copies
  <2> QED
    BY <2>6, <2>7
<1> QED
  BY <1>6, <1>7, <1>8, <1>9, <1>10 DEF Operations

LEMMA BeginServes ==
  ASSUME NEW n \in Nodes, Serving(n), NEW c \in Clients, Begin(c)
  PROVE  Served(n)'
<1>1. /\ ~Busy(c) /\ res' = [res EXCEPT ![c] = Fine] /\ UNCHANGED <<fos, files, raced>>
  BY DEF Begin
<1>2. PICK r \in setup.requests : /\ todo' = [todo EXCEPT ![c] = Calls(r)]
                                  /\ cut' = cut \cup ({r.op} \cap {"RemoveAll", "Rename"})
  BY DEF Begin
<1>3. r \in [op : Operations, k : Keys, to : Keys, data : Seq(Bytes)]
      /\ r.op \notin {"RemoveAll", "Rename"} /\ TypeInv
  BY <1>2, TreeAssumption DEF Serving, Going, MemInv, TypeInv
<1>4. /\ todo'[c] = Calls(r) /\ res'[c] = Fine
      /\ \A d \in Clients \ {c} : todo'[d] = todo[d] /\ res'[d] = res[d]
  BY <1>1, <1>2, <1>3 DEF TypeInv
<1>5. /\ InTurn(fos, files, raced, n, Calls(r), Fine)
      /\ \A i \in DOMAIN Calls(r) : ~Copies(Calls(r)[i], n)
  BY <1>3, CallsTurn DEF Serving, Shadowed, OnlyRead
<1>6. \A d \in Clients : InTurn(fos', files', raced', n, todo'[d], res'[d])
  BY <1>1, <1>4, <1>5 DEF Serving, Served
<1>7. \A l \in Keys : l.n = n => ~FillsNow(todo'[c], l) /\ ~FillsNow(todo[c], l)
  <2>1. todo[c] = <<>>
    BY <1>1 DEF Busy
  <2> QED
    BY <1>4, <1>5, <2>1 DEF FillsNow, Has, Copies
<1>8. \A d \in Clients, l \in Keys : l.n = n => (FillsNow(todo'[d], l) <=> FillsNow(todo[d], l))
  BY <1>4, <1>7
<1>9. \A d \in Clients : Halfway(todo'[d], n) <=> Halfway(todo[d], n)
  <2>1. todo[c] = <<>>
    BY <1>1 DEF Busy
  <2>2. ~Halfway(todo[c], n) /\ ~Halfway(todo'[c], n)
    BY <1>4, <1>5, <2>1 DEF Halfway
  <2> QED
    BY <1>4, <2>2
<1>10. Grows(c) /\ SameAt(n)
  BY <1>1 DEF Grows, SameAt, Keeps
<1> QED
  BY <1>6, <1>8, <1>9, <1>10, StayServes

LEMMA InitServes == Init => ShadowInv
<1> SUFFICES ASSUME Init, NEW n \in Nodes PROVE Served(n)
  BY DEF Init, ShadowInv
<1>1. /\ files = <<>> /\ DOMAIN files = {}
      /\ \A c \in Clients : todo[c] = <<>> /\ DOMAIN todo[c] = {}
  BY DEF Init
<1>2. \A c \in Clients : InTurn(fos, files, raced, n, todo[c], res[c])
  BY <1>1 DEF InTurn
<1>3. \A c \in Clients, l \in Keys : ~FillsNow(todo[c], l)
  BY <1>1 DEF FillsNow, Has
<1> QED
  BY <1>1, <1>2, <1>3 DEF Served, Whole, FillsAlone

LEMMA NextServes ==
  ASSUME MemInv, MemInv', ListInv, ShadowInv, [Next]_vars, cut' = {}, "fatal" \notin panicked',
         NEW n \in Nodes, Shadowed(n)'
  PROVE  Served(n)'
<1>1. ASSUME Going, setup' = setup PROVE Serving(n)
  <2>1. Shadowed(n)
    BY <1>1 DEF Shadowed, Shadow, OnlyRead
  <2> QED
    BY <1>1, <2>1 DEF Serving, ShadowInv, Going
<1>2. CASE UNCHANGED <<setup, fos, files, todo, res, raced, cut, panicked>>
  <2>1. Shadowed(n)
    BY <1>2 DEF Shadowed, Shadow, OnlyRead
  <2>2. Served(n)
    BY <1>2, <2>1 DEF ShadowInv
  <2> QED
    BY <1>2, <2>2 DEF Served, Whole, FillsAlone, PartThere
<1>3. CASE UNCHANGED vars
  BY <1>2, <1>3 DEF vars
<1>4. ASSUME NEW c \in Clients, NEW d \in Clients, MapRace(c, d) PROVE FALSE
  BY <1>4 DEF MapRace
<1>5. ASSUME NEW c \in Clients,
             \/ Begin(c) \/ Lock(c) \/ Put(c) \/ Delete(c) \/ Move(c) \/ Chmod(c) \/ Touch(c)
             \/ Open(c) \/ ShadowDir(c) \/ Mkdir(c) \/ Enter(c) \/ Created(c) \/ Write(c)
             \/ Copy(c) \/ CopyFails(c) \/ CloseFile(c) \/ Reopen(c) \/ Fetch(c) \/ List(c) \/ Pass(c) \/ RemoveAll(c)
             \/ RemoveNext(c) \/ RemoveDone(c) \/ RemoveBack(c) \/ Unregister(c) \/ Rename(c)
      PROVE  Served(n)'
  <2>1. CASE Begin(c)
    <3>1. Going /\ setup' = setup
      BY <2>1 DEF Begin, Going
    <3> QED
      BY <1>1, <2>1, <3>1, BeginServes
  <2>2. CASE Lock(c)
    BY <1>2, <2>2 DEF Lock
  <2>3. CASE Put(c) \/ Chmod(c) \/ Touch(c) \/ ShadowDir(c) \/ Mkdir(c) \/ Enter(c)
    <3>1. Going /\ setup' = setup
      BY <2>3 DEF Put, Chmod, Touch, ShadowDir, Mkdir, Enter, Going
    <3>2. Serving(n)
      BY <1>1, <3>1
    <3> QED
      BY <2>3, <3>2, PutServes, ChmodServes, QuietServes, CreatedServes, MkdirServes, EnterServes
  <2>4. CASE \/ Created(c) \/ Write(c) \/ Copy(c) \/ CopyFails(c)
             \/ CloseFile(c) \/ Reopen(c)
    <3>1. Going /\ setup' = setup
      BY <2>4 DEF Created, Write, Copy, CopyFails, Panics, CloseFile, Reopen, Going
    <3>2. Serving(n)
      BY <1>1, <3>1
    <3> QED
      BY <2>4, <3>2, CreatedServes, WriteServes, CopyServes, CopyFailsServes, QuietServes
  <2>5. CASE Fetch(c) \/ List(c) \/ Pass(c)
    <3>1. Going /\ setup' = setup
      BY <2>5 DEF Fetch, List, Panics, Pass, Going
    <3>2. Serving(n)
      BY <1>1, <3>1
    <3> QED
      BY <2>5, <3>2, QuietServes
  <2>6. CASE Open(c)
    <3>1. Going /\ setup' = setup
      BY <2>6 DEF Open, Going
    <3> QED
      BY <1>1, <2>6, <3>1, OpenServes
  <2>7. CASE \/ Delete(c) \/ Move(c) \/ RemoveAll(c) \/ RemoveNext(c) \/ RemoveDone(c)
             \/ RemoveBack(c) \/ Unregister(c) \/ Rename(c)
    <3>1. Busy(c) /\ Top(c).t \in Removals
      BY <2>7 DEF Delete, Move, RemoveAll, RemoveNext, RemoveDone, RemoveBack, Unregister, Rename,
                  At, Top, Removals, LoopTags
    <3>2. cut = {}
      BY <2>7 DEF Delete, Move, RemoveAll, RemoveNext, RemoveDone, RemoveBack, Unregister, Rename
    <3> QED
      BY <3>1, <3>2, TopSound
  <2> QED
    BY <1>5, <2>1, <2>2, <2>3, <2>4, <2>5, <2>6, <2>7
<1> QED
  BY <1>3, <1>4, <1>5 DEF Next

\* The process ends with a fatal error.
LEMMA FatalEnds ==
  ASSUME ShadowInv, [Next]_vars, "fatal" \in panicked', NEW e \in Clients
  PROVE  todo'[e] = <<>>
<1>1. CASE UNCHANGED vars
  BY <1>1 DEF vars, ShadowInv
<1>2. ASSUME NEW c \in Clients, NEW d \in Clients, MapRace(c, d) PROVE todo'[e] = <<>>
  BY <1>2 DEF MapRace
<1>3. ASSUME NEW c \in Clients,
             \/ Begin(c) \/ Lock(c) \/ Put(c) \/ Delete(c) \/ Move(c) \/ Chmod(c) \/ Touch(c)
             \/ Open(c) \/ ShadowDir(c) \/ Mkdir(c) \/ Enter(c) \/ Created(c) \/ Write(c)
             \/ Copy(c) \/ CopyFails(c) \/ CloseFile(c) \/ Reopen(c) \/ Fetch(c) \/ List(c) \/ Pass(c) \/ RemoveAll(c)
             \/ RemoveNext(c) \/ RemoveDone(c) \/ RemoveBack(c) \/ Unregister(c) \/ Rename(c)
      PROVE  FALSE
  <2>1. Busy(c) \/ "fatal" \notin panicked
    BY <1>3 DEF Begin, Lock, Put, Delete, Move, Chmod, Touch, Open, ShadowDir, Mkdir, Enter, Created,
                Write, Copy, CopyFails, CloseFile, Reopen, Fetch, List, Pass, RemoveAll,
                RemoveNext, RemoveDone, RemoveBack, Unregister, Rename, At
  <2>2. \/ UNCHANGED panicked \/ panicked' = panicked \cup {"root unregistered"}
        \/ panicked' = panicked \cup {"write to nil"}
        \/ panicked' = panicked \cup {"nil entry listed"}
    <3>1. CASE Write(c)
      BY <3>1, Zenon DEF Write, Panics
    <3>2. CASE List(c)
      BY <3>2, Zenon DEF List, Panics
    <3>3. CASE RemoveBack(c)
      BY <3>3, Zenon DEF RemoveBack
    <3>4. CASE Copy(c)
      BY <3>4, Zenon DEF Copy, Panics
    <3>5. CASE ~(Write(c) \/ Copy(c) \/ List(c) \/ RemoveBack(c))
      BY <1>3, <3>5 DEF Begin, Lock, Put, Delete, Move, Chmod, Touch, Open, ShadowDir, Mkdir,
                        Enter, Created, CopyFails, CloseFile, Reopen, Fetch, Pass, RemoveAll, RemoveNext,
                        RemoveDone, Unregister, Rename
    <3> QED
      BY <3>1, <3>2, <3>3, <3>4, <3>5
  <2>3. "fatal" \in panicked' => "fatal" \in panicked
    <3>1. \A why \in {"root unregistered", "write to nil", "nil entry listed"} : why # "fatal"
      BY Zenon
    <3>2. \/ panicked' = panicked
          \/ \E why : why # "fatal" /\ panicked' = panicked \cup {why}
      BY <2>2, <3>1, Zenon
    <3> QED
      BY <3>2
  <2> QED
    BY <2>1, <2>3 DEF ShadowInv, Busy
<1> QED
  BY <1>1, <1>2, <1>3 DEF Next

LEMMA NextShadow == MemInv /\ MemInv' /\ ListInv /\ ShadowInv /\ [Next]_vars => ShadowInv'
<1> SUFFICES ASSUME MemInv, MemInv', ListInv, ShadowInv, [Next]_vars PROVE ShadowInv'
  OBVIOUS
<1>1. "fatal" \in panicked' => \A e \in Clients : todo'[e] = <<>>
  BY FatalEnds
<1>2. cut' = {} /\ "fatal" \notin panicked' => \A n \in Nodes : Shadowed(n)' => Served(n)'
  BY NextServes
<1> QED
  BY <1>1, <1>2 DEF ShadowInv

\* While nobody removes or renames, a reader gets all of a file of the file system
\* behind that no request writes, unless another client is still filling it or two
\* filled it at once, or its filling failed or was set back by another client that
\* opened the file (memfs, Open and ReadFile).
THEOREM ShadowIsServed == Spec => []ServesShadow
<1>1. MemInv /\ ShadowInv => ServesShadow
  <2> SUFFICES ASSUME MemInv, ShadowInv, NEW c \in Clients, At(c, "fetch"), IsFile(res[c]),
                      cut = {}, Top(c).k.n \in DOMAIN Shadow, Shadow[Top(c).k.n] = "file",
                      OnlyRead(Top(c).k.n), raced \cap {Top(c).k, Other(Top(c).k)} = {},
                      files[res[c]].data # <<Top(c).k.n, Top(c).k.n>>, ~files[res[c]].torn
               PROVE  \E d \in Clients \ {c} : \E i \in DOMAIN todo[d] :
                        todo[d][i].t = "copy" /\ todo[d][i].k.n = Top(c).k.n
    BY DEF ServesShadow
  <2> DEFINE k == Top(c).k
             n == k.n
             x == res[c]
             q == todo[c]
  <2>1. /\ Busy(c) /\ Top(c).t = "fetch" /\ k \in Keys /\ n \in Nodes
        /\ Top(c) = q[1] /\ 1 \in DOMAIN q /\ x \in DOMAIN files /\ TypeInv
    BY TopTyped, KeysHave DEF At, Top, MemInv
  <2>2. Served(n)
    <3>1. "fatal" \notin panicked
      BY <2>1 DEF ShadowInv, Busy
    <3>2. Shadowed(n)
      BY DEF Shadowed
    <3> QED
      BY <2>1, <3>1, <3>2 DEF ShadowInv
  <2>3. InOrder(fos, files, raced, n, q, x, 1)
    BY <2>1, <2>2 DEF Served, InTurn
  <2>4. files[x].name.n = n /\ Len(q) = 1
    BY <2>1, <2>3 DEF InOrder, Using
  <2>5. files[x].name \in Keys
    BY <2>1, FileTyped DEF File
  <2>6. files[x].name \notin raced
    BY <2>1, <2>4, <2>5, SameNode
  <2>7. PICK d \in Clients : FillsNow(todo[d], files[x].name)
    BY <2>1, <2>2, <2>4, <2>6 DEF Served, Whole
  <2>8. PICK i \in DOMAIN todo[d] : todo[d][i].t = "copy" /\ todo[d][i].k = files[x].name
    BY <2>7 DEF FillsNow, Has
  <2>9. d # c
    <3>1. q \in Seq(Tasks(Len(files)))
      BY <2>1 DEF TypeInv
    <3> HIDE DEF q
    <3>2. DOMAIN q = {1}
      BY <2>4, <3>1, LenProperties
    <3> QED
      BY <2>1, <2>8, <3>2 DEF q
  <2> QED
    BY <2>4, <2>8, <2>9
<1>2. Spec => []ListInv
  BY InitLists, NextLists, Inductive, PTL DEF Spec
<1>3. Spec => []ShadowInv
  BY <1>2, InitServes, NextShadow, Inductive, PTL DEF Spec
<1> QED
  BY <1>1, <1>3, Inductive, PTL

-----------------------------------------------------------------------------
(***************************************************************************)
(* An open file that clients share.  As long as nobody has moved it, it is *)
(* what was written, its position is at its end, and so is that which a    *)
(* Write has read.  And as long as one client alone lists, the position in *)
(* the listing is where that client has got to.                            *)
(***************************************************************************)
WritesInTurn ==
  /\ written \in Seq(Clients) /\ data = written /\ at = Len(written)
  /\ \A u \in Clients : /\ arg[u] \in Nat
                        /\ pc[u] = "write2" => /\ arg[u] = Len(written)
                                               /\ \A v \in Clients : pc[v] = "write2" => v = u

ListsAlone ==
  /\ fetchPos \in {0, entries} /\ listers \subseteq Clients
  /\ listers = {} => fetchPos = 0
  /\ \A u \in Clients :
       /\ pc[u] = "eof" => u \in listers
       /\ listers = {u} /\ pc[u] = "eof" => seen[u] = entries /\ fetchPos = 0
       /\ listers = {u} /\ fetchPos # 0 => seen[u] = entries

OfClients(f) == DOMAIN f = Clients

ObjectInv ==
  /\ OfClients(pc) /\ OfClients(arg) /\ OfClients(seen)
  /\ ~moved => WritesInTurn
  /\ ListsAlone

LEMMA ObjectStarts == O!FInit => ObjectInv
BY EmptySeq DEF O!FInit, ObjectInv, OfClients, WritesInTurn, ListsAlone

\* A write at the end of a file appends.
LEMMA AppendsAtEnd ==
  ASSUME NEW S, NEW s \in Seq(S), NEW e \in S
  PROVE  O!Written(s, Len(s), <<e>>) = Append(s, e)
<1>1. PICK n : n = Len(s)
  OBVIOUS
<1>2. n \in Nat /\ n + 2 \in Int /\ n < n + 2
  BY <1>1, LenProperties
<1>3. SubSeq(s, 1, n) = s
  BY <1>1, SubSeqFull
<1>4. SubSeq(s, n + 2, n) = <<>>
  BY <1>2, SubSeqEmpty
<1>5. O!Written(s, n, <<e>>) = SubSeq(s, 1, n) \o <<e>> \o SubSeq(s, n + 2, n)
  <2>1. Len(<<e>>) = 1 /\ n + 1 + 1 = n + 2 /\ ~(n > n)
    BY <1>2
  <2>2. O!Written(s, n, <<e>>) = SubSeq(s, 1, n) \o <<e>> \o SubSeq(s, n + Len(<<e>>) + 1, n)
    BY <1>1, <2>1 DEF O!Written
  <2> QED
    BY <2>1, <2>2
<1>6. <<e>> \in Seq(S) /\ s \o <<e>> \in Seq(S) /\ s \o <<e>> = Append(s, e)
  BY ConcatProperties, AppendIsConcat
<1>7. (s \o <<e>>) \o <<>> = s \o <<e>>
  BY <1>6, ConcatEmptySeq
<1> QED
  BY <1>1, <1>3, <1>4, <1>5, <1>6, <1>7

LEMMA ObjectGoesOn == ObjectInv /\ [O!FNext]_O!fvars => ObjectInv'
<1> SUFFICES ASSUME ObjectInv, [O!FNext]_O!fvars PROVE ObjectInv'
  OBVIOUS
<1> USE DEF ObjectInv
<1>1. CASE UNCHANGED O!fvars
  BY <1>1 DEF O!fvars, OfClients, WritesInTurn, ListsAlone
<1>2. ASSUME NEW u \in Clients, O!Call(u) PROVE ObjectInv'
  <2>1. PICK l \in {"write", "read", "truncate", "close", "list"} : pc' = [pc EXCEPT ![u] = l]
    BY <1>2 DEF O!Call, O!Goto
  <2>2. PICK n \in 0..MaxLen : arg' = [arg EXCEPT ![u] = n]
    BY <1>2 DEF O!Call
  <2>3. n \in Nat
    BY <2>2, ObjectAssumption
  <2>4. UNCHANGED <<entries, data, at, fetchPos, written, moved, seen, listers>>
    BY <1>2 DEF O!Call, O!fixed, O!history
  <2> QED
    BY <2>1, <2>2, <2>3, <2>4 DEF OfClients, WritesInTurn, ListsAlone
<1>3. ASSUME NEW u \in Clients, O!Open(u) PROVE ObjectInv'
  BY <1>3 DEF O!Open, O!fixed, OfClients, ListsAlone
<1>4. ASSUME NEW u \in Clients, O!Position(u) PROVE ObjectInv'
  <2>1. PICK l \in {"read", "write", "idle"} : pc' = [pc EXCEPT ![u] = l]
    BY <1>4 DEF O!Position, O!Goto
  <2>2. /\ moved' = TRUE /\ arg' = [arg EXCEPT ![u] = 1]
        /\ UNCHANGED <<entries, fetchPos, seen, listers>>
    BY <1>4 DEF O!Position, O!fixed
  <2> QED
    BY <2>1, <2>2 DEF OfClients, ListsAlone
<1>5. ASSUME NEW u \in Clients, O!WritePosition(u) PROVE ObjectInv'
  <2>1. /\ arg' = [arg EXCEPT ![u] = at] /\ pc' = [pc EXCEPT ![u] = "write2"]
        /\ moved' = (moved \/ \E v \in Clients \ {u} : pc[v] = "write2")
        /\ UNCHANGED <<entries, data, at, fetchPos, written, seen, listers>>
    BY <1>5 DEF O!WritePosition, O!Goto, O!fixed
  <2>2. ASSUME ~moved' PROVE WritesInTurn'
    <3>1. ~moved /\ \A v \in Clients \ {u} : pc[v] # "write2"
      BY <2>1, <2>2
    <3>2. Len(written) \in Nat
      BY <3>1, LenProperties DEF WritesInTurn
    <3> QED
      BY <2>1, <3>1, <3>2 DEF OfClients, WritesInTurn
  <2> QED
    BY <2>1, <2>2 DEF OfClients, ListsAlone
<1>6. ASSUME NEW u \in Clients, O!WriteBytes(u) PROVE ObjectInv'
  <2>1. /\ pc[u] = "write2" /\ pc' = [pc EXCEPT ![u] = "idle"]
        /\ data' = O!Written(data, arg[u], <<u>>) /\ at' = Len(data')
        /\ written' = Append(written, u)
        /\ UNCHANGED <<entries, arg, fetchPos, moved, seen, listers>>
    BY <1>6 DEF O!WriteBytes, O!Goto, O!fixed
  <2>2. ASSUME ~moved PROVE WritesInTurn'
    <3>1. WritesInTurn /\ written \in Seq(Clients) /\ Append(written, u) \in Seq(Clients)
      BY <2>2, AppendProperties DEF WritesInTurn
    <3>2. O!Written(written, Len(written), <<u>>) = Append(written, u)
      BY <3>1, AppendsAtEnd
    <3>3. data' = written' /\ at' = Len(written') /\ written' \in Seq(Clients)
      BY <2>1, <3>1, <3>2 DEF WritesInTurn
    <3>4. \A v \in Clients : arg'[v] \in Nat /\ pc'[v] # "write2"
      BY <2>1, <3>1 DEF WritesInTurn, OfClients
    <3> QED
      BY <3>3, <3>4 DEF WritesInTurn
  <2> QED
    BY <2>1, <2>2 DEF OfClients, ListsAlone
<1>7. ASSUME NEW u \in Clients, O!Read(u) PROVE ObjectInv'
  <2>1. /\ pc' = [pc EXCEPT ![u] = "idle"]
        /\ UNCHANGED <<entries, data, arg, fetchPos, written, moved, seen, listers>>
    BY <1>7 DEF O!Read, O!Goto, O!fixed
  <2>2. ASSUME ~moved PROVE at' = at
    <3>1. at = Len(data) /\ at \in Nat /\ arg[u] \in Nat
      BY <2>2, LenProperties DEF WritesInTurn
    <3> QED
      BY <1>7, <3>1 DEF O!Read, O!Size
  <2> QED
    BY <2>1, <2>2 DEF OfClients, WritesInTurn, ListsAlone
<1>8. ASSUME NEW u \in Clients, O!Compare(u) PROVE ObjectInv'
  <2>1. PICK l \in {"idle", "extend", "shorten"} : pc' = [pc EXCEPT ![u] = l]
    BY <1>8 DEF O!Compare, O!Goto
  <2>2. PICK n : n = IF arg[u] > Len(data) THEN arg[u] - Len(data) ELSE arg[u]
    OBVIOUS
  <2>3. /\ arg' = [arg EXCEPT ![u] = n]
        /\ UNCHANGED <<entries, data, at, fetchPos, written, moved, seen, listers>>
    BY <1>8, <2>2 DEF O!Compare, O!Size, O!fixed, O!history
  <2>4. ~moved => n \in Nat
    BY <2>2, LenProperties DEF WritesInTurn
  <2> QED
    BY <2>1, <2>3, <2>4 DEF OfClients, WritesInTurn, ListsAlone
<1>9. ASSUME NEW u \in Clients, O!Resize(u) PROVE ObjectInv'
  <2>1. /\ pc' = [pc EXCEPT ![u] = "idle"] /\ moved' = TRUE
        /\ UNCHANGED <<entries, arg, fetchPos, seen, listers>>
    BY <1>9 DEF O!Resize, O!Goto, O!fixed
  <2> QED
    BY <2>1 DEF OfClients, ListsAlone
<1>10. ASSUME NEW u \in Clients, O!Close(u) PROVE ObjectInv'
  BY <1>10 DEF O!Close, O!Goto, O!fixed, OfClients, ListsAlone
<1>11. ASSUME NEW u \in Clients, O!CloseLocked(u) PROVE ObjectInv'
  BY <1>11 DEF O!CloseLocked, O!Goto, O!fixed, OfClients, WritesInTurn, ListsAlone
<1>12. ASSUME NEW u \in Clients, O!Readdir(u) PROVE ObjectInv'
  <2>1. /\ pc[u] = "list" /\ listers' = listers \cup {u}
        /\ UNCHANGED <<entries, data, at, arg, written, moved>>
    BY <1>12 DEF O!Readdir, O!fixed
  <2>2. CASE fetchPos = 0
    <3>1. /\ fetchPos' = entries /\ seen' = [seen EXCEPT ![u] = entries]
          /\ pc' = [pc EXCEPT ![u] = "idle"]
      BY <1>12, <2>2 DEF O!Readdir, O!Goto
    <3> QED
      BY <2>1, <3>1 DEF OfClients, WritesInTurn, ListsAlone
  <2>3. CASE fetchPos # 0
    <3>1. fetchPos' = 0 /\ UNCHANGED seen /\ pc' = [pc EXCEPT ![u] = "eof"]
      BY <1>12, <2>3 DEF O!Readdir, O!Goto
    <3> QED
      BY <2>1, <2>3, <3>1 DEF OfClients, WritesInTurn, ListsAlone
  <2> QED
    BY <2>2, <2>3
<1>13. ASSUME NEW u \in Clients, O!Listed(u) PROVE ObjectInv'
  <2>1. /\ pc[u] = "eof" /\ seen' = [seen EXCEPT ![u] = 0] /\ pc' = [pc EXCEPT ![u] = "idle"]
        /\ UNCHANGED <<entries, data, at, fetchPos, arg, written, moved, listers>>
    BY <1>13 DEF O!Listed, O!Goto, O!fixed
  <2> QED
    BY <2>1 DEF OfClients, WritesInTurn, ListsAlone
<1> QED
  BY <1>1, <1>2, <1>3, <1>4, <1>5, <1>6, <1>7, <1>8, <1>9, <1>10, <1>11, <1>12, <1>13 DEF O!FNext

\* What clients write one after the other is the file, and a client that lists
\* alone is told EOF only when it has had the entries (Write and Readdir of the
\* file objects of memfs and dsfs, and all that moves what they share).
THEOREM WritesAreKept == O!FSpec => []NothingSkipped
<1>1. ObjectInv => NothingSkipped
  BY DEF ObjectInv, WritesInTurn, ListsAlone, NothingSkipped, O!NothingSkipped
<1> QED
  BY <1>1, ObjectStarts, ObjectGoesOn, PTL DEF O!FSpec
=============================================================================
