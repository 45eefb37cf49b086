--------------------------- MODULE DsuBufferProofs ---------------------------
(***************************************************************************)
(* Theorems about DsuBuffer, for every number of requests, instances and   *)
(* attempts: what the memory of an instance may hold.                      *)
(***************************************************************************)
EXTENDS DsuBuffer, SequenceTheorems, TLAPS

-----------------------------------------------------------------------------
(* The inductive invariant.                                                *)

\* A value in memory was committed, or its put has not come to a good end; a get
\* carries what it read from the datastore.
Stored == ToSet(committed)
ValueInv ==
    /\ \A i \in Instances : memory[i] \in Requests =>
          memory[i] \in Stored \/ pc[memory[i]] \in InTx \union {"error", "dead"}
    /\ \A r \in Requests : pc[r] \in {"mcacheFill", "memoryFill"} =>
          got[r] \in Stored \union {Blank}

\* For instance i, value v is out of date because of other instances only.
UpToDate(v, i) == v \in Stored \union {Blank} /\ \A q \in After(v) : inst[q] # i

Current(i) ==
    \/ memory[i] = Nothing
    \/ \E r \in Requests : memory[i] = r /\ inst[r] = i /\ Outrun(r)
    \/ UpToDate(memory[i], i)

\* In orderly conditions a put is alone on its instance; while it is under way
\* the memory is its own, and otherwise it is current.
OrderlyInv ==
    orderly =>
        /\ \A r \in Requests : ~putErr[r]
        /\ \A q, r \in Requests :
              pc[r] \in InTx /\ q # r /\ inst[q] = inst[r] => pc[q] \in Ended
        /\ \A r \in Requests : pc[r] \in {"multicast", "commit"} => memory[inst[r]] = r
        /\ \A r \in Requests : pc[r] \in {"mcacheFill", "memoryFill"} => UpToDate(got[r], inst[r])
        /\ \A i \in Instances : (\A r \in Requests : inst[r] = i => pc[r] \notin InTx) => Current(i)

BufferInv == TypeOK /\ ValueInv /\ OrderlyInv

-----------------------------------------------------------------------------
(* The sequence of commits.                                                *)

LEMMA AfterMember ==
  ASSUME committed \in Seq(Requests), NEW v, NEW q
  PROVE  q \in After(v) <=> \E k \in 1 .. Len(committed) :
             q = committed[k] /\ \A j \in k .. Len(committed) : committed[j] # v
  BY DEF After

\* A commit makes its own value the last one, and outdates the others.
LEMMA CommitAppends ==
  ASSUME committed \in Seq(Requests), NEW r \in Requests, committed' = Append(committed, r)
  PROVE  /\ committed' \in Seq(Requests)
         /\ Stored' = Stored \union {r}
         /\ After(r)' = {}
         /\ \A v : After(v)' \subseteq After(v) \union {r}
<1>1. /\ Len(committed') = Len(committed) + 1 /\ Len(committed) \in Nat
      /\ committed'[Len(committed) + 1] = r
      /\ \A k \in 1 .. Len(committed) : committed'[k] = committed[k]
      /\ committed' \in Seq(Requests)
      /\ DOMAIN committed' = 1 .. Len(committed) + 1 /\ DOMAIN committed = 1 .. Len(committed)
  OBVIOUS
<1>2. Stored' = Stored \union {r}
  BY <1>1 DEF Stored, ToSet
<1>3. ASSUME NEW v, NEW q \in After(v)'
      PROVE  v # r /\ q \in After(v) \union {r}
  <2>1. PICK k \in 1 .. Len(committed') :
           q = committed'[k] /\ \A j \in k .. Len(committed') : committed'[j] # v
    BY <1>1, <1>3 DEF After
  <2>2. v # r
    BY <1>1, <2>1
  <2>3. CASE k = Len(committed) + 1
    BY <1>1, <2>1, <2>2, <2>3
  <2>4. CASE k \in 1 .. Len(committed)
    <3>1. q = committed[k] /\ \A j \in k .. Len(committed) : committed[j] # v
      BY <1>1, <2>1, <2>4
    <3> QED
      BY <2>2, <2>4, <3>1, AfterMember
  <2> QED
    BY <1>1, <2>3, <2>4
<1> QED
  BY <1>1, <1>2, <1>3

\* What the datastore yields is current.
LEMMA DatastoreCurrent ==
  ASSUME committed \in Seq(Requests)
  PROVE  datastore \in Stored \union {Blank} /\ After(datastore) = {}
<1>1. CASE committed = <<>>
  BY <1>1, AfterMember DEF datastore
<1>2. CASE committed # <<>>
  <2>1. Len(committed) \in Nat \ {0} /\ datastore = committed[Len(committed)]
    BY <1>2 DEF datastore
  <2>2. datastore \in Stored
    BY <2>1 DEF Stored, ToSet
  <2> QED
    BY <2>1, <2>2, AfterMember
<1> QED
  BY <1>1, <1>2

-----------------------------------------------------------------------------
(* The steps.                                                              *)

LEMMA BufferInit == Init => BufferInv
<1> SUFFICES ASSUME Init PROVE BufferInv
  OBVIOUS
<1>1. TypeOK
  BY DsuBufferAssumption DEF DsuBufferAssumption, Init, TypeOK, Values, Ended
<1>2. ValueInv
  BY DsuBufferAssumption DEF DsuBufferAssumption, Init, ValueInv
<1>3. OrderlyInv
  BY DEF Init, OrderlyInv, Current, InTx, Ended
<1> QED
  BY <1>1, <1>2, <1>3 DEF BufferInv

\* As long as nobody commits, what was current stays so.
LEMMA UpToDateKept ==
  ASSUME UNCHANGED <<committed, inst>>, NEW v, NEW i, UpToDate(v, i)
  PROVE  UpToDate(v, i)'
  BY DEF UpToDate, Stored, After

LEMMA CurrentKept ==
  ASSUME UNCHANGED <<committed, inst>>, NEW i, memory'[i] = memory[i], Current(i),
         \A q \in Requests : Outrun(q) => Outrun(q)'
  PROVE  Current(i)'
<1>1. UpToDate(memory[i], i) => UpToDate(memory[i], i)'
  BY DEF UpToDate, Stored, After
<1> QED
  BY <1>1 DEF Current, UpToDate, Stored, After

\* The steps of a put before it ends, and the begin of a get.
LEMMA PutStep ==
  ASSUME BufferInv, NEW r \in Requests, UNCHANGED orderly,
         \/ BeginPut(r) \/ BeginGet(r) \/ PutEntity(r) \/ PutMemcache(r) \/ MultiCast(r)
         \/ Retry(r) \/ FailPut(r)
  PROVE  BufferInv'
<1> USE DEF BufferInv, Goto
<1>1. /\ UNCHANGED <<committed, inst, got>> /\ Stored' = Stored
      /\ memory' = memory /\ memory \in [Instances -> Values \union {Nothing}]
  BY DEF BeginPut, BeginGet, PutEntity, PutMemcache, MultiCast, Retry, FailPut, Stored,
     Invalidate, TypeOK
<1>2. TypeOK'
  <2> USE DsuBufferAssumption DEF DsuBufferAssumption, TypeOK, Ended, InTx, Values
  <2>1. CASE BeginPut(r) \/ BeginGet(r)
    <3>1. pc' = [pc EXCEPT ![r] = "put"] \/ pc' = [pc EXCEPT ![r] = "memoryGet"]
      BY <2>1 DEF BeginPut, BeginGet
    <3>2. tries' \in [Requests -> 0 .. Attempts] /\ UNCHANGED <<behind, putErr, mcache>>
      BY <2>1 DEF BeginPut, BeginGet
    <3> QED
      BY <1>1, <3>1, <3>2
  <2>2. CASE PutEntity(r)
    <3>1. putErr' \in [Requests -> BOOLEAN]
      BY <2>2 DEF PutEntity, Failures
    <3> QED
      BY <2>2, <3>1 DEF PutEntity
  <2>3. CASE PutMemcache(r) \/ MultiCast(r)
    <3>1. mcache' \in Values \union {Nothing} /\ UNCHANGED <<tries, behind, putErr>>
      BY <2>3 DEF PutMemcache, MultiCast
    <3>2. pc' \in [Requests -> Ended \union InTx \union
                  {"memoryGet", "mcacheGet", "entityGet", "mcacheFill", "memoryFill"}]
      BY <2>3 DEF PutMemcache, MultiCast
    <3>3. \A q \in Requests : pc'[q] \in {"mcacheFill", "memoryFill"} => got[q] # Nothing
      BY <2>3 DEF PutMemcache, MultiCast
    <3> QED
      BY <1>1, <3>1, <3>2, <3>3
  <2>4. CASE Retry(r)
    BY <2>4 DEF Retry
  <2>5. CASE FailPut(r)
    BY <2>5 DEF FailPut
  <2> QED
    BY <2>1, <2>2, <2>3, <2>4, <2>5
<1>3. ValueInv'
  BY <1>1 DEF ValueInv, TypeOK, BeginPut, BeginGet, PutEntity, PutMemcache, MultiCast, Retry, FailPut,
     InTx
<1>4. \A q \in Requests : Outrun(q) => Outrun(q)'
  BY DEF TypeOK, Outrun, BeginPut, BeginGet, PutEntity, PutMemcache, MultiCast, Retry, FailPut
<1>5. ASSUME orderly
      PROVE  /\ \A q \in Requests : ~putErr'[q]
             /\ \A p, q \in Requests :
                   pc'[q] \in InTx /\ p # q /\ inst[p] = inst[q] => pc'[p] \in Ended
             /\ \A q \in Requests : pc'[q] \in {"multicast", "commit"} => memory[inst[q]] = q
  <2>1. \A q \in Requests : ~putErr'[q]
    BY <1>5 DEF OrderlyInv, TypeOK, BeginPut, BeginGet, PutEntity, PutMemcache, MultiCast, Retry,
       FailPut, Failures
  <2>2. CASE BeginPut(r) \/ BeginGet(r)
    <3>1. /\ pc[r] = "new" /\ pc' = [pc EXCEPT ![r] = IF BeginPut(r) THEN "put" ELSE "memoryGet"]
          /\ \A q \in Requests : inst[q] = inst[r] /\ pc[q] \notin Ended =>
                pc[q] \notin InTx /\ ~BeginPut(r)
      BY <1>5, <2>2 DEF BeginPut, BeginGet, Exclusive, InFlight
    <3> QED
      BY <1>5, <2>1, <3>1 DEF OrderlyInv, TypeOK, InTx, Ended
  <2>3. CASE PutEntity(r) \/ PutMemcache(r) \/ MultiCast(r) \/ Retry(r) \/ FailPut(r)
    <3>1. /\ pc[r] \in InTx /\ pc'[r] \in InTx \union {"error"}
          /\ pc' = [pc EXCEPT ![r] = pc'[r]]
          /\ pc'[r] \in {"multicast", "commit"} => pc[r] \in {"multicast", "commit"}
      BY <2>3 DEF PutEntity, PutMemcache, MultiCast, Retry, FailPut, InTx, TypeOK
    <3> QED
      BY <1>5, <2>1, <3>1 DEF OrderlyInv, TypeOK, InTx, Ended
  <2> QED
    BY <2>2, <2>3
<1>6. ASSUME orderly, NEW q \in Requests, pc'[q] \in {"mcacheFill", "memoryFill"}
      PROVE  UpToDate(got[q], inst[q])'
  <2>1. pc[q] \in {"mcacheFill", "memoryFill"}
    BY <1>6 DEF TypeOK, BeginPut, BeginGet, PutEntity, PutMemcache, MultiCast, Retry, FailPut
  <2>2. UpToDate(got[q], inst[q])
    BY <1>6, <2>1 DEF OrderlyInv
  <2> QED
    BY <1>1, <2>2 DEF UpToDate, After
<1>7. ASSUME orderly, NEW i \in Instances, \A q \in Requests : inst[q] = i => pc'[q] \notin InTx
      PROVE  Current(i)'
  <2>1. CASE FailPut(r) /\ inst[r] = i
    <3>1. memory[i] = r /\ Outrun(r)'
      BY <1>7, <2>1 DEF FailPut, OrderlyInv, Failures, Outrun, TypeOK
    <3> QED
      BY <1>1, <2>1, <3>1 DEF Current
  <2>2. CASE ~(FailPut(r) /\ inst[r] = i)
    <3>1. \A q \in Requests : inst[q] = i => pc[q] \notin InTx
      BY <1>7, <2>2 DEF TypeOK, BeginPut, BeginGet, PutEntity, PutMemcache, MultiCast, Retry, InTx,
         FailPut
    <3>2. Current(i)
      BY <1>7, <3>1 DEF OrderlyInv
    <3> QED
      BY <1>1, <1>4, <3>2, CurrentKept
  <2> QED
    BY <2>1, <2>2
<1>8. OrderlyInv'
  BY <1>1, <1>5, <1>6, <1>7 DEF OrderlyInv
<1> QED
  BY <1>2, <1>3, <1>8

LEMMA PutMemoryStep ==
  ASSUME BufferInv, NEW r \in Requests, UNCHANGED orderly, PutMemory(r) PROVE BufferInv'
<1> USE DEF BufferInv, Goto
<1>1. /\ UNCHANGED <<committed, inst, got, tries, behind, putErr, mcache>> /\ Stored' = Stored
      /\ memory' = [memory EXCEPT ![inst[r]] = r]
      /\ pc' = [pc EXCEPT ![r] = "multicast"] /\ pc[r] = "memorySet" /\ inst[r] \in Instances
  BY DEF PutMemory, Stored, TypeOK
<1>2. TypeOK'
  BY <1>1 DEF TypeOK, InTx, Values
<1>3. ValueInv'
  BY <1>1 DEF ValueInv, TypeOK, InTx
<1>4. ASSUME orderly
      PROVE  /\ \A q \in Requests : ~putErr[q]
             /\ \A p, q \in Requests :
                   pc'[q] \in InTx /\ p # q /\ inst[p] = inst[q] => pc'[p] \in Ended
             /\ \A q \in Requests : pc'[q] \in {"multicast", "commit"} => memory'[inst[q]] = q
  <2>1. \A q \in Requests : q # r /\ inst[q] = inst[r] => pc[q] \in Ended
    BY <1>1, <1>4 DEF OrderlyInv, InTx
  <2> QED
    BY <1>1, <1>4, <2>1 DEF OrderlyInv, TypeOK, InTx, Ended
<1>5. ASSUME orderly, NEW q \in Requests, pc'[q] \in {"mcacheFill", "memoryFill"}
      PROVE  UpToDate(got[q], inst[q])'
  BY <1>1, <1>5 DEF OrderlyInv, TypeOK, UpToDate, After
<1>6. ASSUME orderly, NEW i \in Instances, \A q \in Requests : inst[q] = i => pc'[q] \notin InTx
      PROVE  Current(i)'
  <2>1. i # inst[r] /\ memory'[i] = memory[i]
    BY <1>1, <1>6 DEF TypeOK, InTx
  <2>2. Current(i)
    BY <1>1, <1>6, <2>1 DEF OrderlyInv, TypeOK
  <2>3. \A q \in Requests : Outrun(q) => Outrun(q)'
    BY <1>1 DEF Outrun, TypeOK
  <2> QED
    BY <1>1, <2>1, <2>2, <2>3, CurrentKept
<1> QED
  BY <1>1, <1>2, <1>3, <1>4, <1>5, <1>6 DEF OrderlyInv

\* A commit outdates what other instances hold, and makes its own memory right.
LEMMA CommitStep ==
  ASSUME BufferInv, NEW r \in Requests, UNCHANGED orderly, Commit(r) PROVE BufferInv'
<1> USE DEF BufferInv, Goto
<1>1. /\ UNCHANGED <<inst, got, tries, putErr, mcache, memory>>
      /\ committed' = Append(committed, r) /\ committed \in Seq(Requests)
      /\ pc' = [pc EXCEPT ![r] = "ok"] /\ pc[r] = "commit"
      /\ behind' \in [Requests -> BOOLEAN] /\ \A q \in Requests : behind[q] => behind'[q]
  BY DEF Commit, TypeOK
<1>2. /\ committed' \in Seq(Requests) /\ Stored' = Stored \union {r}
      /\ After(r)' = {} /\ \A v : After(v)' \subseteq After(v) \union {r}
  BY <1>1, CommitAppends
<1>3. TypeOK'
  BY <1>1, <1>2 DEF TypeOK, Ended
<1>4. ValueInv'
  BY <1>1, <1>2 DEF ValueInv, TypeOK
<1>5. ASSUME NEW v, NEW i, i # inst[r], UpToDate(v, i) PROVE UpToDate(v, i)'
  BY <1>1, <1>2, <1>5 DEF UpToDate
<1>6. ASSUME orderly
      PROVE  /\ \A q \in Requests : ~putErr[q]
             /\ \A p, q \in Requests :
                   pc'[q] \in InTx /\ p # q /\ inst[p] = inst[q] => pc'[p] \in Ended
             /\ \A q \in Requests : pc'[q] \in {"multicast", "commit"} => memory[inst[q]] = q
  BY <1>1, <1>6 DEF OrderlyInv, TypeOK, InTx, Ended
<1>7. ASSUME orderly, NEW q \in Requests, pc'[q] \in {"mcacheFill", "memoryFill"}
      PROVE  UpToDate(got[q], inst[q])'
  <2>1. pc[q] \in {"mcacheFill", "memoryFill"} /\ q # r
    BY <1>1, <1>7 DEF TypeOK
  <2>2. UpToDate(got[q], inst[q]) /\ inst[q] # inst[r]
    BY <1>1, <1>7, <2>1 DEF OrderlyInv, InTx, Ended
  <2>3. PICK v, i : v = got[q] /\ i = inst[q]
    OBVIOUS
  <2>4. UpToDate(v, i)'
    BY <1>5, <2>2, <2>3
  <2> QED
    BY <1>1, <2>3, <2>4 DEF UpToDate, After
<1>8. ASSUME orderly, NEW i \in Instances, \A q \in Requests : inst[q] = i => pc'[q] \notin InTx
      PROVE  Current(i)'
  <2>1. CASE i = inst[r]
    <3>1. memory[i] = r
      BY <1>1, <1>8, <2>1 DEF OrderlyInv
    <3>2. UpToDate(memory[i], i)'
      BY <1>1, <1>2, <3>1 DEF UpToDate, After
    <3> QED
      BY <1>1, <3>2 DEF Current, UpToDate
  <2>2. CASE i # inst[r]
    <3>1. Current(i)
      BY <1>1, <1>8, <2>2 DEF OrderlyInv, TypeOK
    <3>2. \A q \in Requests : Outrun(q) => Outrun(q)'
      BY <1>1 DEF Outrun, TypeOK
    <3>3. UpToDate(memory[i], i) => UpToDate(memory[i], i)'
      <4>1. PICK v : v = memory[i]
        OBVIOUS
      <4>2. UpToDate(v, i) => UpToDate(v, i)'
        BY <1>5, <2>2
      <4> QED
        BY <1>1, <4>1, <4>2 DEF UpToDate, After
    <3> QED
      BY <1>1, <3>1, <3>2, <3>3 DEF Current
  <2> QED
    BY <2>1, <2>2
<1> QED
  BY <1>1, <1>3, <1>4, <1>6, <1>7, <1>8 DEF OrderlyInv

LEMMA GetStep ==
  ASSUME BufferInv, NEW r \in Requests, UNCHANGED orderly, Get(r) PROVE BufferInv'
<1> USE DEF BufferInv, Goto
<1>1. /\ UNCHANGED <<committed, inst, tries, putErr, behind>> /\ Stored' = Stored
      /\ pc[r] \in {"memoryGet", "mcacheGet", "entityGet", "mcacheFill", "memoryFill"}
      /\ pc' = [pc EXCEPT ![r] = pc'[r]]
      /\ pc'[r] \in {"mcacheGet", "entityGet", "mcacheFill", "memoryFill"} \union Ended
  BY DEF Get, MemoryHit, MemoryMiss, SkipMemcache, GetEntity, FillMemcache, FillMemory, Stored,
     TypeOK, Ended
<1>2. datastore \in Values /\ datastore \in Stored \union {Blank} /\ After(datastore) = {}
  <2>1. Stored \subseteq Requests
    BY DEF TypeOK, Stored, ToSet
  <2> QED
    BY <2>1, DatastoreCurrent DEF TypeOK, Values
<1>3. got' \in [Requests -> Values \union {Nothing}]
      /\ \A q \in Requests : q # r => got'[q] = got[q]
  BY <1>2 DEF Get, MemoryHit, MemoryMiss, SkipMemcache, GetEntity, FillMemcache, FillMemory, TypeOK
<1>4. /\ pc'[r] = "mcacheFill" => got'[r] = datastore
      /\ pc'[r] = "memoryFill" => pc[r] = "mcacheFill" /\ got' = got
  BY <1>1 DEF Get, MemoryHit, MemoryMiss, SkipMemcache, GetEntity, FillMemcache, FillMemory, TypeOK,
     Ended
<1>5. ASSUME NEW q \in Requests, pc'[q] \in {"mcacheFill", "memoryFill"}
      PROVE  \/ pc[q] \in {"mcacheFill", "memoryFill"} /\ got'[q] = got[q]
             \/ got'[q] = datastore
  BY <1>1, <1>3, <1>4, <1>5 DEF TypeOK
<1>6. \/ memory' = memory
      \/ pc[r] = "memoryFill" /\ memory' = [memory EXCEPT ![inst[r]] = got[r]]
  BY DEF Get, MemoryHit, MemoryMiss, SkipMemcache, GetEntity, FillMemcache, FillMemory
<1>7. TypeOK'
  <2>1. mcache' \in Values \union {Nothing}
    BY DEF Get, MemoryHit, MemoryMiss, SkipMemcache, GetEntity, FillMemcache, FillMemory, TypeOK
  <2>2. memory' \in [Instances -> Values \union {Nothing}]
    BY <1>6 DEF TypeOK
  <2>3. pc' \in [Requests -> Ended \union InTx \union
                  {"memoryGet", "mcacheGet", "entityGet", "mcacheFill", "memoryFill"}]
    BY <1>1 DEF TypeOK
  <2>4. \A q \in Requests : pc'[q] \in {"mcacheFill", "memoryFill"} => got'[q] # Nothing
    BY <1>2, <1>5, DsuBufferAssumption DEF TypeOK, Values, DsuBufferAssumption
  <2> QED
    BY <1>1, <1>3, <2>1, <2>2, <2>3, <2>4 DEF TypeOK
<1>8. ValueInv'
  <2>1. \A q \in Requests : pc'[q] \in {"mcacheFill", "memoryFill"} => got'[q] \in Stored \union {Blank}
    BY <1>2, <1>5 DEF ValueInv
  <2>2. ASSUME NEW i \in Instances, memory'[i] \in Requests
        PROVE  memory'[i] \in Stored \/ pc'[memory'[i]] \in InTx \union {"error", "dead"}
    <3>1. memory'[i] = memory[i] \/ memory'[i] \in Stored
      BY <1>6, <2>2, DsuBufferAssumption DEF TypeOK, ValueInv, DsuBufferAssumption
    <3> QED
      BY <1>1, <2>2, <3>1 DEF ValueInv, TypeOK, InTx
  <2> QED
    BY <1>1, <2>1, <2>2 DEF ValueInv
<1>9. ASSUME orderly PROVE OrderlyInv'
  <2>1. /\ \A q \in Requests : ~putErr[q]
        /\ \A p, q \in Requests :
              pc'[q] \in InTx /\ p # q /\ inst[p] = inst[q] => pc'[p] \in Ended
    BY <1>1, <1>9 DEF OrderlyInv, TypeOK, InTx, Ended
  <2>2. ASSUME NEW q \in Requests, pc'[q] \in {"multicast", "commit"} PROVE memory'[inst[q]] = q
    <3>1. pc[q] \in {"multicast", "commit"} /\ q # r
      BY <1>1, <2>2 DEF TypeOK, Ended
    <3>2. inst[q] # inst[r]
      BY <1>1, <1>9, <3>1 DEF OrderlyInv, InTx, Ended
    <3> QED
      BY <1>6, <1>9, <3>1, <3>2 DEF OrderlyInv, TypeOK
  <2>3. ASSUME NEW v, NEW i PROVE UpToDate(v, i) <=> v \in Stored' \union {Blank} /\ \A p \in After(v)' : inst'[p] # i
    BY <1>1 DEF UpToDate, After
  <2>4. ASSUME NEW q \in Requests, pc'[q] \in {"mcacheFill", "memoryFill"}
        PROVE  UpToDate(got'[q], inst[q])
    BY <1>2, <1>5, <1>9, <2>4 DEF OrderlyInv, UpToDate
  <2>5. ASSUME NEW i \in Instances, \A q \in Requests : inst[q] = i => pc'[q] \notin InTx
        PROVE  Current(i)'
    <3>1. \A q \in Requests : inst[q] = i => pc[q] \notin InTx
      BY <1>1, <2>5 DEF TypeOK, InTx
    <3>2. Current(i)
      BY <1>9, <3>1 DEF OrderlyInv
    <3>3. \A q \in Requests : Outrun(q) => Outrun(q)'
      BY <1>1 DEF Outrun, TypeOK
    <3>4. CASE memory'[i] = memory[i]
      BY <1>1, <3>2, <3>3, <3>4, CurrentKept
    <3>5. CASE memory'[i] = got[r] /\ pc[r] = "memoryFill" /\ i = inst[r]
      <4>1. UpToDate(got[r], i)
        BY <1>9, <3>5 DEF OrderlyInv
      <4> QED
        BY <1>1, <2>3, <3>5, <4>1 DEF Current, UpToDate
    <3> QED
      BY <1>6, <3>4, <3>5 DEF TypeOK
  <2>6. ASSUME NEW q \in Requests, pc'[q] \in {"mcacheFill", "memoryFill"}
        PROVE  UpToDate(got[q], inst[q])'
    BY <1>1, <2>3, <2>4, <2>6 DEF UpToDate
  <2> QED
    BY <1>1, <2>1, <2>2, <2>5, <2>6 DEF OrderlyInv
<1> QED
  BY <1>7, <1>8, <1>9 DEF OrderlyInv

\* A restart empties the memory at any step of any request.
LEMMA RestartStep ==
  ASSUME BufferInv, NEW j \in Instances, UNCHANGED orderly, Restart(j) PROVE BufferInv'
<1> USE DEF BufferInv
<1>1. /\ UNCHANGED <<committed, inst, got, tries, behind, putErr, mcache>> /\ Stored' = Stored
      /\ memory' = [memory EXCEPT ![j] = Nothing]
      /\ pc' \in [Requests -> Ended \union InTx \union
                     {"memoryGet", "mcacheGet", "entityGet", "mcacheFill", "memoryFill"}]
      /\ \A q \in Requests :
            pc'[q] = IF inst[q] = j /\ pc[q] \notin Ended THEN "dead" ELSE pc[q]
  BY DEF Restart, Stored, TypeOK, Ended
<1>2. TypeOK'
  BY <1>1 DEF TypeOK, Ended
<1>3. ValueInv'
  BY <1>1, DsuBufferAssumption DEF ValueInv, TypeOK, DsuBufferAssumption, InTx
<1>4. ASSUME orderly PROVE OrderlyInv'
  <2>1. /\ \A q \in Requests : ~putErr[q]
        /\ \A p, q \in Requests :
              pc'[q] \in InTx /\ p # q /\ inst[p] = inst[q] => pc'[p] \in Ended
        /\ \A q \in Requests : pc'[q] \in {"multicast", "commit"} => memory'[inst[q]] = q
    BY <1>1, <1>4 DEF OrderlyInv, TypeOK, InTx, Ended
  <2>2. ASSUME NEW q \in Requests, pc'[q] \in {"mcacheFill", "memoryFill"}
        PROVE  UpToDate(got[q], inst[q])'
    BY <1>1, <1>4, <2>2 DEF OrderlyInv, UpToDate, After
  <2>3. ASSUME NEW i \in Instances, \A q \in Requests : inst[q] = i => pc'[q] \notin InTx
        PROVE  Current(i)'
    <3>1. CASE i = j
      BY <1>1, <3>1 DEF Current, TypeOK
    <3>2. CASE i # j
      <4>1. Current(i) /\ memory'[i] = memory[i]
        BY <1>1, <1>4, <2>3, <3>2 DEF OrderlyInv, TypeOK
      <4>2. \A q \in Requests : Outrun(q) => Outrun(q)'
        BY <1>1 DEF Outrun, Ended
      <4> QED
        BY <1>1, <4>1, <4>2, CurrentKept
    <3> QED
      BY <3>1, <3>2
  <2> QED
    BY <1>1, <2>1, <2>2, <2>3 DEF OrderlyInv
<1> QED
  BY <1>2, <1>3, <1>4 DEF OrderlyInv

LEMMA BufferInvariant == Spec => []BufferInv
<1>1. ASSUME BufferInv, (Evict /\ UNCHANGED orderly) \/ UNCHANGED vars PROVE BufferInv'
  <2>1. UNCHANGED <<committed, memory, request, orderly>> /\ mcache' \in {mcache, Nothing}
    BY <1>1 DEF Evict, vars
  <2> QED
    BY <1>1, <2>1 DEF BufferInv, request, TypeOK, ValueInv, OrderlyInv, Current, UpToDate,
       Stored, After, Outrun
<1>2. BufferInv /\ [Next]_vars => BufferInv'
  BY <1>1, PutStep, PutMemoryStep, CommitStep, GetStep, RestartStep DEF Next, Put
<1> QED
  BY <1>2, BufferInit, PTL DEF Spec

-----------------------------------------------------------------------------
\* Memory is written before the commit and refilled from an old read
\* (put_get_buffered.go:25-100): it is right all the same where requests do not
\* overlap, but for a put that was outrun in every attempt; and whatever happens,
\* a value that was never stored belongs to a put without success.
THEOREM MemoryIsCoherent == Spec => []MemoryCoherent
<1>1. BufferInv => MemoryCoherent
  <2> SUFFICES ASSUME BufferInv, NEW i \in Instances
               PROVE  /\ orderly /\ InFlight(i) = {} /\ memory[i] # Nothing =>
                            \/ \E r \in Requests : memory[i] = r /\ inst[r] = i /\ Outrun(r)
                            \/ /\ memory[i] \in Requests => memory[i] \in ToSet(committed)
                               /\ \A r \in After(memory[i]) : inst[r] # i
                      /\ memory[i] \in Requests \ ToSet(committed) => pc[memory[i]] # "ok"
    BY DEF MemoryCoherent, BufferInv
  <2>1. ASSUME InFlight(i) = {} PROVE \A r \in Requests : inst[r] = i => pc[r] \notin InTx
    BY <2>1 DEF InFlight, InTx, Ended
  <2>2. ASSUME orderly, InFlight(i) = {}, memory[i] # Nothing
        PROVE  \/ \E r \in Requests : memory[i] = r /\ inst[r] = i /\ Outrun(r)
               \/ /\ memory[i] \in Requests => memory[i] \in ToSet(committed)
                  /\ \A r \in After(memory[i]) : inst[r] # i
    <3>1. Current(i)
      BY <2>1, <2>2 DEF BufferInv, OrderlyInv
    <3> QED
      BY <2>2, <3>1, DsuBufferAssumption DEF Current, UpToDate, Stored, DsuBufferAssumption
  <2>3. ASSUME memory[i] \in Requests \ ToSet(committed) PROVE pc[memory[i]] # "ok"
    BY <2>3 DEF BufferInv, ValueInv, Stored, InTx
  <2> QED
    BY <2>2, <2>3
<1> QED
  BY <1>1, BufferInvariant, PTL
=============================================================================
