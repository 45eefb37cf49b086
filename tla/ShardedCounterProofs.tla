------------------------ MODULE ShardedCounterProofs ------------------------
(***************************************************************************)
(* Theorems about ShardedCounter, for every number of requests, shards and *)
(* memcache keys: no increment is lost or counted twice, and a count lies  *)
(* between what was indexed when it began and what is stored when it ends. *)
(***************************************************************************)
EXTENDS ShardedCounter, FunctionTheorems, FiniteSetTheorems, TLAPS

-----------------------------------------------------------------------------
(* Sums over shards.                                                       *)

LEMMA UnitsMember ==
  ASSUME NEW f, NEW u
  PROVE  u \in Units(f) <=> \E s \in DOMAIN f : \E i \in 1 .. f[s] : u = <<s, i>>
  BY DEF Units

LEMMA UnitsFinite ==
  ASSUME NEW S, IsFiniteSet(S), NEW f \in [S -> Nat]
  PROVE  IsFiniteSet(Units(f)) /\ Sum(f) \in Nat
<1> DEFINE column == [s \in S |-> {s} \X (1 .. f[s])]
           Columns == {{s} \X (1 .. f[s]) : s \in DOMAIN f}
<1>1. column \in Surjection(S, Columns)
  <2>1. column \in [S -> Columns]
    OBVIOUS
  <2>2. \A t \in Columns : \E s \in S : column[s] = t
    OBVIOUS
  <2> QED
    BY <2>1, <2>2, Fun_IsSurj
<1>2. IsFiniteSet(Columns)
  BY <1>1, FS_Surjection
<1>3. \A t \in Columns : IsFiniteSet(t)
  <2> SUFFICES ASSUME NEW s \in S PROVE IsFiniteSet({s} \X (1 .. f[s]))
    OBVIOUS
  <2>1. IsFiniteSet({s}) /\ IsFiniteSet(1 .. f[s])
    <3>1. f[s] \in Int
      OBVIOUS
    <3>2. IsFiniteSet(1 .. f[s])
      BY <3>1, FS_Interval
    <3> QED
      BY <3>2, FS_Singleton
  <2> QED
    BY <2>1, FS_Product
<1>4. IsFiniteSet(UNION Columns)
  BY <1>2, <1>3, FS_UNION
<1> QED
  BY <1>4, FS_CardinalityType DEF Units, Sum

LEMMA SumMonotone ==
  ASSUME NEW S, NEW T, S \subseteq T, IsFiniteSet(T), NEW f \in [S -> Nat], NEW g \in [T -> Nat],
         \A s \in S : f[s] <= g[s]
  PROVE  Sum(f) <= Sum(g)
<1>1. Units(f) \subseteq Units(g)
  BY UnitsMember
<1> QED
  BY <1>1, UnitsFinite, FS_Subset DEF Sum

LEMMA SumIncrement ==
  ASSUME NEW S, IsFiniteSet(S), NEW f \in [S -> Nat], NEW s \in S
  PROVE  Sum([f EXCEPT ![s] = f[s] + 1]) = Sum(f) + 1
<1> DEFINE g == [f EXCEPT ![s] = f[s] + 1]
           u == <<s, f[s] + 1>>
<1>1. Units(g) = Units(f) \union {u}
  <2>1. /\ g \in [S -> Nat] /\ DOMAIN g = S /\ DOMAIN f = S
        /\ g[s] = f[s] + 1 /\ f[s] \in Nat
        /\ \A t \in S : t # s => g[t] = f[t]
    OBVIOUS
  <2> HIDE DEF g
  <2>2. \A x : x \in Units(g) <=> \E t \in S : \E i \in 1 .. g[t] : x = <<t, i>>
    BY <2>1, UnitsMember
  <2>3. \A x : x \in Units(f) <=> \E t \in S : \E i \in 1 .. f[t] : x = <<t, i>>
    BY <2>1, UnitsMember
  <2>4. ASSUME NEW t \in S, NEW i PROVE i \in 1 .. g[t] <=> i \in 1 .. f[t] \/ <<t, i>> = u
    BY <2>1
  <2> QED
    BY <2>1, <2>2, <2>3, <2>4
<1>2. u \notin Units(f)
  BY UnitsMember
<1> QED
  BY <1>1, <1>2, UnitsFinite, FS_AddElement DEF Sum

LEMMA SumOfNothing ==
  ASSUME NEW f, \A s \in DOMAIN f : f[s] = 0 PROVE Sum(f) = 0
<1>1. Units(f) = {}
  BY UnitsMember
<1> QED
  BY <1>1, FS_EmptySet DEF Sum

\* Shards without a value do not matter.
LEMMA SumOfPositive ==
  ASSUME NEW S, NEW f \in [S -> Nat], NEW T \in SUBSET S, \A s \in S : f[s] > 0 => s \in T
  PROVE  Sum([s \in T |-> f[s]]) = Sum(f)
<1>1. Units([s \in T |-> f[s]]) = Units(f)
  <2>1. \A x : x \in Units([s \in T |-> f[s]]) => x \in Units(f)
    BY UnitsMember
  <2>2. \A x : x \in Units(f) => x \in Units([s \in T |-> f[s]])
    BY UnitsMember
  <2> QED
    BY <2>1, <2>2
<1> QED
  BY <1>1 DEF Sum

-----------------------------------------------------------------------------
(* The inductive invariant.                                                *)

\* Memcache: a call at its fallback has attempts left, and the number of shards,
\* cached or about to be, is the one of the entity, which exists then.
Calls == {Idle, Panicked} \union
            [at : {"put", "fallback"}, key : Keys, val : Nat, mode : {"CAS", "ADD"},
             try : 0 .. MaxTries, fresh : BOOLEAN]
InOrder(x) ==
    /\ x \in Calls
    /\ x.at = "fallback" => x.try < MaxTries
    /\ x.at \in {"put", "fallback"} /\ x.key = "total" => x.val = config /\ config # 0

MemcacheInv ==
    /\ item \in [Keys -> Nat \union {Absent}]
    /\ call \in [Clients -> Calls]
    /\ \A c \in Clients : InOrder(call[c])
    /\ item["total"] # Absent => item["total"] = config /\ config # 0

\* Requests that have passed the first transaction know the number of shards.
ConfigInv ==
    \A r \in Clients :
        /\ pc[r] \in {"totalSet", "totalSetting", "shardTx", "shardCommit"} =>
              total[r] = config /\ config # 0
        /\ pc[r] = "configCommit" => total[r] = DefaultNumShards

\* A transaction that has not been overtaken would write one more than is stored.
ShardInv ==
    /\ Sum(stored) = counted
    /\ \A r \in Clients :
          pc[r] = "shardCommit" /\ ~behind[r] => sum[r] = stored[shard[r]] + 1

\* The first page holds all the shards, the later ones none.
CountInv ==
    /\ \A s \in Shards : indexed[s] <= stored[s]
    /\ \A r \in Clients :
          /\ pc[r] = "new" => page[r] = 0
          /\ pc[r] = "query" /\ page[r] = 0 => sum[r] = 0 /\ low[r] <= Sum(indexed)
          /\ \/ pc[r] = "query" /\ page[r] > 0
             \/ pc[r] \in {"valueSet", "valueSetting", "returned"}
             => low[r] <= sum[r] /\ sum[r] <= Sum(stored)

CounterInv == TypeOK /\ MemcacheInv /\ ConfigInv /\ ShardInv /\ CountInv

-----------------------------------------------------------------------------
LEMMA ShardsFinite == IsFiniteSet(Shards)
  BY FS_Interval, CounterAssumption DEF CounterAssumption, Shards

LEMMA SumsAreNumbers ==
  ASSUME TypeOK PROVE Sum(stored) \in Nat /\ Sum(indexed) \in Nat
  BY UnitsFinite, ShardsFinite DEF TypeOK

LEMMA RunningCall ==
  ASSUME NEW x \in Calls, x.at \in {"put", "fallback"}
  PROVE  x \in [at : {"put", "fallback"}, key : Keys, val : Nat, mode : {"CAS", "ADD"},
                try : 0 .. MaxTries, fresh : BOOLEAN]
  BY DEF Calls, Idle, Panicked

LEMMA StaleInOrder ==
  ASSUME NEW c \in Clients, NEW k \in Keys, InOrder(call[c]) PROVE InOrder(Stale(c, k))
<1>1. CASE call[c].at \in {"put", "fallback"} /\ call[c].key = k
  <2> DEFINE x == call[c]
             y == [x EXCEPT !.fresh = FALSE]
  <2>1. x \in [at : {"put", "fallback"}, key : Keys, val : Nat, mode : {"CAS", "ADD"},
               try : 0 .. MaxTries, fresh : BOOLEAN]
    BY <1>1, RunningCall DEF InOrder
  <2>2. /\ y \in [at : {"put", "fallback"}, key : Keys, val : Nat, mode : {"CAS", "ADD"},
                  try : 0 .. MaxTries, fresh : BOOLEAN]
        /\ y.at = x.at /\ y.key = x.key /\ y.val = x.val /\ y.try = x.try
    BY <2>1
  <2> QED
    BY <1>1, <2>2 DEF InOrder, Calls, Stale
<1> QED
  BY <1>1 DEF Stale

\* A client's call goes on, with or without a change of the item.
LEMMA ContinueKeeps ==
  ASSUME MemcacheInv, UNCHANGED config, NEW c \in Clients, NEW x, InOrder(x), Continue(c, x)
  PROVE  MemcacheInv'
  BY DEF MemcacheInv, InOrder, Continue

LEMMA WriteKeeps ==
  ASSUME MemcacheInv, UNCHANGED config, NEW k \in Keys, NEW v \in Nat \union {Absent},
         k = "total" /\ v # Absent => v = config /\ config # 0,
         \/ Write(k, v)
         \/ \E c \in Clients : \E x : InOrder(x) /\ WriteBy(c, k, v, x)
  PROVE  MemcacheInv'
<1>1. item' \in [Keys -> Nat \union {Absent}]
      /\ (item'["total"] # Absent => item'["total"] = config /\ config # 0)
  <2>1. item' = [item EXCEPT ![k] = v] /\ item \in [Keys -> Nat \union {Absent}] /\ "total" \in Keys
    BY CounterAssumption DEF CounterAssumption, MemcacheInv, Write, WriteBy
  <2>2. item["total"] # Absent => item["total"] = config /\ config # 0
    BY DEF MemcacheInv
  <2> QED
    BY <2>1, <2>2
<1>2. call' \in [Clients -> Calls] /\ \A q \in Clients : InOrder(call'[q])
  <2>1. \A q \in Clients : InOrder(Stale(q, k))
    BY StaleInOrder DEF MemcacheInv
  <2>2. CASE Write(k, v)
    BY <2>1, <2>2 DEF Write, InOrder
  <2>3. ASSUME NEW c \in Clients, NEW x, InOrder(x), WriteBy(c, k, v, x)
        PROVE  call' \in [Clients -> Calls] /\ \A q \in Clients : InOrder(call'[q])
    BY <2>1, <2>3 DEF WriteBy, InOrder
  <2> QED
    BY <2>2, <2>3
<1>3. \A q \in Clients : InOrder(call[q])' 
  BY <1>2 DEF InOrder
<1> QED
  BY <1>1, <1>2, <1>3 DEF MemcacheInv

\* What memcache does by itself, on behalf of McacheSet or of Increment("value").
LEMMA MemcacheKept ==
  ASSUME MemcacheInv, UNCHANGED config, config \in Nat,
         \/ \E c \in Clients : SetStep(c) \/ FetchFails(c)
         \/ \E k \in Keys : Evict(k)
         \/ Increment("value")
  PROVE  MemcacheInv'
<1>0. "total" \in Keys /\ "value" \in Keys /\ Absent \notin Nat /\ MaxTries = 3
  BY CounterAssumption, McacheAssumption DEF CounterAssumption, McacheAssumption, MaxTries
<1>1. InOrder(Idle) /\ InOrder(Panicked)
  BY DEF InOrder, Calls, Idle, Panicked
<1>2. ASSUME NEW c \in Clients, call[c].at \in {"put", "fallback"}
      PROVE  /\ call[c] \in [at : {"put", "fallback"}, key : Keys, val : Nat, mode : {"CAS", "ADD"},
                             try : 0 .. MaxTries, fresh : BOOLEAN]
             /\ InOrder(call[c])
  BY <1>2, RunningCall DEF MemcacheInv
<1>3. ASSUME NEW c \in Clients, SetStored(c) PROVE MemcacheInv'
  <2>1. call[c].key \in Keys /\ call[c].val \in Nat
        /\ (call[c].key = "total" => call[c].val = config /\ config # 0)
    BY <1>2, <1>3 DEF SetStored, Attempt, InOrder
  <2> QED
    BY <1>1, <1>3, <2>1, WriteKeeps DEF SetStored
<1>4. ASSUME NEW c \in Clients, SetConflict(c) PROVE MemcacheInv'
  <2> DEFINE x == [call[c] EXCEPT !.at = "fallback"]
  <2>1. InOrder(x)
    BY <1>2, <1>4 DEF SetConflict, Attempt, InOrder, Calls
  <2> QED
    BY <1>4, <2>1, ContinueKeeps DEF SetConflict
<1>5. ASSUME NEW c \in Clients, SetFallback(c) PROVE MemcacheInv'
  <2> DEFINE x == [call[c] EXCEPT !.at = "put", !.try = @ + 1]
  <2>1. InOrder(x)
    <3> DEFINE y == call[c]
    <3>1. /\ y \in [at : {"put", "fallback"}, key : Keys, val : Nat, mode : {"CAS", "ADD"},
                    try : 0 .. 3, fresh : BOOLEAN]
          /\ y.at = "fallback" /\ y.try < 3
      BY <1>0, <1>2, <1>5 DEF SetFallback, InOrder
    <3>2. /\ x \in [at : {"put", "fallback"}, key : Keys, val : Nat, mode : {"CAS", "ADD"},
                    try : 0 .. 3, fresh : BOOLEAN]
          /\ x.at = "put" /\ x.key = y.key /\ x.val = y.val
      <4> DEFINE z == [y EXCEPT !.at = "put"]
      <4>1. /\ z \in [at : {"put", "fallback"}, key : Keys, val : Nat, mode : {"CAS", "ADD"},
                      try : 0 .. 3, fresh : BOOLEAN]
            /\ z.at = "put" /\ z.key = y.key /\ z.val = y.val
        BY <3>1
      <4>2. x = [z EXCEPT !.try = y.try + 1] /\ y.try + 1 \in 0 .. 3
        BY <3>1
      <4> HIDE DEF x, y, z
      <4> QED
        BY <4>1, <4>2
    <3> QED
      BY <1>0, <1>2, <1>5, <3>2 DEF SetFallback, InOrder, Calls
  <2>2. call[c].key \in Keys /\ call[c].val \in Nat
        /\ (call[c].key = "total" => call[c].val = config /\ config # 0)
    BY <1>2, <1>5 DEF SetFallback, InOrder
  <2>3. WriteBy(c, call[c].key, call[c].val, x) \/ Continue(c, x)
    BY <1>5 DEF SetFallback
  <2> HIDE DEF x
  <2> QED
    BY <2>1, <2>2, <2>3, ContinueKeeps, WriteKeeps
<1>6. ASSUME NEW c \in Clients, SetNotStored(c) PROVE MemcacheInv'
  <2> DEFINE x == [call[c] EXCEPT !.try = @ + 1]
  <2>1. InOrder(x)
    BY <1>0, <1>2, <1>6 DEF SetNotStored, Attempt, InOrder, Calls
  <2> QED
    BY <1>6, <2>1, ContinueKeeps DEF SetNotStored
<1>7. ASSUME NEW c \in Clients, SetPanics(c) \/ SetGivesUp(c) \/ FetchFails(c) PROVE MemcacheInv'
  BY <1>1, <1>7, ContinueKeeps DEF SetPanics, SetGivesUp, FetchFails
<1>8. ASSUME NEW k \in Keys, Evict(k) PROVE MemcacheInv'
  BY <1>8, WriteKeeps DEF Evict
<1>9. CASE Increment("value")
  <2>1. Fetched("value") + 1 \in Nat
    BY <1>0 DEF Fetched, MemcacheInv
  <2> QED
    BY <1>0, <1>9, <2>1, WriteKeeps DEF Increment
<1> QED
  BY <1>3, <1>4, <1>5, <1>6, <1>7, <1>8, <1>9 DEF SetStep

\* McacheSet is called with a value, and for "total" with the number of shards.
LEMMA SetFetchKeeps ==
  ASSUME MemcacheInv, UNCHANGED config, NEW c \in Clients, NEW k \in Keys,
         NEW v \in Nat, k = "total" => v = config /\ config # 0, SetFetch(c, k, v)
  PROVE  MemcacheInv'
<1> DEFINE x == Running(k, v, IF item[k] = Absent THEN "ADD" ELSE "CAS")
<1>1. InOrder(x)
  BY DEF InOrder, Calls, Running, MaxTries
<1> QED
  BY <1>1, ContinueKeeps DEF SetFetch

LEMMA MemcacheFrame ==
  ASSUME MemcacheInv, UNCHANGED <<mcacheVars, config>> PROVE MemcacheInv'
  BY DEF MemcacheInv, InOrder, mcacheVars

-----------------------------------------------------------------------------
LEMMA CounterInit == Init => CounterInv
<1> SUFFICES ASSUME Init PROVE CounterInv
  OBVIOUS
<1> USE DEF Init, MInit
<1>0. /\ "total" \in Keys /\ DefaultNumShards \in Nat \ {0} /\ 0 \in Shards
  BY CounterAssumption DEF CounterAssumption, Shards
<1>1. TypeOK
  BY <1>0 DEF TypeOK, MTypeOK, Attempts
<1>2. MemcacheInv
  BY <1>0 DEF MemcacheInv, InOrder, Calls, Idle
<1>3. ConfigInv
  BY DEF ConfigInv
<1>4. ShardInv
  BY SumOfNothing DEF ShardInv
<1>5. CountInv
  BY <1>1 DEF CountInv, TypeOK
<1> QED
  BY <1>1, <1>2, <1>3, <1>4, <1>5 DEF CounterInv

\* Steps of Increment on its way to the shard, and of AdjustShards.
LEMMA ConfigStep ==
  ASSUME CounterInv, NEW r \in Clients,
         \/ ReadTotal(r) \/ ConfigTx(r) \/ TotalIsSet(r) \/ Retry(r) \/ TxFails(r)
         \/ \E n \in NewTotals : AdjustShards(r, n)
  PROVE  CounterInv'
<1> USE DEF CounterInv, TypeOK, Goto, entities, local
<1>0. /\ "total" \in Keys /\ DefaultNumShards \in Nat \ {0} /\ NewTotals \subseteq Nat
      /\ Absent \notin Nat /\ Attempts = 3
  BY CounterAssumption, McacheAssumption DEF CounterAssumption, McacheAssumption, Attempts
<1>1. MemcacheInv'
  BY MemcacheFrame DEF ReadTotal, ConfigTx, TotalIsSet, Retry, TxFails, AdjustShards
<1>2. CASE ReadTotal(r)
  <2>1. Fetched("total") \in {0, DefaultNumShards}
          /\ (Fetched("total") >= 1 => Fetched("total") = config /\ config # 0)
    BY <1>0 DEF Fetched, MemcacheInv
  <2>2. TypeOK'
    BY <1>0, <1>2, <2>1 DEF ReadTotal, MTypeOK, mcacheVars
  <2>3. ConfigInv'
    BY <1>0, <1>2, <2>1 DEF ReadTotal, ConfigInv
  <2>4. ShardInv' /\ CountInv'
    BY <1>2 DEF ReadTotal, ShardInv, CountInv
  <2> QED
    BY <1>1, <2>2, <2>3, <2>4
<1>3. CASE ConfigTx(r)
  <2>1. TypeOK'
    BY <1>0, <1>3 DEF ConfigTx, MTypeOK, mcacheVars
  <2>2. ConfigInv'
    BY <1>0, <1>3 DEF ConfigTx, ConfigInv
  <2>3. ShardInv' /\ CountInv'
    BY <1>3 DEF ConfigTx, ShardInv, CountInv
  <2> QED
    BY <1>1, <2>1, <2>2, <2>3
<1>4. CASE TotalIsSet(r)
  BY <1>1, <1>4 DEF TotalIsSet, MTypeOK, mcacheVars, ConfigInv, ShardInv, CountInv
<1>5. CASE Retry(r)
  <2>1. TypeOK'
    BY <1>0, <1>5 DEF Retry, MTypeOK, mcacheVars
  <2>2. ConfigInv' /\ ShardInv' /\ CountInv'
    BY <1>5 DEF Retry, ConfigInv, ShardInv, CountInv
  <2> QED
    BY <1>1, <2>1, <2>2
<1>6. CASE TxFails(r)
  BY <1>1, <1>6 DEF TxFails, MTypeOK, mcacheVars, ConfigInv, ShardInv, CountInv
<1>7. ASSUME NEW n \in NewTotals, AdjustShards(r, n) PROVE CounterInv'
  BY <1>0, <1>1, <1>7 DEF AdjustShards, MTypeOK, mcacheVars, ConfigInv, ShardInv, CountInv
<1> QED
  BY <1>2, <1>3, <1>4, <1>5, <1>6, <1>7

\* The number of shards is written once; nothing can have it before.
LEMMA ConfigCommitStep ==
  ASSUME CounterInv, NEW r \in Clients, ConfigCommit(r) PROVE CounterInv'
<1> USE DEF CounterInv, TypeOK, Goto, local
<1>0. DefaultNumShards \in Nat \ {0} /\ Attempts = 3 /\ config' = DefaultNumShards
        /\ config \in {0, DefaultNumShards}
  BY CounterAssumption DEF CounterAssumption, Attempts, ConfigCommit, ConfigInv
<1>1. behind' \in [Clients -> BOOLEAN] /\ \A q \in Clients : behind[q] => behind'[q]
  BY DEF ConfigCommit
<1>2. TypeOK'
  BY <1>0, <1>1 DEF ConfigCommit, MTypeOK, mcacheVars
<1>3. MemcacheInv'
  BY <1>0 DEF ConfigCommit, MemcacheInv, InOrder, mcacheVars
<1>4. ConfigInv'
  BY <1>0 DEF ConfigCommit, ConfigInv
<1>5. ShardInv' /\ CountInv'
  BY <1>1 DEF ConfigCommit, ShardInv, CountInv
<1> QED
  BY <1>2, <1>3, <1>4, <1>5

LEMMA ShardTxStep ==
  ASSUME CounterInv, NEW r \in Clients, ShardTx(r) PROVE CounterInv'
<1> USE DEF CounterInv, TypeOK, Goto, entities
<1>1. PICK s \in 0 .. total[r] - 1 :
         shard' = [shard EXCEPT ![r] = s] /\ sum' = [sum EXCEPT ![r] = stored[s] + 1]
  BY DEF ShardTx
<1>2. s \in Shards
  BY <1>1, CounterAssumption DEF CounterAssumption, ShardTx, ConfigInv, Shards
<1>3. TypeOK'
  BY <1>1, <1>2 DEF ShardTx, MTypeOK, mcacheVars
<1>4. MemcacheInv'
  BY MemcacheFrame DEF ShardTx
<1>5. ConfigInv' /\ ShardInv' /\ CountInv'
  BY <1>1, <1>2 DEF ShardTx, ConfigInv, ShardInv, CountInv
<1> QED
  BY <1>3, <1>4, <1>5

\* A commit adds exactly one to the stored sum, and overtakes the other
\* transactions on the shard.
LEMMA ShardCommitStep ==
  ASSUME CounterInv, NEW r \in Clients, ShardCommit(r) PROVE CounterInv'
<1> USE DEF CounterInv, TypeOK, Goto, local
<1>1. /\ shard[r] \in Shards
      /\ stored' = [stored EXCEPT ![shard[r]] = stored[shard[r]] + 1]
      /\ stored \in [Shards -> Nat]
  BY DEF ShardCommit, ShardInv
<1>2. Sum(stored') = Sum(stored) + 1
  BY <1>1, ShardsFinite, SumIncrement
<1>3. behind' \in [Clients -> BOOLEAN]
      /\ \A q \in Clients : ~behind'[q] =>
            ~behind[q] /\ (q = r \/ pc[q] # "shardCommit" \/ shard[q] # shard[r])
  BY DEF ShardCommit
<1>4. TypeOK'
  BY <1>1, <1>3 DEF ShardCommit, MTypeOK, mcacheVars
<1>5. MemcacheInv'
  BY MemcacheFrame DEF ShardCommit
<1>6. ConfigInv'
  BY DEF ShardCommit, ConfigInv
<1>7. ShardInv'
  BY <1>1, <1>2, <1>3 DEF ShardCommit, ShardInv
<1>8. CountInv'
  BY <1>1, <1>2, SumsAreNumbers DEF ShardCommit, CountInv
<1> QED
  BY <1>4, <1>5, <1>6, <1>7, <1>8

-----------------------------------------------------------------------------
LEMMA ReadValueStep ==
  ASSUME CounterInv, NEW r \in Clients, ReadValue(r) PROVE CounterInv'
<1> USE DEF CounterInv, TypeOK, Goto, entities
<1>0. "value" \in Keys /\ Absent \notin Nat
  BY CounterAssumption, McacheAssumption DEF CounterAssumption, McacheAssumption
<1>1. sum' = [sum EXCEPT ![r] = 0]
  <2>1. Fetched("value") \in Nat
    BY <1>0 DEF Fetched, MTypeOK
  <2>2. (IF Fetched("value") > 0 THEN 0 ELSE Fetched("value")) = 0
    BY <2>1
  <2> QED
    BY <2>2 DEF ReadValue
<1>2. TypeOK'
  BY <1>1, SumsAreNumbers DEF ReadValue, MTypeOK, mcacheVars
<1>3. MemcacheInv'
  BY MemcacheFrame DEF ReadValue
<1>4. ConfigInv' /\ ShardInv'
  BY <1>1 DEF ReadValue, ConfigInv, ShardInv
<1>5. CountInv'
  BY <1>1, SumsAreNumbers DEF ReadValue, CountInv
<1> QED
  BY <1>2, <1>3, <1>4, <1>5

\* A page is longer than the list of shards, so that the first has them all and
\* the others are empty.
LEMMA Pages ==
  ASSUME TypeOK, NEW j \in Nat
  PROVE  PageOf(j) = IF j = 0 THEN {s \in Shards : indexed[s] > 0} ELSE {}
<1>1. /\ DefaultNumShards \in Nat /\ BatchSize \in Nat \ {0} /\ DefaultNumShards <= BatchSize
  BY CounterAssumption DEF CounterAssumption
<1>2. ASSUME NEW s \in Shards
      PROVE  /\ Cardinality({t \in Shards : t > s /\ indexed[t] > 0}) \in Nat
             /\ Cardinality({t \in Shards : t > s /\ indexed[t] > 0}) <= BatchSize - 1
  <2> DEFINE above == {t \in Shards : t > s /\ indexed[t] > 0}
  <2>1. above \subseteq 1 .. DefaultNumShards - 1 /\ s \in Nat
    BY <1>1 DEF Shards
  <2>2. IsFiniteSet(1 .. DefaultNumShards - 1)
        /\ Cardinality(1 .. DefaultNumShards - 1) <= DefaultNumShards - 1
    <3>1. DefaultNumShards >= 1 /\ DefaultNumShards - 1 \in Int /\ 1 \in Int
      BY <1>1 DEF Shards
    <3>2. /\ IsFiniteSet(1 .. DefaultNumShards - 1)
          /\ Cardinality(1 .. DefaultNumShards - 1)
                = IF 1 > DefaultNumShards - 1 THEN 0 ELSE (DefaultNumShards - 1) - 1 + 1
      BY <3>1, FS_Interval
    <3> QED
      BY <1>1, <3>1, <3>2
  <2>3. IsFiniteSet(above) /\ Cardinality(above) <= Cardinality(1 .. DefaultNumShards - 1)
    BY <2>1, <2>2, FS_Subset
  <2>4. Cardinality(above) \in Nat /\ Cardinality(1 .. DefaultNumShards - 1) \in Nat
    BY <2>2, <2>3, FS_CardinalityType
  <2> QED
    BY <1>1, <2>2, <2>3, <2>4
<1>3. CASE j = 0
  BY <1>1, <1>2, <1>3 DEF PageOf
<1>4. CASE j > 0
  <2>1. j * BatchSize >= BatchSize
    <3>1. PICK k \in Nat : j = k + 1
      BY <1>4
    <3>2. j * BatchSize = k * BatchSize + BatchSize /\ k * BatchSize >= 0
      BY <1>1, <3>1
    <3> QED
      BY <1>1, <3>2
  <2>2. ASSUME NEW n \in Nat, n <= BatchSize - 1
        PROVE  n \notin j * BatchSize .. (j + 1) * BatchSize - 1
    BY <1>1, <2>1, <2>2
  <2> QED
    BY <1>2, <1>4, <2>2 DEF PageOf
<1> QED
  BY <1>3, <1>4

LEMMA QueryPageStep ==
  ASSUME CounterInv, NEW r \in Clients, QueryPage(r) PROVE CounterInv'
<1> USE DEF CounterInv, TypeOK, Goto, entities
<1> DEFINE found == PageOf(page[r])
           values == [s \in found |-> indexed[s]]
<1>0. page[r] \in Nat /\ sum[r] \in Nat /\ low[r] \in Nat
  OBVIOUS
<1>1. Sum(values) = IF page[r] = 0 THEN Sum(indexed) ELSE 0
  <2>1. CASE page[r] = 0
    <3>1. found = {s \in Shards : indexed[s] > 0}
      BY <1>0, <2>1, Pages
    <3>2. /\ indexed \in [Shards -> Nat] /\ found \in SUBSET Shards
          /\ \A s \in Shards : indexed[s] > 0 => s \in found
      BY <3>1
    <3> HIDE DEF found
    <3> QED
      BY <2>1, <3>2, SumOfPositive
  <2>2. CASE page[r] # 0
    <3>1. found = {}
      BY <1>0, <2>2, Pages
    <3>2. DOMAIN values = {}
      BY <3>1
    <3> HIDE DEF values
    <3> QED
      BY <2>2, <3>2, SumOfNothing
  <2> QED
    BY <2>1, <2>2
<1>2. Sum(indexed) \in Nat /\ Sum(stored) \in Nat /\ Sum(indexed) <= Sum(stored)
  BY SumsAreNumbers, SumMonotone, ShardsFinite DEF CountInv
<1>3. /\ sum' = [sum EXCEPT ![r] = sum[r] + Sum(values)]
      /\ page' = [page EXCEPT ![r] = page[r] + 1]
      /\ pc' = [pc EXCEPT ![r] = IF found = {} THEN "valueSet" ELSE "query"]
      /\ pc[r] = "query"
      /\ UNCHANGED <<mcacheVars, stored, indexed, config, adjusted, counted, tries, behind,
                     total, shard, low>>
  BY DEF QueryPage
<1> HIDE DEF found, values
<1>4. TypeOK'
  BY <1>0, <1>1, <1>2, <1>3 DEF MTypeOK, mcacheVars
<1>5. MemcacheInv'
  BY <1>3, MemcacheFrame
<1>6. ConfigInv' /\ ShardInv'
  BY <1>3 DEF ConfigInv, ShardInv
<1>7. CountInv'
  <2>1. low[r] <= sum'[r] /\ sum'[r] <= Sum(stored) /\ page'[r] > 0
    BY <1>0, <1>1, <1>2, <1>3 DEF CountInv
  <2> QED
    BY <1>3, <2>1 DEF CountInv
<1> QED
  BY <1>4, <1>5, <1>6, <1>7

\* The calls of McacheSet and Increment("value"), and the end of Count, or the
\* beginning of its endless loop.
LEMMA CallStep ==
  ASSUME CounterInv, NEW r \in Clients,
         SetTotal(r) \/ SetValue(r) \/ ValueIsSet(r) \/ IncrementValue(r) \/ QueryFails(r)
  PROVE  CounterInv'
<1> USE DEF CounterInv, Goto, entities, local
<1>0. "total" \in Keys /\ "value" \in Keys /\ config \in Nat /\ sum[r] \in Nat
  BY CounterAssumption DEF CounterAssumption, TypeOK
<1>1. MemcacheInv'
  <2>1. CASE SetTotal(r)
    <3>1. total[r] \in Nat /\ total[r] = config /\ config # 0 /\ UNCHANGED config
      BY <1>0, <2>1 DEF SetTotal, ConfigInv
    <3> QED
      BY <1>0, <2>1, <3>1, SetFetchKeeps DEF SetTotal
  <2>2. CASE SetValue(r)
    BY <1>0, <2>2, SetFetchKeeps DEF SetValue
  <2>3. CASE ValueIsSet(r)
    BY <2>3, MemcacheFrame DEF ValueIsSet
  <2>4. CASE IncrementValue(r)
    BY <1>0, <2>4, MemcacheKept DEF IncrementValue
  <2>5. CASE QueryFails(r)
    BY <2>5, MemcacheFrame DEF QueryFails
  <2> QED
    BY <2>1, <2>2, <2>3, <2>4, <2>5
<1>2. /\ UNCHANGED <<stored, indexed, config, adjusted, counted, tries, behind, local>>
      /\ \/ pc[r] = "totalSet" /\ pc' = [pc EXCEPT ![r] = "totalSetting"]
         \/ pc[r] = "valueSet" /\ pc' = [pc EXCEPT ![r] = "valueSetting"]
         \/ pc[r] = "valueSetting" /\ pc' = [pc EXCEPT ![r] = "returned"]
         \/ pc[r] = "valueIncrement" /\ pc' = [pc EXCEPT ![r] = "ok"]
         \/ pc[r] = "query" /\ pc' = [pc EXCEPT ![r] = "endless"]
  BY DEF SetTotal, SetValue, ValueIsSet, IncrementValue, QueryFails
<1>3. TypeOK'
  BY <1>1, <1>2 DEF TypeOK, MTypeOK, MemcacheInv, Calls
<1>4. ConfigInv' /\ ShardInv' /\ CountInv'
  BY <1>2 DEF ConfigInv, ShardInv, CountInv, TypeOK
<1> QED
  BY <1>1, <1>3, <1>4

\* Memcache and the index go on by themselves.
LEMMA EnvironmentStep ==
  ASSUME CounterInv,
         \/ \E r \in Clients : McacheStep(r)
         \/ \E k \in Keys : McacheEvicts(k)
         \/ \E s \in Shards : Index(s)
         \/ UNCHANGED vars
  PROVE  CounterInv'
<1> USE DEF CounterInv, entities, local
<1>1. CASE (\E r \in Clients : McacheStep(r)) \/ (\E k \in Keys : McacheEvicts(k)) \/ UNCHANGED vars
  <2>1. UNCHANGED <<entities, pc, tries, behind, local>>
    BY <1>1 DEF McacheStep, McacheEvicts, vars
  <2>2. MemcacheInv'
    <3>1. UNCHANGED config /\ config \in Nat
      BY <2>1, CounterAssumption DEF CounterAssumption, TypeOK
    <3> QED
      BY <1>1, <3>1, MemcacheKept, MemcacheFrame DEF McacheStep, McacheEvicts, vars
  <2>3. TypeOK'
    BY <2>1, <2>2 DEF TypeOK, MTypeOK, MemcacheInv, Calls
  <2>4. ConfigInv' /\ ShardInv' /\ CountInv'
    BY <2>1 DEF ConfigInv, ShardInv, CountInv
  <2> QED
    BY <2>2, <2>3, <2>4
<1>2. ASSUME NEW s \in Shards, Index(s) PROVE CounterInv'
  <2>1. indexed' \in [Shards -> Nat]
        /\ (\A t \in Shards : indexed[t] <= indexed'[t] /\ indexed'[t] <= stored[t])
    BY <1>2 DEF Index, TypeOK, CountInv
  <2>2. Sum(indexed) <= Sum(indexed')
    BY <2>1, ShardsFinite, SumMonotone DEF TypeOK
  <2>3. Sum(indexed) \in Nat /\ Sum(indexed') \in Nat
    BY <2>1, ShardsFinite, UnitsFinite DEF TypeOK
  <2>4. TypeOK'
    BY <1>2, <2>1 DEF Index, TypeOK, MTypeOK, mcacheVars
  <2>5. MemcacheInv'
    BY <1>2, MemcacheFrame DEF Index
  <2>6. ConfigInv' /\ ShardInv'
    BY <1>2 DEF Index, ConfigInv, ShardInv
  <2>7. CountInv'
    BY <1>2, <2>1, <2>2, <2>3 DEF Index, CountInv, TypeOK
  <2> QED
    BY <2>4, <2>5, <2>6, <2>7
<1> QED
  BY <1>1, <1>2

LEMMA CounterInvariant == Spec => []CounterInv
<1>1. CounterInv /\ [Next]_vars => CounterInv'
  BY ConfigStep, ConfigCommitStep, ShardTxStep, ShardCommitStep, ReadValueStep, QueryPageStep,
     CallStep, EnvironmentStep
  DEF Next, IncrementStep, CountStep
<1> QED
  BY <1>1, CounterInit, PTL DEF Spec

-----------------------------------------------------------------------------
(* The theorems.                                                           *)

\* Whatever conflicts, retries, failing transactions and memcache errors there
\* are, the shards hold the committed increments, and everybody works with the
\* number of shards of the entity (sharded_counter.go:141-198).
THEOREM IncrementsKept == Spec => []NoIncrementLost
<1>1. CounterInv => NoIncrementLost
  BY DEF CounterInv, MemcacheInv, ConfigInv, ShardInv, NoIncrementLost
<1> QED
  BY <1>1, CounterInvariant, PTL

\* Count reads pages of an index that moves under it, and still returns a number
\* between what was indexed at its begin and what is stored (lines 72-138).
THEOREM CountsInBetween == Spec => []CountBetween
<1>1. CounterInv => CountBetween
  BY DEF CounterInv, CountInv, CountBetween
<1> QED
  BY <1>1, CounterInvariant, PTL
=============================================================================
