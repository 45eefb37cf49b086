--------------------------- MODULE ShardedCounter ---------------------------
(***************************************************************************)
(* The sharded counter of dsu/distributed_unancestored: one counter, kept  *)
(* in shard entities, with its total and the number of shards in memcache. *)
(*                                                                         *)
(* A request calls Increment, Count or AdjustShards once.  Transactions on *)
(* an entity fail when another one has committed to it in the meantime and *)
(* are tried three times; queries run on an index that lags behind.        *)
(***************************************************************************)
EXTENDS McacheSet, FiniteSets

CONSTANTS DefaultNumShards, \* defaultNumShards
          BatchSize,        \* batchSize, the page of a query
          NewTotals         \* the values AdjustShards is called with

ASSUME CounterAssumption ==
    /\ DefaultNumShards \in Nat \ {0}
    /\ BatchSize \in Nat \ {0}
    /\ DefaultNumShards <= BatchSize
    /\ NewTotals \subseteq Nat
    /\ {"total", "value"} \subseteq Keys

Attempts == 3   \* of RunInTransaction
Shards == 0 .. DefaultNumShards - 1

VARIABLES
    stored,   \* the value of every shard entity; zero: there is none
    indexed,  \* the same, as far as queries see it
    config,   \* the entity with the number of shards that Increment reads
    adjusted, \* the entity that AdjustShards writes
    pc, tries, behind, \* of every request, as usual for transactions
    total,    \* shardsTotal.I
    shard, sum,        \* shardId and retVal
    page,     \* the loop variable j of Count
    low,      \* history: the counter as indexed when Count began
    counted   \* history: the increments that were committed

entities == <<stored, indexed, config, adjusted, counted>>
local == <<total, shard, sum, page, low>>
vars == <<mcacheVars, entities, pc, tries, behind, local>>

\* The sum of the values of f: the number of units they are made of.
Units(f) == UNION {{s} \X (1 .. f[s]) : s \in DOMAIN f}
Sum(f) == Cardinality(Units(f))

Init ==
    /\ MInit
    /\ stored = [s \in Shards |-> 0] /\ indexed = stored
    /\ config = 0 /\ adjusted = 0 /\ counted = 0
    /\ pc = [r \in Clients |-> "new"]
    /\ tries = [r \in Clients |-> 0]
    /\ behind = [r \in Clients |-> FALSE]
    /\ total = [r \in Clients |-> 0]
    /\ shard = [r \in Clients |-> 0]
    /\ sum = [r \in Clients |-> 0]
    /\ page = [r \in Clients |-> 0]
    /\ low = [r \in Clients |-> 0]

Goto(r, from, to) == pc[r] = from /\ pc' = [pc EXCEPT ![r] = to]

-----------------------------------------------------------------------------
(* Increment                                                               *)

ReadTotal(r) ==
    /\ total' = [total EXCEPT ![r] = Fetched("total")]
    /\ Goto(r, "new", IF Fetched("total") < 1 THEN "configTx" ELSE "shardTx")
    /\ tries' = [tries EXCEPT ![r] = 1]
    /\ UNCHANGED <<mcacheVars, entities, behind, shard, sum, page, low>>

\* The transaction that reads, or creates, the number of shards.
ConfigTx(r) ==
    /\ Goto(r, "configTx", "configCommit")
    /\ total' = [total EXCEPT ![r] = IF config = 0 THEN DefaultNumShards ELSE config]
    /\ behind' = [behind EXCEPT ![r] = FALSE]
    /\ UNCHANGED <<mcacheVars, entities, tries, shard, sum, page, low>>

ConfigCommit(r) ==
    /\ Goto(r, "configCommit", "totalSet")
    /\ ~behind[r]
    /\ config' = total[r]
    /\ behind' = [q \in Clients |->
                     behind[q] \/ (q # r /\ config = 0 /\ pc[q] = "configCommit")]
    /\ tries' = [tries EXCEPT ![r] = 1]
    /\ UNCHANGED <<mcacheVars, stored, indexed, adjusted, counted, local>>

\* McacheSet(c, mcKeyShardsTotal(valName), ...)
SetTotal(r) ==
    /\ Goto(r, "totalSet", "totalSetting")
    /\ SetFetch(r, "total", total[r])
    /\ UNCHANGED <<entities, tries, behind, local>>

TotalIsSet(r) ==
    /\ call[r] = Idle
    /\ Goto(r, "totalSetting", "shardTx")
    /\ UNCHANGED <<mcacheVars, entities, tries, behind, local>>

\* The transaction on a shard picked at random, anew for every run.
ShardTx(r) ==
    /\ Goto(r, "shardTx", "shardCommit")
    /\ \E s \in 0 .. total[r] - 1 :
          /\ shard' = [shard EXCEPT ![r] = s]
          /\ sum' = [sum EXCEPT ![r] = stored[s] + 1]
    /\ behind' = [behind EXCEPT ![r] = FALSE]
    /\ UNCHANGED <<mcacheVars, entities, tries, total, page, low>>

\* Mutant: the shard is read and written without a transaction.
ShardCommit_unguarded(r) ==
    /\ Goto(r, "shardCommit", "valueIncrement")
    /\ stored' = [stored EXCEPT ![shard[r]] = sum[r]]
    /\ counted' = counted + 1
    /\ UNCHANGED <<mcacheVars, indexed, config, adjusted, tries, behind, local>>

ShardCommit(r) ==
    /\ Goto(r, "shardCommit", "valueIncrement")
    /\ ~behind[r]
    /\ stored' = [stored EXCEPT ![shard[r]] = sum[r]]
    /\ counted' = counted + 1
    /\ behind' = [q \in Clients |-> behind[q] \/
                     (q # r /\ pc[q] = "shardCommit" /\ shard[q] = shard[r])]
    /\ UNCHANGED <<mcacheVars, indexed, config, adjusted, tries, local>>

Retry(r) ==
    /\ \/ Goto(r, "configCommit", "configTx")
       \/ Goto(r, "shardCommit", "shardTx")
    /\ behind[r] /\ tries[r] < Attempts
    /\ tries' = [tries EXCEPT ![r] = @ + 1]
    /\ UNCHANGED <<mcacheVars, entities, behind, local>>

\* Increment returns errTx.
TxFails(r) ==
    /\ Goto(r, "configCommit", "error") \/ Goto(r, "shardCommit", "error")
    /\ Failures \/ (behind[r] /\ tries[r] = Attempts)
    /\ UNCHANGED <<mcacheVars, entities, tries, behind, local>>

IncrementValue(r) ==
    /\ Goto(r, "valueIncrement", "ok")
    /\ Increment("value")
    /\ UNCHANGED <<entities, tries, behind, local>>

-----------------------------------------------------------------------------
(* Count                                                                   *)

\* Mutant: the sum over the shards is added to the value from memcache.
ReadValue_kept(r) ==
    /\ Goto(r, "new", "query")
    /\ sum' = [sum EXCEPT ![r] = Fetched("value")]
    /\ low' = [low EXCEPT ![r] = Sum(indexed)]
    /\ UNCHANGED <<mcacheVars, entities, tries, behind, total, shard, page>>

\* What memcache yields is dropped again, where it is positive.
ReadValue(r) ==
    /\ Goto(r, "new", "query")
    /\ sum' = [sum EXCEPT ![r] = IF Fetched("value") > 0 THEN 0 ELSE Fetched("value")]
    /\ low' = [low EXCEPT ![r] = Sum(indexed)]
    /\ UNCHANGED <<mcacheVars, entities, tries, behind, total, shard, page>>

\* The shards of page j: by descending ShardId, at an offset.
PageOf(j) ==
    {s \in Shards :
        /\ indexed[s] > 0
        /\ Cardinality({t \in Shards : t > s /\ indexed[t] > 0})
               \in j * BatchSize .. (j + 1) * BatchSize - 1}

QueryPage(r) ==
    LET found == PageOf(page[r])
    IN  /\ Goto(r, "query", IF found = {} THEN "valueSet" ELSE "query")
        /\ sum' = [sum EXCEPT ![r] = @ + Sum([s \in found |-> indexed[s]])]
        /\ page' = [page EXCEPT ![r] = @ + 1]
        /\ UNCHANGED <<mcacheVars, entities, tries, behind, total, shard, low>>

\* An iterator repeats an error at every Next, and the loop leaves only when
\* there are no results any more: Count does not return.
QueryFails(r) ==
    /\ Failures
    /\ Goto(r, "query", "endless")
    /\ UNCHANGED <<mcacheVars, entities, tries, behind, local>>

\* McacheSet(c, mcKey(valName), retVal)
SetValue(r) ==
    /\ Goto(r, "valueSet", "valueSetting")
    /\ SetFetch(r, "value", sum[r])
    /\ UNCHANGED <<entities, tries, behind, local>>

ValueIsSet(r) ==
    /\ call[r] = Idle
    /\ Goto(r, "valueSetting", "returned")
    /\ UNCHANGED <<mcacheVars, entities, tries, behind, local>>

-----------------------------------------------------------------------------
\* AdjustShards: one transaction on an entity whose name is the counter's, not
\* mcKeyShardsTotal of it.
AdjustShards(r, n) ==
    /\ Goto(r, "new", "adjusted")
    /\ adjusted' = IF adjusted < n THEN n ELSE adjusted
    /\ UNCHANGED <<mcacheVars, stored, indexed, config, counted, tries, behind, local>>

\* The index catches up with a shard.
Index(s) ==
    /\ indexed[s] # stored[s]
    /\ indexed' = [indexed EXCEPT ![s] = stored[s]]
    /\ UNCHANGED <<mcacheVars, stored, config, adjusted, counted, pc, tries, behind, local>>

McacheStep(r) ==
    /\ \/ SetStep(r)
       \/ pc[r] \in {"new", "totalSet", "valueSet"} /\ FetchFails(r)
    /\ UNCHANGED <<entities, pc, tries, behind, local>>

McacheEvicts(k) ==
    /\ Evict(k)
    /\ UNCHANGED <<entities, pc, tries, behind, local>>

IncrementStep(r) ==
    \/ ReadTotal(r) \/ ConfigTx(r) \/ ConfigCommit(r) \/ SetTotal(r) \/ TotalIsSet(r)
    \/ ShardTx(r) \/ ShardCommit(r) \/ Retry(r) \/ TxFails(r) \/ IncrementValue(r)
CountStep(r) == ReadValue(r) \/ QueryPage(r) \/ QueryFails(r) \/ SetValue(r) \/ ValueIsSet(r)

Next ==
    \/ \E r \in Clients : IncrementStep(r) \/ CountStep(r) \/ McacheStep(r)
    \/ \E r \in Clients, n \in NewTotals : AdjustShards(r, n)
    \/ \E s \in Shards : Index(s)
    \/ \E k \in Keys : McacheEvicts(k)

Spec == Init /\ [][Next]_vars

-----------------------------------------------------------------------------
TypeOK ==
    /\ MTypeOK
    /\ stored \in [Shards -> Nat] /\ indexed \in [Shards -> Nat]
    /\ config \in {0, DefaultNumShards} /\ adjusted \in NewTotals \union {0}
    /\ counted \in Nat
    /\ pc \in [Clients -> {"new", "configTx", "configCommit", "totalSet", "totalSetting",
                  "shardTx", "shardCommit", "valueIncrement", "ok", "error", "query",
                  "endless", "valueSet", "valueSetting", "returned", "adjusted"}]
    /\ tries \in [Clients -> 0 .. Attempts] /\ behind \in [Clients -> BOOLEAN]
    /\ total \in [Clients -> {0, DefaultNumShards}]
    /\ shard \in [Clients -> Shards]
    /\ \A f \in {sum, page, low} : f \in [Clients -> Nat]

\* Everything has its type.  Transactions on the shards lose no increment and
\* count none twice, whatever conflicts and retries there are; and all agree on
\* the number of shards, wherever they have it from, so that none goes to a
\* shard that Count leaves out.
NoIncrementLost ==
    /\ TypeOK /\ Sum(stored) = counted
    /\ item["total"] # Absent => item["total"] = config
    /\ \A r \in Clients : pc[r] \in {"totalSet", "totalSetting", "shardTx", "shardCommit"}
          => total[r] = config

\* Count returns a number between what queries could see when it began and what
\* has been committed by now: it never counts a shard twice or memcache as well.
CountBetween ==
    \A r \in Clients : pc[r] \in {"valueSet", "valueSetting", "returned"} =>
        low[r] <= sum[r] /\ sum[r] <= Sum(stored)

=============================================================================
