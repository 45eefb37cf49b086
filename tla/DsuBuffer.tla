----------------------------- MODULE DsuBuffer -----------------------------
(***************************************************************************)
(* Buffered put and get of package dsu: one entity, kept in the datastore, *)
(* in memcache and in the memory of every instance.                        *)
(*                                                                         *)
(* A request is one call of BufPut or BufGet on one instance.  A put       *)
(* stores a value of its own, so that the request names the value.  Every  *)
(* remote call is a step, the closure of a transaction may be run again,   *)
(* instances are stopped and started by the platform, and memcache drops   *)
(* what it likes.                                                          *)
(***************************************************************************)
EXTENDS Naturals, SequencesExt

CONSTANTS Requests, Instances,
          Attempts,  \* how often RunInTransaction tries; three times in App Engine
          Blank,     \* the WrapBlob{} that stands for a missing entity
          Nothing    \* no entry in a cache

ASSUME DsuBufferAssumption ==
    /\ Attempts \in Nat \ {0}
    /\ Blank # Nothing
    /\ Blank \notin Requests /\ Nothing \notin Requests

VARIABLES
    committed, \* the puts that were committed to the datastore, in order
    mcache,    \* memcache
    memory,    \* memoryInstanceStore of every instance
    pc, inst,  \* of every request: where it is, and on which instance
    got,       \* of every get: the value on its way, or returned
    tries,     \* of every put: the number of runs of the transaction
    behind,    \* of every put: has another put committed since its run began?
    putErr,    \* of every put: did datastore.Put fail in this run?
    orderly    \* the conditions of this behaviour, see below

request == <<pc, inst, got, tries, behind, putErr>>
vars == <<committed, mcache, memory, request, orderly>>

\* In orderly conditions a put overlaps with no other request of its instance,
\* and calls of datastore and memcache do not fail.  Nothing in the code sees to
\* either: the other behaviours are those of the program, and the orderly ones
\* are there to say what depends on it.
Exclusive == orderly
Failures == ~orderly

Values == Requests \union {Blank}

\* What datastore.Get yields; a missing entity and an empty one both work.
datastore == IF committed = <<>> THEN Blank ELSE committed[Len(committed)]

Ended == {"new", "ok", "error", "dead"}
InTx == {"put", "mcacheSet", "memorySet", "multicast", "commit"}
InFlight(i) == {r \in Requests : inst[r] = i /\ pc[r] \notin Ended}
Init ==
    /\ committed = <<>> /\ mcache = Nothing
    /\ memory = [i \in Instances |-> Nothing]
    /\ pc = [r \in Requests |-> "new"]
    /\ inst \in [Requests -> Instances]
    /\ got = [r \in Requests |-> Nothing]
    /\ tries = [r \in Requests |-> 0]
    /\ behind = [r \in Requests |-> FALSE]
    /\ putErr = [r \in Requests |-> FALSE]
    /\ orderly \in BOOLEAN

Goto(r, from, to) == pc[r] = from /\ pc' = [pc EXCEPT ![r] = to]

-----------------------------------------------------------------------------
(* BufPut                                                                  *)

BeginPut(r) ==
    /\ Exclusive => InFlight(inst[r]) = {}
    /\ Goto(r, "new", "put")
    /\ tries' = [tries EXCEPT ![r] = 1]
    /\ UNCHANGED <<committed, mcache, memory, inst, got, behind, putErr>>

\* datastore.Put within the transaction; its error is returned only at the end.
PutEntity(r) ==
    /\ Goto(r, "put", "mcacheSet")
    /\ \E failed \in {FALSE, Failures} : putErr' = [putErr EXCEPT ![r] = failed]
    /\ UNCHANGED <<committed, mcache, memory, inst, got, tries, behind>>

\* McacheSet with a struct: the result of memcache.JSON.Set is not looked at.
PutMemcache(r) ==
    /\ Goto(r, "mcacheSet", "memorySet")
    /\ mcache' \in {r} \union IF Failures THEN {mcache} ELSE {}
    /\ UNCHANGED <<committed, memory, inst, got, tries, behind, putErr>>

\* Mutant: instance memory is left to the gets.
PutMemory_skipped(r) ==
    /\ Goto(r, "memorySet", "multicast")
    /\ UNCHANGED <<committed, mcache, memory, inst, got, tries, behind, putErr>>

PutMemory(r) ==
    /\ Goto(r, "memorySet", "multicast")
    /\ memory' = [memory EXCEPT ![inst[r]] = r]
    /\ UNCHANGED <<committed, mcache, inst, got, tries, behind, putErr>>

\* The handler invalidate: it tells the sender from the others and answers
\* accordingly, and it leaves the memory of its instance alone.
Invalidate(i, sender, entry) == entry

MultiCast(r) ==
    /\ Goto(r, "multicast", "commit")
    /\ memory' = [i \in Instances |-> Invalidate(i, inst[r], memory[i])]
    /\ UNCHANGED <<committed, mcache, inst, got, tries, behind, putErr>>

Commit(r) ==
    /\ Goto(r, "commit", "ok")
    /\ ~putErr[r] /\ ~behind[r]
    /\ committed' = Append(committed, r)
    /\ behind' = [q \in Requests |-> behind[q] \/ (q # r /\ pc[q] \in InTx)]
    /\ UNCHANGED <<mcache, memory, inst, got, tries, putErr>>

\* ErrConcurrentTransaction: the closure is run once more, up to Attempts.
Retry(r) ==
    /\ tries[r] < Attempts
    /\ Goto(r, "commit", "put")
    /\ ~putErr[r] /\ behind[r]
    /\ tries' = [tries EXCEPT ![r] = @ + 1]
    /\ behind' = [behind EXCEPT ![r] = FALSE]
    /\ UNCHANGED <<committed, mcache, memory, inst, got, putErr>>

\* Rolled back: datastore.Put or the commit failed, or too many conflicts.
FailPut(r) ==
    /\ Goto(r, "commit", "error")
    /\ putErr[r] \/ Failures \/ (behind[r] /\ tries[r] = Attempts)
    /\ UNCHANGED <<committed, mcache, memory, inst, got, tries, behind, putErr>>

-----------------------------------------------------------------------------
(* BufGet                                                                  *)

BeginGet(r) ==
    /\ Exclusive => \A q \in InFlight(inst[r]) : pc[q] \notin InTx
    /\ Goto(r, "new", "memoryGet")
    /\ UNCHANGED <<committed, mcache, memory, inst, got, tries, behind, putErr>>

MemoryHit(r) ==
    /\ Goto(r, "memoryGet", "ok")
    /\ memory[inst[r]] # Nothing
    /\ got' = [got EXCEPT ![r] = memory[inst[r]]]
    /\ UNCHANGED <<committed, mcache, memory, inst, tries, behind, putErr>>

MemoryMiss(r) ==
    /\ Goto(r, "memoryGet", "mcacheGet")
    /\ memory[inst[r]] = Nothing
    /\ UNCHANGED <<committed, mcache, memory, inst, got, tries, behind, putErr>>

\* The lookup in the map has set wb1 to nil, and JSON cannot be decoded into a
\* nil pointer: whatever memcache holds, wb1 stays nil and the hit is ignored.
\* McacheGet panics on any error other than a miss.
SkipMemcache(r) ==
    /\ \/ Goto(r, "mcacheGet", "entityGet")
       \/ Failures /\ Goto(r, "mcacheGet", "dead")
    /\ UNCHANGED <<committed, mcache, memory, inst, got, tries, behind, putErr>>

GetEntity(r) ==
    /\ \/ Goto(r, "entityGet", "mcacheFill") /\ got' = [got EXCEPT ![r] = datastore]
       \/ Failures /\ Goto(r, "entityGet", "error") /\ UNCHANGED got
    /\ UNCHANGED <<committed, mcache, memory, inst, tries, behind, putErr>>

FillMemcache(r) ==
    /\ Goto(r, "mcacheFill", "memoryFill")
    /\ mcache' \in {got[r]} \union IF Failures THEN {mcache} ELSE {}
    /\ UNCHANGED <<committed, memory, inst, got, tries, behind, putErr>>

FillMemory(r) ==
    /\ Goto(r, "memoryFill", "ok")
    /\ memory' = [memory EXCEPT ![inst[r]] = got[r]]
    /\ UNCHANGED <<committed, mcache, inst, got, tries, behind, putErr>>

-----------------------------------------------------------------------------
(* The platform.                                                           *)

\* An instance is stopped; another one takes its place with an empty memory.
Restart(i) ==
    /\ memory' = [memory EXCEPT ![i] = Nothing]
    /\ pc' = [r \in Requests |->
                 IF inst[r] = i /\ pc[r] \notin Ended THEN "dead" ELSE pc[r]]
    /\ UNCHANGED <<committed, mcache, inst, got, tries, behind, putErr>>

Evict ==
    /\ mcache # Nothing
    /\ mcache' = Nothing
    /\ UNCHANGED <<committed, memory, request>>

Put(r) == PutEntity(r) \/ PutMemcache(r) \/ PutMemory(r) \/ MultiCast(r)
              \/ Commit(r) \/ Retry(r) \/ FailPut(r)
Get(r) == MemoryHit(r) \/ MemoryMiss(r) \/ SkipMemcache(r) \/ GetEntity(r)
              \/ FillMemcache(r) \/ FillMemory(r)

Next ==
    /\ \/ \E r \in Requests : BeginPut(r) \/ BeginGet(r) \/ Put(r) \/ Get(r)
       \/ \E i \in Instances : Restart(i)
       \/ Evict
    /\ UNCHANGED orderly

Spec == Init /\ [][Next]_vars

-----------------------------------------------------------------------------
TypeOK ==
    /\ committed \in Seq(Requests)
    /\ mcache \in Values \union {Nothing}
    /\ memory \in [Instances -> Values \union {Nothing}]
    /\ pc \in [Requests -> Ended \union InTx \union
                  {"memoryGet", "mcacheGet", "entityGet", "mcacheFill", "memoryFill"}]
    /\ inst \in [Requests -> Instances]
    /\ got \in [Requests -> Values \union {Nothing}]
    /\ \A r \in Requests : pc[r] \in {"mcacheFill", "memoryFill"} => got[r] # Nothing
    /\ tries \in [Requests -> 0 .. Attempts]
    /\ behind \in [Requests -> BOOLEAN] /\ putErr \in [Requests -> BOOLEAN]
    /\ orderly \in BOOLEAN

\* The puts that were committed after value v.
After(v) == {committed[k] : k \in {k \in DOMAIN committed :
                \A j \in k .. Len(committed) : committed[j] # v}}

\* A put that was overtaken by others in every attempt.
Outrun(r) == pc[r] = "error" /\ behind[r] /\ tries[r] = Attempts

\* Everything has its type.  In orderly conditions an instance at rest holds a
\* value that got into the datastore, and is out of date only because of puts on
\* other instances: its own puts, which write the memory before they commit and
\* may be run again, and its restarts, at whatever step they hit, leave its
\* memory empty or right.  The one exception is a put that was outrun in every
\* attempt: its value stays in memory, although the put is rolled back.
\* Whatever overlaps and fails, a value that an instance serves and the
\* datastore never had belongs to a put that did not report success.
MemoryCoherent ==
    TypeOK /\ \A i \in Instances :
        /\ orderly /\ InFlight(i) = {} /\ memory[i] # Nothing =>
              \/ \E r \in Requests : memory[i] = r /\ inst[r] = i /\ Outrun(r)
              \/ /\ memory[i] \in Requests => memory[i] \in ToSet(committed)
                 /\ \A r \in After(memory[i]) : inst[r] # i
        /\ memory[i] \in Requests \ ToSet(committed) => pc[memory[i]] # "ok"
=============================================================================
