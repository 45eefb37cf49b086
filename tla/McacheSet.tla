----------------------------- MODULE McacheSet -----------------------------
(***************************************************************************)
(* Scalars in memcache: dsu/put_get_memcache.go.                           *)
(*                                                                         *)
(* McacheSet fetches the item, and then tries to replace it by compare-    *)
(* and-swap, or to add it if there was none.  A conflict is answered with  *)
(* a plain Set, followed by the next attempt with the item fetched at the  *)
(* beginning; after three attempts McacheSet panics.                       *)
(*                                                                         *)
(* The hidden casID of a fetched item is represented by a flag that falls  *)
(* when anybody changes the item.  This module has no specification of its *)
(* own; ShardedCounter composes its actions with the callers of McacheSet. *)
(***************************************************************************)
EXTENDS Naturals

CONSTANTS Clients, Keys,
          Failures, \* may memcache fail with a server error?
          Absent    \* no item under a key

ASSUME McacheAssumption == Failures \in BOOLEAN /\ Absent \notin Nat

MaxTries == 3

VARIABLES
    item, \* memcache: the item under every key
    call  \* the call of McacheSet a client is in, with its local variables

mcacheVars == <<item, call>>

Idle == [at |-> "idle"]
Panicked == [at |-> "panicked"]
Running(key, val, mode) ==
    [at |-> "put", key |-> key, val |-> val, mode |-> mode, try |-> 0, fresh |-> TRUE]

MInit ==
    /\ item = [k \in Keys |-> Absent]
    /\ call = [c \in Clients |-> Idle]

\* Every change of an item invalidates the casIDs that were handed out for it.
Stale(c, k) ==
    IF call[c].at \in {"put", "fallback"} /\ call[c].key = k
      THEN [call[c] EXCEPT !.fresh = FALSE] ELSE call[c]

\* A change of item k; client c goes on as told.
Write(k, v) == item' = [item EXCEPT ![k] = v] /\ call' = [q \in Clients |-> Stale(q, k)]
WriteBy(c, k, v, next) ==
    /\ item' = [item EXCEPT ![k] = v]
    /\ call' = [[q \in Clients |-> Stale(q, k)] EXCEPT ![c] = next]

Continue(c, next) == call' = [call EXCEPT ![c] = next] /\ UNCHANGED item

-----------------------------------------------------------------------------
(* McacheSet for a scalar value.                                           *)

\* miCas, eget := memcache.Get(c, skey)
SetFetch(c, k, v) ==
    /\ call[c] = Idle
    /\ Continue(c, Running(k, v, IF item[k] = Absent THEN "ADD" ELSE "CAS"))

\* Any other error of the fetch leaves miCas nil, and the next line writes to it;
\* McacheGet panics itself.
FetchFails(c) == Failures /\ call[c] = Idle /\ Continue(c, Panicked)

Attempt(c) == call[c].at = "put" /\ call[c].try < MaxTries
Present(c) == item[call[c].key] # Absent

SetStored(c) ==
    /\ Attempt(c)
    /\ IF call[c].mode = "CAS" THEN Present(c) /\ call[c].fresh ELSE ~Present(c)
    /\ WriteBy(c, call[c].key, call[c].val, Idle)

\* ErrCASConflict
SetConflict(c) ==
    /\ Attempt(c)
    /\ call[c].mode = "CAS" /\ Present(c) /\ ~call[c].fresh
    /\ Continue(c, [call[c] EXCEPT !.at = "fallback"])

\* The plain Set, whose outcome is not looked at, and continue.
SetFallback(c) ==
    LET next == [call[c] EXCEPT !.at = "put", !.try = @ + 1]
    IN  /\ call[c].at = "fallback"
        /\ \/ WriteBy(c, call[c].key, call[c].val, next)
           \/ Failures /\ Continue(c, next)

\* ErrNotStored: the item to swap has gone, or the item to add is there.
SetNotStored(c) ==
    /\ Attempt(c)
    /\ IF call[c].mode = "CAS" THEN ~Present(c) ELSE Present(c)
    /\ Continue(c, [call[c] EXCEPT !.try = @ + 1])

\* Any other error leaves the loop as a success does.
SetGivesUp(c) == Failures /\ Attempt(c) /\ Continue(c, Idle)

SetPanics(c) ==
    /\ call[c].at = "put" /\ call[c].try = MaxTries
    /\ Continue(c, Panicked)

SetStep(c) == SetStored(c) \/ SetConflict(c) \/ SetFallback(c) \/ SetNotStored(c)
                  \/ SetPanics(c) \/ SetGivesUp(c)

-----------------------------------------------------------------------------
(* The other uses of memcache.                                             *)

\* McacheGet into a WrapInt: an absent item leaves the zero value.
Fetched(k) == IF item[k] = Absent THEN 0 ELSE item[k]

\* memcache.Increment(c, key, 1, 0) starts from zero where there is no item.
Increment(k) == Write(k, Fetched(k) + 1)

Evict(k) == item[k] # Absent /\ Write(k, Absent)

-----------------------------------------------------------------------------
MTypeOK ==
    /\ item \in [Keys -> Nat \union {Absent}]
    /\ call \in [Clients -> {Idle, Panicked} \union
          [at : {"put", "fallback"}, key : Keys, val : Nat, mode : {"CAS", "ADD"},
           try : 0 .. MaxTries, fresh : BOOLEAN]]
=============================================================================
