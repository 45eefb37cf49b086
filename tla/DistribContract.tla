------------------------- MODULE DistribContract -------------------------
(***************************************************************************)
(* What Distrib() promises its caller, without stages, channels and        *)
(* counters: results arrive one at a time, a task may be given up instead, *)
(* and the call ends when it may.                                          *)
(*                                                                         *)
(* The two exit modes of the package comment (distrib/main.go:15-27) are   *)
(* the two ways to end: collecting the remainder, with as many results as  *)
(* were wanted or with every task accounted for, and flushing, which may   *)
(* lose results but never comes back with nothing at all.                  *)
(***************************************************************************)
EXTENDS Naturals, Sequences, FiniteSets

CONSTANTS Tasks, Wanted

VARIABLES results,  \* tasks whose result was returned, in order of arrival
          givenUp,  \* tasks that timed out
          open,     \* the call has not ended
          collect   \* the exit mode asked for

vars == <<results, givenUp, open, collect>>

Returned == {results[i] : i \in DOMAIN results}

Init == results = <<>> /\ givenUp = {} /\ open = TRUE /\ collect \in BOOLEAN

Return(t) ==
    /\ open
    /\ t \notin Returned \union givenUp
    /\ results' = Append(results, t)
    /\ UNCHANGED <<givenUp, open, collect>>

\* A task can still time out while the pipeline is torn down.
GiveUp(t) ==
    /\ t \notin Returned \union givenUp
    /\ givenUp' = givenUp \union {t}
    /\ UNCHANGED <<results, open, collect>>

End ==
    /\ open
    /\ IF collect
         THEN Len(results) >= Wanted \/ Returned \union givenUp = Tasks
         ELSE results # <<>> /\ Len(results) <= Wanted
    /\ open' = FALSE
    /\ UNCHANGED <<results, givenUp, collect>>

Next == End \/ \E t \in Tasks : Return(t) \/ GiveUp(t)

Spec == Init /\ [][Next]_vars
=============================================================================
