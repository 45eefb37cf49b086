----------------------------- MODULE NsCounter -----------------------------
(***************************************************************************)
(* The counters of package namespaced_taskqueued_cntr: one entity in each  *)
(* of two namespaces, incremented in transactions by requests and by tasks *)
(* of a queue, read and reset without a transaction.  Datastore and task   *)
(* queue are external: a transaction that meets another write is tried     *)
(* again, and a task runs at least once.                                   *)
(***************************************************************************)
EXTENDS Integers, Sequences

CONSTANTS Handlers,  \* bound: requests and runs of tasks
          MaxRuns    \* bound: runs of one task

VARIABLES
    count,     \* the entity of every namespace
    writes,    \* how often it was written
    handler,   \* every request or task: what is left to do
    queue,     \* the runs that the task of every namespace still has to have
    floor,     \* what the entity says when nothing was added since the last reset
    gained,    \* increments that were committed
    reported,  \* increments that readers learnt of before they reset
    disturbed  \* namespaces where a write came between a read and its reset

nsVars == <<count, writes, handler, queue, floor, gained, reported, disturbed>>

Namespaces == {"", "ns01"}
AfterReset == -1
Attempts == 3

Op(name, ns) == [op |-> name, ns |-> ns]
Idle == [begun |-> FALSE, left |-> <<>>, seen |-> 0, read |-> 0, tries |-> 0]

agnosticIncrement(ns) == <<Op("begin", ns), Op("commit", ns)>>
agnosticReadReset(ns, doReset) == <<Op("get", ns)>> \o IF doReset THEN <<Op("reset", ns)>> ELSE <<>>
readBothNamespaces(reset) == agnosticReadReset("", reset) \o agnosticReadReset("ns01", reset)
incrementBothNamespaces(reset) ==
    agnosticIncrement("") \o agnosticIncrement("ns01") \o readBothNamespaces(reset)
queuePush(reset) ==
    <<Op("add", ""), Op("add", "ns01")>> \o readBothNamespaces(reset) \o readBothNamespaces(reset)
queuePop(ns) == agnosticIncrement(ns)

NsInit ==
    /\ count = [ns \in Namespaces |-> 0] /\ writes = [ns \in Namespaces |-> 0]
    /\ handler = [h \in Handlers |-> Idle]
    /\ queue = [ns \in Namespaces |-> 0]
    /\ floor = [ns \in Namespaces |-> 0]
    /\ gained = [ns \in Namespaces |-> 0] /\ reported = [ns \in Namespaces |-> 0]
    /\ disturbed = {}

Start(h, program) ==
    /\ ~handler[h].begun
    /\ handler' = [handler EXCEPT ![h].begun = TRUE, ![h].left = program]
    /\ UNCHANGED <<count, writes, floor, gained, reported, disturbed>>

Request(h) ==
    /\ \E reset \in BOOLEAN :
        \E program \in {readBothNamespaces(reset), incrementBothNamespaces(reset), queuePush(reset)} :
            Start(h, program)
    /\ UNCHANGED queue

\* A task leaves the queue when a run of it ends well; it may have run before.
RunTask(h) ==
    \E ns \in Namespaces : /\ queue[ns] > 0
                           /\ Start(h, queuePop(ns))
                           /\ queue' = [queue EXCEPT ![ns] = @ - 1]

Next1(h, ns, name) == handler[h].left # <<>> /\ handler[h].left[1] = Op(name, ns)
Done(h) == [handler[h] EXCEPT !.left = Tail(@)]
\* The rest of the function is not run.
Return(h) == [Done(h) EXCEPT !.left = IF @ # <<>> /\ Head(@).op \in {"commit", "reset"} THEN Tail(@) ELSE @]
Set(h, r) == handler' = [handler EXCEPT ![h] = r]

Write(ns, value) ==
    count' = [count EXCEPT ![ns] = value] /\ writes' = [writes EXCEPT ![ns] = @ + 1]

\* The transaction reads.
BeginTx(h, ns) ==
    /\ Next1(h, ns, "begin")
    /\ Set(h, [Done(h) EXCEPT !.seen = writes[ns], !.read = count[ns]])
    /\ UNCHANGED <<count, writes, queue, floor, gained, reported, disturbed>>

\* Mutant: the increment is not in a transaction.
Conflict_never(h, ns) == FALSE

Conflict(h, ns) == writes[ns] # handler[h].seen

CommitTx(h, ns) ==
    /\ Next1(h, ns, "commit")
    /\ IF Conflict(h, ns)
       THEN /\ Set(h, IF handler[h].tries + 1 < Attempts
                      THEN [handler[h] EXCEPT !.left = <<Op("begin", ns)>> \o @, !.tries = @ + 1]
                      ELSE [Done(h) EXCEPT !.tries = 0])
            /\ UNCHANGED <<count, writes, gained>>
       ELSE /\ Set(h, [Done(h) EXCEPT !.tries = 0])
            /\ Write(ns, handler[h].read + 1)
            /\ gained' = [gained EXCEPT ![ns] = @ + 1]
    /\ UNCHANGED <<queue, floor, reported, disturbed>>

Get(h, ns) ==
    /\ Next1(h, ns, "get")
    /\ Set(h, [Done(h) EXCEPT !.seen = writes[ns], !.read = count[ns]])
    /\ UNCHANGED <<count, writes, queue, floor, gained, reported, disturbed>>

Reset(h, ns) ==
    /\ Next1(h, ns, "reset")
    /\ Set(h, Done(h)) /\ Write(ns, AfterReset)
    /\ reported' = [reported EXCEPT ![ns] = @ + handler[h].read - floor[ns]]
    /\ floor' = [floor EXCEPT ![ns] = AfterReset]
    /\ disturbed' = IF writes[ns] # handler[h].seen THEN disturbed \cup {ns} ELSE disturbed
    /\ UNCHANGED <<queue, gained>>

Add(h, ns) ==
    /\ Next1(h, ns, "add")
    /\ Set(h, Done(h))
    /\ \E runs \in 1 .. MaxRuns : queue' = [queue EXCEPT ![ns] = @ + runs]
    /\ UNCHANGED <<count, writes, floor, gained, reported, disturbed>>

\* A call of the datastore or the queue fails; the error is returned, and logged.
Fail(h) ==
    /\ handler[h].left # <<>>
    /\ Set(h, [Return(h) EXCEPT !.tries = 0])
    /\ UNCHANGED <<count, writes, queue, floor, gained, reported, disturbed>>

NsNext ==
    \E h \in Handlers :
        \/ Request(h) \/ RunTask(h) \/ Fail(h)
        \/ \E ns \in Namespaces : BeginTx(h, ns) \/ CommitTx(h, ns) \/ Get(h, ns) \/ Reset(h, ns) \/ Add(h, ns)

NsSpec == NsInit /\ [][NsNext]_nsVars

(***************************************************************************)
(* What readers learnt before they reset a counter and what it says since  *)
(* is what was committed, unless a write came between a read and its       *)
(* reset.  After a reset the entity says one less than what was added.     *)
(***************************************************************************)
CountsAddUp ==
    \A ns \in Namespaces \ disturbed : gained[ns] = reported[ns] + count[ns] - floor[ns]
=============================================================================
