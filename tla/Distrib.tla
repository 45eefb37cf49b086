------------------------------ MODULE Distrib ------------------------------
(***************************************************************************)
(* Package distrib: the three staged pipeline of distrib/main.go.          *)
(*                                                                         *)
(*   stage 1 (one goroutine)    loads packets into the channel inn         *)
(*   stage 2 (NumWorkers)       runs Packet.Work() against a timeout       *)
(*   stage 3 (the caller)       collects from the channel out              *)
(*                                                                         *)
(* Both channels are unbuffered, so a send and its receive are one step of *)
(* two goroutines.  Closing the channel fin releases everybody.  The       *)
(* counters lcnt, sent and opt.Want are the shared atomics of the code;    *)
(* every atomic operation that can be told apart is a step of its own.     *)
(***************************************************************************)
EXTENDS Integers, Sequences, FiniteSets

CONSTANTS Workers,          \* stage 2 goroutines, after NumWorkers was curtailed
          NumPackets,       \* len(packets)
          Want,             \* opt.Want as given by the caller
          Modes,            \* the values of opt.CollectRemainder
          Slow              \* workers whose timer may win against Work()

\* An empty jobs slice returns at once, NumWorkers is cut down to the number
\* of packets, and Want is the number of results somebody asks for.
ASSUME DistribAssumption ==
    /\ NumPackets \in Nat \ {0}
    /\ Want \in Nat \ {0}
    /\ Modes \subseteq BOOLEAN
    /\ IsFiniteSet(Workers)
    /\ Workers # {}
    /\ Cardinality(Workers) <= NumPackets
    /\ Slow \subseteq Workers

Packets == 0 .. NumPackets - 1

\* Mutant: a signal that one late increment of the loader wipes out.
StopSignal_weak == -1

\* Stored into lcnt by stage 3 to make stage 1 stop loading.
StopSignal == -10

VARIABLES
    lcnt,      \* load counter, or negative: stop loading
    sent,      \* packets handed to stage 2, minus the timed out ones
    want,      \* opt.Want; stage 1 sets it to zero when the packets are exhausted
    fin,       \* has close(fin) happened?
    s1, idx,   \* stage 1: where it is, and the index it loaded
    s2,        \* stage 2: where each worker is
    held,      \* the packet of a worker that is racing or delivering
    timer,     \* the timer a worker started at the top of its loop
    pst,       \* where each packet is
    abandoned, \* packets given up by a worker because of the timeout
    s3,        \* stage 3: where the collector is
    returns,   \* the returned slice, by TaskID
    CollectRemainder \* opt.CollectRemainder, as given by the caller

stage1 == <<s1, idx>>
stage2 == <<s2, held, timer, abandoned>>
stage3 == <<s3, returns>>
counters == <<lcnt, sent, want>>
vars == <<counters, fin, stage1, stage2, pst, stage3, CollectRemainder>>

\* recv is incremented together with every append to returns.
recv == Len(returns)

PacketStates == {"queued",    \* still in the packets slice
                 "working",   \* inside workWrap, Work() has not returned
                 "finished",  \* inside workWrap, offering the result on res
                 "completed", \* received from res, offered on out
                 "returned",  \* collected by stage 3
                 "flushed"}   \* left where it was when fin was closed

Init ==
    /\ lcnt = 0 /\ sent = 0 /\ want = Want
    /\ fin = FALSE
    /\ s1 = "load" /\ idx = 0
    /\ s2 = [w \in Workers |-> "idle"]
    /\ held = [w \in Workers |-> 0]
    /\ timer = [w \in Workers |-> "running"]
    /\ pst = [p \in Packets |-> "queued"]
    /\ abandoned = {}
    /\ s3 = "select" /\ returns = <<>>
    /\ CollectRemainder \in Modes

-----------------------------------------------------------------------------
(* Stage 1, the loader.                                                    *)

\* Mutant: the stop signal is taken for an index.
LoadIndex_unstopped ==
    /\ s1 = "load"
    /\ idx' = lcnt
    /\ \/ lcnt > NumPackets - 1 /\ s1' = "exhausted"
       \/ lcnt < NumPackets /\ s1' = "send"
    /\ UNCHANGED <<counters, fin, stage2, pst, stage3>>

LoadIndex ==
    /\ s1 = "load"
    /\ idx' = lcnt
    /\ \/ lcnt > NumPackets - 1 /\ s1' = "exhausted"
       \/ lcnt < 0 /\ s1' = "exit"
       \/ lcnt \in Packets /\ s1' = "send"
    /\ UNCHANGED <<counters, fin, stage2, pst, stage3>>

SignalExhausted ==
    /\ s1 = "exhausted"
    /\ want' = 0
    /\ s1' = "exit"
    /\ UNCHANGED <<lcnt, sent, fin, idx, stage2, pst, stage3>>

\* inn <- packets[idx] meets packet := <-inn; the worker starts workWrap.
SendInn(w) ==
    /\ s1 = "send" /\ s2[w] = "idle"
    /\ s1' = "sentInn"
    /\ s2' = [s2 EXCEPT ![w] = "racing"]
    /\ held' = [held EXCEPT ![w] = idx]
    /\ pst' = [pst EXCEPT ![idx] = "working"]
    /\ UNCHANGED <<counters, fin, idx, timer, abandoned, stage3>>

\* Mutant: the increment of the load counter is lost.
CountLoaded_lost ==
    /\ s1 = "sentInn"
    /\ s1' = "loaded"
    /\ UNCHANGED <<counters, fin, idx, stage2, pst, stage3>>

CountLoaded ==
    /\ s1 = "sentInn"
    /\ lcnt' = lcnt + 1
    /\ s1' = "loaded"
    /\ UNCHANGED <<sent, want, fin, idx, stage2, pst, stage3>>

CountSent ==
    /\ s1 = "loaded"
    /\ sent' = sent + 1
    /\ s1' = "load"
    /\ UNCHANGED <<lcnt, want, fin, idx, stage2, pst, stage3>>

LoaderFin ==
    /\ s1 = "send" /\ fin
    /\ s1' = "exit"
    /\ UNCHANGED <<counters, fin, idx, stage2, pst, stage3>>

-----------------------------------------------------------------------------
(* Stage 2, the workers.  A worker's timer is started at the top of its    *)
(* loop, before it waits for a packet.                                     *)

\* time.After(opt.TimeOutDur) elapses.  A worker that is not Slow is quick
\* enough for the timeout never to matter, unless its result will not come
\* because workWrap chose the fin branch.
TimerExpires(w) ==
    /\ timer[w] = "running"
    /\ s2[w] \in {"idle", "racing"}
    /\ w \in Slow \/ fin
    /\ timer' = [timer EXCEPT ![w] =
                    IF s2[w] = "idle" THEN "expiredIdle" ELSE "expiredWorking"]
    /\ UNCHANGED <<counters, fin, stage1, s2, held, abandoned, pst, stage3, CollectRemainder>>

\* completed := <-res
TakeResult(w) ==
    /\ s2[w] = "racing" /\ pst[held[w]] = "finished"
    /\ s2' = [s2 EXCEPT ![w] = "delivering"]
    /\ pst' = [pst EXCEPT ![held[w]] = "completed"]
    /\ UNCHANGED <<counters, fin, stage1, held, timer, abandoned, stage3>>

\* Mutant: the timed out packet stays in sent.
Abandon_uncounted(w) ==
    /\ s2[w] = "racing" /\ timer[w] # "running"
    /\ abandoned' = abandoned \union {held[w]}
    /\ s2' = [s2 EXCEPT ![w] = "exit"]
    /\ UNCHANGED <<counters, fin, stage1, held, timer, pst, stage3>>

\* Mutant: the packet is counted out, but its result is still waited for.
Abandon_waits(w) ==
    /\ s2[w] = "racing" /\ timer[w] # "running"
    /\ held[w] \notin abandoned
    /\ sent' = sent - 1
    /\ abandoned' = abandoned \union {held[w]}
    /\ UNCHANGED <<lcnt, want, fin, stage1, s2, held, timer, pst, stage3>>

\* <-timeout: the packet is given up, and "break NextPacket" leaves the
\* labelled loop, so that the goroutine ends.
Abandon(w) ==
    /\ s2[w] = "racing" /\ timer[w] # "running"
    /\ sent' = sent - 1
    /\ abandoned' = abandoned \union {held[w]}
    /\ s2' = [s2 EXCEPT ![w] = "exit"]
    /\ UNCHANGED <<lcnt, want, fin, stage1, held, timer, pst, stage3>>

WorkerFin(w) ==
    /\ s2[w] = "idle" /\ fin
    /\ s2' = [s2 EXCEPT ![w] = "exit"]
    /\ UNCHANGED <<counters, fin, stage1, held, timer, abandoned, pst, stage3>>

DeliverFin(w) ==
    /\ s2[w] = "delivering" /\ fin
    /\ s2' = [s2 EXCEPT ![w] = "exit"]
    /\ pst' = [pst EXCEPT ![held[w]] = "flushed"]
    /\ UNCHANGED <<counters, fin, stage1, held, timer, abandoned, stage3>>

\* workWrap: Work() returns, then the result is offered on res or dropped.
WorkReturns(p) ==
    /\ pst[p] = "working"
    /\ pst' = [pst EXCEPT ![p] = "finished"]
    /\ UNCHANGED <<counters, fin, stage1, stage2, stage3>>

\* Mutant: the send on res is not clad in a select with fin.
WrapFin_blocking(p) ==
    /\ pst[p] = "finished" /\ fin /\ pst[p] = "flushed"
    /\ UNCHANGED vars

WrapFin(p) ==
    /\ pst[p] = "finished" /\ fin
    /\ pst' = [pst EXCEPT ![p] = "flushed"]
    /\ UNCHANGED <<counters, fin, stage1, stage2, stage3>>

-----------------------------------------------------------------------------
(* Stage 3, the collector.  Its branch on fin is never taken: only stage 3 *)
(* closes fin, and it leaves the loop when it does.                        *)

\* Mutant: the tick does not wait for the packets under way.
Tick_unsynced ==
    /\ s3 = "select" /\ CollectRemainder
    /\ recv >= want
    /\ s3' = "cleanup"
    /\ UNCHANGED <<counters, fin, stage1, stage2, pst, returns>>

\* opt.Want is read before sent; it only ever falls, to zero, so that the
\* two reads are one step at the time of the second.
Tick ==
    /\ s3 = "select" /\ CollectRemainder
    /\ recv >= want /\ recv >= sent
    /\ s3' = "cleanup"
    /\ UNCHANGED <<counters, fin, stage1, stage2, pst, returns>>

\* out <- completed meets packet := <-out; the worker restarts its timer.
ReceiveOut(w) ==
    /\ s3 = "select" /\ s2[w] = "delivering"
    /\ s3' = "check"
    /\ returns' = Append(returns, held[w])
    /\ pst' = [pst EXCEPT ![held[w]] = "returned"]
    /\ s2' = [s2 EXCEPT ![w] = "idle"]
    /\ timer' = [timer EXCEPT ![w] = "running"]
    /\ UNCHANGED <<counters, fin, stage1, held, abandoned, CollectRemainder>>

NotYetEnough ==
    /\ s3 = "check" /\ recv < want
    /\ s3' = "select"
    /\ UNCHANGED <<counters, fin, stage1, stage2, pst, returns>>

Enough ==
    /\ s3 = "check" /\ recv >= want
    /\ lcnt' = StopSignal
    /\ \/ CollectRemainder /\ s3' = "select" /\ UNCHANGED fin
       \/ ~CollectRemainder /\ s3' = "cleanup" /\ fin' = TRUE
    /\ UNCHANGED <<sent, want, stage1, stage2, pst, returns>>

Cleanup ==
    /\ s3 = "cleanup"
    /\ fin' = (fin \/ CollectRemainder)
    /\ s3' = "done"
    /\ UNCHANGED <<counters, stage1, stage2, pst, returns>>

-----------------------------------------------------------------------------
Unchanged == UNCHANGED CollectRemainder

Loader ==
    (LoadIndex \/ SignalExhausted \/ CountLoaded \/ CountSent \/ LoaderFin) /\ Unchanged
Worker(w) ==
    (SendInn(w) \/ TakeResult(w) \/ Abandon(w) \/ WorkerFin(w) \/ DeliverFin(w)) /\ Unchanged
WorkWrap(p) == (WorkReturns(p) \/ WrapFin(p)) /\ Unchanged
Collector == (Tick \/ NotYetEnough \/ Enough \/ Cleanup) /\ Unchanged

Next ==
    \/ Loader
    \/ \E w \in Workers : Worker(w) \/ TimerExpires(w) \/ ReceiveOut(w)
    \/ \E p \in Packets : WorkWrap(p)
    \/ Collector

Spec == Init /\ [][Next]_vars

\* Every goroutine that can run does, every timer elapses, Work() returns, and
\* select does not overlook a ticker or a sender that stays ready.
Fairness ==
    /\ WF_vars(Loader)
    /\ \A w \in Workers : WF_vars(Worker(w)) /\ WF_vars(TimerExpires(w))
    /\ \A p \in Packets : WF_vars(WorkWrap(p))
    /\ WF_vars(Collector)
    /\ WF_vars(\E w \in Workers : ReceiveOut(w))

FairSpec == Spec /\ Fairness

-----------------------------------------------------------------------------
TypeOK ==
    /\ lcnt \in -10 .. NumPackets
    /\ sent \in Int
    /\ want \in {0, Want}
    /\ fin \in BOOLEAN
    /\ s1 \in {"load", "send", "sentInn", "loaded", "exhausted", "exit"}
    /\ idx \in -10 .. NumPackets
    /\ s2 \in [Workers -> {"idle", "racing", "delivering", "exit"}]
    /\ held \in [Workers -> Packets]
    /\ timer \in [Workers -> {"running", "expiredIdle", "expiredWorking"}]
    /\ pst \in [Packets -> PacketStates]
    /\ abandoned \subseteq Packets
    /\ s3 \in {"select", "check", "cleanup", "done"}
    /\ returns \in Seq(Packets)
    /\ CollectRemainder \in Modes

Returned == {returns[i] : i \in DOMAIN returns}
HandedOut == {p \in Packets : pst[p] # "queued"}

\* No packet reaches the caller twice, although lcnt is shared by the loader,
\* which increments it after the handover, and stage 3, which overwrites it.
DeliveredOnce ==
    /\ \A i, j \in DOMAIN returns : returns[i] = returns[j] => i = j
    /\ \A p \in Returned : pst[p] = "returned"

\* A packet that was abandoned for its timeout is never delivered as well, and
\* two workers never work on one packet.
AbandonedNotReturned ==
    /\ abandoned \cap Returned = {}
    /\ \A v, w \in Workers :
          /\ s2[v] \in {"racing", "delivering"}
          /\ s2[w] \in {"racing", "delivering"}
          /\ held[v] = held[w]
          => v = w

\* The counter sent, which two stages change after the fact, is the number of
\* packets handed out and not abandoned, less the one the loader has yet to
\* count.  The exit on a tick relies on it.
SentAccounting ==
    sent + (IF s1 \in {"sentInn", "loaded"} THEN 1 ELSE 0)
        = Cardinality(HandedOut \ abandoned)

\* Handed out, and neither back nor given up.
Missing == HandedOut \ (abandoned \union Returned)

\* "It then waits until all sent packets have been received" (main.go:25): where
\* a tick may end the loop, packets are missing only if the loader has not
\* counted its last handover yet, and then one is, which need not be that last
\* one.  After the loop no second gets lost, although the loader may still be
\* offering one.  And the caller gets more than Want results only from packets
\* that were under way when the loading was stopped: one for each worker and one
\* more in the hands of the loader.  Flushing cuts off exactly.
RemainderCollected ==
    /\ CollectRemainder /\ s3 = "select" /\ recv >= want /\ recv >= sent =>
          Cardinality(Missing) <= IF s1 \in {"sentInn", "loaded"} THEN 1 ELSE 0
    /\ CollectRemainder /\ s3 \in {"cleanup", "done"} =>
          Cardinality(Missing) + (IF s1 = "send" THEN 1 ELSE 0) <= 1
    /\ Len(returns) <= Want + IF CollectRemainder THEN Cardinality(Workers) + 1 ELSE 0

\* The stop signal survives the increments of the loader that race with it.
StopIsSticky == [][lcnt < 0 => lcnt' < 0]_lcnt

\* Distrib() returns to its caller.
Termination == <>(s3 = "done")

\* Closing fin releases every goroutine, those of timed out packets included.
CleanExit ==
    fin ~> /\ s1 = "exit"
           /\ \A w \in Workers : s2[w] = "exit"
           /\ \A p \in Packets : pst[p] \notin {"working", "finished"}

\* The pipeline implements what the package promises its callers.
Contract == INSTANCE DistribContract WITH
    Tasks <- Packets, Wanted <- Want, collect <- CollectRemainder,
    results <- returns, givenUp <- abandoned, open <- s3 \in {"select", "check"}
ImplementsContract == Contract!Spec

=============================================================================
