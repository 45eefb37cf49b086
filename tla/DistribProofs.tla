--------------------------- MODULE DistribProofs ---------------------------
(***************************************************************************)
(* Theorems about Distrib, for every number of workers and packets and for *)
(* both exit modes: exactly-once delivery, the meaning of the counter sent *)
(* and the exact cut-off of a flushing pipeline.                           *)
(***************************************************************************)
EXTENDS Distrib, FunctionTheorems, FiniteSetTheorems, TLAPS

-----------------------------------------------------------------------------
(* The inductive invariant.                                                *)

\* The load counter, unless it carries the stop signal, separates the packets
\* that are still queued from the ones that were handed out.  The loader lags
\* behind by one between the handover and its increment, and a stop signal that
\* was stored in between is off by one afterwards.
QueuedFrom(n) == \A p \in Packets : pst[p] = "queued" <=> p >= n

LoaderInv ==
    /\ lcnt < 0 => lcnt \in {StopSignal, StopSignal + 1}
    /\ s1 \in {"load", "loaded"} /\ lcnt >= 0 => QueuedFrom(lcnt)
    /\ s1 = "send" => /\ idx \in Packets
                      /\ lcnt \in {idx, StopSignal}
                      /\ QueuedFrom(idx)
    /\ s1 = "sentInn" => /\ idx \in Packets
                         /\ lcnt \in {idx, StopSignal}
                         /\ QueuedFrom(idx + 1)

\* A packet in the hands of a worker is where the worker believes it to be, and
\* in nobody else's hands.
Active(w) == s2[w] \in {"racing", "delivering"}

HolderInv ==
    /\ \A w \in Workers :
          /\ s2[w] = "racing" => pst[held[w]] \in {"working", "finished", "flushed"}
          /\ s2[w] = "delivering" => pst[held[w]] = "completed"
          /\ Active(w) => held[w] \notin abandoned
    /\ \A v, w \in Workers : Active(v) /\ Active(w) /\ held[v] = held[w] => v = w
    /\ \A p \in abandoned : pst[p] \in {"working", "finished", "flushed"}

ReturnInv ==
    /\ \A i, j \in DOMAIN returns : returns[i] = returns[j] => i = j
    /\ \A i \in DOMAIN returns : pst[returns[i]] = "returned"

DeliveryInv == TypeOK /\ LoaderInv /\ HolderInv /\ ReturnInv

-----------------------------------------------------------------------------
LEMMA DeliveryInit == Init => DeliveryInv
<1> SUFFICES ASSUME Init PROVE DeliveryInv
  OBVIOUS
<1>1. TypeOK
  <2>1. 0 \in Packets
    BY DistribAssumption DEF Packets, DistribAssumption
  <2>2. returns \in Seq(Packets)
    BY DEF Init
  <2>3. /\ lcnt \in -10 .. NumPackets
        /\ idx \in -10 .. NumPackets
        /\ sent \in Int
    BY DistribAssumption DEF Init, DistribAssumption
  <2>4. QED
    BY <2>1, <2>2, <2>3 DEF Init, TypeOK, PacketStates
<1>2. LoaderInv
  BY DEF Init, LoaderInv, QueuedFrom, Packets
<1>3. HolderInv
  BY DEF Init, HolderInv, Active
<1>4. ReturnInv
  BY DEF Init, ReturnInv
<1> QED
  BY <1>1, <1>2, <1>3, <1>4 DEF DeliveryInv

\* The loader, other than by handing over, only moves its counter.
LEMMA LoaderStep == DeliveryInv /\ Loader => DeliveryInv'
<1> SUFFICES ASSUME DeliveryInv, Loader PROVE DeliveryInv'
  OBVIOUS
<1> USE DEF Loader, Unchanged
<1>1. CASE LoadIndex
  BY <1>1 DEF LoadIndex, DeliveryInv, TypeOK, LoaderInv, QueuedFrom, HolderInv,
     Active, ReturnInv, Packets, StopSignal, counters, stage2, stage3
<1>2. CASE SignalExhausted
  BY <1>2 DEF SignalExhausted, DeliveryInv, TypeOK, LoaderInv, QueuedFrom, HolderInv,
     Active, ReturnInv, Packets, StopSignal, stage2, stage3
<1>3. CASE CountLoaded
  BY <1>3, DistribAssumption DEF DistribAssumption, CountLoaded, DeliveryInv, TypeOK, LoaderInv, QueuedFrom, HolderInv,
     Active, ReturnInv, Packets, StopSignal, stage2, stage3
<1>4. CASE CountSent
  BY <1>4 DEF CountSent, DeliveryInv, TypeOK, LoaderInv, QueuedFrom, HolderInv,
     Active, ReturnInv, Packets, StopSignal, stage2, stage3
<1>5. CASE LoaderFin
  BY <1>5 DEF LoaderFin, DeliveryInv, TypeOK, LoaderInv, QueuedFrom, HolderInv,
     Active, ReturnInv, Packets, StopSignal, counters, stage2, stage3
<1> QED
  BY <1>1, <1>2, <1>3, <1>4, <1>5 DEF Loader

LEMMA HandoverStep ==
  ASSUME DeliveryInv, NEW w \in Workers, SendInn(w), Unchanged PROVE DeliveryInv'
<1> USE DEF Unchanged
<1>1. pst[idx] = "queued" /\ idx \in Packets
  BY DEF DeliveryInv, LoaderInv, QueuedFrom, SendInn, Packets
<1>2. TypeOK'
  BY <1>1 DEF DeliveryInv, TypeOK, SendInn, counters, stage3, PacketStates
<1>3. LoaderInv'
  BY <1>1 DEF DeliveryInv, TypeOK, LoaderInv, QueuedFrom, SendInn, counters, Packets, StopSignal
<1>4. HolderInv'
  BY <1>1 DEF DeliveryInv, TypeOK, HolderInv, Active, SendInn
<1>5. ReturnInv'
  BY <1>1 DEF DeliveryInv, TypeOK, ReturnInv, SendInn, stage3
<1> QED
  BY <1>2, <1>3, <1>4, <1>5 DEF DeliveryInv

\* Every other step of a worker, of its timer and of workWrap keeps the queue.
LEMMA WorkerStep ==
  ASSUME DeliveryInv, NEW w \in Workers,
         TakeResult(w) \/ Abandon(w) \/ WorkerFin(w) \/ DeliverFin(w) \/ TimerExpires(w),
         Unchanged
  PROVE  DeliveryInv'
<1> USE DEF Unchanged, DeliveryInv, TypeOK, counters, stage1, stage2, stage3
<1>1. CASE TakeResult(w)
  <2>1. TypeOK' /\ LoaderInv'
    BY <1>1 DEF TakeResult, LoaderInv, QueuedFrom, PacketStates
  <2>2. HolderInv'
    BY <1>1 DEF TakeResult, HolderInv, Active
  <2>3. ReturnInv'
    BY <1>1 DEF TakeResult, ReturnInv
  <2> QED
    BY <2>1, <2>2, <2>3
<1>2. CASE Abandon(w)
  <2>1. TypeOK' /\ LoaderInv' /\ ReturnInv'
    BY <1>2 DEF Abandon, LoaderInv, QueuedFrom, ReturnInv
  <2>2. HolderInv'
    BY <1>2 DEF Abandon, HolderInv, Active
  <2> QED
    BY <2>1, <2>2
<1>3. CASE WorkerFin(w)
  BY <1>3 DEF WorkerFin, LoaderInv, QueuedFrom, HolderInv, Active, ReturnInv
<1>4. CASE DeliverFin(w)
  <2>1. TypeOK' /\ LoaderInv'
    BY <1>4 DEF DeliverFin, LoaderInv, HolderInv, QueuedFrom, PacketStates
  <2>2. HolderInv'
    BY <1>4 DEF DeliverFin, HolderInv, Active
  <2>3. ReturnInv'
    BY <1>4 DEF DeliverFin, HolderInv, ReturnInv
  <2> QED
    BY <2>1, <2>2, <2>3
<1>5. CASE TimerExpires(w)
  BY <1>5 DEF TimerExpires, LoaderInv, QueuedFrom, HolderInv, Active, ReturnInv
<1> QED
  BY <1>1, <1>2, <1>3, <1>4, <1>5

LEMMA WorkWrapStep ==
  ASSUME DeliveryInv, NEW p \in Packets, WorkWrap(p) PROVE DeliveryInv'
<1> USE DEF DeliveryInv, TypeOK, counters, stage1, stage2, stage3
<1>1. TypeOK' /\ LoaderInv'
  <2>1. pst' \in [Packets -> PacketStates]
    BY DEF WorkWrap, WorkReturns, WrapFin, PacketStates
  <2>2. TypeOK'
    BY <2>1 DEF WorkWrap, Unchanged, WorkReturns, WrapFin
  <2>3. LoaderInv'
    BY DEF WorkWrap, WorkReturns, WrapFin, LoaderInv, QueuedFrom
  <2> QED
    BY <2>2, <2>3
<1>2. HolderInv'
  BY DEF WorkWrap, Unchanged, WorkReturns, WrapFin, HolderInv, Active
<1>3. ReturnInv'
  BY DEF WorkWrap, Unchanged, WorkReturns, WrapFin, ReturnInv
<1> QED
  BY <1>1, <1>2, <1>3

LEMMA ReceiveStep ==
  ASSUME DeliveryInv, NEW w \in Workers, ReceiveOut(w) PROVE DeliveryInv'
<1> USE DEF DeliveryInv, TypeOK, counters, stage1, stage2, stage3
<1>1. held[w] \in Packets /\ pst[held[w]] = "completed"
  BY DEF ReceiveOut, HolderInv
<1>2. TypeOK' /\ LoaderInv'
  <2>1. /\ returns' \in Seq(Packets)
        /\ s2' \in [Workers -> {"idle", "racing", "delivering", "exit"}]
        /\ timer' \in [Workers -> {"running", "expiredIdle", "expiredWorking"}]
        /\ pst' \in [Packets -> PacketStates]
    BY <1>1 DEF ReceiveOut, PacketStates
  <2>2. TypeOK'
    BY <2>1 DEF ReceiveOut
  <2>3. LoaderInv'
    BY <1>1 DEF ReceiveOut, LoaderInv, QueuedFrom
  <2> QED
    BY <2>2, <2>3
<1>3. HolderInv'
  BY <1>1 DEF ReceiveOut, HolderInv, Active
<1>4. ReturnInv'
  <2>1. \A i \in DOMAIN returns : returns[i] # held[w]
    BY <1>1 DEF ReturnInv
  <2>2. /\ DOMAIN returns' = 1 .. Len(returns) + 1
        /\ \A i \in DOMAIN returns : returns'[i] = returns[i]
        /\ returns'[Len(returns) + 1] = held[w]
        /\ DOMAIN returns = 1 .. Len(returns)
        /\ Len(returns) \in Nat
    BY <1>1 DEF ReceiveOut
  <2>3. \A i \in DOMAIN returns' :
            i \in DOMAIN returns \/ i = Len(returns) + 1
    BY <2>2
  <2>4. \A i, j \in DOMAIN returns' : returns'[i] = returns'[j] => i = j
    BY <2>1, <2>2, <2>3 DEF ReturnInv
  <2>5. \A i \in DOMAIN returns' : pst'[returns'[i]] = "returned"
    <3> TAKE i \in DOMAIN returns'
    <3>1. CASE i \in DOMAIN returns
      BY <2>1, <2>2, <3>1 DEF ReceiveOut, ReturnInv
    <3>2. CASE i = Len(returns) + 1
      BY <1>1, <2>2, <3>2 DEF ReceiveOut
    <3> QED
      BY <2>3, <3>1, <3>2
  <2> QED
    BY <2>4, <2>5 DEF ReturnInv
<1> QED
  BY <1>2, <1>3, <1>4

LEMMA CollectorStep == DeliveryInv /\ Collector => DeliveryInv'
<1> SUFFICES ASSUME DeliveryInv, Collector PROVE DeliveryInv'
  OBVIOUS
<1> USE DEF Collector, Unchanged, DeliveryInv, TypeOK, counters, stage1, stage2
<1>1. CASE Tick \/ NotYetEnough \/ Cleanup
  BY <1>1, DistribAssumption DEF DistribAssumption, Tick, NotYetEnough, Cleanup, LoaderInv, QueuedFrom, HolderInv,
     Active, ReturnInv
<1>2. CASE Enough
  <2>1. TypeOK'
    <3>1. lcnt' \in -10 .. NumPackets
      BY <1>2, DistribAssumption DEF Enough, StopSignal, DistribAssumption
    <3>2. fin' \in BOOLEAN
      BY <1>2, Zenon DEF Enough
    <3> QED
      BY <1>2, <3>1, <3>2 DEF Enough
  <2>2. LoaderInv'
    BY <1>2 DEF Enough, LoaderInv, QueuedFrom, StopSignal
  <2>3. HolderInv' /\ ReturnInv'
    BY <1>2 DEF Enough, HolderInv, Active, ReturnInv
  <2> QED
    BY <2>1, <2>2, <2>3
<1> QED
  BY <1>1, <1>2 DEF Collector

LEMMA DeliveryStep == DeliveryInv /\ [Next]_vars => DeliveryInv'
<1> SUFFICES ASSUME DeliveryInv, [Next]_vars PROVE DeliveryInv'
  OBVIOUS
<1>1. CASE Loader
  BY <1>1, LoaderStep
<1>2. ASSUME NEW w \in Workers, Worker(w) \/ TimerExpires(w) \/ ReceiveOut(w)
      PROVE  DeliveryInv'
  BY <1>2, HandoverStep, WorkerStep, ReceiveStep DEF Worker, TimerExpires, Unchanged
<1>3. ASSUME NEW p \in Packets, WorkWrap(p) PROVE DeliveryInv'
  BY <1>3, WorkWrapStep
<1>4. CASE Collector
  BY <1>4, CollectorStep
<1>5. CASE UNCHANGED vars
  <2> USE <1>5 DEF vars, counters, stage1, stage2, stage3
  <2>1. TypeOK' = TypeOK
    BY DEF TypeOK
  <2>2. LoaderInv' = LoaderInv
    BY DEF LoaderInv, QueuedFrom
  <2>3. HolderInv' = HolderInv
    BY DEF HolderInv, Active
  <2>4. ReturnInv' = ReturnInv
    BY DEF ReturnInv
  <2> QED
    BY <2>1, <2>2, <2>3, <2>4 DEF DeliveryInv
<1> QED
  BY <1>1, <1>2, <1>3, <1>4, <1>5 DEF Next

LEMMA DeliveryInvariant == Spec => []DeliveryInv
  BY DeliveryInit, DeliveryStep, PTL DEF Spec

-----------------------------------------------------------------------------
(* The theorems.                                                           *)

\* Every variable of the pipeline keeps its type (the variables of Distrib).
THEOREM TypeCorrect == Spec => []TypeOK
  BY DeliveryInvariant, PTL DEF DeliveryInv

\* The slice returned to the caller holds no packet twice: the loader's
\* increment and the stop signal may race (main.go:171 and 270).
THEOREM ExactlyOnce == Spec => []DeliveredOnce
<1>1. DeliveryInv => DeliveredOnce
  BY DEF DeliveryInv, ReturnInv, DeliveredOnce, Returned
<1> QED
  BY <1>1, DeliveryInvariant, PTL

\* A timed out packet is not returned, and no two workers share a packet
\* (main.go:187 and 211).
THEOREM AbandonedForGood == Spec => []AbandonedNotReturned
<1>1. DeliveryInv => AbandonedNotReturned
  BY DEF DeliveryInv, HolderInv, Active, ReturnInv, AbandonedNotReturned, Returned
<1> QED
  BY <1>1, DeliveryInvariant, PTL

\* Once stage 3 has asked stage 1 to stop loading, the request stays visible
\* whatever increments are still under way (main.go:165, 171 and 270).
THEOREM StopSignalSticks == Spec => StopIsSticky
<1>1. DeliveryInv /\ [Next]_vars => (lcnt < 0 => lcnt' < 0)
  <2> SUFFICES ASSUME DeliveryInv, [Next]_vars, lcnt < 0 PROVE lcnt' < 0
    OBVIOUS
  <2>1. lcnt' \in {lcnt, StopSignal} \/ CountLoaded
    BY DEF Next, Loader, LoadIndex, SignalExhausted, CountSent, LoaderFin, Worker, SendInn,
       TakeResult, Abandon, WorkerFin, DeliverFin, TimerExpires, ReceiveOut, WorkWrap,
       WorkReturns, WrapFin, Collector, Tick, NotYetEnough, Enough, Cleanup,
       vars, counters
  <2>2. CASE CountLoaded
    BY <2>2 DEF CountLoaded, DeliveryInv, LoaderInv, Packets, StopSignal
  <2> QED
    BY <2>1, <2>2 DEF StopSignal
<1> QED
  BY <1>1, DeliveryInvariant, PTL DEF Spec, StopIsSticky

\* A flushing collector stops at Want, and goes on only below it.
FlushInv ==
    ~CollectRemainder =>
        /\ s3 = "select" => recv < Want
        /\ recv <= Want

LEMMA FlushInvariant == Spec => []FlushInv
<1>1. Init => FlushInv
  BY DistribAssumption DEF DistribAssumption, Init, FlushInv, recv
<1>2. DeliveryInv /\ FlushInv /\ [Next]_vars => FlushInv'
  <2>0. [Next]_vars => CollectRemainder' = CollectRemainder
    BY DEF Next, Loader, Worker, TimerExpires, ReceiveOut, WorkWrap, Collector, Unchanged, vars
  <2> SUFFICES ASSUME DeliveryInv, FlushInv, [Next]_vars, ~CollectRemainder
               PROVE  (s3' = "select" => recv' < Want) /\ recv' <= Want
    BY <2>0 DEF FlushInv
  <2> USE DEF FlushInv, recv
  <2>1. Len(returns) \in Nat /\ want \in {0, Want} /\ Want \in Nat \ {0}
    BY DistribAssumption DEF DistribAssumption, DeliveryInv, TypeOK
  <2>2. CASE UNCHANGED <<s3, returns>>
    BY <2>2
  <2>3. CASE \E w \in Workers : ReceiveOut(w)
    <3>1. PICK w \in Workers : ReceiveOut(w)
      BY <2>3
    <3>2. Len(returns') = Len(returns) + 1
      BY <3>1 DEF ReceiveOut, DeliveryInv, TypeOK
    <3> QED
      BY <2>1, <3>1, <3>2 DEF ReceiveOut
  <2>4. CASE Collector
    BY <2>1, <2>4 DEF Collector, Tick, NotYetEnough, Enough, Cleanup
  <2> QED
    BY <2>2, <2>3, <2>4
    DEF Next, Loader, LoadIndex, SignalExhausted, CountLoaded, CountSent, LoaderFin,
        Worker, SendInn, TakeResult, Abandon, WorkerFin, DeliverFin, TimerExpires,
        WorkWrap, WorkReturns, WrapFin, vars, stage3
<1> QED
  BY <1>1, <1>2, DeliveryInvariant, PTL DEF Spec

\* Without CollectRemainder the caller gets at most Want results (main.go:263-280).
THEOREM FlushCutsOff == Spec => [](~CollectRemainder => Len(returns) <= Want)
<1>1. FlushInv => (~CollectRemainder => Len(returns) <= Want)
  BY DEF FlushInv, recv
<1> QED
  BY <1>1, FlushInvariant, PTL

-----------------------------------------------------------------------------
(* The meaning of sent.                                                    *)

LEMMA HandedOutFinite == ASSUME DeliveryInv PROVE IsFiniteSet(HandedOut \ abandoned)
<1>1. IsFiniteSet(Packets)
  BY FS_Interval, DistribAssumption DEF DistribAssumption, Packets
<1> QED
  BY <1>1, FS_Subset DEF HandedOut

\* sent counts the packets that were handed out and not abandoned, apart from
\* the one the loader is about to count: each stage changes the counter after
\* the fact (main.go:172 and 212), and the exit on a tick relies on it.
THEOREM SentIsAccurate == Spec => []SentAccounting
<1> DEFINE Under == HandedOut \ abandoned
<1>1. Init => SentAccounting
  <2> SUFFICES ASSUME Init PROVE SentAccounting
    OBVIOUS
  <2>1. Under = {}
    BY DEF Init, HandedOut
  <2>2. Cardinality(Under) = 0
    BY <2>1, FS_EmptySet
  <2> QED
    BY <2>2 DEF Init, SentAccounting
<1>2. DeliveryInv /\ SentAccounting /\ [Next]_vars => SentAccounting'
  <2> SUFFICES ASSUME DeliveryInv, SentAccounting, [Next]_vars PROVE SentAccounting'
    OBVIOUS
  <2>1. IsFiniteSet(Under) /\ Cardinality(Under) \in Nat /\ sent \in Int
    BY HandedOutFinite, FS_CardinalityType DEF DeliveryInv, TypeOK
  <2>2. ASSUME UNCHANGED <<sent, abandoned>>, Under' = Under,
               (s1 \in {"sentInn", "loaded"}) = (s1' \in {"sentInn", "loaded"})
        PROVE  SentAccounting'
    BY <2>2 DEF SentAccounting
  <2>3. CASE Loader
    <3>1. Under' = Under
      BY <2>3 DEF Loader, LoadIndex, SignalExhausted, CountLoaded, CountSent, LoaderFin,
         HandedOut, stage2
    <3>2. CASE CountSent
      BY <2>1, <3>1, <3>2 DEF CountSent, SentAccounting
    <3>3. CASE LoadIndex \/ SignalExhausted \/ CountLoaded \/ LoaderFin
      BY <2>2, <3>1, <3>3 DEF LoadIndex, SignalExhausted, CountLoaded, LoaderFin,
         counters, stage2
    <3> QED
      BY <2>3, <3>2, <3>3 DEF Loader
  <2>4. ASSUME NEW w \in Workers, SendInn(w) PROVE SentAccounting'
    <3>1. idx \in Packets /\ pst[idx] = "queued"
      BY <2>4 DEF DeliveryInv, LoaderInv, QueuedFrom, SendInn, Packets
    <3>2. idx \notin Under /\ idx \notin abandoned
      BY <3>1 DEF HandedOut, DeliveryInv, HolderInv
    <3>3. Under' = Under \union {idx}
      BY <2>4, <3>1, <3>2 DEF SendInn, HandedOut, DeliveryInv, TypeOK
    <3>4. Cardinality(Under') = Cardinality(Under) + 1
      BY <2>1, <3>2, <3>3, FS_AddElement
    <3> QED
      BY <2>1, <2>4, <3>4 DEF SendInn, SentAccounting, counters
  <2>5. ASSUME NEW w \in Workers, Abandon(w) PROVE SentAccounting'
    <3>1. held[w] \in Under
      BY <2>5 DEF Abandon, HandedOut, DeliveryInv, TypeOK, HolderInv, Active
    <3>2. Under' = Under \ {held[w]}
      BY <2>5 DEF Abandon, HandedOut
    <3>3. Cardinality(Under') = Cardinality(Under) - 1
      BY <2>1, <3>1, <3>2, FS_RemoveElement
    <3> QED
      BY <2>1, <2>5, <3>3 DEF Abandon, SentAccounting, stage1
  <2>6. ASSUME NEW w \in Workers,
               TakeResult(w) \/ WorkerFin(w) \/ DeliverFin(w) \/ TimerExpires(w) \/ ReceiveOut(w)
        PROVE  SentAccounting'
    <3>1. Under' = Under
      BY <2>6 DEF TakeResult, WorkerFin, DeliverFin, TimerExpires, ReceiveOut, HandedOut,
         DeliveryInv, TypeOK, HolderInv
    <3> QED
      BY <2>2, <2>6, <3>1 DEF TakeResult, WorkerFin, DeliverFin, TimerExpires, ReceiveOut,
         counters, stage1
  <2>7. ASSUME NEW p \in Packets, WorkWrap(p) PROVE SentAccounting'
    <3>1. Under' = Under
      BY <2>7 DEF WorkWrap, WorkReturns, WrapFin, HandedOut, DeliveryInv, TypeOK, stage2
    <3> QED
      BY <2>2, <2>7, <3>1 DEF WorkWrap, WorkReturns, WrapFin, counters, stage1, stage2
  <2>8. CASE Collector \/ UNCHANGED vars
    BY <2>2, <2>8 DEF Collector, Tick, NotYetEnough, Enough, Cleanup, vars, counters, stage1,
       stage2, HandedOut
  <2> QED
    BY <2>3, <2>4, <2>5, <2>6, <2>7, <2>8 DEF Next, Worker
<1> QED
  BY <1>1, <1>2, DeliveryInvariant, PTL DEF Spec

-----------------------------------------------------------------------------
(* What is left when a collecting pipeline ends.                           *)

\* A pipeline whose collector has seen enough has told the loader, and one that
\* ran out of packets has a loader that left; nothing is queued then.  Nothing
\* is received twice before the collector has looked at its counter.
StopInv ==
    /\ want = 0 => s1 = "exit"
    /\ want = 0 \/ s1 = "exhausted" => \A p \in Packets : pst[p] # "queued"
    /\ s3 # "check" /\ recv >= Want => lcnt < 0
    /\ recv > Want => lcnt < 0
    /\ s3 = "check" => recv > 0

LEMMA StopInit == Init => StopInv
  BY DistribAssumption DEF DistribAssumption, Init, StopInv, recv

LEMMA StopStep == DeliveryInv /\ StopInv /\ [Next]_vars => StopInv'
<1> SUFFICES ASSUME DeliveryInv, StopInv, [Next]_vars PROVE StopInv'
  OBVIOUS
<1>1. Len(returns) \in Nat /\ Want \in Nat \ {0} /\ lcnt \in Int /\ NumPackets \in Nat
  BY DistribAssumption DEF DistribAssumption, DeliveryInv, TypeOK
<1>2. CASE Loader
  <2>1. CASE LoadIndex
    BY <1>1, <2>1 DEF LoadIndex, StopInv, recv, DeliveryInv, TypeOK, LoaderInv, QueuedFrom,
       Packets, counters, stage3
  <2>2. CASE SignalExhausted
    BY <1>1, <2>2 DEF SignalExhausted, StopInv, recv, stage3
  <2>3. CASE CountLoaded
    BY <1>1, <2>3 DEF CountLoaded, StopInv, recv, stage3, DeliveryInv, LoaderInv, Packets,
       StopSignal
  <2>4. CASE CountSent \/ LoaderFin
    BY <1>1, <2>4 DEF CountSent, LoaderFin, StopInv, recv, counters, stage3
  <2> QED
    BY <1>2, <2>1, <2>2, <2>3, <2>4 DEF Loader
<1>3. ASSUME NEW w \in Workers, Worker(w) \/ TimerExpires(w) PROVE StopInv'
  <2>1. \A p \in Packets : pst[p] # "queued" => pst'[p] # "queued"
    BY <1>3 DEF Worker, SendInn, TakeResult, Abandon, WorkerFin, DeliverFin, TimerExpires,
       DeliveryInv, TypeOK
  <2>2. s1' = s1 \/ (s1 = "send" /\ s1' = "sentInn")
    BY <1>3 DEF Worker, SendInn, TakeResult, Abandon, WorkerFin, DeliverFin, TimerExpires, stage1
  <2>3. UNCHANGED <<want, lcnt, s3, returns>>
    BY <1>3 DEF Worker, SendInn, TakeResult, Abandon, WorkerFin, DeliverFin, TimerExpires,
       counters, stage3
  <2> QED
    BY <1>1, <2>1, <2>2, <2>3 DEF StopInv, recv
<1>4. ASSUME NEW w \in Workers, ReceiveOut(w) PROVE StopInv'
  <2>1. Len(returns') = Len(returns) + 1
    BY <1>4 DEF ReceiveOut, DeliveryInv, TypeOK
  <2>2. \A p \in Packets : pst[p] # "queued" => pst'[p] # "queued"
    BY <1>4 DEF ReceiveOut, DeliveryInv, TypeOK
  <2> QED
    BY <1>1, <1>4, <2>1, <2>2 DEF ReceiveOut, StopInv, recv, counters, stage1
<1>5. ASSUME NEW p \in Packets, WorkWrap(p) PROVE StopInv'
  BY <1>1, <1>5 DEF WorkWrap, WorkReturns, WrapFin, StopInv, recv, counters, stage1, stage3,
     DeliveryInv, TypeOK
<1>6. CASE Collector
  BY <1>1, <1>6 DEF Collector, Tick, NotYetEnough, Enough, Cleanup, StopInv, recv, StopSignal,
     counters, stage1, DeliveryInv, TypeOK
<1>7. CASE UNCHANGED vars
  BY <1>1, <1>7 DEF vars, counters, stage1, stage3, StopInv, recv
<1> QED
  BY <1>2, <1>3, <1>4, <1>5, <1>6, <1>7 DEF Next

\* After the loop, the loader hands over one more packet at most.
DrainInv ==
    CollectRemainder /\ s3 \in {"cleanup", "done"} =>
        /\ lcnt < 0 \/ s1 = "exit"
        /\ Cardinality(Missing) + (IF s1 = "send" THEN 1 ELSE 0) <= 1

\* Beyond Want there come only the results of workers that were busy when the
\* loader was told to stop, and of the packet it had in its hands.
Busy == {w \in Workers : Active(w)}
OverInv ==
    recv >= Want =>
        recv + Cardinality(Busy) + (IF s1 = "send" THEN 1 ELSE 0) <= Want + Cardinality(Workers) + 1

LEMMA MissingFinite ==
  ASSUME DeliveryInv
  PROVE  IsFiniteSet(Missing) /\ Cardinality(Missing) \in Nat
<1>1. IsFiniteSet(HandedOut \ abandoned) /\ Missing \subseteq HandedOut \ abandoned
  BY HandedOutFinite DEF Missing
<1> QED
  BY <1>1, FS_Subset, FS_CardinalityType

LEMMA BusyFinite == IsFiniteSet(Busy) /\ Cardinality(Busy) \in Nat
                        /\ Cardinality(Busy) <= Cardinality(Workers)
                        /\ Cardinality(Workers) \in Nat
  BY FS_Subset, FS_CardinalityType, DistribAssumption DEF Busy, DistribAssumption

\* Nothing is returned twice, so that the length of the slice counts packets.
LEMMA ReturnedCounted ==
  ASSUME DeliveryInv
  PROVE  /\ Returned \subseteq HandedOut \ abandoned
         /\ IsFiniteSet(Returned)
         /\ Cardinality(Returned) = recv
<1>1. returns \in Seq(Packets) /\ DOMAIN returns = 1 .. Len(returns) /\ Len(returns) \in Nat
  BY DEF DeliveryInv, TypeOK
<1>2. Returned \subseteq HandedOut \ abandoned
  BY <1>1 DEF DeliveryInv, HolderInv, ReturnInv, Returned, HandedOut
<1>3. /\ returns \in Injection(1 .. Len(returns), Returned)
      /\ returns \in Surjection(1 .. Len(returns), Returned)
  <2>1. returns \in [1 .. Len(returns) -> Returned]
    BY <1>1 DEF Returned
  <2>2. \A i, j \in 1 .. Len(returns) : returns[i] = returns[j] => i = j
    BY <1>1 DEF DeliveryInv, ReturnInv
  <2>3. \A p \in Returned : \E i \in 1 .. Len(returns) : returns[i] = p
    BY <1>1 DEF Returned
  <2> QED
    BY <2>1, <2>2, <2>3, Fun_IsInj, Fun_IsSurj
<1>4. IsFiniteSet(1 .. Len(returns)) /\ Cardinality(1 .. Len(returns)) = Len(returns)
  BY <1>1, FS_Interval
<1> QED
  BY <1>2, <1>3, <1>4, FS_Surjection DEF recv

\* What was handed out and not given up is back or missing.
LEMMA MissingCounted ==
  ASSUME DeliveryInv
  PROVE  Cardinality(Missing) = Cardinality(HandedOut \ abandoned) - recv
<1>1. Missing = (HandedOut \ abandoned) \ Returned
  BY DEF Missing
<1>2. (HandedOut \ abandoned) \cap Returned = Returned
  BY ReturnedCounted
<1>3. Cardinality((HandedOut \ abandoned) \ Returned)
        = Cardinality(HandedOut \ abandoned) - Cardinality((HandedOut \ abandoned) \cap Returned)
  BY HandedOutFinite, FS_Difference
<1> QED
  BY <1>1, <1>2, <1>3, ReturnedCounted

LEMMA DrainStep ==
  DeliveryInv /\ StopInv /\ SentAccounting /\ DrainInv /\ [Next]_vars => DrainInv'
<1>0. [Next]_vars => CollectRemainder' = CollectRemainder
  BY DEF Next, Loader, Worker, TimerExpires, ReceiveOut, WorkWrap, Collector, Unchanged, vars
<1> SUFFICES ASSUME DeliveryInv, StopInv, SentAccounting, DrainInv, [Next]_vars,
                    CollectRemainder, s3' \in {"cleanup", "done"}
             PROVE  /\ lcnt' < 0 \/ s1' = "exit"
                    /\ Cardinality(Missing') + (IF s1' = "send" THEN 1 ELSE 0) <= 1
  BY <1>0 DEF DrainInv
<1>1. IsFiniteSet(Missing) /\ Cardinality(Missing) \in Nat
  BY MissingFinite
<1>2. CASE Tick
  <2>1. Cardinality(Missing) = Cardinality(HandedOut \ abandoned) - recv
    BY MissingCounted
  <2>2. /\ recv \in Nat /\ sent \in Int /\ want \in {0, Want}
        /\ recv >= want /\ recv >= sent /\ s3 = "select"
    BY <1>2 DEF Tick, DeliveryInv, TypeOK, recv
  <2>3. lcnt < 0 \/ s1 = "exit"
    BY <2>2 DEF StopInv
  <2>4. Cardinality(Missing) + (IF s1 = "send" THEN 1 ELSE 0) <= 1
    BY <1>1, <2>1, <2>2 DEF SentAccounting
  <2>5. UNCHANGED <<lcnt, s1, Missing>>
    BY <1>2 DEF Tick, counters, stage1, stage2, Missing, HandedOut, Returned
  <2> QED
    BY <2>3, <2>4, <2>5
<1>3. ASSUME s3 \in {"cleanup", "done"}, UNCHANGED lcnt, s1' = s1 \/ s1' = "exit",
             Missing' \subseteq Missing
      PROVE  /\ lcnt' < 0 \/ s1' = "exit"
             /\ Cardinality(Missing') + (IF s1' = "send" THEN 1 ELSE 0) <= 1
  <2>1. Cardinality(Missing') <= Cardinality(Missing) /\ Cardinality(Missing') \in Nat
    BY <1>1, <1>3, FS_Subset, FS_CardinalityType
  <2> QED
    BY <1>1, <1>3, <2>1 DEF DrainInv
<1>4. CASE Loader
  <2>1. Missing' = Missing /\ s3 \in {"cleanup", "done"}
    BY <1>4 DEF Loader, LoadIndex, SignalExhausted, CountLoaded, CountSent, LoaderFin,
       Missing, HandedOut, Returned, stage2, stage3
  <2>2. lcnt < 0 \/ s1 = "exit"
    BY <2>1 DEF DrainInv
  <2>3. CASE CountLoaded
    BY <1>1, <2>1, <2>2, <2>3 DEF CountLoaded, DeliveryInv, LoaderInv, StopSignal, Packets, DrainInv
  <2>4. CASE CountSent
    BY <1>1, <2>1, <2>2, <2>4 DEF CountSent, DrainInv
  <2>5. CASE LoadIndex \/ SignalExhausted \/ LoaderFin
    <3>1. UNCHANGED lcnt /\ s1' = "exit"
      BY <2>1, <2>2, <2>5, DistribAssumption DEF DistribAssumption, LoadIndex, SignalExhausted,
         LoaderFin, counters, Packets, DeliveryInv, TypeOK
    <3> QED
      BY <1>3, <2>1, <3>1
  <2> QED
    BY <1>4, <2>3, <2>4, <2>5 DEF Loader
<1>5. ASSUME NEW w \in Workers, SendInn(w)
      PROVE  /\ lcnt' < 0 \/ s1' = "exit"
             /\ Cardinality(Missing') + (IF s1' = "send" THEN 1 ELSE 0) <= 1
  <2>1. Missing' \subseteq Missing \union {idx}
    BY <1>5 DEF SendInn, Missing, HandedOut, Returned, DeliveryInv, TypeOK, stage3
  <2>2. /\ IsFiniteSet(Missing \union {idx})
        /\ Cardinality(Missing \union {idx}) <= Cardinality(Missing) + 1
    <3>1. /\ IsFiniteSet(Missing \union {idx})
          /\ Cardinality(Missing \union {idx})
                = IF idx \in Missing THEN Cardinality(Missing) ELSE Cardinality(Missing) + 1
      BY <1>1, FS_AddElement
    <3> QED
      BY <1>1, <3>1
  <2>3. /\ Cardinality(Missing') <= Cardinality(Missing \union {idx})
        /\ Cardinality(Missing') \in Nat
        /\ Cardinality(Missing \union {idx}) \in Nat
    BY <2>1, <2>2, FS_Subset, FS_CardinalityType
  <2>4. lcnt' = lcnt /\ s1 = "send" /\ s1' = "sentInn" /\ s3' = s3
    BY <1>5 DEF SendInn, counters, stage3
  <2> QED
    BY <1>1, <2>2, <2>3, <2>4 DEF DrainInv
<1>6. ASSUME NEW w \in Workers, TakeResult(w) \/ Abandon(w) \/ WorkerFin(w) \/ DeliverFin(w)
                                  \/ TimerExpires(w) \/ ReceiveOut(w)
      PROVE  /\ lcnt' < 0 \/ s1' = "exit"
             /\ Cardinality(Missing') + (IF s1' = "send" THEN 1 ELSE 0) <= 1
  <2>1. UNCHANGED <<lcnt, s1>> /\ s3 \in {"cleanup", "done"} /\ UNCHANGED returns
    BY <1>6 DEF TakeResult, Abandon, WorkerFin, DeliverFin, TimerExpires, ReceiveOut, counters,
       stage1, stage3
  <2>2. Missing' \subseteq Missing
    <3>1. HandedOut' \subseteq HandedOut
      BY <1>6, <2>1 DEF TakeResult, Abandon, WorkerFin, DeliverFin, TimerExpires, ReceiveOut,
         HandedOut, DeliveryInv, TypeOK, HolderInv
    <3>2. abandoned \subseteq abandoned' /\ Returned' = Returned
      BY <1>6, <2>1 DEF TakeResult, Abandon, WorkerFin, DeliverFin, TimerExpires, ReceiveOut, Returned
    <3> QED
      BY <3>1, <3>2 DEF Missing
  <2> QED
    BY <1>3, <2>1, <2>2
<1>7. ASSUME NEW p \in Packets, WorkWrap(p)
      PROVE  /\ lcnt' < 0 \/ s1' = "exit"
             /\ Cardinality(Missing') + (IF s1' = "send" THEN 1 ELSE 0) <= 1
  BY <1>3, <1>7 DEF WorkWrap, WorkReturns, WrapFin, counters, stage1, stage2, stage3,
     Missing, HandedOut, Returned, DeliveryInv, TypeOK
<1>8. CASE NotYetEnough \/ Enough \/ Cleanup \/ UNCHANGED vars
  BY <1>3, <1>8 DEF NotYetEnough, Enough, Cleanup, vars, counters, stage1, stage2, stage3,
     Missing, HandedOut, Returned
<1> QED
  BY <1>2, <1>4, <1>5, <1>6, <1>7, <1>8 DEF Next, Worker, Collector

LEMMA OverStep == DeliveryInv /\ StopInv /\ OverInv /\ [Next]_vars => OverInv'
<1> SUFFICES ASSUME DeliveryInv, StopInv, OverInv, [Next]_vars, recv' >= Want
             PROVE  recv' + Cardinality(Busy') + (IF s1' = "send" THEN 1 ELSE 0)
                        <= Want + Cardinality(Workers) + 1
  BY DEF OverInv
<1> DEFINE Over == recv + Cardinality(Busy) + (IF s1 = "send" THEN 1 ELSE 0)
                       <= Want + Cardinality(Workers) + 1
<1>1. /\ IsFiniteSet(Busy) /\ Cardinality(Busy) \in Nat /\ recv \in Nat /\ Want \in Nat
      /\ Cardinality(Busy) <= Cardinality(Workers) /\ Cardinality(Workers) \in Nat
      /\ lcnt \in Int
  BY BusyFinite, DistribAssumption DEF DistribAssumption, DeliveryInv, TypeOK, recv
<1>2. ASSUME UNCHANGED <<returns, Busy>>, s1' = s1 \/ s1' # "send" PROVE Over'
  BY <1>1, <1>2 DEF OverInv, recv
<1>3. CASE Loader
  <2>1. UNCHANGED <<returns, Busy, recv>>
    BY <1>3 DEF Loader, LoadIndex, SignalExhausted, CountLoaded, CountSent, LoaderFin, Busy,
       Active, stage2, stage3, recv
  <2>2. CASE LoadIndex
    <3>1. CASE s1' = "send"
      <4>1. recv = Want
        BY <1>1, <2>1, <2>2, <3>1 DEF LoadIndex, StopInv, Packets
      <4> QED
        BY <1>1, <2>1, <4>1
    <3> QED
      BY <1>2, <2>1, <3>1
  <2>3. CASE SignalExhausted \/ CountLoaded \/ CountSent \/ LoaderFin
    BY <1>2, <2>1, <2>3 DEF SignalExhausted, CountLoaded, CountSent, LoaderFin
  <2> QED
    BY <1>3, <2>2, <2>3 DEF Loader
<1>4. ASSUME NEW w \in Workers, SendInn(w) PROVE Over'
  <2>1. w \notin Busy /\ Busy' = Busy \union {w}
    BY <1>4 DEF SendInn, Busy, Active, DeliveryInv, TypeOK
  <2>2. Cardinality(Busy') = Cardinality(Busy) + 1
    BY <1>1, <2>1, FS_AddElement
  <2>3. s1 = "send" /\ s1' = "sentInn" /\ recv' = recv
    BY <1>4 DEF SendInn, stage3, recv
  <2> QED
    BY <1>1, <2>2, <2>3 DEF OverInv
<1>5. ASSUME NEW w \in Workers, Abandon(w) \/ DeliverFin(w) PROVE Over'
  <2>1. w \in Busy /\ Busy' = Busy \ {w}
    BY <1>5 DEF Abandon, DeliverFin, Busy, Active, DeliveryInv, TypeOK
  <2>2. Cardinality(Busy') = Cardinality(Busy) - 1
    BY <1>1, <2>1, FS_RemoveElement
  <2>3. s1' = s1 /\ recv' = recv
    BY <1>5 DEF Abandon, DeliverFin, stage1, stage3, recv
  <2> QED
    BY <1>1, <2>2, <2>3 DEF OverInv
<1>6. ASSUME NEW w \in Workers, ReceiveOut(w) PROVE Over'
  <2>1. w \in Busy /\ Busy' = Busy \ {w}
    BY <1>6 DEF ReceiveOut, Busy, Active, DeliveryInv, TypeOK
  <2>2. Cardinality(Busy') = Cardinality(Busy) - 1
    BY <1>1, <2>1, FS_RemoveElement
  <2>3. s1' = s1 /\ recv' = recv + 1
    BY <1>6 DEF ReceiveOut, stage1, recv, DeliveryInv, TypeOK
  <2> QED
    BY <1>1, <2>2, <2>3 DEF OverInv
<1>7. ASSUME NEW w \in Workers, TakeResult(w) \/ WorkerFin(w) \/ TimerExpires(w) PROVE Over'
  <2>1. Busy' = Busy /\ UNCHANGED <<returns, s1>>
    BY <1>7 DEF TakeResult, WorkerFin, TimerExpires, Busy, Active, DeliveryInv, TypeOK,
       stage1, stage3
  <2> QED
    BY <1>2, <2>1
<1>8. ASSUME NEW p \in Packets, WorkWrap(p) PROVE Over'
  BY <1>2, <1>8 DEF WorkWrap, WorkReturns, WrapFin, Busy, Active, stage1, stage2, stage3
<1>9. CASE Tick \/ NotYetEnough \/ Enough \/ Cleanup \/ UNCHANGED vars
  BY <1>2, <1>9 DEF Tick, NotYetEnough, Enough, Cleanup, vars, Busy, Active, stage1, stage2, stage3
<1> QED
  BY <1>3, <1>4, <1>5, <1>6, <1>7, <1>8, <1>9 DEF Next, Worker, Collector

LEMMA StopInvariant == Spec => []StopInv
  BY StopInit, StopStep, DeliveryInvariant, PTL DEF Spec

\* "Wait for remaining packets to reach stage 3" (main.go:240-261): a tick may
\* end the loop with nothing missing, unless the loader has handed over a packet
\* that it has not counted yet: then one packet is missing, that one or another
\* that stands in for it in the count.  A packet handed over after the loop never
\* makes it two, and the results beyond Want are bounded by the workers.
THEOREM RemainderIsCollected == Spec => []RemainderCollected
<1>1. Init => DrainInv
  BY DEF Init, DrainInv
<1>2. Init => OverInv
  BY DistribAssumption DEF DistribAssumption, Init, OverInv, recv
<1>3. Spec => []DrainInv
  BY <1>1, DrainStep, DeliveryInvariant, StopInvariant, SentIsAccurate, PTL DEF Spec
<1>4. Spec => []OverInv
  BY <1>2, OverStep, DeliveryInvariant, StopInvariant, PTL DEF Spec
<1>5. DeliveryInv /\ SentAccounting /\ DrainInv /\ OverInv
        /\ (~CollectRemainder => Len(returns) <= Want)
        => RemainderCollected
  <2> SUFFICES ASSUME DeliveryInv, SentAccounting, DrainInv, OverInv,
                      ~CollectRemainder => Len(returns) <= Want
               PROVE  RemainderCollected
    OBVIOUS
  <2>1. Cardinality(Missing) \in Nat
    BY MissingFinite
  <2>2. Cardinality(Busy) \in Nat /\ Cardinality(Workers) \in Nat /\ Want \in Nat /\ recv \in Nat
    BY BusyFinite, DistribAssumption DEF DistribAssumption, DeliveryInv, TypeOK, recv
  <2>3. recv >= sent =>
            Cardinality(Missing) <= IF s1 \in {"sentInn", "loaded"} THEN 1 ELSE 0
    <3>1. sent \in Int
      BY DEF DeliveryInv, TypeOK
    <3> QED
      BY <2>1, <2>2, <3>1, MissingCounted DEF SentAccounting
  <2>4. CollectRemainder /\ s3 \in {"cleanup", "done"} =>
            Cardinality(Missing) + (IF s1 = "send" THEN 1 ELSE 0) <= 1
    BY DEF DrainInv
  <2>5. CollectRemainder => Len(returns) <= Want + Cardinality(Workers) + 1
    BY <2>2 DEF OverInv, recv
  <2> QED
    BY <2>2, <2>3, <2>4, <2>5 DEF RemainderCollected
<1> QED
  BY <1>3, <1>4, <1>5, DeliveryInvariant, SentIsAccurate, FlushCutsOff, PTL

-----------------------------------------------------------------------------
(* The pipeline implements its contract.                                   *)

ContractAction == [Contract!Next]_Contract!vars

LEMMA ReturnImplements ==
  ASSUME DeliveryInv, NEW w \in Workers, ReceiveOut(w) PROVE ContractAction
<1>1. held[w] \in Packets /\ held[w] \notin Returned \union abandoned
  BY DEF ReceiveOut, DeliveryInv, TypeOK, HolderInv, ReturnInv, Returned, Active
<1>2. Contract!Returned = Returned
  BY DEF Contract!Returned, Returned
<1>3. Contract!Return(held[w])
  BY <1>1, <1>2 DEF Contract!Return, ReceiveOut
<1> QED
  BY <1>1, <1>3 DEF ContractAction, Contract!Next

LEMMA GiveUpImplements ==
  ASSUME DeliveryInv, NEW w \in Workers, Abandon(w), Unchanged PROVE ContractAction
<1>1. held[w] \in Packets /\ held[w] \notin Returned \union abandoned
  BY DEF Abandon, DeliveryInv, TypeOK, HolderInv, ReturnInv, Returned, Active
<1>2. Contract!Returned = Returned
  BY DEF Contract!Returned, Returned
<1>3. Contract!GiveUp(held[w])
  BY <1>1, <1>2 DEF Contract!GiveUp, Abandon, Unchanged, stage3
<1> QED
  BY <1>1, <1>3 DEF ContractAction, Contract!Next

\* The tick ends the call with enough results or, when the packets are
\* exhausted, with all of them accounted for.
LEMMA TickImplements ==
  ASSUME DeliveryInv, StopInv, SentAccounting, Tick, Unchanged PROVE ContractAction
<1>1. /\ recv \in Nat /\ sent \in Int /\ want \in {0, Want} /\ Want \in Nat
      /\ recv >= want /\ recv >= sent /\ s3 = "select"
  BY DistribAssumption DEF DistribAssumption, Tick, DeliveryInv, TypeOK, recv
<1>2. Contract!Returned = Returned
  BY DEF Contract!Returned, Returned
<1>3. Len(returns) >= Want \/ Returned \union abandoned = Packets
  <2>1. CASE want = Want
    BY <1>1, <2>1 DEF recv
  <2>2. CASE want = 0
    <3>1. s1 = "exit" /\ HandedOut = Packets
      BY <2>2 DEF StopInv, HandedOut
    <3>2. Cardinality(HandedOut \ abandoned) <= Cardinality(Returned)
      BY <1>1, <3>1, ReturnedCounted DEF SentAccounting
    <3>3. Returned \subseteq HandedOut \ abandoned /\ IsFiniteSet(HandedOut \ abandoned)
      BY HandedOutFinite, ReturnedCounted
    <3>4. Cardinality(Returned) <= Cardinality(HandedOut \ abandoned)
          /\ (Cardinality(HandedOut \ abandoned) = Cardinality(Returned)
                => HandedOut \ abandoned = Returned)
      BY <3>3, FS_Subset
    <3>5. Cardinality(Returned) \in Nat /\ Cardinality(HandedOut \ abandoned) \in Nat
      BY <3>3, ReturnedCounted, FS_CardinalityType
    <3>6. HandedOut \ abandoned = Returned
      BY <3>2, <3>4, <3>5
    <3> QED
      BY <3>1, <3>6 DEF DeliveryInv, TypeOK
  <2> QED
    BY <1>1, <2>1, <2>2
<1>4. CollectRemainder /\ s3' = "cleanup" /\ UNCHANGED <<returns, abandoned, CollectRemainder>>
  BY DEF Tick, Unchanged, stage2
<1>5. Contract!End
  BY <1>1, <1>2, <1>3, <1>4 DEF Contract!End
<1> QED
  BY <1>5 DEF ContractAction, Contract!Next

LEMMA EnoughImplements ==
  ASSUME DeliveryInv, StopInv, FlushInv, Enough, Unchanged PROVE ContractAction
<1>1. UNCHANGED <<returns, abandoned, CollectRemainder>> /\ s3 = "check"
  BY DEF Enough, Unchanged, stage2
<1>2. CASE CollectRemainder
  <2>1. s3' = "select"
    BY <1>2 DEF Enough
  <2> QED
    BY <1>1, <2>1 DEF ContractAction, Contract!vars
<1>3. CASE ~CollectRemainder
  <2>1. s3' = "cleanup"
    BY <1>3 DEF Enough
  <2>2. returns # <<>> /\ Len(returns) <= Want
    BY <1>1, <1>3 DEF StopInv, FlushInv, recv
  <2>3. Contract!End
    BY <1>1, <1>3, <2>1, <2>2 DEF Contract!End
  <2> QED
    BY <2>3 DEF ContractAction, Contract!Next
<1> QED
  BY <1>2, <1>3

\* Whatever Distrib() does with its channels and counters, its caller sees what
\* the package comment promises (main.go:15-27): results one at a time, none
\* twice, and an end only when there are enough of them or none is missing.
THEOREM ContractImplemented == Spec => ImplementsContract
<1>1. Init => Contract!Init
  BY DistribAssumption DEF Init, Contract!Init, DistribAssumption
<1>2. DeliveryInv /\ StopInv /\ FlushInv /\ SentAccounting /\ [Next]_vars => ContractAction
  <2> SUFFICES ASSUME DeliveryInv, StopInv, FlushInv, SentAccounting, [Next]_vars
               PROVE  ContractAction
    OBVIOUS
  <2>1. CASE UNCHANGED <<returns, abandoned, s3, CollectRemainder>>
    BY <2>1 DEF ContractAction, Contract!vars
  <2>2. CASE Loader
    BY <2>1, <2>2 DEF Loader, LoadIndex, SignalExhausted, CountLoaded, CountSent, LoaderFin,
       Unchanged, stage2, stage3
  <2>3. ASSUME NEW w \in Workers, Worker(w) \/ TimerExpires(w) PROVE ContractAction
    BY <2>1, <2>3, GiveUpImplements DEF Worker, SendInn, TakeResult, WorkerFin,
       DeliverFin, TimerExpires, Unchanged, stage3
  <2>4. ASSUME NEW p \in Packets, WorkWrap(p) PROVE ContractAction
    BY <2>1, <2>4 DEF WorkWrap, WorkReturns, WrapFin, Unchanged, stage2, stage3
  <2>5. CASE (NotYetEnough \/ Cleanup) /\ Unchanged
    BY <2>5 DEF NotYetEnough, Cleanup, Unchanged, ContractAction, Contract!vars, stage2
  <2> QED
    BY <2>1, <2>2, <2>3, <2>4, <2>5, ReturnImplements, TickImplements, EnoughImplements
    DEF Next, Collector, vars, stage2, stage3
<1> QED
  BY <1>1, <1>2, DeliveryInvariant, StopInvariant, FlushInvariant, SentIsAccurate, PTL
  DEF Spec, ImplementsContract, Contract!Spec, ContractAction
=============================================================================
