SPECIFICATION Spec
CONSTANTS
    Workers = {w1, w2}
    NumPackets = 5
    Want = 1
    Modes = {TRUE, FALSE}
    Slow = {w1, w2}
INVARIANTS TypeOK DeliveredOnce AbandonedNotReturned SentAccounting RemainderCollected
PROPERTIES StopIsSticky
CHECK_DEADLOCK FALSE
