SPECIFICATION FairSpec
CONSTANTS
    Workers = {w1, w2}
    NumPackets = 4
    Want = 3
    Modes = {TRUE, FALSE}
    Slow = {w1}
PROPERTIES ImplementsContract Termination CleanExit
CHECK_DEADLOCK FALSE
