SPECIFICATION Spec
CONSTANTS
    Clients = {r1, r2, r3}
    Keys = {"total", "value"}
    Failures = TRUE
    Absent = Absent
    DefaultNumShards = 2
    BatchSize = 3
    NewTotals = {4}
INVARIANTS NoIncrementLost CountBetween
CHECK_DEADLOCK FALSE
