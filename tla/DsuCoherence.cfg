SPECIFICATION Spec
CONSTANTS
    Requests = {r1, r2, r3}
    Instances = {i1, i2}
    Attempts = 2
    Blank = Blank
    Nothing = Nothing
INVARIANTS MemoryCoherent
CHECK_DEADLOCK FALSE
