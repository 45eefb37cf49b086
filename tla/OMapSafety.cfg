SPECIFICATION MCSpec
CONSTANTS
    KeyCount = 5
    Keys <- SomeKeys
    Values = {"v", "w"}
    MaxLength = 6
    Uses = {"grows", "all"}
    OSKeyCount = 5
    Fanout = 3
    Prealloc = 4
INVARIANTS SearchTree
PROPERTIES GrowsAsAMap DeleteRemoves KeepsPairs
CHECK_DEADLOCK FALSE
