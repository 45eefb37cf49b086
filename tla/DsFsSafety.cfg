SPECIFICATION Spec
CONSTANTS
    c1 = c1
    c2 = c2
    root = root
    d = d
    e = e
    t1 = t1
    t2 = t2
    Clients <- TwoClients
    Node <- Chain
    Root = root
    Parent <- ChainParent
    Times <- TwoTimes
    Absent = Absent
    Blank = Blank
    Failed = Failed
    Modes <- AllModes
    DeleteLimit = 2
    MaxOps = 2
    MaxWalks = 1
INVARIANTS StaleOnlyByRace NoVirtualDirs
PROPERTIES RemoveAllRemoves
SYMMETRY Symmetry
CHECK_DEADLOCK FALSE
