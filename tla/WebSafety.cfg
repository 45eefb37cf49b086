SPECIFICATION MCSpec
CONSTANTS
    MaxVersion = 2
    MaxInstances = 2
    MaxRuns = 2
    Calls <- MCCalls
    Order <- MCOrder
    Orders <- MCOrders
    Askers = {"a1", "a2", "a3"}
    Callbacks = {1, 2, 3}
    Handlers = {1, 2}
    Readers = {"r1", "r2"}
    Resetters = {"q1", "q2"}
    Targets = {t1, t2}
    Visitors = {"v1"}
    Dirs = {"page"}
    Entries <- MCEntries
    DirOf <- MCDirOf
    IndexOf <- MCIndexOf
    Snappy <- MCSnappy
    Skipped <- MCSnappy
    SiteOf <- MCSiteOf
    MaxJobs = 3
INVARIANTS FetchesAsAsked InvoicesMatchOrders CountsAddUp InfoUsable SiteAsPublished TemplateServed
SYMMETRY Alike
CHECK_DEADLOCK FALSE
