CONSTANTS
    Threads = {t1, t2}
    k1 = k1
    k2 = k2
    k3 = k3
    k4 = k4
    k5 = k5
    k6 = k6
    t1 = t1
    t2 = t2
    Keys = {k1, k2, k3, k4, k5}
    KeyHash <- MCKeyHash
    EPB = 1
    InitBuckets = 2
    MaxEntries = 6
    MaxTables = 3
    Script <- MCScriptResize
SPECIFICATION Spec
INVARIANT TypeOK
INVARIANT TableHolds
INVARIANT UniqueKeys
INVARIANT SearchFindsInserted
PROPERTY OperationsComplete
