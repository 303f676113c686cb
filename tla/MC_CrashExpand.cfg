CONSTANTS
    Threads = {t1, t2}
    Resizer = rz
    k1 = k1
    k2 = k2
    k3 = k3
    k4 = k4
    k5 = k5
    t1 = t1
    t2 = t2
    Keys = {k1, k2, k3, k4, k5}
    NoKey = NoKey
    KeyHash <- MCKeyHash
    KeyPartial <- MCKeyPartial
    InitKeys <- MCInitKeys
    HashPower = 2
    Assoc = 1
    MaxLevels = 4
    MaxMetas = 8
    MaxEntries = 6
    Budget = 2
    MaxCrashes = 1
    Ops <- MCInsertSearchOps
    ThreadId <- MCThreadId
SPECIFICATION Spec
INVARIANT AppendedLevelPublished
