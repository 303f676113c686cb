CONSTANTS
    Threads = {t1}
    Resizer = rz
    k1 = k1
    k2 = k2
    k3 = k3
    k4 = k4
    k5 = k5
    t1 = t1
    t2 = t2
    Keys = {k1, k2}
    NoKey = NoKey
    KeyHash <- MCKeyHash
    KeyPartial <- MCKeyPartial
    InitKeys <- MCInitMutators
    HashPower = 2
    Assoc = 1
    MaxLevels = 2
    MaxMetas = 1
    MaxEntries = 5
    Budget = 1
    MaxCrashes = 0
    Ops <- MCUpdateOps
    ThreadId <- MCThreadId
SPECIFICATION Spec
INVARIANT NoLeakedEntry
