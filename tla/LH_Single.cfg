CONSTANTS
    Threads = {t1}
    k1 = k1
    k2 = k2
    k3 = k3
    k4 = k4
    t1 = t1
    t2 = t2
    Keys = {k1, k2, k3, k4}
    NoKey = NoKey
    FirstHash <- MCFirstHash
    SecondHash <- MCSecondHash
    InitKeys <- MCInitOnce
    LevelPower = 2
    Assoc = 1
    MaxLevels = 5
    MaxEntries = 8
    Budget = 3
    Ops <- MCAllOps
SPECIFICATION Spec
INVARIANT TypeOK
PROPERTY ImplementsMultiMap
PROPERTY OperationsComplete
