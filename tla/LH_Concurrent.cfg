CONSTANTS
    Threads = {t1, t2}
    k1 = k1
    k2 = k2
    k3 = k3
    k4 = k4
    t1 = t1
    t2 = t2
    Keys = {k1, k2, k3, k4}
    NoKey = NoKey
    FirstHash <- MCFirstHash
    SecondHash <- MCSecondHash
    InitKeys <- MCInitKeys
    LevelPower = 2
    Assoc = 1
    MaxLevels = 4
    MaxEntries = 8
    Budget = 2
    Ops <- MCInsertEraseOps
SPECIFICATION Spec
INVARIANT InsertedReachable
CHECK_DEADLOCK FALSE
