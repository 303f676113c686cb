CONSTANTS
    Threads = {t1, t2}
    k1 = k1
    k2 = k2
    k3 = k3
    k4 = k4
    k5 = k5
    k6 = k6
    k7 = k7
    k8 = k8
    k9 = k9
    k10 = k10
    t1 = t1
    t2 = t2
    Keys = {k1, k2, k3, k4, k5, k6, k7, k8, k9, k10}
    NoKey = NoKey
    NoThread = NoThread
    KeyHash <- MCKeyHash
    KeyLoc <- MCKeyLoc
    HashBits = 4
    InitDepth = 1
    NumSlot = 2
    Probe = 2
    MaxSegs = 8
    Script <- MCScriptSplits
SPECIFICATION Spec
INVARIANT SearchFindsInserted
