\* two clients, goroutines or connections in each part
SPECIFICATION NodeSpec
CONSTANTS
    a1 = a1
    a2 = a2
    b1 = b1
    b2 = b2
    WdCalls = {a1, a2, a3}
    NoCall = NoCall
    WdMaxGen = 5
    WdMaxConn = 3
    WdMaxTimeouts = 2
    WdMaxCrashes = 1
    SlKeys <- MCSlKeys
    SlPrefixes <- MCSlPrefixes
    SlMaxKeys = {1, 2}
    SlMaxOps = 1
    XqChunk = 2
    XqBytes = {0, 1}
    XqMaxLen = 4
    XqMaxMsgs = 2
    XwWaiters = {a1, a2}
    XwMaxEvents = 3
    TpLens <- MCTpLens
    TpHeader = 2
    TpRead = 3
    DqConns = {a1, a2}
    DqThresh = 2
    DqLimit = 1
    DqMaxSize = 16
    DqMaxFaults = 1
    DrConns = {a1, a2}
    DrMaxEntries = 3
    DrMaxPass = 4
    UsWorkers = {a1, a2}
    UsMaxOps = 5
    UsMaxFaults = 1
    NoLimits = NoLimits
    SkWorkers = {a1, a2}
    SkBuckets = {b1, b2}
    SkMaxOps = 3
    SkMaxFaults = 2
    SuConns = {a1, a2}
    SuLimit = 1
    SuMaxSize = 1
    SuMaxBytes = 3
    SuMaxArch = 2
    SuMaxFaults = 3
    SrObjects <- MCSrObjects
    SrMaxPos = 7
SYMMETRY Symmetry
INVARIANTS NodeTypeOK DbSound UsersSound KeysSound UsageSound BytesSound
PROPERTIES KeepsPromise NodeSteps
CHECK_DEADLOCK FALSE
