\* two goroutines, at most one failure or restart in a part, two of middleware
SPECIFICATION GateSpec
CONSTANTS
    w1 = w1
    w2 = w2
    i1 = i1
    i2 = i2
    d1 = d1
    d2 = d2
    m1 = m1
    f1 = f1
    f2 = f2
    r1 = r1
    Deps = {d1, d2}
    DpItems <- MCDpItems
    DpProcs = {w1, w2}
    NoDep = NoDep
    DpMaxFaults = 1
    DpMaxUser = 1
    RpContent <- MCRpContent
    RpWorkers = {w1, w2}
    RpMaxFaults = 1
    AcIds = {i1, i2}
    AcWorkers = {w1, w2}
    AcThings = {f1, f2}
    NoAcc = NoAcc
    AcMaxFaults = 1
    AcMaxOps = 5
    PkNames = {i1, i2, f1, f2}
    PkWorkers = {w1, w2}
    PkLimit = 2
    PkGap = 1
    PkMaxFaults = 1
    PkMaxOps = 4
    MwIds = {i1, i2}
    MwWorkers = {w1, w2}
    NoMw = NoMw
    MwNumber = 1
    MwMaxFaults = 2
    WsConns = {w1, w2, f1}
    NoConn = NoConn
    WsMaxLists = 2
SYMMETRY Symmetry
INVARIANTS GateTypeOK ReposSound AccountsSound PackagesSound MiddlewareSound
PROPERTY DeploySound
CHECK_DEADLOCK FALSE
