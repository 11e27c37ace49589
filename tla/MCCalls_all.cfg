\* two calls or goroutines in each part
SPECIFICATION CallsSpec
CONSTANTS
    a1 = a1
    a2 = a2
    b1 = b1
    b2 = b2
    Pods = {a1, a2}
    Stores <- Three
    PodCallers = {b1, b2}
    NoStore = NoStore
    ScCalls = {a1, a2}
    MaxReplicas = 3
    Boot = 2
    Wrap = 8
    MaxCalls = 3
    ScMaxFaults = 1
    MaxStops = 1
    RlCalls = {a1, a2, b1, b2}
    Levels = 3
    Burst <- AllBurst
    Eps <- AllEps
    Base = 2
    MaxTime = 4
    MaxUpdates = 1
    CsWorkers = {a1, a2}
    CsLimit = 0
    CsMaxCalls = 3
    CsMaxFaults = 1
    CsMaxArch = 1
    NotThere = NotThere
    Events = {b1, b2}
    TgWorkers = {a1, a2}
    TgCallers = {c1}
    NoEvent = NoEvent
    TgMaxOdd = 1
    RtWorkers = {a1, a2}
    RtCallers = {c1}
    RtFns = {f1}
    NoRouter = NoRouter
    RtMaxWrites = 3
SYMMETRY Symmetry
INVARIANTS
    CallsTypeOK PodsFound CacheFollowsStore ScalerSound TokensKept RateHolds
    StatsSound TriggersSound RoutesSound
CHECK_DEADLOCK FALSE
