\* every part under weak fairness of its goroutines; no symmetry
SPECIFICATION LiveSpec
CONSTANTS
    FnWorkers = {w1, w2}
    Pushers = {w1}
    Togglers = {w1}
    Attachers = {}
    Deleters = {w2}
    Refreshers = {}
    DepPods = {p1, p2}
    Atts = {a1}
    MaxAdds = 1
    MaxReqs = 2
    FnMaxFaults = 0
    MaxKills = 0
    FnMaxRestarts = 1
    Pods = {p1, p2}
    Stores <- Three
    PodCallers = {}
    NoStore = NoStore
    ScCalls = {c1, c2}
    MaxReplicas = 3
    Boot = 2
    Wrap = 8
    MaxCalls = 2
    ScMaxFaults = 0
    MaxStops = 1
    Workers = {w1, w2}
    Ids = {u1}
    PIds = {p1, p2}
    PartNos = {n1, n2}
    Nil = Nil
    MaxFaults = 0
    MaxRestarts = 0
    RpContent <- TwoCommits
    RpWorkers = {w1}
    RpMaxFaults = 1
    WdCalls = {c1, c2}
    NoCall = NoCall
    WdMaxGen = 6
    WdMaxConn = 2
    WdMaxTimeouts = 2
    WdMaxCrashes = 1
    XwWaiters = {w1}
    XwMaxEvents = 3
    DqConns = {c1, c2}
    DqThresh = 2
    DqLimit = 1
    DqMaxSize = 5
    DqMaxFaults = 1
PROPERTIES StartEnds LockReleased AddEnds LoadSettles WaitsEnd
CHECK_DEADLOCK FALSE
