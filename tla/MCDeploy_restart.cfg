\* one restart of the gate or one failure, under fairness
SPECIFICATION DpLive
CONSTANTS
    d1 = d1
    d2 = d2
    m1 = m1
    f1 = f1
    r1 = r1
    Deps = {d1, d2}
    DpItems <- MCDpItems
    DpProcs = {p1, p2}
    NoDep = NoDep
    DpMaxFaults = 1
    DpMaxUser = 0
PROPERTY RestartFinishes
CHECK_DEADLOCK FALSE
