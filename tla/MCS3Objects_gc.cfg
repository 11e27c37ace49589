SPECIFICATION Spec
CONSTANTS
    Workers = {w1, w2, w3}
    Putters = {w1, w2}
    Copiers = {}
    Keys = {k1, k2}
    Oids = {o1, o2}
    Nil = Nil
    w1 = w1
    w2 = w2
    w3 = w3
    k1 = k1
    k2 = k2
    o1 = o1
    o2 = o2
    Limit = 0
    MaxDeletes = 0
    MaxFaults = 0
    MaxRestarts = 0
SYMMETRY Symmetry
INVARIANTS
    KeyReadable
CHECK_DEADLOCK FALSE
