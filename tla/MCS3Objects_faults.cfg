SPECIFICATION Spec
CONSTANTS
    Workers = {w1, w2, w3}
    Putters = {w1, w2, w3}
    Copiers = {w1, w2, w3}
    Keys = {k1, k2}
    Oids = {o1, o2}
    Nil = Nil
    Limit = 0
    MaxDeletes = 2
    MaxFaults = 1
    MaxRestarts = 1
SYMMETRY SymmetryW
INVARIANTS
    CountersHold
CHECK_DEADLOCK FALSE
