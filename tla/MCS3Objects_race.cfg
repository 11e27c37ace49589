SPECIFICATION Spec
CONSTANTS
    Workers = {w1, w2, w3}
    Putters = {w1, w2, w3}
    Copiers = {}
    Keys = {k1, k2}
    Oids = {o1, o2, o3}
    Nil = Nil
    Limit = 2
    MaxDeletes = 1
    MaxFaults = 0
    MaxRestarts = 0
SYMMETRY SymmetryW
INVARIANTS
    TypeOK
    FsckClean
    OneVersionAtRest
    LimitHolds
CHECK_DEADLOCK FALSE
