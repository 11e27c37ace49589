SPECIFICATION UpSpec
CONSTANTS
    Workers = {w1, w2}
    Ids = {u1}
    PIds = {p1, p2}
    PartNos = {n1, n2}
    Nil = Nil
    MaxFaults = 0
    MaxRestarts = 1
SYMMETRY Symmetry
INVARIANTS
    CommittedIntact
CHECK_DEADLOCK FALSE
