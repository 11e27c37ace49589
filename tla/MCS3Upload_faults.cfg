SPECIFICATION UpSpec
CONSTANTS
    Workers = {w1, w2}
    Ids = {u1, u2}
    PIds = {p1, p2}
    PartNos = {n1, n2}
    Nil = Nil
    MaxFaults = 2
    MaxRestarts = 1
SYMMETRY Symmetry
INVARIANTS
    UpTypeOK
    LockExclusive
    UploadKept
PROPERTIES
    CommittedFrozen
CHECK_DEADLOCK FALSE
