SPECIFICATION FnSpec
CONSTANTS
    FnWorkers = {w1,w2}
    Pushers = {}
    Togglers = {}
    Attachers = {}
    Deleters = {w1}
    Refreshers = {}
    DepPods = {p1}
    Atts = {a1}
    MaxAdds = 1
    MaxReqs = 1
    FnMaxFaults = 0
    MaxKills = 0
    FnMaxRestarts = 0
SYMMETRY Symmetry
CHECK_DEADLOCK FALSE
INVARIANTS NoOrphan
