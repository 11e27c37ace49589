SPECIFICATION FnSpec
CONSTANTS
    FnWorkers = {w1,w2}
    Pushers = {w1}
    Togglers = {w1}
    Attachers = {w1}
    Deleters = {w2}
    Refreshers = {w2}
    DepPods = {p1,p2}
    Atts = {a1}
    MaxAdds = 1
    MaxReqs = 3
    FnMaxFaults = 1
    MaxKills = 1
    FnMaxRestarts = 1
SYMMETRY Symmetry
CHECK_DEADLOCK FALSE
INVARIANTS FnTypeOK OrphanOnlyByRace SourcesKept
CONSTRAINT RestartAlone
